----------------------------- MODULE FamilyGrid -----------------------------
(***************************************************************************)
(* The Models tab of the page (src/app/webui/app.js): the grid of family   *)
(* tiles whose model panels are moved under the row of their tile, the     *)
(* filters beside it, and what a swap of the list keeps of both.           *)
(*                                                                         *)
(* The grid is its tiles in document order, and behind each tile the       *)
(* panels up to the next tile.  Families are numbered in the order of the  *)
(* server, which the tiles keep.  A closed panel is hidden and takes no    *)
(* room; an open one spans a whole row, so it must stand after the last    *)
(* tile of the row of its tile, and the number of columns changes with the *)
(* window and with the filter rail beside the grid.  The panels are put    *)
(* right later, when the resize has settled or in the next frame, while    *)
(* clicks and swaps go on.                                                 *)
(***************************************************************************)
EXTENDS Naturals, Sequences, FiniteSets, Functions

CONSTANTS Families,   \* how many families there are
          Widths,     \* widths of the window
          Columns(_, _),  \* tiles per row of a window width with the rail collapsed or not
          Groups      \* filters of the form beside the two quick views

ASSUME GridAssumption ==
  /\ Families \in Nat /\ IsFiniteSet(Groups)
  /\ \A w \in Widths, collapsed \in BOOLEAN : Columns(w, collapsed) \in Nat \ {0}

VARIABLES tiles,      \* the tiles of .family-grid, by family
          panels,     \* at: the tile a family's panel stands behind, before the next tile;
                      \* ahead: who stands before whom behind the same tile
          opened,     \* families whose tile and panel carry is-open
          width,      \* of the window
          collapsed,  \* the rail, as the layout's class says
          stored,     \* the same in localStorage, shared with other tabs of the browser
          unsettled,  \* a resize timer or an animation frame will lay the panels out again
          expanded,   \* what the expand-all toggle says
          filters,    \* the controls of the filter form
          badge,      \* the count on the filter trigger
          pressed,    \* the quick view shown as pressed
          outdated    \* a control changed and the list for it has not come

gridVars   == <<tiles, panels, opened, expanded>>
railVars   == <<width, collapsed, stored, unsettled>>
filterVars == <<filters, badge, pressed, outdated>>
vars == <<gridVars, railVars, filterVars>>

-----------------------------------------------------------------------------
(* The grid.                                                               *)

FamilySet == 1..Families

\* What the server may render: some of the families, in its order.
Renderings ==
  {ts \in UNION {[1..n -> FamilySet] : n \in 0..Families} :
     \A i, j \in DOMAIN ts : i < j => ts[i] < ts[j]}

\* Fresh from the server every panel is parked behind its tile.
Parked(F) == [at |-> [f \in F |-> f], ahead |-> {}]

InFrontOf(p, anchor, panel) == {<<panel, f>> : f \in {g \in DOMAIN p.at \ {panel} : p.at[g] = anchor}}

\* A slip: the panel keeps its place in the line it left.
AfterCopy(p, anchor, panel) ==
  [at |-> [p.at EXCEPT ![panel] = anchor], ahead |-> p.ahead \cup InFrontOf(p, anchor, panel)]

\* anchor.after(panel): out of where it was, in front of what stands behind the anchor.
After(p, anchor, panel) ==
  [at    |-> [p.at EXCEPT ![panel] = anchor],
   ahead |-> {pair \in p.ahead : pair[1] # panel /\ pair[2] # panel}
             \cup InFrontOf(p, anchor, panel)]

\* The last tile of the visual row of a family.
RowEnd(ts, family, columns) ==
  LET index == (CHOOSE i \in DOMAIN ts : ts[i] = family) - 1
      last  == (index \div columns) * columns + columns
  IN  ts[IF last > Len(ts) THEN Len(ts) ELSE last]

PlaceAfterRow(p, ts, family, columns) == After(p, RowEnd(ts, family, columns), family)

\* A slip: the first family first.
PlaceAllForward(p, ts, F, columns) ==
  LET placed[k \in 0..Len(ts)] ==
        IF k = 0 THEN p
        ELSE IF ts[k] \in F THEN PlaceAfterRow(placed[k - 1], ts, ts[k], columns)
        ELSE placed[k - 1]
  IN  placed[Len(ts)]

\* Several panels: the last family first, so that the panels of a row end in its order.
PlaceAll(p, ts, F, columns) ==
  LET n == Len(ts)
      placed[k \in 0..n] ==
        IF k = 0 THEN p
        ELSE IF ts[n + 1 - k] \in F THEN PlaceAfterRow(placed[k - 1], ts, ts[n + 1 - k], columns)
        ELSE placed[k - 1]
  IN  placed[n]

\* All closed, each put back behind its tile.
ParkAll(ts) == Parked(Range(ts))

AllOpen(ts, F) == Range(ts) \subseteq F

\* The toggle follows the tiles, where there are any.
Toggle(ts, F, was) == IF ts = <<>> THEN was ELSE AllOpen(ts, F)

-----------------------------------------------------------------------------
(* The filters.                                                            *)

NoFilters == [groups |-> {}, installed |-> FALSE, recommended |-> FALSE]

ActiveCount(fs) == Cardinality(fs.groups) + (IF fs.installed THEN 1 ELSE 0)
                                          + (IF fs.recommended THEN 1 ELSE 0)

\* syncModelViews(): none is pressed when both quick filters are checked.
PressedView(fs) ==
  CASE fs.installed /\ ~fs.recommended -> "installed"
    [] fs.recommended /\ ~fs.installed -> "recommended"
    [] ~fs.installed /\ ~fs.recommended -> "all"
    [] OTHER -> "none"

-----------------------------------------------------------------------------
GridInit ==
  /\ tiles = [i \in FamilySet |-> i] /\ panels = Parked(FamilySet) /\ opened = {} /\ expanded = FALSE
  /\ width \in Widths /\ stored \in BOOLEAN /\ collapsed = stored /\ unsettled = FALSE
  /\ filters = NoFilters /\ badge = 0 /\ pressed = "all" /\ outdated = FALSE

Now == Columns(width, collapsed)

\* A slip: the expand-all toggle left as it was.
ClickTileAlone(f) ==
  /\ f \in Range(tiles)
  /\ IF f \in opened THEN opened' = opened \ {f} /\ panels' = After(panels, f, f)
                     ELSE opened' = opened \cup {f} /\ panels' = PlaceAfterRow(panels, tiles, f, Now)
  /\ UNCHANGED <<tiles, railVars, filterVars, expanded>>

\* A tile is clicked.
ClickTile(f) ==
  /\ f \in Range(tiles)
  /\ IF f \in opened THEN opened' = opened \ {f} /\ panels' = After(panels, f, f)
                     ELSE opened' = opened \cup {f} /\ panels' = PlaceAfterRow(panels, tiles, f, Now)
  /\ expanded' = Toggle(tiles, opened', expanded)
  /\ UNCHANGED <<tiles, railVars, filterVars>>

\* The expand-all toggle is clicked: it does the opposite of what it says.
ClickExpand ==
  /\ opened' = IF expanded THEN {} ELSE Range(tiles)
  /\ panels' = IF expanded THEN ParkAll(tiles) ELSE PlaceAll(panels, tiles, opened', Now)
  /\ expanded' = ~expanded
  /\ UNCHANGED <<tiles, railVars, filterVars>>

Resize(w) ==
  /\ w # width /\ width' = w /\ unsettled' = TRUE
  /\ UNCHANGED <<gridVars, collapsed, stored, filterVars>>

SetRail(c) == collapsed' = c /\ stored' = c

\* The trigger toggles the rail, the button inside it collapses it.
ToggleRail ==
  /\ SetRail(~collapsed) /\ unsettled' = TRUE
  /\ UNCHANGED <<gridVars, width, filterVars>>
CollapseRail ==
  /\ SetRail(TRUE) /\ unsettled' = TRUE
  /\ UNCHANGED <<gridVars, width, filterVars>>

\* The same page in another tab of the browser stores its own choice.
OtherTabStores(c) ==
  /\ c # stored /\ stored' = c
  /\ UNCHANGED <<gridVars, width, collapsed, unsettled, filterVars>>

\* relayoutOpenFamilyPanels()
Relayout ==
  /\ unsettled /\ unsettled' = FALSE
  /\ panels' = PlaceAll(panels, tiles, opened, Now)
  /\ UNCHANGED <<tiles, opened, expanded, width, collapsed, stored, filterVars>>

\* initModelFilters(), as every swap of the list or the tab ends with: the rail as
\* stored, and the chrome of the filters.
InitModelFilters ==
  /\ SetRail(stored) /\ UNCHANGED <<width, unsettled>>
  /\ badge' = ActiveCount(filters') /\ pressed' = PressedView(filters') /\ outdated' = FALSE

\* A slip: the panels put back before the rail is set.
ListSwapOldColumns(ts) ==
  /\ UNCHANGED filters /\ InitModelFilters
  /\ tiles' = ts /\ opened' = opened \cap Range(ts)
  /\ panels' = PlaceAll(Parked(Range(ts)), ts, opened', Now)
  /\ expanded' = Toggle(ts, opened', expanded)

\* A new list replaces the old one, with whatever families the filters and the server
\* leave; those that were open are opened again, in the columns of the rail just set.
ListSwap(ts) ==
  /\ UNCHANGED filters /\ InitModelFilters
  /\ tiles' = ts /\ opened' = opened \cap Range(ts)
  /\ panels' = PlaceAll(Parked(Range(ts)), ts, opened', Columns(width, collapsed'))
  /\ expanded' = Toggle(ts, opened', expanded)

\* The tab is opened: all of it is new, the form included.
PanelSwap(ts) ==
  /\ filters' = NoFilters /\ InitModelFilters
  /\ tiles' = ts /\ panels' = Parked(Range(ts)) /\ opened' = {} /\ expanded' = FALSE

\* A control of the form changes: the form asks for a new list.
ChangeFilters(fs) ==
  /\ fs # filters /\ filters' = fs /\ badge' = ActiveCount(fs) /\ outdated' = TRUE
  /\ UNCHANGED <<gridVars, railVars, pressed>>

\* A quick view is clicked: the same, unless it is the current one, and shown at once.
ClickView(view) ==
  LET fs == [filters EXCEPT !.installed = (view = "installed"),
                            !.recommended = (view = "recommended")]
  IN  /\ fs # filters /\ filters' = fs /\ badge' = ActiveCount(fs) /\ outdated' = TRUE
      /\ pressed' = PressedView(fs)
      /\ UNCHANGED <<gridVars, railVars>>

\* Clear: every control emptied, the badge redone, the views left to the new list.
ClearFilters ==
  /\ filters' = NoFilters /\ badge' = ActiveCount(filters') /\ outdated' = TRUE
  /\ UNCHANGED <<gridVars, railVars, pressed>>

FilterSet == [groups : SUBSET Groups, installed : BOOLEAN, recommended : BOOLEAN]

GridNext ==
  \/ \E f \in FamilySet : ClickTile(f)
  \/ ClickExpand \/ ToggleRail \/ CollapseRail \/ Relayout \/ ClearFilters
  \/ \E w \in Widths : Resize(w)
  \/ \E c \in BOOLEAN : OtherTabStores(c)
  \/ \E ts \in Renderings : ListSwap(ts) \/ PanelSwap(ts)
  \/ \E fs \in FilterSet : ChangeFilters(fs)
  \/ \E view \in {"all", "installed", "recommended"} : ClickView(view)

GridSpec == GridInit /\ [][GridNext]_vars

-----------------------------------------------------------------------------
(* Properties.                                                             *)

PanelsOf(F) == [at : [F -> F], ahead : SUBSET (F \X F)]

\* What stands behind a tile stands in one line.
InOneLine(p) ==
  /\ \A f \in DOMAIN p.at : <<f, f>> \notin p.ahead
  /\ \A f, g \in DOMAIN p.at :
       f # g => (p.at[f] = p.at[g] <=> <<f, g>> \in p.ahead \/ <<g, f>> \in p.ahead)
  /\ \A f, g, h \in DOMAIN p.at :
       <<f, g>> \in p.ahead /\ <<g, h>> \in p.ahead => <<f, h>> \in p.ahead

\* The grid holds the tiles of some families in the order of the server and the panel of
\* each behind one of them, and what is open is there.
GridTypeOK ==
  /\ tiles \in Renderings /\ panels \in PanelsOf(Range(tiles)) /\ InOneLine(panels)
  /\ opened \subseteq Range(tiles)
  /\ width \in Widths /\ {collapsed, stored, unsettled, expanded, outdated} \subseteq BOOLEAN
  /\ filters \in FilterSet /\ badge \in Nat /\ pressed \in {"all", "installed", "recommended", "none"}

\* Full width under its row: when the layout has settled every open panel stands behind
\* the last tile of the row of its tile, so none parts the tiles of a row and none hangs
\* under another row -- however clicks, swaps, the window and the rail of this and of
\* other tabs came together.
RowsIntact ==
  ~unsettled => \A f \in opened : panels.at[f] = RowEnd(tiles, f, Now)

\* The chrome says what is so: the toggle is "expanded" exactly when every family is open,
\* the badge counts the filters that are set, and the quick view that is pressed is the
\* one of the list that is shown.
ChromeInStep ==
  /\ tiles # <<>> => (expanded <=> AllOpen(tiles, opened))
  /\ badge = ActiveCount(filters)
  /\ ~outdated => pressed = PressedView(filters)

\* The panel of f comes before that of g in the document.
Precedes(p, f, g) == p.at[f] < p.at[g] \/ (p.at[f] = p.at[g] /\ <<f, g>> \in p.ahead)

\* Only a click on a single tile can leave the open panels in another order than their
\* tiles: opening all, a new list and a new layout each restore it.
PanelsFollowTiles ==
  [][(panels' # panels /\ \A f \in FamilySet : ~ClickTile(f)) =>
       \A f, g \in opened' : f < g => Precedes(panels', f, g)]_vars
=============================================================================
