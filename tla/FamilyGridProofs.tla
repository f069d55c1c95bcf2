-------------------------- MODULE FamilyGridProofs --------------------------
(***************************************************************************)
(* Proofs about FamilyGrid, for any number of families, any widths, any    *)
(* number of columns and any filters.  Where panels stand is computed by a *)
(* loop over the tiles, so the proofs rest on an induction over its rounds.*)
(***************************************************************************)
EXTENDS FamilyGrid, FiniteSetTheorems, WellFoundedInduction, TLAPS

-----------------------------------------------------------------------------
(* Induction and recursion over the rounds of a loop. *)

(* A set of numbers that is not empty has a least one. *)
LEMMA Least ==
  ASSUME NEW T \in SUBSET Nat, T # {}
  PROVE  \E x \in T : \A y \in T : x <= y
<1>1. \E x \in T : \A y \in T : ~(<<y, x>> \in OpToRel(<, Nat))
  BY NatLessThanWellFounded, WFMin
<1>2. PICK x \in T : \A y \in T : ~(<<y, x>> \in OpToRel(<, Nat))
  BY <1>1
<1>3. \A y \in T : ~(y < x)
  BY <1>2 DEF OpToRel
<1> QED
  BY <1>3

(* What holds before the first round and after each round if before it       *)
(* holds throughout.                                                         *)
LEMMA Rounds ==
  ASSUME NEW n \in Nat, NEW P \in SUBSET (0..n), 0 \in P,
         \A k \in 1..n : k - 1 \in P => k \in P
  PROVE  \A k \in 0..n : k \in P
<1> SUFFICES ASSUME NEW k \in 0..n, k \notin P PROVE FALSE
  OBVIOUS
<1> DEFINE T == (0..n) \ P
<1>1. T \in SUBSET Nat /\ T # {}
  OBVIOUS
<1>2. PICK x \in T : \A y \in T : x <= y
  <2> HIDE DEF T
  <2> QED
    BY <1>1, Least
<1>3. x \in 1..n /\ x - 1 \in 0..n /\ x \notin P
  OBVIOUS
<1>4. x - 1 \notin T
  BY <1>2, <1>3
<1> QED
  BY <1>3, <1>4

Loop(q, n, S, start, round) ==
  /\ q \in [0..n -> S] /\ q[0] = start
  /\ \A k \in 1..n : q[k] = round[k][q[k - 1]]

(* A loop of n rounds has values: there is a function from the rounds done.  *)
LEMMA LoopHasValues ==
  ASSUME NEW n \in Nat, NEW S, NEW start \in S, NEW round \in [1..n -> [S -> S]]
  PROVE  \E q : Loop(q, n, S, start, round)
<1> DEFINE Good(m, q) == q[0] = start /\ \A k \in 1..m : q[k] = round[k][q[k - 1]]
           P == {m \in 0..n : \E q \in [0..m -> S] : Good(m, q)}
<1>1. 0 \in P
  <2>1. [k \in 0..0 |-> start] \in [0..0 -> S] /\ Good(0, [k \in 0..0 |-> start])
    OBVIOUS
  <2> HIDE DEF Good
  <2> QED
    BY <2>1
<1>2. ASSUME NEW m \in 1..n, m - 1 \in P PROVE m \in P
  <2>1. PICK q \in [0..(m - 1) -> S] : Good(m - 1, q)
    BY <1>2
  <2> DEFINE r == [k \in 0..m |-> IF k = m THEN round[m][q[m - 1]] ELSE q[k]]
  <2>2. q[m - 1] \in S
    OBVIOUS
  <2>3. r \in [0..m -> S]
    BY <2>2
  <2>4. r[0] = start
    BY <2>1
  <2>5. ASSUME NEW k \in 1..m PROVE r[k] = round[k][r[k - 1]]
    <3>1. CASE k = m
      BY <3>1
    <3>2. CASE k # m
      <4>1. k \in 1..(m - 1) /\ k - 1 \in 0..m /\ k - 1 # m /\ k \in 0..m
        BY <3>2
      <4>2. q[k] = round[k][q[k - 1]]
        BY <2>1, <4>1
      <4> QED
        BY <3>2, <4>1, <4>2
    <3> QED
      BY <3>1, <3>2
  <2>6. Good(m, r)
    BY <2>4, <2>5
  <2> HIDE DEF r, Good
  <2> QED
    BY <2>3, <2>6
<1>3. \A k \in 0..n : k \in P
  <2>1. P \in SUBSET (0..n)
    OBVIOUS
  <2> HIDE DEF P
  <2> QED
    BY <1>1, <1>2, <2>1, Rounds
<1>4. n \in P
  BY <1>3
<1> QED
  BY <1>4 DEF Loop

-----------------------------------------------------------------------------
(* Tiles and rows. *)

(* A rendering is an increasing sequence, so a family has one tile in it.    *)
LEMMA RenderingFacts ==
  ASSUME NEW ts \in Renderings
  PROVE  /\ ts \in Seq(FamilySet) /\ Len(ts) \in Nat /\ DOMAIN ts = 1..Len(ts)
         /\ Range(ts) \subseteq FamilySet
         /\ \A i, j \in 1..Len(ts) : i < j => ts[i] < ts[j]
         /\ \A i, j \in 1..Len(ts) : ts[i] = ts[j] => i = j
         /\ \A i \in 1..Len(ts) : ts[i] \in Range(ts) /\ ts[i] \in Nat
         /\ \A f \in Range(ts) : \E i \in 1..Len(ts) : ts[i] = f
<1>1. PICK n \in 0..Families : ts \in [1..n -> FamilySet]
  BY DEF Renderings
<1>2. n \in Nat
  BY <1>1, GridAssumption DEF GridAssumption
<1>3. ts \in Seq(FamilySet) /\ Len(ts) = n /\ DOMAIN ts = 1..n
  BY <1>1, <1>2
<1>4. \A i, j \in 1..n : i < j => ts[i] < ts[j]
  BY <1>3 DEF Renderings
<1>5. \A i \in 1..n : ts[i] \in Nat
  BY <1>1 DEF FamilySet
<1>6. \A i, j \in 1..n : ts[i] = ts[j] => i = j
  BY <1>4, <1>5
<1> QED
  BY <1>1, <1>2, <1>3, <1>4, <1>5, <1>6 DEF Range

(* The number of the last tile in the row of tile i.                         *)
LastInRow(n, i, c) ==
  LET last == ((i - 1) \div c) * c + c IN IF last > n THEN n ELSE last

LEMMA RowEndIsLast ==
  ASSUME NEW ts \in Renderings, NEW i \in 1..Len(ts), NEW c \in Nat \ {0}
  PROVE  RowEnd(ts, ts[i], c) = ts[LastInRow(Len(ts), i, c)]
<1> DEFINE place == CHOOSE j \in DOMAIN ts : ts[j] = ts[i]
<1>1. place = i
  BY RenderingFacts
<1>2. RowEnd(ts, ts[i], c) = ts[LastInRow(Len(ts), place, c)]
  BY DEF RowEnd, LastInRow
<1> HIDE DEF place
<1> QED
  BY <1>1, <1>2

(* Rows follow each other. *)
LEMMA RowsInOrder ==
  ASSUME NEW n \in Nat, NEW i \in 1..n, NEW j \in 1..n, i <= j, NEW c \in Nat \ {0}
  PROVE  /\ LastInRow(n, i, c) \in 1..n
         /\ LastInRow(n, i, c) <= LastInRow(n, j, c)
<1> DEFINE a == (i - 1) \div c
           b == (j - 1) \div c
<1>1. a \in Nat /\ b \in Nat
  OBVIOUS
<1>2. a * c <= i - 1 /\ j - 1 < (b + 1) * c
  OBVIOUS
<1>3. a <= b
  <2> SUFFICES ASSUME b + 1 <= a PROVE FALSE
    BY <1>1
  <2>1. (b + 1) * c <= a * c
    BY <1>1
  <2> QED
    BY <1>1, <1>2, <2>1
<1>4. a * c <= b * c /\ a * c \in Nat /\ b * c \in Nat
  BY <1>1, <1>3
<1> HIDE DEF a, b
<1> QED
  BY <1>4 DEF LastInRow, a, b

-----------------------------------------------------------------------------
(* Panels. *)

(* anchor.after(panel) moves one panel, to the front of the line there.      *)
LEMMA AfterMovesOne ==
  ASSUME NEW F, NEW p \in PanelsOf(F), NEW anchor \in F, NEW panel \in F
  PROVE  LET q == After(p, anchor, panel)
         IN  /\ q \in PanelsOf(F)
             /\ q.at[panel] = anchor
             /\ \A f \in F \ {panel} : q.at[f] = p.at[f]
             /\ \A f, g \in F \ {panel} : <<f, g>> \in q.ahead <=> <<f, g>> \in p.ahead
             /\ \A f \in F : <<f, panel>> \notin q.ahead
             /\ \A f \in F \ {panel} : <<panel, f>> \in q.ahead <=> p.at[f] = anchor
<1> DEFINE q == After(p, anchor, panel)
<1>1. p.at \in [F -> F] /\ p.ahead \subseteq F \X F
  BY DEF PanelsOf
<1>2. q.at = [p.at EXCEPT ![panel] = anchor] /\ q.at \in [F -> F]
  BY <1>1 DEF After
<1>3. q.ahead = {pair \in p.ahead : pair[1] # panel /\ pair[2] # panel}
                \cup InFrontOf(p, anchor, panel)
  BY DEF After
<1>4. \A f, g : <<f, g>> \in InFrontOf(p, anchor, panel)
               <=> f = panel /\ g \in F \ {panel} /\ p.at[g] = anchor
  BY <1>1 DEF InFrontOf
<1>5. InFrontOf(p, anchor, panel) \subseteq F \X F
  BY <1>1 DEF InFrontOf
<1>6. \A f, g : <<f, g>> \in q.ahead
               <=> \/ <<f, g>> \in p.ahead /\ f # panel /\ g # panel
                   \/ f = panel /\ g \in F \ {panel} /\ p.at[g] = anchor
  BY <1>3, <1>4
<1>7. q \in PanelsOf(F)
  BY <1>1, <1>2, <1>3, <1>5 DEF PanelsOf, After
<1> HIDE DEF q
<1>8. /\ q.at[panel] = anchor
      /\ \A f \in F \ {panel} : q.at[f] = p.at[f]
  BY <1>1, <1>2
<1> QED
  BY <1>6, <1>7, <1>8 DEF q

(* Behind every tile the panels keep standing in one line. *)
LEMMA AfterKeepsLine ==
  ASSUME NEW F, NEW p \in PanelsOf(F), InOneLine(p), NEW anchor \in F, NEW panel \in F
  PROVE  InOneLine(After(p, anchor, panel))
<1> DEFINE q == After(p, anchor, panel)
<1>1. /\ p.at \in [F -> F] /\ DOMAIN p.at = F
      /\ q.at \in [F -> F] /\ DOMAIN q.at = F
  <2>1. q \in PanelsOf(F)
    BY AfterMovesOne
  <2> HIDE DEF q
  <2> QED
    BY <2>1 DEF PanelsOf
<1>2. /\ q.at[panel] = anchor
      /\ \A f \in F \ {panel} : q.at[f] = p.at[f]
      /\ \A f, g \in F \ {panel} : <<f, g>> \in q.ahead <=> <<f, g>> \in p.ahead
      /\ \A f \in F : <<f, panel>> \notin q.ahead
      /\ \A f \in F \ {panel} : <<panel, f>> \in q.ahead <=> p.at[f] = anchor
  BY AfterMovesOne
<1> HIDE DEF q
<1>3. \A f \in F : <<f, f>> \notin q.ahead
  BY <1>1, <1>2 DEF InOneLine
<1>4. \A f, g \in F :
        f # g => (q.at[f] = q.at[g] <=> <<f, g>> \in q.ahead \/ <<g, f>> \in q.ahead)
  BY <1>1, <1>2 DEF InOneLine
<1>5. ASSUME NEW f \in F, NEW g \in F, NEW h \in F, <<f, g>> \in q.ahead, <<g, h>> \in q.ahead
      PROVE  <<f, h>> \in q.ahead
  <2>1. g # panel /\ h # panel
    BY <1>2, <1>5
  <2>2. CASE f = panel
    <3>1. p.at[g] = anchor /\ <<g, h>> \in p.ahead
      BY <1>2, <1>5, <2>1, <2>2
    <3>2. g # h /\ p.at[g] = p.at[h]
      BY <1>1, <3>1 DEF InOneLine
    <3> QED
      BY <1>2, <2>1, <2>2, <3>1, <3>2
  <2>3. CASE f # panel
    <3>1. <<f, g>> \in p.ahead /\ <<g, h>> \in p.ahead
      BY <1>2, <1>5, <2>1, <2>3
    <3> QED
      BY <1>1, <1>2, <2>1, <2>3, <3>1 DEF InOneLine
  <2> QED
    BY <2>2, <2>3
<1> QED
  BY <1>1, <1>3, <1>4, <1>5 DEF InOneLine, q

(* Parked panels stand one behind each tile. *)
LEMMA ParkedStand ==
  ASSUME NEW F
  PROVE  Parked(F) \in PanelsOf(F) /\ InOneLine(Parked(F))
  BY DEF Parked, PanelsOf, InOneLine

-----------------------------------------------------------------------------
(* The loop of PlaceAll. *)

(* One round: the tile that is its turn, counted from the last.              *)
Round(p, ts, F, c, k) ==
  IF ts[Len(ts) + 1 - k] \in F THEN PlaceAfterRow(p, ts, ts[Len(ts) + 1 - k], c) ELSE p

LEMMA RowEndIsTile ==
  ASSUME NEW ts \in Renderings, NEW c \in Nat \ {0}, NEW f \in Range(ts)
  PROVE  RowEnd(ts, f, c) \in Range(ts)
<1>1. PICK i \in 1..Len(ts) : ts[i] = f
  BY RenderingFacts
<1>2. LastInRow(Len(ts), i, c) \in 1..Len(ts)
  <2>1. Len(ts) \in Nat /\ i <= i
    BY RenderingFacts
  <2> QED
    BY <2>1, RowsInOrder
<1> QED
  BY <1>1, <1>2, RenderingFacts, RowEndIsLast

LEMMA RoundKeepsPanels ==
  ASSUME NEW ts \in Renderings, NEW c \in Nat \ {0}, NEW F, NEW k \in 1..Len(ts),
         NEW p \in PanelsOf(Range(ts))
  PROVE  /\ Round(p, ts, F, c, k) \in PanelsOf(Range(ts))
         /\ InOneLine(p) => InOneLine(Round(p, ts, F, c, k))
<1> DEFINE f == ts[Len(ts) + 1 - k]
<1>1. f \in Range(ts)
  <2>1. Len(ts) + 1 - k \in 1..Len(ts)
    BY RenderingFacts
  <2> QED
    BY <2>1, RenderingFacts
<1>2. RowEnd(ts, f, c) \in Range(ts)
  BY <1>1, RowEndIsTile
<1>3. /\ After(p, RowEnd(ts, f, c), f) \in PanelsOf(Range(ts))
      /\ InOneLine(p) => InOneLine(After(p, RowEnd(ts, f, c), f))
  BY <1>1, <1>2, AfterMovesOne, AfterKeepsLine
<1> QED
  BY <1>3 DEF Round, PlaceAfterRow

(* PlaceAll is what its last round leaves. *)
LEMMA PlaceAllLoops ==
  ASSUME NEW ts \in Renderings, NEW c \in Nat \ {0}, NEW F, NEW p \in PanelsOf(Range(ts))
  PROVE  \E q \in [0..Len(ts) -> PanelsOf(Range(ts))] :
           /\ q[0] = p
           /\ \A k \in 1..Len(ts) : q[k] = Round(q[k - 1], ts, F, c, k)
           /\ PlaceAll(p, ts, F, c) = q[Len(ts)]
<1> DEFINE n == Len(ts)
           S == PanelsOf(Range(ts))
           Value(q, k) == IF k = 0 THEN p
                          ELSE IF ts[n + 1 - k] \in F
                               THEN PlaceAfterRow(q[k - 1], ts, ts[n + 1 - k], c)
                          ELSE q[k - 1]
           placed == CHOOSE q : q = [k \in 0..n |-> Value(q, k)]
           rounds == [k \in 1..n |-> [x \in S |-> Round(x, ts, F, c, k)]]
<1>1. n \in Nat /\ p \in S
  BY RenderingFacts
<1>2. PlaceAll(p, ts, F, c) = placed[n]
  BY DEF PlaceAll
<1>3. rounds \in [1..n -> [S -> S]]
  BY RoundKeepsPanels
<1>4. PICK q \in [0..n -> S] : q[0] = p /\ \A k \in 1..n : q[k] = rounds[k][q[k - 1]]
  <2> HIDE DEF rounds, n, S
  <2>1. \E q : Loop(q, n, S, p, rounds)
    BY <1>1, <1>3, LoopHasValues
  <2> QED
    BY <2>1 DEF Loop
<1>5. q = [k \in 0..n |-> Value(q, k)]
  <2>1. ASSUME NEW k \in 0..n PROVE q[k] = Value(q, k)
    <3>1. CASE k = 0
      BY <1>4, <3>1
    <3>2. CASE k # 0
      <4>1. k \in 1..n /\ q[k - 1] \in S
        BY <1>1, <3>2
      <4> QED
        BY <1>4, <3>2, <4>1 DEF Round
    <3> QED
      BY <3>1, <3>2
  <2> HIDE DEF Value
  <2> QED
    BY <2>1
<1>6. placed = [k \in 0..n |-> Value(placed, k)]
  <2> HIDE DEF Value
  <2> QED
    BY <1>5
<1>7. placed[0] = p /\ \A k \in 1..n : placed[k] = Round(placed[k - 1], ts, F, c, k)
  <2> HIDE DEF placed
  <2>1. \A k \in 0..n : placed[k] = Value(placed, k)
    <3> HIDE DEF Value
    <3> QED
      BY <1>6
  <2> QED
    BY <1>1, <2>1 DEF Round
<1>8. \A k \in 0..n : placed[k] \in S
  <2> DEFINE P == {k \in 0..n : placed[k] \in S}
  <2> HIDE DEF placed
  <2>1. 0 \in P
    BY <1>1, <1>7
  <2>2. \A k \in 1..n : k - 1 \in P => k \in P
    BY <1>1, <1>7, RoundKeepsPanels
  <2>3. \A k \in 0..n : k \in P
    <3>1. P \in SUBSET (0..n)
      OBVIOUS
    <3> HIDE DEF P, n
    <3> QED
      BY <1>1, <2>1, <2>2, <3>1, Rounds
  <2> QED
    BY <2>3
<1>9. placed \in [0..n -> S]
  <2> HIDE DEF Value
  <2>1. DOMAIN placed = 0..n /\ placed = [k \in 0..n |-> placed[k]]
    <3> HIDE DEF placed
    <3> QED
      BY <1>6
  <2> HIDE DEF placed
  <2> QED
    BY <1>8, <2>1
<1> HIDE DEF placed
<1> QED
  BY <1>2, <1>7, <1>9

(* The panels of F stand as a layout in c columns leaves them: behind the    *)
(* rows of their tiles, in the order of their tiles.                         *)
LaidOut(ts, p, F, c) ==
  /\ p \in PanelsOf(Range(ts)) /\ InOneLine(p)
  /\ \A f \in F : p.at[f] = RowEnd(ts, f, c)
  /\ \A f, g \in F : f < g => Precedes(p, f, g)

(* Whatever the panels stood like before: those the loop places end behind   *)
(* the rows of their tiles and, behind one row, in the order of the tiles.   *)
LEMMA PlaceAllPlaces ==
  ASSUME NEW ts \in Renderings, NEW c \in Nat \ {0}, NEW F \in SUBSET Range(ts),
         NEW p \in PanelsOf(Range(ts)), InOneLine(p)
  PROVE  LaidOut(ts, PlaceAll(p, ts, F, c), F, c)
<1> DEFINE n == Len(ts)
           T == Range(ts)
           Turn(k) == ts[n + 1 - k]
           Done(k) == {Turn(i) : i \in 1..k} \cap F
           Stands(q, k) ==
             /\ InOneLine(q)
             /\ \A f \in Done(k) : q.at[f] = RowEnd(ts, f, c)
             /\ \A f, g \in Done(k) : f < g /\ q.at[f] = q.at[g] => <<f, g>> \in q.ahead
<1>1. PICK q \in [0..n -> PanelsOf(T)] :
        /\ q[0] = p
        /\ \A k \in 1..n : q[k] = Round(q[k - 1], ts, F, c, k)
        /\ PlaceAll(p, ts, F, c) = q[n]
  BY PlaceAllLoops
<1>2. /\ n \in Nat /\ T \subseteq Nat
      /\ \A k \in 1..n : Turn(k) \in T
      /\ \A k \in 1..n : \A i \in 1..(k - 1) : Turn(k) < Turn(i)
  <2>1. n \in Nat /\ T \subseteq Nat
    BY RenderingFacts DEF FamilySet
  <2>2. \A k \in 1..n : n + 1 - k \in 1..n
    BY <2>1
  <2>3. \A k \in 1..n : \A i \in 1..(k - 1) : n + 1 - i \in 1..n /\ n + 1 - k < n + 1 - i
    BY <2>1
  <2> QED
    BY <2>1, <2>2, <2>3, RenderingFacts
<1>3. Stands(q[0], 0)
  BY <1>1
<1>4. ASSUME NEW k \in 1..n, Stands(q[k - 1], k - 1) PROVE Stands(q[k], k)
  <2> DEFINE f == Turn(k)
             a == RowEnd(ts, f, c)
             r == q[k - 1]
  <2>1. f \in T /\ a \in T /\ r \in PanelsOf(T)
    <3>1. f \in T
      BY <1>2
    <3>2. a \in T
      BY <3>1, RowEndIsTile
    <3>3. k - 1 \in 0..n
      BY <1>2
    <3> QED
      BY <1>1, <3>1, <3>2, <3>3
  <2>2. \A g \in Done(k) : g = f \/ g \in Done(k - 1)
    <3>1. \A i \in 1..k : i = k \/ i \in 1..(k - 1)
      BY <1>2
    <3> QED
      BY <3>1
  <2>3. \A g \in Done(k - 1) : f < g /\ g \in T
    BY <1>2
  <2>4. InOneLine(q[k])
    BY <1>1, <1>4, <2>1, RoundKeepsPanels
  <2>5. CASE f \notin F
    <3>1. q[k] = r
      BY <1>1, <2>5 DEF Round
    <3>2. \A g \in Done(k) : g \in Done(k - 1)
      BY <2>2, <2>5
    <3> QED
      BY <1>4, <2>4, <3>1, <3>2
  <2>6. CASE f \in F
    <3>1. q[k] = After(r, a, f)
      BY <1>1, <2>6 DEF Round, PlaceAfterRow
    <3>2. /\ q[k].at[f] = a
          /\ \A g \in T \ {f} : q[k].at[g] = r.at[g]
          /\ \A g, h \in T \ {f} : <<g, h>> \in q[k].ahead <=> <<g, h>> \in r.ahead
          /\ \A g \in T \ {f} : <<f, g>> \in q[k].ahead <=> r.at[g] = a
      <4> HIDE DEF f, a, r, T
      <4> QED
        BY <2>1, <3>1, AfterMovesOne
    <3>3. \A g \in Done(k - 1) : g \in T \ {f} /\ f < g /\ ~(g < f)
      BY <1>2, <2>1, <2>3
    <3>4. ASSUME NEW g \in Done(k) PROVE q[k].at[g] = RowEnd(ts, g, c)
      <4>1. CASE g = f
        BY <3>2, <4>1
      <4>2. CASE g \in Done(k - 1)
        BY <1>4, <3>2, <3>3, <4>2
      <4> QED
        BY <2>2, <4>1, <4>2
    <3>5. ASSUME NEW g \in Done(k), NEW h \in Done(k), g < h, q[k].at[g] = q[k].at[h]
          PROVE  <<g, h>> \in q[k].ahead
      <4> HIDE DEF Done, f, a, r, T
      <4>1. ~(f < f)
        BY <1>2, <2>1
      <4>2. h \in Done(k - 1)
        BY <2>2, <3>3, <3>5, <4>1
      <4>3. CASE g = f
        BY <3>2, <3>3, <3>5, <4>2, <4>3
      <4>4. CASE g \in Done(k - 1)
        BY <1>4, <3>2, <3>3, <3>5, <4>2, <4>4 DEF r
      <4> QED
        BY <2>2, <4>3, <4>4
    <3> QED
      BY <2>4, <3>4, <3>5
  <2> QED
    BY <2>5, <2>6
<1>5. Stands(q[n], n)
  <2> DEFINE P == {k \in 0..n : Stands(q[k], k)}
  <2> HIDE DEF Stands
  <2>1. 0 \in P /\ P \in SUBSET (0..n)
    BY <1>2, <1>3
  <2>2. \A k \in 1..n : k - 1 \in P => k \in P
    BY <1>2, <1>4
  <2>3. \A k \in 0..n : k \in P
    <3> HIDE DEF P, n
    <3> QED
      BY <1>2, <2>1, <2>2, Rounds
  <2> QED
    BY <1>2, <2>3
<1>6. Done(n) = F
  <2>1. ASSUME NEW g \in F PROVE \E i \in 1..n : g = Turn(i)
    <3>1. PICK j \in 1..n : ts[j] = g
      BY RenderingFacts
    <3>2. n + 1 - j \in 1..n /\ n + 1 - (n + 1 - j) = j
      BY <1>2
    <3> QED
      BY <3>1, <3>2
  <2> QED
    BY <2>1
<1>7. q[n] \in PanelsOf(T)
  BY <1>1, <1>2
<1>8. \A f \in F : q[n].at[f] = RowEnd(ts, f, c)
  BY <1>5, <1>6
<1>9. ASSUME NEW f \in F, NEW g \in F, f < g PROVE Precedes(q[n], f, g)
  <2>1. PICK i \in 1..n, j \in 1..n : ts[i] = f /\ ts[j] = g
    BY RenderingFacts
  <2>2. i <= j
    BY <1>2, <1>9, <2>1, RenderingFacts
  <2>3. /\ LastInRow(n, i, c) \in 1..n /\ LastInRow(n, j, c) \in 1..n
        /\ LastInRow(n, i, c) <= LastInRow(n, j, c)
    <3>1. j <= j
      OBVIOUS
    <3> QED
      BY <1>2, <2>2, <3>1, RowsInOrder
  <2>4. /\ q[n].at[f] = ts[LastInRow(n, i, c)]
        /\ q[n].at[g] = ts[LastInRow(n, j, c)]
    BY <1>8, <2>1, RowEndIsLast
  <2>5. q[n].at[f] < q[n].at[g] \/ q[n].at[f] = q[n].at[g]
    <3> HIDE DEF n
    <3>1. CASE LastInRow(n, i, c) = LastInRow(n, j, c)
      BY <2>4, <3>1
    <3>2. CASE LastInRow(n, i, c) < LastInRow(n, j, c)
      BY <2>3, <2>4, <3>2, RenderingFacts DEF n
    <3> QED
      BY <1>2, <2>3, <3>1, <3>2
  <2>6. q[n].at[f] = q[n].at[g] => <<f, g>> \in q[n].ahead
    BY <1>5, <1>6, <1>9
  <2> QED
    BY <2>5, <2>6 DEF Precedes
<1> QED
  BY <1>1, <1>5, <1>7, <1>8, <1>9 DEF LaidOut

-----------------------------------------------------------------------------
(* The page. *)

LEMMA ColumnsAreSome ==
  ASSUME GridTypeOK
  PROVE  /\ Now \in Nat \ {0}
         /\ \A c \in BOOLEAN : Columns(width, c) \in Nat \ {0}
         /\ {collapsed, stored} \subseteq BOOLEAN
  BY GridAssumption DEF GridTypeOK, GridAssumption, Now

(* The steps that lay the panels out. *)
Layout ==
  \/ ClickExpand \/ Relayout
  \/ \E ts \in Renderings : ListSwap(ts) \/ PanelSwap(ts)

LEMMA LayoutLaysOut ==
  ASSUME GridTypeOK, Layout
  PROVE  /\ tiles' \in Renderings /\ opened' \subseteq Range(tiles')
         /\ LaidOut(tiles', panels', opened', Now')
<1>1. CASE ClickExpand
  <2>1. /\ tiles' = tiles /\ Now' = Now /\ tiles \in Renderings
        /\ opened' = IF expanded THEN {} ELSE Range(tiles)
        /\ panels' = IF expanded THEN ParkAll(tiles) ELSE PlaceAll(panels, tiles, opened', Now)
    BY <1>1 DEF ClickExpand, GridTypeOK, Now, railVars
  <2>2. CASE expanded
    BY <2>1, <2>2, ParkedStand DEF ParkAll, LaidOut
  <2>3. CASE ~expanded
    <3>1. LaidOut(tiles, PlaceAll(panels, tiles, Range(tiles), Now), Range(tiles), Now)
      BY ColumnsAreSome, PlaceAllPlaces DEF GridTypeOK
    <3> QED
      BY <2>1, <2>3, <3>1
  <2> QED
    BY <2>2, <2>3
<1>2. CASE Relayout
  <2>1. /\ tiles' = tiles /\ opened' = opened /\ Now' = Now
        /\ tiles \in Renderings /\ opened \subseteq Range(tiles)
        /\ panels' = PlaceAll(panels, tiles, opened, Now)
    BY <1>2 DEF Relayout, GridTypeOK, Now
  <2>2. LaidOut(tiles, PlaceAll(panels, tiles, opened, Now), opened, Now)
    BY ColumnsAreSome, PlaceAllPlaces DEF GridTypeOK
  <2> QED
    BY <2>1, <2>2
<1>3. ASSUME NEW ts \in Renderings, ListSwap(ts)
      PROVE  /\ tiles' = ts /\ opened' \subseteq Range(ts) /\ LaidOut(ts, panels', opened', Now')
  <2> DEFINE F == opened \cap Range(ts)
             c == Columns(width, stored)
  <2>1. /\ tiles' = ts /\ opened' = F /\ Now' = c
        /\ panels' = PlaceAll(Parked(Range(ts)), ts, F, c)
    BY <1>3 DEF ListSwap, InitModelFilters, SetRail, Now
  <2>2. c \in Nat \ {0} /\ F \in SUBSET Range(ts)
    BY ColumnsAreSome
  <2>3. LaidOut(ts, PlaceAll(Parked(Range(ts)), ts, F, c), F, c)
    BY <2>2, ParkedStand, PlaceAllPlaces
  <2> QED
    BY <2>1, <2>2, <2>3
<1>4. ASSUME NEW ts \in Renderings, PanelSwap(ts)
      PROVE  /\ tiles' = ts /\ opened' \subseteq Range(ts) /\ LaidOut(ts, panels', opened', Now')
  BY <1>4, ParkedStand DEF PanelSwap, LaidOut
<1> QED
  BY <1>1, <1>2, <1>3, <1>4 DEF Layout

(* A click on a tile moves its own panel, behind its tile or its row. *)
LEMMA ClickMovesOne ==
  ASSUME GridTypeOK, NEW f \in FamilySet, ClickTile(f)
  PROVE  /\ tiles' = tiles /\ Now' = Now /\ opened' \subseteq Range(tiles)
         /\ panels' \in PanelsOf(Range(tiles)) /\ InOneLine(panels')
         /\ f \in opened' => panels'.at[f] = RowEnd(tiles, f, Now)
         /\ \A g \in opened' \ {f} : g \in opened /\ panels'.at[g] = panels.at[g]
<1>1. /\ tiles' = tiles /\ Now' = Now /\ f \in Range(tiles)
      /\ tiles \in Renderings /\ opened \subseteq Range(tiles)
      /\ panels \in PanelsOf(Range(tiles)) /\ InOneLine(panels)
  BY DEF ClickTile, GridTypeOK, Now, railVars
<1>2. RowEnd(tiles, f, Now) \in Range(tiles)
  BY <1>1, ColumnsAreSome, RowEndIsTile
<1>3. CASE f \in opened
  <2>1. opened' = opened \ {f} /\ panels' = After(panels, f, f)
    BY <1>3 DEF ClickTile
  <2> QED
    BY <1>1, <2>1, AfterMovesOne, AfterKeepsLine
<1>4. CASE f \notin opened
  <2> DEFINE a == RowEnd(tiles, f, Now)
  <2>1. opened' = opened \cup {f} /\ panels' = After(panels, a, f)
    BY <1>4 DEF ClickTile, PlaceAfterRow
  <2>2. a \in Range(tiles)
    BY <1>2
  <2>3. /\ panels' \in PanelsOf(Range(tiles)) /\ InOneLine(panels')
        /\ panels'.at[f] = a
        /\ \A g \in Range(tiles) \ {f} : panels'.at[g] = panels.at[g]
    <3> HIDE DEF a
    <3>1. InOneLine(After(panels, a, f))
      BY <1>1, <2>2, AfterKeepsLine
    <3>2. /\ After(panels, a, f) \in PanelsOf(Range(tiles))
          /\ After(panels, a, f).at[f] = a
          /\ \A g \in Range(tiles) \ {f} : After(panels, a, f).at[g] = panels.at[g]
      BY <1>1, <2>2, AfterMovesOne
    <3> QED
      BY <2>1, <3>1, <3>2
  <2> QED
    BY <1>1, <2>1, <2>3
<1> QED
  BY <1>3, <1>4

(* The other steps leave the grid alone. *)
LEMMA GridSteps ==
  ASSUME [GridNext]_vars
  PROVE  Layout \/ (\E f \in FamilySet : ClickTile(f)) \/ UNCHANGED gridVars
  BY DEF GridNext, Layout, vars, Resize, ToggleRail, CollapseRail, OtherTabStores,
         ChangeFilters, ClickView, ClearFilters, gridVars

(* The chrome of the page: toggle, badge and quick view. *)
ChromeTypes ==
  /\ width \in Widths /\ {collapsed, stored, unsettled, expanded, outdated} \subseteq BOOLEAN
  /\ filters \in FilterSet /\ badge \in Nat /\ pressed \in {"all", "installed", "recommended", "none"}

LEMMA CountsAndViews ==
  ASSUME NEW fs \in FilterSet
  PROVE  /\ ActiveCount(fs) \in Nat
         /\ PressedView(fs) \in {"all", "installed", "recommended", "none"}
<1>1. fs.groups \in SUBSET Groups /\ fs.installed \in BOOLEAN /\ fs.recommended \in BOOLEAN
  BY DEF FilterSet
<1>2. Cardinality(fs.groups) \in Nat
  BY <1>1, GridAssumption, FS_Subset, FS_CardinalityType DEF GridAssumption
<1> QED
  BY <1>1, <1>2 DEF ActiveCount, PressedView

LEMMA NoFiltersIsFilters == NoFilters \in FilterSet
  BY DEF NoFilters, FilterSet

LEMMA ChromeKeepsTypes ==
  ASSUME ChromeTypes, [GridNext]_vars
  PROVE  ChromeTypes'
<1> USE NoFiltersIsFilters, CountsAndViews DEF ChromeTypes, gridVars, railVars, filterVars, SetRail
<1>1. CASE UNCHANGED vars
  BY <1>1 DEF vars
<1>2. ASSUME NEW f \in FamilySet, ClickTile(f) PROVE ChromeTypes'
  <2>1. expanded' \in BOOLEAN
    BY <1>2 DEF ClickTile, Toggle, AllOpen
  <2> QED
    BY <1>2, <2>1 DEF ClickTile
<1>3. CASE ClickExpand
  BY <1>3 DEF ClickExpand
<1>4. CASE ToggleRail
  BY <1>4 DEF ToggleRail
<1>5. CASE CollapseRail
  BY <1>5 DEF CollapseRail
<1>6. CASE Relayout
  BY <1>6 DEF Relayout
<1>7. CASE ClearFilters
  BY <1>7 DEF ClearFilters
<1>8. ASSUME NEW w \in Widths, Resize(w) PROVE ChromeTypes'
  BY <1>8 DEF Resize
<1>9. ASSUME NEW c \in BOOLEAN, OtherTabStores(c) PROVE ChromeTypes'
  BY <1>9 DEF OtherTabStores
<1>10. ASSUME NEW ts \in Renderings, ListSwap(ts) PROVE ChromeTypes'
  <2>1. expanded' \in BOOLEAN
    BY <1>10 DEF ListSwap, Toggle, AllOpen
  <2> QED
    BY <1>10, <2>1 DEF ListSwap, InitModelFilters
<1>11. ASSUME NEW ts \in Renderings, PanelSwap(ts) PROVE ChromeTypes'
  BY <1>11 DEF PanelSwap, InitModelFilters
<1>12. ASSUME NEW fs \in FilterSet, ChangeFilters(fs) PROVE ChromeTypes'
  BY <1>12 DEF ChangeFilters
<1>13. ASSUME NEW view \in {"all", "installed", "recommended"}, ClickView(view) PROVE ChromeTypes'
  <2>1. filters' \in FilterSet
    BY <1>13 DEF ClickView, FilterSet
  <2> QED
    BY <1>13, <2>1 DEF ClickView
<1> QED
  BY <1>1, <1>2, <1>3, <1>4, <1>5, <1>6, <1>7, <1>8, <1>9, <1>10, <1>11, <1>12, <1>13 DEF GridNext

GridTypes ==
  /\ tiles \in Renderings /\ panels \in PanelsOf(Range(tiles)) /\ InOneLine(panels)
  /\ opened \subseteq Range(tiles)

LEMMA GridKeepsTypes ==
  ASSUME GridTypeOK, [GridNext]_vars
  PROVE  GridTypeOK'
<1>1. ChromeTypes'
  BY ChromeKeepsTypes DEF GridTypeOK, ChromeTypes
<1>2. GridTypes'
  <2>1. CASE Layout
    BY <2>1, LayoutLaysOut DEF LaidOut, GridTypes
  <2>2. ASSUME NEW f \in FamilySet, ClickTile(f) PROVE GridTypes'
    BY <2>2, ClickMovesOne DEF GridTypeOK, GridTypes
  <2>3. CASE UNCHANGED gridVars
    BY <2>3 DEF gridVars, GridTypeOK, GridTypes
  <2> QED
    BY <2>1, <2>2, <2>3, GridSteps
<1> QED
  BY <1>1, <1>2 DEF GridTypeOK, GridTypes, ChromeTypes

(* The grid as the server renders it the first time. *)
LEMMA GridStart ==
  ASSUME GridInit
  PROVE  GridTypeOK
<1> DEFINE all == [i \in FamilySet |-> i]
<1>1. all \in Renderings /\ Range(all) = FamilySet
  BY GridAssumption DEF Renderings, FamilySet, Range, GridAssumption
<1>2. /\ tiles = all /\ panels = Parked(Range(tiles)) /\ opened = {}
      /\ width \in Widths /\ {collapsed, stored, unsettled, expanded, outdated} \subseteq BOOLEAN
      /\ filters = NoFilters /\ badge = 0 /\ pressed = "all"
  BY <1>1 DEF GridInit
<1> HIDE DEF all
<1> QED
  BY <1>1, <1>2, ParkedStand, NoFiltersIsFilters DEF GridTypeOK

(* Tiles in the order of the server, every panel in one line behind one of   *)
(* them, and nothing open that is not there, for any families and layouts.   *)
THEOREM GridHolds == GridSpec => []GridTypeOK
<1> QED
  BY GridStart, GridKeepsTypes, PTL DEF GridSpec

(* Whatever clicks, swaps, resizes and rails come together, open panels stand*)
(* under the rows of their tiles when the layout has settled.                *)
THEOREM RowsStayIntact == GridSpec => []RowsIntact
<1>1. GridInit => RowsIntact
  BY DEF GridInit, RowsIntact
<1>2. ASSUME GridTypeOK, RowsIntact, [GridNext]_vars PROVE RowsIntact'
  <2>1. CASE Layout
    BY <1>2, <2>1, LayoutLaysOut DEF LaidOut, RowsIntact
  <2>2. ASSUME NEW f \in FamilySet, ClickTile(f) PROVE RowsIntact'
    <3>1. unsettled' = unsettled
      BY <2>2 DEF ClickTile, railVars
    <3> QED
      BY <1>2, <2>2, <3>1, ClickMovesOne DEF RowsIntact
  <2>3. CASE UNCHANGED gridVars
    <3>1. unsettled' \/ (Now' = Now /\ unsettled' = unsettled) \/ Layout
      BY <1>2 DEF GridNext, Layout, vars, railVars, Now, ClickTile, Resize, ToggleRail, CollapseRail,
                  OtherTabStores, ChangeFilters, ClickView, ClearFilters
    <3>2. CASE Now' = Now /\ unsettled' = unsettled
      BY <1>2, <2>3, <3>2 DEF RowsIntact, gridVars
    <3>3. CASE unsettled'
      BY <3>3 DEF RowsIntact
    <3> QED
      BY <2>1, <3>1, <3>2, <3>3
  <2> QED
    BY <1>2, <2>1, <2>2, <2>3, GridSteps
<1> QED
  BY <1>1, <1>2, GridHolds, PTL DEF GridSpec

(* Toggle, badge and quick view say what is so. *)
THEOREM ChromeStaysInStep == GridSpec => []ChromeInStep
<1>1. GridInit => ChromeInStep
  <2>1. ActiveCount(NoFilters) = 0 /\ PressedView(NoFilters) = "all"
    BY FS_EmptySet DEF ActiveCount, PressedView, NoFilters
  <2>2. ASSUME tiles = [i \in FamilySet |-> i], tiles # <<>> PROVE ~(Range(tiles) \subseteq {})
    <3>1. FamilySet # {}
      BY <2>2
    <3> QED
      BY <2>2, <3>1 DEF Range
  <2> QED
    BY <2>1, <2>2 DEF GridInit, ChromeInStep, AllOpen
<1>2. ASSUME GridTypeOK, ChromeInStep, [GridNext]_vars PROVE ChromeInStep'
  <2> USE DEF ChromeInStep, gridVars, railVars, filterVars
  <2>1. CASE UNCHANGED vars
    BY <1>2, <2>1 DEF vars, AllOpen
  <2>2. ASSUME NEW f \in FamilySet, ClickTile(f) PROVE ChromeInStep'
    BY <1>2, <2>2 DEF ClickTile, Toggle
  <2>3. CASE ClickExpand
    <3>1. tiles # <<>> => Range(tiles) # {}
      BY <1>2, RenderingFacts DEF GridTypeOK
    <3> QED
      BY <1>2, <2>3, <3>1 DEF ClickExpand, AllOpen, GridTypeOK
  <2>4. CASE ToggleRail \/ CollapseRail \/ Relayout
    <3>1. UNCHANGED <<tiles, opened, expanded, filterVars>>
      BY <2>4 DEF ToggleRail, CollapseRail, Relayout
    <3> QED
      BY <1>2, <3>1
  <2>5. CASE ClearFilters
    BY <1>2, <2>5 DEF ClearFilters
  <2>6. ASSUME NEW w \in Widths, Resize(w) PROVE ChromeInStep'
    BY <1>2, <2>6 DEF Resize
  <2>7. ASSUME NEW c \in BOOLEAN, OtherTabStores(c) PROVE ChromeInStep'
    BY <1>2, <2>7 DEF OtherTabStores
  <2>8. ASSUME NEW ts \in Renderings, ListSwap(ts) PROVE ChromeInStep'
    BY <1>2, <2>8 DEF ListSwap, InitModelFilters, Toggle
  <2>9. ASSUME NEW ts \in Renderings, PanelSwap(ts) PROVE ChromeInStep'
    <3>1. ts # <<>> => Range(ts) # {}
      BY RenderingFacts
    <3> QED
      BY <1>2, <2>9, <3>1 DEF PanelSwap, InitModelFilters, AllOpen
  <2>10. ASSUME NEW fs \in FilterSet, ChangeFilters(fs) PROVE ChromeInStep'
    BY <1>2, <2>10 DEF ChangeFilters
  <2>11. ASSUME NEW view \in {"all", "installed", "recommended"}, ClickView(view) PROVE ChromeInStep'
    BY <1>2, <2>11 DEF ClickView
  <2> QED
    BY <1>2, <2>1, <2>2, <2>3, <2>4, <2>5, <2>6, <2>7, <2>8, <2>9, <2>10, <2>11 DEF GridNext
<1> QED
  BY <1>1, <1>2, GridHolds, PTL DEF GridSpec

(* Opening all, a new list and a new layout leave the open panels in the     *)
(* order of their tiles, however they stood before.                          *)
THEOREM PanelsKeepOrder == GridSpec => PanelsFollowTiles
<1>1. ASSUME GridTypeOK, [GridNext]_vars,
             panels' # panels, \A f \in FamilySet : ~ClickTile(f)
      PROVE  \A f, g \in opened' : f < g => Precedes(panels', f, g)
  <2>1. Layout
    BY <1>1, GridSteps DEF gridVars
  <2> QED
    BY <1>1, <2>1, LayoutLaysOut DEF LaidOut
<1> QED
  BY <1>1, GridHolds, PTL DEF GridSpec, PanelsFollowTiles
=============================================================================
