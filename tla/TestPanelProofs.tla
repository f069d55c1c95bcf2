-------------------------- MODULE TestPanelProofs --------------------------
(***************************************************************************)
(* Proofs about TestPanel, for any number of clicks, background requests,  *)
(* language options and configurations of the gateway.                     *)
(***************************************************************************)
EXTENDS TestPanel, FiniteSetTheorems, WellFoundedInduction, TLAPS

(* A click that records, or is on its way to it or back. *)
InMotion(c) == Starting(c) \/ click[c].at \in {"recording", "stopping"}

(* One click at a time is in motion; while it records or stops, recorder,    *)
(* interval and chunks are its own; and what is posted is its own sound.     *)
OneInMotion ==
  /\ \A c, d \in Clips : InMotion(c) /\ InMotion(d) => c = d
  /\ \A c \in Clips : click[c].at \in {"recording", "stopping"} =>
                        recorder = c /\ timer = c /\ ticking = {c} /\ chunks = {}
  /\ (\A c \in Clips : click[c].at \notin {"recording", "stopping"}) => ticking = {}
  /\ \A c \in Clips : click[c].at = "posting" => click[c].blob = {c}

(* A click whose panel is shown is at work on it. *)
HomeIsOpen == \A c \in Clips : click[c].home => open /\ click[c].at # "idle"

(* One click at a time is at home, and the panel says how far it has come. *)
HomeIsShown ==
  /\ \A c, d \in Clips : click[c].home /\ click[d].home => c = d
  /\ \A c \in Clips : click[c].home =>
       /\ view.stops <=> click[c].at \in {"recording", "stopping"}
       /\ view.disabled <=> click[c].at = "posting"
       /\ view.result => click[c].at \notin {"recording", "stopping", "posting"}
  /\ (\A c \in Clips : ~click[c].home) => ~view.stops /\ ~view.disabled

(* What a click at home whose answers nobody has overtaken knows of the      *)
(* picker after each of them.                                                *)
Reconciled ==
  \A c \in Clips : click[c].home /\ click[c].calm =>
    /\ click[c].at = "languages" => click[c].seen \subseteq click[c].since
    /\ click[c].at \in {"capabilities", "microphone"} =>
         /\ picker.health \in click[c].since
         /\ picker.language = Fallback(picker.health, picker.language)
    /\ click[c].at = "microphone" => picker.warned = Stranded(picker, capability)

WorkInv == HomeIsOpen /\ (~Hasty => OneInMotion /\ HomeIsShown)

-----------------------------------------------------------------------------
(* Numbers, and functions defined by recursion.                            *)

(* A set of numbers that is not empty has a least one. *)
LEMMA Least ==
  ASSUME NEW T \in SUBSET Nat, T # {}
  PROVE  \E x \in T : \A y \in T : x <= y
<1>1. \E x \in T : \A y \in T : ~(<<y, x>> \in OpToRel(<, Nat))
  BY NatLessThanWellFounded, WFMin
<1>2. PICK x \in T : \A y \in T : ~(<<y, x>> \in OpToRel(<, Nat))
  BY <1>1
<1>3. \A y \in T : ~(y < x)
  BY <1>2 DEF OpToRel
<1> QED
  BY <1>3

(* Induction over the numbers up to n, for the set of those that are good.  *)
LEMMA UpTo ==
  ASSUME NEW n \in Nat, NEW P \in SUBSET (0..n), 0 \in P,
         \A k \in 1..n : k - 1 \in P => k \in P
  PROVE  \A k \in 0..n : k \in P
<1> SUFFICES ASSUME NEW k \in 0..n, k \notin P PROVE FALSE
  OBVIOUS
<1> DEFINE T == (0..n) \ P
<1>1. T \in SUBSET Nat /\ T # {}
  OBVIOUS
<1>2. PICK x \in T : \A y \in T : x <= y
  <2> HIDE DEF T
  <2> QED
    BY <1>1, Least
<1>3. x \in 1..n /\ x - 1 \in 0..n /\ x \notin P
  OBVIOUS
<1>4. x - 1 \notin T
  BY <1>2, <1>3
<1> QED
  BY <1>3, <1>4

(* A recursive definition has a solution when the value at each place rests  *)
(* on places that are fewer steps from the end.                              *)
Solves(f, D, V, step) == f \in [D -> V] /\ \A x \in D : f[x] = step[x][f]

Agree(g, h, D, far, x) == \A y \in D : far[y] < far[x] => g[y] = h[y]

(* By induction on the distance k: some function meets the equation at      *)
(* every place that is fewer than k steps from the end; k steps on,         *)
(* evaluating the right side once more gives one that meets it there.       *)
LEMMA RecursionSolves ==
  ASSUME NEW D, NEW V, NEW v \in V, NEW n \in Nat, NEW far \in [D -> 0..n],
         NEW step \in [D -> [[D -> V] -> V]],
         \A x \in D : \A g, h \in [D -> V] : Agree(g, h, D, far, x) => step[x][g] = step[x][h]
  PROVE  \E f : Solves(f, D, V, step)
<1> DEFINE Good(f, k) == \A x \in D : far[x] < k => f[x] = step[x][f]
           P == {k \in 0..(n + 1) : \E f \in [D -> V] : Good(f, k)}
<1>1. 0 \in P
  <2> DEFINE f == [x \in D |-> v]
  <2>1. f \in [D -> V]
    OBVIOUS
  <2>2. Good(f, 0)
    OBVIOUS
  <2> HIDE DEF Good, f
  <2> QED
    BY <2>1, <2>2
<1>2. ASSUME NEW k \in 1..(n + 1), k - 1 \in P PROVE k \in P
  <2>1. PICK f \in [D -> V] : Good(f, k - 1)
    BY <1>2
  <2> DEFINE g == [x \in D |-> step[x][f]]
  <2>2. g \in [D -> V]
    OBVIOUS
  <2>3. ASSUME NEW x \in D, far[x] < k PROVE g[x] = step[x][g]
    <3>1. ASSUME NEW y \in D, far[y] < far[x] PROVE f[y] = g[y]
      <4>1. far[y] < k - 1
        BY <2>3, <3>1
      <4> QED
        BY <2>1, <4>1
    <3>2. Agree(f, g, D, far, x)
      BY <3>1 DEF Agree
    <3>3. g[x] = step[x][f]
      OBVIOUS
    <3> HIDE DEF g
    <3> QED
      BY <2>2, <3>2, <3>3
  <2>4. Good(g, k)
    BY <2>3
  <2> HIDE DEF Good, g
  <2> QED
    BY <2>2, <2>4
<1>3. \A k \in 0..(n + 1) : k \in P
  <2>1. P \in SUBSET (0..(n + 1)) /\ n + 1 \in Nat
    OBVIOUS
  <2> HIDE DEF P
  <2> QED
    BY <1>1, <1>2, <2>1, UpTo
<1>4. PICK f \in [D -> V] : Good(f, n + 1)
  BY <1>3
<1> QED
  BY <1>4 DEF Solves

-----------------------------------------------------------------------------
(* The picker. *)

(* Min, a CHOOSE, finds it. *)
LEMMA LeastExists ==
  ASSUME NEW S \in SUBSET Nat, S # {}
  PROVE  Min(S) \in S
BY Least DEF Min

(* The fallback is one of the options, is offered if any is, and does not    *)
(* move a second time.                                                       *)
LEMMA FallbackSettles ==
  ASSUME NEW health, NEW option \in Languages
  PROVE  /\ Fallback(health, option) \in Languages
         /\ Fallback(health, Fallback(health, option)) = Fallback(health, option)
         /\ Offered(health, option) => Fallback(health, option) = option
<1> DEFINE left == {i \in DOMAIN Options : Offered(health, Options[i])}
<1>1. DOMAIN Options \subseteq Nat
  BY PanelAssumption
<1>2. CASE Offered(health, option) \/ left = {}
  BY <1>2 DEF Fallback
<1>3. CASE ~Offered(health, option) /\ left # {}
  <2>1. Min(left) \in left
    BY <1>1, <1>3, LeastExists
  <2>2. Fallback(health, option) = Options[Min(left)]
    BY <1>3 DEF Fallback
  <2>3. Options[Min(left)] \in Languages /\ Offered(health, Options[Min(left)])
    BY <2>1 DEF Languages, Range
  <2> HIDE DEF left
  <2> QED
    BY <1>3, <2>2, <2>3 DEF Fallback
<1> QED
  BY <1>2, <1>3

-----------------------------------------------------------------------------
(* Types. *)

Phases == {"idle", "languages", "capabilities", "microphone", "recording", "stopping", "posting"}
ClickSet == [at : Phases, home : BOOLEAN, seen : SUBSET Gateways, since : SUBSET Gateways,
             calm : BOOLEAN, blob : SUBSET Clips]
SyncSet == [home : BOOLEAN, health : SUBSET Gateways, caps : SUBSET Gateways]
PickerSet == [health : Gateways \cup {Nobody}, language : Languages, cleanup : BOOLEAN,
              offersCleanup : BOOLEAN, warned : BOOLEAN]
ViewSet == [stops : BOOLEAN, disabled : BOOLEAN, result : BOOLEAN]

(* TestTypeOK, set by set. *)
LEMMA Typed ==
  TestTypeOK <=>
    /\ gateway \in Gateways /\ open \in BOOLEAN /\ capability \in BOOLEAN
    /\ picker \in PickerSet /\ view \in ViewSet
    /\ click \in [Clips -> ClickSet] /\ sync \in [Syncs -> SyncSet]
    /\ recorder \in Clips \cup {Nobody} /\ timer \in Clips \cup {Nobody}
    /\ chunks \subseteq Clips /\ ticking \subseteq Clips
BY DEF TestTypeOK, Phases, ClickSet, SyncSet, PickerSet, ViewSet

(* What handlers write into a click, field by field: an upset, *)
LEMMA UpsetWrites ==
  ASSUME NEW r \in ClickSet
  PROVE  LET u == [r EXCEPT !.calm = FALSE, !.since = {}]
         IN  /\ u \in ClickSet /\ u.at = r.at /\ u.home = r.home /\ u.seen = r.seen
             /\ u.blob = r.blob /\ ~u.calm
BY DEF ClickSet

(* the loss of its panel, *)
LEMMA HomeWrites ==
  ASSUME NEW r \in ClickSet
  PROVE  LET u == [r EXCEPT !.home = FALSE]
         IN  u \in ClickSet /\ u.at = r.at /\ ~u.home /\ u.blob = r.blob
BY DEF ClickSet

(* the request to stop, *)
LEMMA StopWrites ==
  ASSUME NEW r \in ClickSet
  PROVE  LET u == [r EXCEPT !.at = "stopping"]
         IN  u \in ClickSet /\ u.at = "stopping" /\ u.home = r.home /\ u.blob = r.blob
BY DEF ClickSet, Phases

(* the start of a recording, *)
LEMMA StartWrites ==
  ASSUME NEW r \in ClickSet
  PROVE  LET u == [Idle EXCEPT !.at = "recording", !.home = r.home]
         IN  u \in ClickSet /\ u.at = "recording" /\ u.home = r.home
BY DEF ClickSet, Phases, Idle

(* what it may still be answered, *)
LEMMA NoticeWrites ==
  ASSUME NEW r \in ClickSet, NEW S \in SUBSET Gateways, NEW T \in SUBSET Gateways
  PROVE  LET u == [r EXCEPT !.seen = S, !.since = T]
         IN  /\ u \in ClickSet /\ u.at = r.at /\ u.home = r.home /\ u.blob = r.blob
             /\ u.calm = r.calm /\ u.seen = S /\ u.since = T
BY DEF ClickSet

(* the next answer it waits for, *)
LEMMA SeenWrites ==
  ASSUME NEW r \in ClickSet, NEW p \in Phases, NEW S \in SUBSET Gateways
  PROVE  LET u == [r EXCEPT !.at = p, !.seen = S]
         IN  /\ u \in ClickSet /\ u.at = p /\ u.home = r.home /\ u.blob = r.blob
             /\ u.calm = r.calm /\ u.seen = S /\ u.since = r.since
BY DEF ClickSet, Phases

(* and the sound that is posted. *)
LEMMA BlobWrites ==
  ASSUME NEW r \in ClickSet, NEW b \in SUBSET Clips
  PROVE  LET u == [r EXCEPT !.at = "posting", !.blob = b]
         IN  u \in ClickSet /\ u.at = "posting" /\ u.home = r.home /\ u.blob = b
BY DEF ClickSet, Phases

(* Somebody else's answer costs a click its calm and nothing else. *)
LEMMA UpsetMoves ==
  ASSUME NEW calls \in [Clips -> ClickSet], NEW D
  PROVE  /\ Upset(calls, D) \in [Clips -> ClickSet]
         /\ \A x \in Clips :
              /\ Upset(calls, D)[x].at = calls[x].at /\ Upset(calls, D)[x].home = calls[x].home
              /\ Upset(calls, D)[x].seen = calls[x].seen /\ Upset(calls, D)[x].blob = calls[x].blob
              /\ x \notin D => Upset(calls, D)[x] = calls[x]
              /\ x \in D => ~Upset(calls, D)[x].calm
<1>1. \A x \in Clips : Upset(calls, D)[x] = IF x \in D THEN [calls[x] EXCEPT !.calm = FALSE, !.since = {}]
                                            ELSE calls[x]
  BY DEF Upset
<1>2. \A x \in Clips : calls[x] \in ClickSet
  OBVIOUS
<1>3. ASSUME NEW x \in Clips
      PROVE  /\ Upset(calls, D)[x] \in ClickSet
             /\ Upset(calls, D)[x].at = calls[x].at /\ Upset(calls, D)[x].home = calls[x].home
             /\ Upset(calls, D)[x].seen = calls[x].seen /\ Upset(calls, D)[x].blob = calls[x].blob
             /\ x \notin D => Upset(calls, D)[x] = calls[x]
             /\ x \in D => ~Upset(calls, D)[x].calm
  <2>1. LET u == [calls[x] EXCEPT !.calm = FALSE, !.since = {}]
        IN  /\ u \in ClickSet /\ u.at = calls[x].at /\ u.home = calls[x].home
            /\ u.seen = calls[x].seen /\ u.blob = calls[x].blob /\ ~u.calm
    BY <1>2, UpsetWrites
  <2> QED
    BY <1>1, <1>2, <2>1
<1>4. Upset(calls, D) = [x \in Clips |-> Upset(calls, D)[x]]
  BY DEF Upset
<1>5. Upset(calls, D) \in [Clips -> ClickSet]
  BY <1>3, <1>4
<1> QED
  BY <1>3, <1>5

(* A panel that is swapped away is nobody's home. *)
LEMMA DetachedClicks ==
  ASSUME NEW calls \in [Clips -> ClickSet]
  PROVE  /\ Detached(calls) \in [Clips -> ClickSet]
         /\ \A x \in Clips :
              /\ Detached(calls)[x].at = calls[x].at /\ ~Detached(calls)[x].home
              /\ Detached(calls)[x].blob = calls[x].blob
<1>1. \A x \in Clips : Detached(calls)[x] = [calls[x] EXCEPT !.home = FALSE] /\ calls[x] \in ClickSet
  BY DEF Detached
<1>2. ASSUME NEW x \in Clips
      PROVE  /\ Detached(calls)[x] \in ClickSet /\ Detached(calls)[x].at = calls[x].at
             /\ ~Detached(calls)[x].home /\ Detached(calls)[x].blob = calls[x].blob
  <2>1. LET u == [calls[x] EXCEPT !.home = FALSE]
        IN  u \in ClickSet /\ u.at = calls[x].at /\ ~u.home /\ u.blob = calls[x].blob
    BY <1>1, HomeWrites
  <2> QED
    BY <1>1, <2>1
<1>3. Detached(calls) = [x \in Clips |-> Detached(calls)[x]]
  BY DEF Detached
<1>4. Detached(calls) \in [Clips -> ClickSet]
  BY <1>2, <1>3
<1> QED
  BY <1>2, <1>4

(* The same of the background requests. *)
LEMMA DetachedSyncs ==
  ASSUME NEW calls \in [Syncs -> SyncSet]
  PROVE  Detached(calls) \in [Syncs -> SyncSet]
BY DEF Detached, SyncSet

(* The records that handlers start from. *)
LEMMA Fresh ==
  /\ Idle \in ClickSet /\ NoSync \in SyncSet /\ FreshPicker \in PickerSet /\ FreshView \in ViewSet
  /\ Idle.at = "idle" /\ ~Idle.home
  /\ ~FreshView.stops /\ ~FreshView.disabled /\ ~FreshView.result
<1>1. AutoOption \in Languages
  BY PanelAssumption DEF Languages, Range
<1> QED
  BY <1>1 DEF Idle, NoSync, FreshPicker, FreshView, ClickSet, SyncSet, PickerSet, ViewSet, Phases

(* What a configuration is made of. *)
LEMMA GatewayFields ==
  ASSUME NEW g \in Gateways
  PROVE  /\ g.supported \in BOOLEAN /\ g.autoLanguage \in BOOLEAN /\ g # Nobody
BY PanelAssumption

(* The answers of both requests leave a picker a picker. *)
LEMMA PickerAnswers ==
  ASSUME NEW p \in PickerSet, NEW g \in Gateways, NEW home \in BOOLEAN
  PROVE  /\ WithLanguages(p, g) \in PickerSet
         /\ WithLanguages(p, g).health = g
         /\ WithLanguages(p, g).language = Fallback(g, p.language)
         /\ WithCapabilities(p, g, home) \in PickerSet
         /\ WithCapabilities(p, g, home).health = p.health
         /\ WithCapabilities(p, g, home).language = p.language
         /\ WithCapabilities(p, g, home).warned
               = Stranded(WithCapabilities(p, g, home), g.autoLanguage)
<1>1. Fallback(g, p.language) \in Languages
  BY FallbackSettles DEF PickerSet
<1>2. Stranded(p, g.autoLanguage) \in BOOLEAN
  BY DEF Stranded
<1>3. WithLanguages(p, g) = [p EXCEPT !.health = g, !.language = Fallback(g, p.language)]
  BY DEF WithLanguages
<1>4. /\ WithLanguages(p, g) \in PickerSet
      /\ WithLanguages(p, g).health = g
      /\ WithLanguages(p, g).language = Fallback(g, p.language)
  BY <1>1, <1>3 DEF PickerSet
<1>5. PICK b \in BOOLEAN : WithCapabilities(p, g, home)
                              = [p EXCEPT !.offersCleanup = b, !.warned = Stranded(p, g.autoLanguage)]
  <2>1. g.supported \in BOOLEAN /\ p.offersCleanup \in BOOLEAN
    BY GatewayFields DEF PickerSet
  <2> QED
    BY <2>1 DEF WithCapabilities
<1>6. WithCapabilities(p, g, home) \in PickerSet
  BY <1>2, <1>5 DEF PickerSet
<1>7. /\ WithCapabilities(p, g, home).health = p.health
      /\ WithCapabilities(p, g, home).language = p.language
      /\ WithCapabilities(p, g, home).cleanup = p.cleanup
      /\ WithCapabilities(p, g, home).warned = Stranded(p, g.autoLanguage)
  BY <1>5 DEF PickerSet
<1>8. Stranded(WithCapabilities(p, g, home), g.autoLanguage) = Stranded(p, g.autoLanguage)
  BY <1>7 DEF Stranded
<1> QED
  BY <1>4, <1>6, <1>7, <1>8

(* Every step keeps the types; what is picked or fallen back to is always    *)
(* one of the options.                                                       *)
LEMMA TypeStep ==
  ASSUME TestTypeOK, [PanelNext]_vars
  PROVE  TestTypeOK'
<1>0. /\ gateway \in Gateways /\ open \in BOOLEAN /\ capability \in BOOLEAN
      /\ picker \in PickerSet /\ view \in ViewSet
      /\ click \in [Clips -> ClickSet] /\ sync \in [Syncs -> SyncSet]
      /\ recorder \in Clips \cup {Nobody} /\ timer \in Clips \cup {Nobody}
      /\ chunks \subseteq Clips /\ ticking \subseteq Clips
  BY Typed
<1>t. ASSUME /\ gateway' \in Gateways /\ open' \in BOOLEAN /\ capability' \in BOOLEAN
             /\ picker' \in PickerSet /\ view' \in ViewSet
             /\ click' \in [Clips -> ClickSet] /\ sync' \in [Syncs -> SyncSet]
             /\ recorder' \in Clips \cup {Nobody} /\ timer' \in Clips \cup {Nobody}
             /\ chunks' \subseteq Clips /\ ticking' \subseteq Clips
      PROVE  TestTypeOK'
  BY <1>t DEF TestTypeOK, Phases, ClickSet, SyncSet, PickerSet, ViewSet
<1>u. \A D : Upset(click, D) \in [Clips -> ClickSet]
  BY <1>0, UpsetMoves
<1> USE DEF recording
<1>1. ASSUME NEW g \in Gateways, ChangeGateway(g) PROVE TestTypeOK'
  <2>1. click' \in [Clips -> ClickSet]
    <3>1. ASSUME NEW x \in Clips
          PROVE  [click[x] EXCEPT !.seen = Noticing(@, g), !.since = Noticing(@, g)] \in ClickSet
      <4>1. click[x] \in ClickSet
        BY <1>0
      <4>2. Noticing(click[x].seen, g) \in SUBSET Gateways /\ Noticing(click[x].since, g) \in SUBSET Gateways
        BY <4>1 DEF Noticing, ClickSet
      <4> QED
        BY <4>1, <4>2, NoticeWrites
    <3> QED
      BY <1>1, <3>1 DEF ChangeGateway
  <2>2. sync' \in [Syncs -> SyncSet]
    BY <1>0, <1>1 DEF ChangeGateway, Noticing, SyncSet
  <2> QED
    BY <1>0, <1>1, <1>t, <2>1, <2>2 DEF ChangeGateway
<1>2. CASE LeavePanel
  <2>1. click' \in [Clips -> ClickSet]
    BY <1>0, <1>2, DetachedClicks, UpsetMoves DEF LeavePanel
  <2>2. sync' \in [Syncs -> SyncSet]
    <3>1. Detached(sync) \in [Syncs -> SyncSet]
      BY <1>0, DetachedSyncs
    <3> QED
      BY <1>2, <3>1 DEF LeavePanel, SyncSet
  <2> QED
    BY <1>0, <1>2, <1>t, <2>1, <2>2, Fresh DEF LeavePanel
<1>3. ASSUME NEW s \in Syncs, StartSync(s) PROVE sync' \in [Syncs -> SyncSet]
  <2>1. [home |-> TRUE, health |-> {gateway}, caps |-> {gateway}] \in SyncSet
    BY <1>0 DEF SyncSet
  <2> QED
    BY <1>0, <1>3, <2>1 DEF StartSync
<1>4. ASSUME NEW s \in Syncs, OpenPanel(s) PROVE TestTypeOK'
  BY <1>0, <1>3, <1>4, <1>t, Fresh DEF OpenPanel
<1>5. ASSUME NEW s \in Syncs, OtherSwap(s) PROVE TestTypeOK'
  BY <1>0, <1>3, <1>5, <1>t DEF OtherSwap
<1>6. ASSUME NEW s \in Syncs, SyncFails(s) PROVE TestTypeOK'
  <2>1. sync' \in [Syncs -> SyncSet]
    BY <1>0, <1>6 DEF SyncFails, SyncSet
  <2> QED
    BY <1>0, <1>6, <1>t, <2>1 DEF SyncFails
<1>7. ASSUME NEW s \in Syncs, NEW g \in Gateways, SyncLanguages(s, g) PROVE TestTypeOK'
  <2>1. sync' \in [Syncs -> SyncSet]
    BY <1>0, <1>7 DEF SyncLanguages, SyncSet
  <2> QED
    BY <1>0, <1>7, <1>t, <1>u, <2>1, PickerAnswers DEF SyncLanguages
<1>8. ASSUME NEW s \in Syncs, NEW g \in Gateways, SyncCapabilities(s, g) PROVE TestTypeOK'
  <2>1. sync' \in [Syncs -> SyncSet] /\ sync[s].home \in BOOLEAN
    BY <1>0, <1>8 DEF SyncCapabilities, SyncSet
  <2> QED
    BY <1>0, <1>8, <1>t, <1>u, <2>1, PickerAnswers, GatewayFields DEF SyncCapabilities
<1>9. ASSUME NEW p \in PickerSet, Pick(p) PROVE TestTypeOK'
  <2>1. Stranded(p, capability) \in BOOLEAN
    BY DEF Stranded
  <2>2. picker' \in PickerSet
    BY <1>9, <2>1 DEF Pick, PickerSet
  <2> QED
    BY <1>0, <1>9, <1>t, <2>2 DEF Pick
<1>10. ASSUME NEW o \in Languages, PickLanguage(o) PROVE TestTypeOK'
  <2>1. [picker EXCEPT !.language = o] \in PickerSet
    BY <1>0 DEF PickerSet
  <2> QED
    BY <1>9, <1>10, <2>1 DEF PickLanguage
<1>11. ASSUME NEW on \in BOOLEAN, PickCleanup(on) PROVE TestTypeOK'
  <2>1. [picker EXCEPT !.cleanup = on] \in PickerSet
    BY <1>0 DEF PickerSet
  <2> QED
    BY <1>9, <1>11, <2>1 DEF PickCleanup
<1>12. CASE PressStop \/ TimeUp
  <2>1. recorder \in Clips
    BY <1>0, <1>12 DEF PressStop, TimeUp, SomebodyRecords
  <2>2. click' \in [Clips -> ClickSet]
    BY <1>0, <1>12, <2>1 DEF PressStop, TimeUp, ClickSet, Phases
  <2> QED
    BY <1>0, <1>12, <1>t, <2>2 DEF PressStop, TimeUp
<1>13. ASSUME NEW c \in Clips, PressStart(c) PROVE TestTypeOK'
  <2>1. click' \in [Clips -> ClickSet]
    BY <1>0, <1>13 DEF PressStart, ClickSet, Phases
  <2> QED
    BY <1>0, <1>13, <1>t, <2>1 DEF PressStart
<1>14. ASSUME NEW c \in Clips, NoMicrophone(c) PROVE TestTypeOK'
  BY <1>0, <1>14, <1>t, Fresh DEF NoMicrophone
<1>15. ASSUME NEW c \in Clips, StartRecording(c) PROVE TestTypeOK'
  <2>1. click' \in [Clips -> ClickSet]
    BY <1>0, <1>15 DEF StartRecording, ClickSet, Phases, Idle
  <2>2. view' \in ViewSet
    BY <1>0, <1>15 DEF StartRecording, ViewSet
  <2> QED
    BY <1>0, <1>15, <1>t, <2>1, <2>2 DEF StartRecording
<1>16. ASSUME NEW c \in Clips, TrackEnds(c) PROVE TestTypeOK'
  <2>1. click' \in [Clips -> ClickSet]
    BY <1>0, <1>16 DEF TrackEnds, ClickSet, Phases
  <2> QED
    BY <1>0, <1>16, <1>t, <2>1 DEF TrackEnds
<1>17. ASSUME NEW c \in Clips, NEW g \in Gateways \cup {Nobody}, GotLanguages(c, g) PROVE TestTypeOK'
  <2> DEFINE u == [click[c] EXCEPT !.at = IF open THEN "capabilities" ELSE "microphone",
                                   !.seen = IF open THEN {gateway} ELSE {}]
  <2>0. u \in ClickSet
    <3>1. click[c] \in ClickSet /\ (IF open THEN {gateway} ELSE {}) \in SUBSET Gateways
      BY <1>0
    <3> QED
      BY <3>1, SeenWrites DEF Phases
  <2>1. [click EXCEPT ![c] = u] \in [Clips -> ClickSet]
    BY <1>0, <2>0
  <2>2. click' \in [Clips -> ClickSet]
    BY <1>17, <2>1, UpsetMoves DEF GotLanguages
  <2>3. picker' \in PickerSet
    BY <1>0, <1>17, PickerAnswers DEF GotLanguages
  <2> QED
    BY <1>0, <1>17, <1>t, <2>2, <2>3 DEF GotLanguages
<1>18. ASSUME NEW c \in Clips, NEW g \in Gateways \cup {Nobody}, GotCapabilities(c, g)
       PROVE  TestTypeOK'
  <2>1. [click EXCEPT ![c] = [@ EXCEPT !.at = "microphone", !.seen = {}]] \in [Clips -> ClickSet]
    <3>1. click[c] \in ClickSet
      BY <1>0
    <3>2. [click[c] EXCEPT !.at = "microphone", !.seen = {}] \in ClickSet
      BY <3>1, SeenWrites DEF Phases
    <3> QED
      BY <1>0, <3>2
  <2>2. click' \in [Clips -> ClickSet]
    BY <1>18, <2>1, UpsetMoves DEF GotCapabilities
  <2>3. picker' \in PickerSet /\ capability' \in BOOLEAN
    <3>1. CASE g = Nobody
      BY <1>0, <1>18, <3>1 DEF GotCapabilities
    <3>2. CASE g # Nobody
      <4>1. click[c].home \in BOOLEAN
        BY <1>0 DEF ClickSet
      <4>2. WithCapabilities(picker, g, click[c].home) \in PickerSet
        BY <1>0, <3>2, <4>1, PickerAnswers
      <4> QED
        BY <1>0, <1>18, <3>2, <4>2, GatewayFields DEF GotCapabilities
    <3> QED
      BY <3>1, <3>2
  <2> QED
    BY <1>0, <1>18, <1>t, <2>2, <2>3 DEF GotCapabilities
<1>19. ASSUME NEW c \in Clips, OnStop(c) PROVE TestTypeOK'
  <2>1. chunks' \subseteq Clips
    BY <1>0, <1>19 DEF OnStop
  <2>2. click' \in [Clips -> ClickSet]
    <3>1. CASE open
      <4>1. [click[c] EXCEPT !.at = "posting", !.blob = chunks'] \in ClickSet
        <5>1. click[c] \in ClickSet
          BY <1>0
        <5> QED
          BY <2>1, <5>1, BlobWrites
      <4> QED
        BY <1>0, <1>19, <3>1, <4>1 DEF OnStop
    <3>2. CASE ~open
      BY <1>0, <1>19, <3>2, Fresh DEF OnStop
    <3> QED
      BY <3>1, <3>2
  <2>3. view' \in ViewSet
    BY <1>0, <1>19 DEF OnStop, ViewSet
  <2> QED
    BY <1>0, <1>19, <1>t, <2>1, <2>2, <2>3 DEF OnStop
<1>20. ASSUME NEW c \in Clips, NEW shown \in BOOLEAN, Answer(c, shown) PROVE TestTypeOK'
  <2>1. view' \in ViewSet
    <3>1. (view.result \/ shown) \in BOOLEAN
      OBVIOUS
    <3> QED
      BY <1>0, <1>20, <3>1 DEF Answer, ViewSet
  <2> QED
    BY <1>0, <1>20, <1>t, <2>1, Fresh DEF Answer
<1>21. CASE UNCHANGED vars
  BY <1>0, <1>21, <1>t DEF vars
<1> QED
  BY <1>1, <1>2, <1>4, <1>5, <1>6, <1>7, <1>8, <1>10, <1>11, <1>12, <1>13, <1>14, <1>15, <1>16,
     <1>17, <1>18, <1>19, <1>20, <1>21 DEF PanelNext

-----------------------------------------------------------------------------
(* Who records, and what the panel says of it. *)

(* A click that is as far as it was, on the same panel, with the same sound. *)
Still(x) == /\ click'[x].at = click[x].at /\ click'[x].home = click[x].home
            /\ click'[x].blob = click[x].blob

(* A step that moves no click and no recorder disturbs nobody's work.        *)
LEMMA WorkStays ==
  ASSUME WorkInv, \A x \in Clips : Still(x), UNCHANGED <<open, view, recording>>
  PROVE  WorkInv'
BY DEF WorkInv, HomeIsOpen, OneInMotion, HomeIsShown, InMotion, Starting, Still, recording

(* The clicks that wait for their answers go on to the microphone one by one. *)
LEMMA WorkAdvances ==
  ASSUME WorkInv, NEW c \in Clips, Starting(c), click'[c].home = click[c].home,
         click'[c].at \in {"capabilities", "microphone"},
         \A x \in Clips \ {c} : Still(x), UNCHANGED <<open, view, recording>>
  PROVE  WorkInv'
BY DEF WorkInv, HomeIsOpen, OneInMotion, HomeIsShown, InMotion, Starting, Still, recording

(* A click ends without a recording or an answer that would be shown.        *)
LEMMA WorkEnds ==
  ASSUME WorkInv, NEW c \in Clips, click[c].at = "microphone",
         click'[c].at = "idle", ~click'[c].home,
         \A x \in Clips \ {c} : Still(x), UNCHANGED <<open, view, recording>>
  PROVE  WorkInv'
<1>1. HomeIsOpen'
  BY DEF WorkInv, HomeIsOpen, Still
<1>2. ASSUME ~Hasty PROVE OneInMotion' /\ HomeIsShown'
  <2>1. OneInMotion'
    BY <1>2 DEF WorkInv, OneInMotion, InMotion, Starting, Still, recording
  <2>2. HomeIsShown'
    BY <1>2 DEF WorkInv, HomeIsShown, Still
  <2> QED
    BY <2>1, <2>2
<1> QED
  BY <1>1, <1>2 DEF WorkInv

(* The recorder that records is asked to stop, by whomever.                  *)
LEMMA WorkStops ==
  ASSUME WorkInv, NEW c \in Clips, click[c].at = "recording",
         click'[c].at = "stopping", click'[c].home = click[c].home,
         \A x \in Clips \ {c} : Still(x), UNCHANGED <<open, view, recording>>
  PROVE  WorkInv'
BY DEF WorkInv, HomeIsOpen, OneInMotion, HomeIsShown, InMotion, Starting, Still, recording

(* A click is taken only where none is in motion, and then none is at home.  *)
LEMMA WorkStarts ==
  ASSUME TestTypeOK, WorkInv, NEW c \in Clips, PressStart(c)
  PROVE  WorkInv'
<1>1. /\ click'[c].at = "languages" /\ click'[c].home
      /\ \A x \in Clips \ {c} : click'[x] = click[x]
      /\ UNCHANGED <<open, view, recorder, chunks, timer, ticking>>
      /\ open /\ click[c].at = "idle"
  BY Typed DEF PressStart, recording
<1>2. HomeIsOpen'
  BY <1>1 DEF WorkInv, HomeIsOpen
<1>3. ASSUME ~Hasty PROVE OneInMotion' /\ HomeIsShown'
  <2>1. \A x \in Clips : ~InMotion(x)
    <3>1. \A x \in Clips : click[x].at # "recording"
      BY <1>3, PanelAssumption DEF PressStart, SomebodyRecords, WorkInv, OneInMotion
    <3>2. \A x \in Clips : ~Starting(x) /\ click[x].at # "stopping"
      BY <1>3 DEF PressStart, Unsettled
    <3> QED
      BY <3>1, <3>2 DEF InMotion
  <2>2. \A x \in Clips : ~click[x].home
    <3>1. ASSUME NEW x \in Clips, click[x].home PROVE FALSE
      <4>1. click[x].at \in Phases /\ click[x].at # "idle"
        BY <3>1, Typed DEF WorkInv, HomeIsOpen, ClickSet
      <4>2. click[x].at = "posting"
        BY <2>1, <4>1 DEF InMotion, Starting, Phases
      <4> QED
        BY <1>3, <3>1, <4>2 DEF PressStart, WorkInv, HomeIsShown
    <3> QED
      BY <3>1
  <2>3. OneInMotion'
    BY <1>1, <1>3, <2>1 DEF WorkInv, OneInMotion, InMotion, Starting
  <2>4. HomeIsShown'
    BY <1>1, <1>3, <2>2 DEF WorkInv, HomeIsShown
  <2> QED
    BY <2>3, <2>4
<1> QED
  BY <1>2, <1>3 DEF WorkInv

(* The one in motion takes the recorder, the interval and the empty chunks.  *)
LEMMA WorkRecords ==
  ASSUME TestTypeOK, WorkInv, NEW c \in Clips, StartRecording(c)
  PROVE  WorkInv'
<1>1. /\ click[c].at = "microphone"
      /\ click'[c].at = "recording" /\ click'[c].home = click[c].home
      /\ \A x \in Clips \ {c} : click'[x] = click[x]
      /\ open' = open /\ chunks' = {} /\ recorder' = c /\ timer' = c /\ ticking' = ticking \cup {c}
  <2>1. LET u == [Idle EXCEPT !.at = "recording", !.home = click[c].home]
        IN  u.at = "recording" /\ u.home = click[c].home
    BY Typed, StartWrites
  <2> QED
    BY <2>1, Typed DEF StartRecording
<1>2. view' = IF click[c].home THEN [view EXCEPT !.stops = TRUE, !.result = FALSE] ELSE view
  BY DEF StartRecording
<1>3. HomeIsOpen'
  BY <1>1 DEF WorkInv, HomeIsOpen
<1>4. ASSUME ~Hasty PROVE OneInMotion' /\ HomeIsShown'
  <2>1. ticking = {} /\ \A x \in Clips \ {c} : ~InMotion(x)
    BY <1>1, <1>4 DEF WorkInv, OneInMotion, InMotion, Starting
  <2>2. OneInMotion'
    BY <1>1, <1>4, <2>1 DEF WorkInv, OneInMotion, InMotion, Starting
  <2>3. CASE click[c].home
    <3>1. \A x \in Clips \ {c} : ~click[x].home
      BY <1>4, <2>3 DEF WorkInv, HomeIsShown
    <3>2. view'.stops /\ view'.disabled = view.disabled /\ ~view'.result
      BY <1>2, <2>3, Typed DEF ViewSet
    <3>3. ~view.disabled
      BY <1>1, <1>4, <2>3 DEF WorkInv, HomeIsShown
    <3> QED
      BY <1>1, <2>2, <2>3, <3>1, <3>2, <3>3 DEF HomeIsShown
  <2>4. CASE ~click[c].home
    BY <1>1, <1>2, <1>4, <2>2, <2>4 DEF WorkInv, HomeIsShown
  <2> QED
    BY <2>2, <2>3, <2>4
<1> QED
  BY <1>3, <1>4 DEF WorkInv

(* The one that stops clears the interval and posts its own sound, or nothing *)
(* where no panel is left.                                                    *)
LEMMA WorkPosts ==
  ASSUME TestTypeOK, WorkInv, NEW c \in Clips, OnStop(c)
  PROVE  WorkInv'
<1>1. /\ click[c].at = "stopping" /\ open' = open
      /\ \A x \in Clips \ {c} : click'[x] = click[x]
      /\ chunks' = chunks \cup {c} /\ recorder' = recorder /\ ticking' = ticking \ {timer}
  BY Typed DEF OnStop
<1>2. IF open THEN /\ click'[c].at = "posting" /\ click'[c].home = click[c].home
                   /\ click'[c].blob = chunks'
      ELSE click'[c].at = "idle" /\ ~click'[c].home
  <2>1. LET u == [click[c] EXCEPT !.at = "posting", !.blob = chunks']
        IN  u.at = "posting" /\ u.home = click[c].home /\ u.blob = chunks'
    <3>1. chunks' \in SUBSET Clips
      BY <1>1, Typed
    <3> QED
      BY <3>1, Typed, BlobWrites
  <2> QED
    BY <2>1, Typed, Fresh DEF OnStop
<1>3. view' = IF click[c].home THEN [view EXCEPT !.stops = FALSE, !.disabled = TRUE] ELSE view
  BY DEF OnStop
<1>4. HomeIsOpen'
  BY <1>1, <1>2 DEF WorkInv, HomeIsOpen
<1>5. ASSUME ~Hasty PROVE OneInMotion' /\ HomeIsShown'
  <2>1. /\ timer = c /\ ticking = {c} /\ chunks = {}
        /\ \A x \in Clips \ {c} : ~InMotion(x)
    BY <1>1, <1>5 DEF WorkInv, OneInMotion, InMotion, Starting
  <2>2. OneInMotion'
    BY <1>1, <1>2, <1>5, <2>1 DEF WorkInv, OneInMotion, InMotion, Starting
  <2>3. CASE click[c].home
    <3>1. open /\ \A x \in Clips \ {c} : ~click[x].home
      BY <1>5, <2>3 DEF WorkInv, HomeIsShown, HomeIsOpen
    <3>2. ~view'.stops /\ view'.disabled /\ view'.result = view.result
      BY <1>3, <2>3, Typed DEF ViewSet
    <3>3. ~view.result
      BY <1>1, <1>5, <2>3 DEF WorkInv, HomeIsShown
    <3> QED
      BY <1>1, <1>2, <2>2, <2>3, <3>1, <3>2, <3>3 DEF HomeIsShown
  <2>4. CASE ~click[c].home
    BY <1>1, <1>2, <1>3, <1>5, <2>2, <2>4 DEF WorkInv, HomeIsShown
  <2> QED
    BY <2>2, <2>3, <2>4
<1> QED
  BY <1>4, <1>5 DEF WorkInv

(* An answer frees the button of its own panel and shows its result there.   *)
LEMMA WorkAnswered ==
  ASSUME TestTypeOK, WorkInv, NEW c \in Clips, NEW shown \in BOOLEAN, Answer(c, shown)
  PROVE  WorkInv'
<1>1. /\ click[c].at = "posting" /\ click'[c].at = "idle" /\ ~click'[c].home
      /\ \A x \in Clips \ {c} : click'[x] = click[x]
      /\ UNCHANGED <<open, recorder, chunks, timer, ticking>>
  BY Typed, Fresh DEF Answer, recording
<1>2. view' = IF click[c].home THEN [view EXCEPT !.disabled = FALSE, !.result = @ \/ shown] ELSE view
  BY DEF Answer
<1>3. HomeIsOpen'
  BY <1>1 DEF WorkInv, HomeIsOpen
<1>4. ASSUME ~Hasty PROVE OneInMotion' /\ HomeIsShown'
  <2>1. OneInMotion'
    BY <1>1, <1>4 DEF WorkInv, OneInMotion, InMotion, Starting
  <2>2. CASE click[c].home
    <3>1. \A x \in Clips \ {c} : ~click[x].home
      BY <1>4, <2>2 DEF WorkInv, HomeIsShown
    <3>2. view'.stops = view.stops /\ ~view'.disabled
      BY <1>2, <2>2, Typed DEF ViewSet
    <3>3. ~view.stops
      BY <1>1, <1>4, <2>2 DEF WorkInv, HomeIsShown
    <3> QED
      BY <1>1, <2>1, <3>1, <3>2, <3>3 DEF HomeIsShown
  <2>3. CASE ~click[c].home
    BY <1>1, <1>2, <1>4, <2>1, <2>3 DEF WorkInv, HomeIsShown
  <2> QED
    BY <2>1, <2>2, <2>3
<1> QED
  BY <1>3, <1>4 DEF WorkInv

(* A panel that is swapped away or in is at work for nobody.                 *)
LEMMA WorkSwapped ==
  ASSUME TestTypeOK, WorkInv, LeavePanel \/ \E s \in Syncs : OpenPanel(s)
  PROVE  WorkInv'
<1>1. CASE LeavePanel
  <2>1. \A x \in Clips : /\ click'[x].at = click[x].at /\ ~click'[x].home
                         /\ click'[x].blob = click[x].blob
    BY <1>1, Typed, DetachedClicks, UpsetMoves DEF LeavePanel
  <2>2. ~view'.stops /\ ~view'.disabled /\ UNCHANGED <<recorder, chunks, timer, ticking>>
    BY <1>1, Fresh DEF LeavePanel, recording
  <2> QED
    BY <2>1, <2>2 DEF WorkInv, HomeIsOpen, OneInMotion, HomeIsShown, InMotion, Starting
<1>2. CASE \E s \in Syncs : OpenPanel(s)
  <2>1. /\ ~open /\ ~view'.stops /\ ~view'.disabled
        /\ UNCHANGED <<click, recorder, chunks, timer, ticking>>
    BY <1>2, Fresh DEF OpenPanel, recording
  <2> QED
    BY <2>1 DEF WorkInv, HomeIsOpen, OneInMotion, HomeIsShown, InMotion, Starting
<1> QED
  BY <1>1, <1>2

(* Every step of the page keeps who records and what the panel says.         *)
LEMMA WorkStep ==
  ASSUME TestTypeOK, WorkInv, [PanelNext]_vars
  PROVE  WorkInv'
<1>0. click \in [Clips -> ClickSet] /\ gateway \in Gateways
  BY Typed
<1>1. ASSUME NEW g \in Gateways, ChangeGateway(g) PROVE WorkInv'
  <2>1. ASSUME NEW x \in Clips PROVE Still(x)
    <3>1. click[x] \in ClickSet
      BY <1>0
    <3>2. Noticing(click[x].seen, g) \in SUBSET Gateways /\ Noticing(click[x].since, g) \in SUBSET Gateways
      BY <3>1 DEF Noticing, ClickSet
    <3> DEFINE S == Noticing(click[x].seen, g)
               T == Noticing(click[x].since, g)
    <3>3. click'[x] = [click[x] EXCEPT !.seen = S, !.since = T]
      BY <1>1 DEF ChangeGateway
    <3>4. S \in SUBSET Gateways /\ T \in SUBSET Gateways
      BY <3>2
    <3> HIDE DEF S, T
    <3> QED
      BY <3>1, <3>3, <3>4 DEF Still, ClickSet
  <2> QED
    BY <1>1, <2>1, WorkStays DEF ChangeGateway
<1>2. ASSUME NEW s \in Syncs,
             OtherSwap(s) \/ SyncFails(s) \/ (\E g \in Gateways : SyncLanguages(s, g) \/ SyncCapabilities(s, g))
      PROVE  WorkInv'
  <2>1. \A x \in Clips : Still(x)
    BY <1>0, <1>2, UpsetMoves DEF OtherSwap, SyncFails, SyncLanguages, SyncCapabilities, Still
  <2> QED
    BY <1>2, <2>1, WorkStays DEF OtherSwap, SyncFails, SyncLanguages, SyncCapabilities
<1>3. CASE (\E o \in Languages : PickLanguage(o)) \/ (\E on \in BOOLEAN : PickCleanup(on))
  BY <1>3, WorkStays DEF PickLanguage, PickCleanup, Pick, Still
<1>4. ASSUME NEW c \in Clips, click[c].at = "recording",
             click' = [click EXCEPT ![c].at = "stopping"], UNCHANGED <<open, view, recording>>
      PROVE  WorkInv'
  <2>1. LET u == [click[c] EXCEPT !.at = "stopping"] IN u.at = "stopping" /\ u.home = click[c].home
    BY <1>0, StopWrites
  <2>2. \A x \in Clips \ {c} : Still(x)
    BY <1>0, <1>4 DEF Still
  <2> QED
    BY <1>0, <1>4, <2>1, <2>2, WorkStops
<1>5. CASE PressStop \/ TimeUp
  <2>1. recorder \in Clips
    BY <1>5, Typed DEF PressStop, TimeUp, SomebodyRecords
  <2> QED
    BY <1>4, <1>5, <2>1 DEF PressStop, TimeUp, SomebodyRecords
<1>6. ASSUME NEW c \in Clips, TrackEnds(c) PROVE WorkInv'
  BY <1>4, <1>6 DEF TrackEnds, Recording
<1>7. ASSUME NEW c \in Clips, NoMicrophone(c) PROVE WorkInv'
  BY <1>0, <1>7, Fresh, WorkEnds DEF NoMicrophone, Still
<1>8. ASSUME NEW c \in Clips, NEW p \in {"capabilities", "microphone"}, NEW S \in SUBSET Gateways, NEW D,
             Starting(c), click' = Upset([click EXCEPT ![c] = [@ EXCEPT !.at = p, !.seen = S]], D),
             UNCHANGED <<open, view, recording>>
      PROVE  WorkInv'
  <2> DEFINE u == [click[c] EXCEPT !.at = p, !.seen = S]
             calls == [click EXCEPT ![c] = u]
  <2>1. u \in ClickSet /\ u.at = p /\ u.home = click[c].home
    <3>1. click[c] \in ClickSet /\ p \in Phases
      BY <1>0 DEF Phases
    <3> QED
      BY <3>1 DEF ClickSet
  <2> HIDE DEF u
  <2>2. calls \in [Clips -> ClickSet] /\ calls[c] = u /\ \A x \in Clips \ {c} : calls[x] = click[x]
    BY <1>0, <2>1
  <2>3. click' = Upset(calls, D)
    BY <1>8 DEF u
  <2> HIDE DEF calls
  <2>4. /\ click'[c].at = p /\ click'[c].home = click[c].home
        /\ \A x \in Clips \ {c} : Still(x)
    BY <2>1, <2>2, <2>3, UpsetMoves DEF Still
  <2> QED
    BY <1>8, <2>4, WorkAdvances
<1>9. ASSUME NEW c \in Clips, NEW g \in Gateways \cup {Nobody}, GotLanguages(c, g) PROVE WorkInv'
  <2>1. /\ (IF open THEN {gateway} ELSE {}) \in SUBSET Gateways
        /\ (IF open THEN "capabilities" ELSE "microphone") \in {"capabilities", "microphone"}
    BY <1>0
  <2> DEFINE p == IF open THEN "capabilities" ELSE "microphone"
             S == IF open THEN {gateway} ELSE {}
             D == IF g = Nobody \/ ~open THEN {c} ELSE Clips \ {c}
  <2>2. /\ Starting(c) /\ click' = Upset([click EXCEPT ![c] = [@ EXCEPT !.at = p, !.seen = S]], D)
        /\ UNCHANGED <<open, view, recording>>
    BY <1>9 DEF GotLanguages, Starting
  <2>3. p \in {"capabilities", "microphone"} /\ S \in SUBSET Gateways
    BY <2>1
  <2> HIDE DEF p, S, D
  <2> QED
    BY <1>8, <2>2, <2>3
<1>10. ASSUME NEW c \in Clips, NEW g \in Gateways \cup {Nobody}, GotCapabilities(c, g) PROVE WorkInv'
  <2> DEFINE D == IF g = Nobody THEN {c} ELSE Clips \ {c}
             S == {}
  <2>1. /\ Starting(c) /\ click' = Upset([click EXCEPT ![c] = [@ EXCEPT !.at = "microphone", !.seen = S]], D)
        /\ UNCHANGED <<open, view, recording>> /\ S \in SUBSET Gateways
    BY <1>10 DEF GotCapabilities, Starting
  <2> HIDE DEF S, D
  <2> QED
    BY <1>8, <2>1
<1>11. CASE UNCHANGED vars
  BY <1>11, WorkStays DEF vars, recording, Still
<1> QED
  BY <1>1, <1>2, <1>3, <1>5, <1>6, <1>7, <1>9, <1>10, <1>11, WorkSwapped, WorkStarts, WorkRecords,
     WorkPosts, WorkAnswered DEF PanelNext

-----------------------------------------------------------------------------
(* What a click knows of the picker. *)

(* Who is no longer calm, at home or waiting need not know; who is knows     *)
(* what it knew, as long as nobody changes the picker.                       *)
LEMMA KnowsStill ==
  ASSUME Reconciled,
         \A x \in Clips : click'[x].home /\ click'[x].calm =>
            \/ click'[x].at \notin {"languages", "capabilities", "microphone"}
            \/ click'[x] = click[x] /\ UNCHANGED <<picker, capability>>
  PROVE  Reconciled'
BY DEF Reconciled

(* Another configuration may be the answer of whoever is still waiting.      *)
LEMMA KnowsGateway ==
  ASSUME TestTypeOK, Reconciled, NEW g \in Gateways, ChangeGateway(g)
  PROVE  Reconciled'
<1>1. ASSUME NEW x \in Clips
      PROVE  /\ click'[x].at = click[x].at /\ click'[x].home = click[x].home
             /\ click'[x].calm = click[x].calm
             /\ click'[x].seen = Noticing(click[x].seen, g)
             /\ click'[x].since = Noticing(click[x].since, g)
  <2>1. click[x] \in ClickSet
    BY Typed
  <2>2. Noticing(click[x].seen, g) \in SUBSET Gateways /\ Noticing(click[x].since, g) \in SUBSET Gateways
    BY <2>1 DEF Noticing, ClickSet
  <2> DEFINE S == Noticing(click[x].seen, g)
             T == Noticing(click[x].since, g)
  <2>3. click'[x] = [click[x] EXCEPT !.seen = S, !.since = T]
    BY DEF ChangeGateway
  <2>4. S \in SUBSET Gateways /\ T \in SUBSET Gateways
    BY <2>2
  <2>5. S = Noticing(click[x].seen, g) /\ T = Noticing(click[x].since, g)
    OBVIOUS
  <2> HIDE DEF S, T
  <2>6. /\ click'[x].at = click[x].at /\ click'[x].home = click[x].home
        /\ click'[x].calm = click[x].calm /\ click'[x].seen = S /\ click'[x].since = T
    BY <2>1, <2>3, <2>4 DEF ClickSet
  <2> QED
    BY <2>5, <2>6
<1>2. UNCHANGED <<picker, capability>>
  BY DEF ChangeGateway
<1>3. \A S, T : S \subseteq T => Noticing(S, g) \subseteq Noticing(T, g) /\ S \subseteq Noticing(S, g)
  BY DEF Noticing
<1> QED
  BY <1>1, <1>2, <1>3 DEF Reconciled

(* What the user picks is offered, and the warning is redone.                *)
LEMMA KnowsPick ==
  ASSUME TestTypeOK, Reconciled,
         (\E o \in Languages : PickLanguage(o)) \/ (\E on \in BOOLEAN : PickCleanup(on))
  PROVE  Reconciled'
<1>1. ASSUME NEW p \in PickerSet, p.health = picker.health,
             p.language = picker.language \/ Offered(picker.health, p.language), Pick(p)
      PROVE  Reconciled'
  <2>1. click' = click /\ capability' = capability /\ picker' = [p EXCEPT !.warned = Stranded(p, capability)]
    BY <1>1 DEF Pick
  <2>2. Stranded(p, capability) \in BOOLEAN
    BY DEF Stranded
  <2>3. /\ picker'.health = picker.health /\ picker'.language = p.language /\ picker'.cleanup = p.cleanup
        /\ picker'.warned = Stranded(p, capability)
    BY <1>1, <2>1, <2>2 DEF PickerSet
  <2>4. Stranded(picker', capability') = Stranded(p, capability)
    BY <2>1, <2>3 DEF Stranded
  <2>5. \/ picker'.language = picker.language
        \/ picker'.language = Fallback(picker'.health, picker'.language)
    BY <1>1, <2>3, FallbackSettles DEF PickerSet
  <2> QED
    BY <2>1, <2>3, <2>4, <2>5 DEF Reconciled
<1>2. ASSUME NEW o \in Languages, PickLanguage(o) PROVE Reconciled'
  <2>1. LET p == [picker EXCEPT !.language = o] IN p \in PickerSet /\ p.health = picker.health /\ p.language = o
    BY Typed DEF PickerSet
  <2> QED
    BY <1>1, <1>2, <2>1 DEF PickLanguage
<1>3. ASSUME NEW on \in BOOLEAN, PickCleanup(on) PROVE Reconciled'
  <2>1. LET p == [picker EXCEPT !.cleanup = on]
        IN  p \in PickerSet /\ p.health = picker.health /\ p.language = picker.language
    BY Typed DEF PickerSet
  <2> QED
    BY <1>1, <1>3, <2>1 DEF PickCleanup
<1> QED
  BY <1>2, <1>3

(* A click's own answer about the languages reaches the picker as the last.  *)
LEMMA KnowsLanguages ==
  ASSUME TestTypeOK, HomeIsOpen, Reconciled, NEW c \in Clips, NEW g \in Gateways \cup {Nobody},
         GotLanguages(c, g)
  PROVE  Reconciled'
<1> DEFINE p == IF open THEN "capabilities" ELSE "microphone"
           S == IF open THEN {gateway} ELSE {}
           u == [click[c] EXCEPT !.at = p, !.seen = S]
           calls == [click EXCEPT ![c] = u]
           D == IF g = Nobody \/ ~open THEN {c} ELSE Clips \ {c}
<1>1. /\ u \in ClickSet /\ u.home = click[c].home /\ u.calm = click[c].calm
      /\ u.since = click[c].since /\ (open => u.at = "capabilities")
  <2>1. click[c] \in ClickSet /\ S \in SUBSET Gateways /\ p \in Phases /\ (open => p = "capabilities")
    BY Typed DEF Phases
  <2> HIDE DEF p, S
  <2> QED
    BY <2>1 DEF ClickSet
<1>2. click' = Upset(calls, D)
  BY DEF GotLanguages
<1> HIDE DEF u
<1>3. calls \in [Clips -> ClickSet] /\ calls[c] = u /\ \A x \in Clips \ {c} : calls[x] = click[x]
  BY <1>1, Typed
<1> HIDE DEF calls
<1>4. \A x \in Clips : /\ x \notin D => click'[x] = calls[x]
                       /\ x \in D => ~click'[x].calm
  BY <1>2, <1>3, UpsetMoves
<1>5. UNCHANGED <<capability, open>>
  BY DEF GotLanguages
<1>6. CASE g = Nobody \/ ~open
  <2>1. picker' = picker
    BY <1>6 DEF GotLanguages, HomeIsOpen
  <2> QED
    BY <1>3, <1>4, <1>5, <1>6, <2>1, KnowsStill
<1>7. CASE g # Nobody /\ open
  <2>1. \A x \in Clips \ {c} : ~click'[x].calm
    BY <1>4, <1>7
  <2>2. click'[c] = u /\ u.at = "capabilities"
    BY <1>1, <1>3, <1>4, <1>7
  <2>3. ASSUME click[c].home, click[c].calm
        PROVE  /\ picker'.health \in click[c].since
               /\ picker'.language = Fallback(picker'.health, picker'.language)
    <3>1. g \in click[c].since
      BY <1>7, <2>3 DEF GotLanguages, Reconciled
    <3>2. picker' = WithLanguages(picker, g) /\ g \in Gateways
      BY <1>7, <2>3 DEF GotLanguages
    <3>3. picker'.health = g /\ picker'.language = Fallback(g, picker.language)
      BY <3>2, Typed, PickerAnswers
    <3>4. picker.language \in Languages
      BY Typed DEF PickerSet
    <3> QED
      BY <3>1, <3>3, <3>4, FallbackSettles
  <2> QED
    BY <1>1, <2>1, <2>2, <2>3 DEF Reconciled
<1> QED
  BY <1>6, <1>7

(* Its own answer about the cleanup leaves the picker and redoes the warning. *)
LEMMA KnowsCapabilities ==
  ASSUME TestTypeOK, HomeIsOpen, Reconciled, NEW c \in Clips, NEW g \in Gateways \cup {Nobody},
         GotCapabilities(c, g)
  PROVE  Reconciled'
<1> DEFINE S == {}
           u == [click[c] EXCEPT !.at = "microphone", !.seen = S]
           calls == [click EXCEPT ![c] = u]
           D == IF g = Nobody THEN {c} ELSE Clips \ {c}
<1>1. /\ u \in ClickSet /\ u.home = click[c].home /\ u.calm = click[c].calm
      /\ u.since = click[c].since /\ u.at = "microphone"
  <2>1. click[c] \in ClickSet /\ S \in SUBSET Gateways /\ "microphone" \in Phases
    BY Typed DEF Phases
  <2> HIDE DEF S
  <2> QED
    BY <2>1 DEF ClickSet
<1>2. click' = Upset(calls, D)
  BY DEF GotCapabilities
<1> HIDE DEF u
<1>3. calls \in [Clips -> ClickSet] /\ calls[c] = u /\ \A x \in Clips \ {c} : calls[x] = click[x]
  BY <1>1, Typed
<1> HIDE DEF calls
<1>4. \A x \in Clips : /\ x \notin D => click'[x] = calls[x]
                       /\ x \in D => ~click'[x].calm
  BY <1>2, <1>3, UpsetMoves
<1>5. CASE g = Nobody
  <2>1. UNCHANGED <<picker, capability>>
    BY <1>5 DEF GotCapabilities
  <2> QED
    BY <1>3, <1>4, <1>5, <2>1, KnowsStill
<1>6. CASE g # Nobody
  <2>1. \A x \in Clips \ {c} : ~click'[x].calm
    BY <1>4, <1>6
  <2>2. click'[c] = u
    BY <1>3, <1>4, <1>6
  <2>3. ASSUME click[c].home, click[c].calm
        PROVE  /\ picker'.health \in click[c].since
               /\ picker'.language = Fallback(picker'.health, picker'.language)
               /\ picker'.warned = Stranded(picker', capability')
    <3>1. /\ picker.health \in click[c].since
          /\ picker.language = Fallback(picker.health, picker.language)
      BY <2>3 DEF GotCapabilities, Reconciled
    <3>2. /\ picker' = WithCapabilities(picker, g, click[c].home) /\ capability' = g.autoLanguage
          /\ g \in Gateways /\ click[c].home \in BOOLEAN
      BY <1>6, <2>3, Typed DEF GotCapabilities, HomeIsOpen, ClickSet
    <3>3. /\ picker'.health = picker.health /\ picker'.language = picker.language
          /\ picker'.warned = Stranded(picker', capability')
      <4>1. picker \in PickerSet
        BY Typed
      <4> DEFINE new == WithCapabilities(picker, g, click[c].home)
      <4>2. /\ new.health = picker.health /\ new.language = picker.language
            /\ new.warned = Stranded(new, g.autoLanguage)
        BY <3>2, <4>1, PickerAnswers
      <4>3. picker' = new /\ capability' = g.autoLanguage
        BY <3>2
      <4> HIDE DEF new
      <4> QED
        BY <4>2, <4>3
    <3> QED
      BY <3>1, <3>3
  <2> QED
    BY <1>1, <2>1, <2>2, <2>3 DEF Reconciled
<1> QED
  BY <1>5, <1>6

(* Whatever else happens, it upsets those who wait or leaves them alone.     *)
LEMMA KnowsStep ==
  ASSUME TestTypeOK, HomeIsOpen, Reconciled, [PanelNext]_vars
  PROVE  Reconciled'
<1>0. click \in [Clips -> ClickSet]
  BY Typed
<1>1. CASE LeavePanel
  <2>1. \A x \in Clips : ~click'[x].calm
    BY <1>0, <1>1, DetachedClicks, UpsetMoves DEF LeavePanel
  <2> QED
    BY <2>1, KnowsStill
<1>2. ASSUME NEW s \in Syncs, OpenPanel(s) PROVE Reconciled'
  BY <1>2, KnowsStill DEF OpenPanel, HomeIsOpen
<1>3. ASSUME NEW s \in Syncs, OtherSwap(s) \/ SyncFails(s) PROVE Reconciled'
  BY <1>3, KnowsStill DEF OtherSwap, SyncFails
<1>4. ASSUME NEW s \in Syncs, NEW g \in Gateways, SyncLanguages(s, g) \/ SyncCapabilities(s, g)
      PROVE  Reconciled'
  <2>1. \A x \in Clips : ~click'[x].calm
    BY <1>0, <1>4, UpsetMoves DEF SyncLanguages, SyncCapabilities
  <2> QED
    BY <2>1, KnowsStill
<1>5. ASSUME NEW c \in Clips, PressStart(c) PROVE Reconciled'
  <2>1. /\ click'[c].at = "languages" /\ click'[c].seen \subseteq click'[c].since
        /\ \A x \in Clips \ {c} : click'[x] = click[x]
        /\ UNCHANGED <<picker, capability>>
    BY <1>0, <1>5 DEF PressStart
  <2> QED
    BY <2>1 DEF Reconciled
<1>6. ASSUME NEW c \in Clips, UNCHANGED <<picker, capability>>,
             \A x \in Clips \ {c} : click'[x] = click[x],
             click'[c].at \in {"idle", "recording", "stopping", "posting"}
      PROVE  Reconciled'
  BY <1>6, KnowsStill
<1>7. CASE PressStop \/ TimeUp
  <2>1. recorder \in Clips
    BY <1>7, Typed DEF PressStop, TimeUp, SomebodyRecords
  <2>2. [click[recorder] EXCEPT !.at = "stopping"].at = "stopping"
    BY <1>0, <2>1, StopWrites
  <2>3. /\ click'[recorder].at = "stopping" /\ UNCHANGED <<picker, capability>>
        /\ \A x \in Clips \ {recorder} : click'[x] = click[x]
    BY <1>0, <1>7, <2>1, <2>2 DEF PressStop, TimeUp
  <2> QED
    BY <1>6, <2>1, <2>3
<1>8. ASSUME NEW c \in Clips,
             TrackEnds(c) \/ NoMicrophone(c) \/ StartRecording(c) \/ OnStop(c)
               \/ (\E shown \in BOOLEAN : Answer(c, shown))
      PROVE  Reconciled'
  <2>1. UNCHANGED <<picker, capability>> /\ \A x \in Clips \ {c} : click'[x] = click[x]
    BY <1>0, <1>8 DEF TrackEnds, NoMicrophone, StartRecording, OnStop, Answer
  <2>2. /\ [click[c] EXCEPT !.at = "stopping"].at = "stopping"
        /\ [Idle EXCEPT !.at = "recording", !.home = click[c].home].at = "recording"
    BY <1>0, StopWrites, StartWrites
  <2>3. [click[c] EXCEPT !.at = "posting", !.blob = chunks \cup {c}].at = "posting"
    <3>1. click[c] \in ClickSet
      BY <1>0
    <3> DEFINE b == chunks \cup {c}
    <3>2. b \in SUBSET Clips
      BY Typed
    <3> HIDE DEF b
    <3>3. [click[c] EXCEPT !.at = "posting", !.blob = b].at = "posting"
      BY <3>1, <3>2, BlobWrites
    <3> QED
      BY <3>3 DEF b
  <2>4. click'[c].at \in {"idle", "recording", "stopping", "posting"}
    BY <1>0, <1>8, <2>2, <2>3, Fresh DEF TrackEnds, NoMicrophone, StartRecording, OnStop, Answer
  <2> QED
    BY <1>6, <2>1, <2>4
<1>9. CASE UNCHANGED vars
  BY <1>9, KnowsStill DEF vars
<1> QED
  BY <1>1, <1>2, <1>3, <1>4, <1>5, <1>7, <1>8, <1>9, KnowsGateway, KnowsPick, KnowsLanguages,
     KnowsCapabilities DEF PanelNext

-----------------------------------------------------------------------------
(* Theorems. *)

PanelInv == TestTypeOK /\ WorkInv /\ Reconciled

(* Types, work and knowledge of all clicks are kept by every step.           *)
LEMMA PanelInvariant == PanelSpec => []PanelInv
<1>1. PanelInit => PanelInv
  <2> SUFFICES ASSUME PanelInit PROVE PanelInv
    OBVIOUS
  <2>1. \A x \in Clips : click[x] = Idle
    BY DEF PanelInit
  <2>2. TestTypeOK
    BY Typed, Fresh DEF PanelInit
  <2>3. WorkInv /\ Reconciled
    BY <2>1, Fresh DEF PanelInit, WorkInv, HomeIsOpen, OneInMotion, HomeIsShown, InMotion, Starting,
                       Reconciled
  <2> QED
    BY <2>2, <2>3 DEF PanelInv
<1>2. PanelInv /\ [PanelNext]_vars => PanelInv'
  BY TypeStep, WorkStep, KnowsStep DEF PanelInv, WorkInv
<1> QED
  BY <1>1, <1>2, PTL DEF PanelSpec

(* For people who wait for their clicks: the recorder that records is the    *)
(* one that the button and the only interval stop, and what is posted is the *)
(* sound of its own recording.                                               *)
THEOREM OneRecorderOnly == PanelSpec => []OneRecorder
<1>1. PanelInv => OneRecorder
  BY DEF PanelInv, WorkInv, OneInMotion, OneRecorder, Recording
<1> QED
  BY <1>1, PanelInvariant, PTL

(* For the same people the panel that recorded tells the truth about it.     *)
THEOREM PanelIsHonest == PanelSpec => []PanelHonest
<1>1. PanelInv => PanelHonest
  <2> SUFFICES ASSUME PanelInv PROVE PanelHonest
    OBVIOUS
  <2> DEFINE mine(phases) == \E c \in Clips : click[c].home /\ click[c].at \in phases
  <2>1. ASSUME ~Hasty
        PROVE  /\ view.stops <=> mine({"recording", "stopping"})
               /\ view.disabled <=> mine({"posting"})
               /\ view.result => ~mine({"recording", "stopping", "posting"})
    BY <2>1 DEF PanelInv, WorkInv, HomeIsShown
  <2>2. view.stops \in BOOLEAN /\ view.disabled \in BOOLEAN
    BY Typed DEF PanelInv, ViewSet
  <2> QED
    BY <2>1, <2>2 DEF PanelInv, PanelHonest
<1> QED
  BY <1>1, PanelInvariant, PTL

(* Hasty or not: a recording that starts calmly at home starts with a picker *)
(* that shows a configuration that was live after the click.                 *)
THEOREM StartsAreReconciled == PanelSpec => StartsReconciled
<1> DEFINE A == \A c \in Clips :
                  (click[c].at = "microphone" /\ click'[c].at = "recording" /\ click[c].home
                     /\ click[c].calm)
                  => /\ picker.health \in click[c].since
                     /\ picker.language = Fallback(picker.health, picker.language)
                     /\ picker.warned = Stranded(picker, capability)
<1>1. PanelInv => [A]_vars
  BY DEF PanelInv, Reconciled
<1> QED
  BY <1>1, PanelInvariant, PTL DEF StartsReconciled

-----------------------------------------------------------------------------
(* The comparison of two texts, by induction from their ends.              *)

(* A text is a sequence of words, its places the numbers up to its length. *)
LEMMA TextFacts ==
  ASSUME NEW t \in Texts
  PROVE  /\ Len(t) \in Nat /\ DOMAIN t = 1..Len(t) /\ t \in [1..Len(t) -> DOMAIN Styled]
<1>1. PICK n \in 0..MaxWords : t \in [1..n -> DOMAIN Styled]
  BY DEF Texts
<1>2. n \in Nat
  BY DiffAssumption DEF DiffAssumption
<1>3. t \in Seq(DOMAIN Styled) /\ Len(t) = n
  BY <1>1, <1>2
<1> QED
  BY <1>1, <1>2, <1>3

(* The texts are named b and a in what follows, for before and after. A     *)
(* place behind a last word, and the places one step on.                    *)
Over(b, a, p) == p[1] > Len(b) \/ p[2] > Len(a)
Down(p)  == <<p[1] + 1, p[2]>>
Right(p) == <<p[1], p[2] + 1>>
Both(p)  == <<p[1] + 1, p[2] + 1>>

(* The right sides of the two recursive definitions of commonTokens() and   *)
(* paintDiff(), at one place.                                               *)
LengthAt(g, b, a, p) ==
  IF Over(b, a, p) THEN 0
  ELSE IF b[p[1]] = a[p[2]] THEN g[Both(p)] + 1
  ELSE Larger(g[Down(p)], g[Right(p)])

WalkAt(g, t, b, a, p) ==
  IF Over(b, a, p) THEN {}
  ELSE IF b[p[1]] = a[p[2]] THEN {p} \cup g[Both(p)]
  ELSE IF t[Down(p)] >= t[Right(p)] THEN g[Down(p)]
  ELSE g[Right(p)]

(* How many steps a place is from behind the last words. *)
Far(b, a, p) == (Len(b) + 1 - p[1]) + (Len(a) + 1 - p[2])

(* A place is a pair of numbers, and the three places behind it, one step   *)
(* down, right or both, are nearer to the end.                              *)
LEMMA PlaceFacts ==
  ASSUME NEW b \in Texts, NEW a \in Texts, NEW p \in Places(b, a)
  PROVE  /\ p[1] \in 1..(Len(b) + 1) /\ p[2] \in 1..(Len(a) + 1) /\ p = <<p[1], p[2]>>
         /\ Len(b) + Len(a) \in Nat
         /\ Far(b, a, p) \in 0..(Len(b) + Len(a))
         /\ ~Over(b, a, p) =>
              /\ p[1] \in DOMAIN b /\ p[2] \in DOMAIN a
              /\ {Down(p), Right(p), Both(p)} \subseteq Places(b, a)
              /\ \A q \in {Down(p), Right(p), Both(p)} : Far(b, a, q) < Far(b, a, p)
<1>1. /\ Len(b) \in Nat /\ Len(a) \in Nat /\ DOMAIN b = 1..Len(b) /\ DOMAIN a = 1..Len(a)
  BY TextFacts
<1>2. p[1] \in 1..(Len(b) + 1) /\ p[2] \in 1..(Len(a) + 1) /\ p = <<p[1], p[2]>>
  BY <1>1 DEF Places
<1>3. Len(b) + Len(a) \in Nat /\ Far(b, a, p) \in 0..(Len(b) + Len(a))
  BY <1>1, <1>2 DEF Far
<1>4. ASSUME ~Over(b, a, p)
      PROVE  /\ p[1] \in DOMAIN b /\ p[2] \in DOMAIN a
             /\ {Down(p), Right(p), Both(p)} \subseteq Places(b, a)
             /\ \A q \in {Down(p), Right(p), Both(p)} : Far(b, a, q) < Far(b, a, p)
  <2>1. p[1] \in 1..Len(b) /\ p[2] \in 1..Len(a)
    BY <1>1, <1>2, <1>4 DEF Over
  <2>2. Down(p) \in Places(b, a) /\ Right(p) \in Places(b, a) /\ Both(p) \in Places(b, a)
    BY <1>1, <2>1 DEF Places, Down, Right, Both
  <2>3. /\ Down(p)[1] = p[1] + 1 /\ Down(p)[2] = p[2]
        /\ Right(p)[1] = p[1] /\ Right(p)[2] = p[2] + 1
        /\ Both(p)[1] = p[1] + 1 /\ Both(p)[2] = p[2] + 1
    BY DEF Down, Right, Both
  <2>4. /\ Far(b, a, Down(p)) < Far(b, a, p)
        /\ Far(b, a, Right(p)) < Far(b, a, p)
        /\ Far(b, a, Both(p)) < Far(b, a, p)
    <3>1. /\ Far(b, a, Down(p)) = (Len(b) + 1 - (p[1] + 1)) + (Len(a) + 1 - p[2])
          /\ Far(b, a, Right(p)) = (Len(b) + 1 - p[1]) + (Len(a) + 1 - (p[2] + 1))
          /\ Far(b, a, Both(p)) = (Len(b) + 1 - (p[1] + 1)) + (Len(a) + 1 - (p[2] + 1))
          /\ Far(b, a, p) = (Len(b) + 1 - p[1]) + (Len(a) + 1 - p[2])
      BY <2>3 DEF Far
    <3>2. \A m, k, i, j \in Nat :
            /\ (m + 1 - (i + 1)) + (k + 1 - j) < (m + 1 - i) + (k + 1 - j)
            /\ (m + 1 - i) + (k + 1 - (j + 1)) < (m + 1 - i) + (k + 1 - j)
            /\ (m + 1 - (i + 1)) + (k + 1 - (j + 1)) < (m + 1 - i) + (k + 1 - j)
      OBVIOUS
    <3>3. p[1] \in Nat /\ p[2] \in Nat
      BY <1>1, <2>1
    <3> QED
      BY <1>1, <3>1, <3>2, <3>3
  <2> QED
    BY <1>1, <2>1, <2>2, <2>4
<1> QED
  BY <1>1, <1>2, <1>3, <1>4

(* The coordinates of a place and of those behind it. *)
LEMMA PlaceParts ==
  ASSUME NEW b \in Texts, NEW a \in Texts, NEW p \in Places(b, a)
  PROVE  /\ p[1] \in Nat /\ p[2] \in Nat /\ p = <<p[1], p[2]>>
         /\ Down(p)[1] = p[1] + 1 /\ Down(p)[2] = p[2]
         /\ Right(p)[1] = p[1] /\ Right(p)[2] = p[2] + 1
         /\ Both(p)[1] = p[1] + 1 /\ Both(p)[2] = p[2] + 1
<1>1. Len(b) \in Nat /\ Len(a) \in Nat
  BY TextFacts
<1>2. p[1] \in 1..(Len(b) + 1) /\ p[2] \in 1..(Len(a) + 1) /\ p = <<p[1], p[2]>>
  BY PlaceFacts
<1>3. p[1] \in Nat /\ p[2] \in Nat
  BY <1>1, <1>2
<1>4. /\ Down(p)[1] = p[1] + 1 /\ Down(p)[2] = p[2]
      /\ Right(p)[1] = p[1] /\ Right(p)[2] = p[2] + 1
      /\ Both(p)[1] = p[1] + 1 /\ Both(p)[2] = p[2] + 1
  BY DEF Down, Right, Both
<1> QED
  BY <1>2, <1>3, <1>4

(* Induction from behind the last words to a place. *)
LEMMA FromTheEnd ==
  ASSUME NEW b \in Texts, NEW a \in Texts, NEW P,
         \A p \in Places(b, a) : Over(b, a, p) => p \in P,
         \A p \in Places(b, a) :
           ~Over(b, a, p) /\ Down(p) \in P /\ Right(p) \in P /\ Both(p) \in P => p \in P
  PROVE  Places(b, a) \subseteq P
<1> SUFFICES ASSUME NEW p \in Places(b, a), p \notin P PROVE FALSE
  OBVIOUS
<1> DEFINE T == {Far(b, a, q) : q \in Places(b, a) \ P}
<1>1. T \in SUBSET Nat /\ T # {}
  BY PlaceFacts
<1>2. PICK k \in T : \A l \in T : k <= l
  <2> HIDE DEF T
  <2> QED
    BY <1>1, Least
<1>3. PICK q \in Places(b, a) \ P : k = Far(b, a, q)
  OBVIOUS
<1>4. ASSUME NEW r \in Places(b, a), Far(b, a, r) < Far(b, a, q) PROVE r \in P
  <2>1. Far(b, a, r) \in Int /\ Far(b, a, q) \in Int
    BY PlaceFacts
  <2>2. ~(Far(b, a, q) <= Far(b, a, r))
    BY <1>4, <2>1
  <2>3. Far(b, a, r) \notin T
    BY <1>2, <1>3, <2>2
  <2> QED
    BY <2>3
<1>5. ~Over(b, a, q)
  BY <1>3
<1>6. Down(q) \in P /\ Right(q) \in P /\ Both(q) \in P
  BY <1>4, <1>5, PlaceFacts
<1> QED
  BY <1>3, <1>5, <1>6

(* The equation of the table has a solution, commonTokens() loops from the  *)
(* end.                                                                     *)
LEMMA TableExists ==
  ASSUME NEW b \in Texts, NEW a \in Texts
  PROVE  \E t \in [Places(b, a) -> Nat] : \A p \in Places(b, a) : t[p] = LengthAt(t, b, a, p)
<1> DEFINE D == Places(b, a)
           far == [p \in D |-> Far(b, a, p)]
           step == [p \in D |-> [g \in [D -> Nat] |-> LengthAt(g, b, a, p)]]
           n == Len(b) + Len(a)
<1>1. n \in Nat /\ far \in [D -> 0..n]
  <2>1. n \in Nat
    BY TextFacts
  <2> QED
    BY <2>1, PlaceFacts
<1>2. ASSUME NEW p \in D, NEW g \in [D -> Nat] PROVE LengthAt(g, b, a, p) \in Nat
  <2>1. CASE Over(b, a, p)
    BY <2>1 DEF LengthAt
  <2>2. CASE ~Over(b, a, p)
    <3>1. g[Down(p)] \in Nat /\ g[Right(p)] \in Nat /\ g[Both(p)] \in Nat
      BY <2>2, PlaceFacts
    <3> QED
      BY <3>1 DEF LengthAt, Larger
  <2> QED
    BY <2>1, <2>2
<1>3. step \in [D -> [[D -> Nat] -> Nat]]
  BY <1>2
<1>4. ASSUME NEW p \in D, NEW g \in [D -> Nat], NEW h \in [D -> Nat], Agree(g, h, D, far, p)
      PROVE  step[p][g] = step[p][h]
  <2>1. CASE Over(b, a, p)
    BY <2>1 DEF LengthAt
  <2>2. CASE ~Over(b, a, p)
    <3>1. \A q \in {Down(p), Right(p), Both(p)} : q \in D /\ far[q] < far[p]
      BY <2>2, PlaceFacts
    <3>2. g[Down(p)] = h[Down(p)] /\ g[Right(p)] = h[Right(p)] /\ g[Both(p)] = h[Both(p)]
      BY <1>4, <3>1 DEF Agree
    <3> QED
      BY <3>2 DEF LengthAt
  <2> QED
    BY <2>1, <2>2
<1>5. PICK t : Solves(t, D, Nat, step)
  <2>1. 0 \in Nat
    OBVIOUS
  <2> HIDE DEF D, far, step, n
  <2> QED
    BY <1>1, <1>3, <1>4, <2>1, RecursionSolves
<1> QED
  BY <1>5 DEF Solves

(* CommonLength is such a solution, and there is a length at every place. *)
LEMMA TableFacts ==
  ASSUME NEW b \in Texts, NEW a \in Texts
  PROVE  /\ CommonLength(b, a) \in [Places(b, a) -> Nat]
         /\ \A p \in Places(b, a) : CommonLength(b, a)[p] = LengthAt(CommonLength(b, a), b, a, p)
<1> DEFINE D == Places(b, a)
           placed == CHOOSE q : q = [p \in D |-> LengthAt(q, b, a, p)]
<1>1. PICK t \in [D -> Nat] : \A p \in D : t[p] = LengthAt(t, b, a, p)
  BY TableExists
<1>2. t = [p \in D |-> LengthAt(t, b, a, p)]
  BY <1>1
<1>3. placed = [p \in D |-> LengthAt(placed, b, a, p)]
  BY <1>2
<1>4. CommonLength(b, a) = placed
  BY DEF CommonLength, LengthAt, Over, Down, Right, Both
<1> DEFINE c == CommonLength(b, a)
<1>5. DOMAIN c = D /\ \A p \in D : c[p] = LengthAt(c, b, a, p)
  BY <1>3, <1>4
<1>6. c = [p \in D |-> c[p]]
  BY <1>3, <1>4
<1> HIDE DEF c
<1> DEFINE P == {p \in D : c[p] \in Nat}
<1>7. \A p \in D : Over(b, a, p) => p \in P
  BY <1>5 DEF LengthAt
<1>8. ASSUME NEW p \in D, ~Over(b, a, p), Down(p) \in P, Right(p) \in P, Both(p) \in P
      PROVE  p \in P
  <2>1. c[p] = LengthAt(c, b, a, p)
    BY <1>5
  <2> QED
    BY <1>8, <2>1 DEF LengthAt, Larger
<1>9. D \subseteq P
  <2> HIDE DEF P
  <2> QED
    BY <1>7, <1>8, FromTheEnd
<1>10. c \in [D -> Nat]
  BY <1>6, <1>9
<1> QED
  BY <1>5, <1>10 DEF c

(* The pairs of an alignment that lie from a place on. *)
Rest(b, a, p) == {M \in Alignments(b, a) : \A q \in M : q[1] >= p[1] /\ q[2] >= p[2]}

(* An alignment is finite: texts are. *)
LEMMA AlignmentFinite ==
  ASSUME NEW b \in Texts, NEW a \in Texts, NEW M \in Alignments(b, a)
  PROVE  IsFiniteSet(M) /\ Cardinality(M) \in Nat
<1>1. /\ Len(b) \in Nat /\ Len(a) \in Nat /\ DOMAIN b = 1..Len(b) /\ DOMAIN a = 1..Len(a)
  BY TextFacts
<1>2. IsFiniteSet(1..Len(b)) /\ IsFiniteSet(1..Len(a))
  BY <1>1, FS_Interval
<1>3. IsFiniteSet((DOMAIN b) \X (DOMAIN a))
  BY <1>1, <1>2, FS_Product
<1>4. M \subseteq (DOMAIN b) \X (DOMAIN a)
  BY DEF Alignments
<1> QED
  BY <1>3, <1>4, FS_Subset, FS_CardinalityType

(* Two pairs of an alignment lie one behind the other, in both texts. *)
LEMMA PairsFollow ==
  ASSUME NEW b \in Texts, NEW a \in Texts, NEW M \in Alignments(b, a), NEW q \in M, NEW r \in M
  PROVE  /\ q = <<q[1], q[2]>> /\ q[1] \in 1..Len(b) /\ q[2] \in 1..Len(a)
         /\ b[q[1]] = a[q[2]]
         /\ q[1] < r[1] <=> q[2] < r[2]
         /\ q[1] = r[1] \/ q[2] = r[2] => q = r
<1>1. /\ Len(b) \in Nat /\ Len(a) \in Nat /\ DOMAIN b = 1..Len(b) /\ DOMAIN a = 1..Len(a)
  BY TextFacts
<1>2. /\ q \in (1..Len(b)) \X (1..Len(a)) /\ r \in (1..Len(b)) \X (1..Len(a))
  BY <1>1 DEF Alignments
<1>3. /\ b[q[1]] = a[q[2]]
      /\ q[1] < r[1] <=> q[2] < r[2]
      /\ r[1] < q[1] <=> r[2] < q[2]
  BY DEF Alignments
<1>4. /\ q = <<q[1], q[2]>> /\ q[1] \in 1..Len(b) /\ q[2] \in 1..Len(a)
      /\ r = <<r[1], r[2]>> /\ r[1] \in 1..Len(b) /\ r[2] \in 1..Len(a)
  BY <1>2
<1>5. q[1] = r[1] \/ q[2] = r[2] => q[1] = r[1] /\ q[2] = r[2]
  BY <1>1, <1>3, <1>4
<1> QED
  BY <1>3, <1>4, <1>5

(* No alignment of what follows a place is longer than the table says. *)
LEMMA TableBounds ==
  ASSUME NEW b \in Texts, NEW a \in Texts
  PROVE  \A p \in Places(b, a) : \A M \in Rest(b, a, p) :
            Cardinality(M) <= CommonLength(b, a)[p]
<1> DEFINE t == CommonLength(b, a)
           P == {p \in Places(b, a) : \A M \in Rest(b, a, p) : Cardinality(M) <= t[p]}
<1>1. t \in [Places(b, a) -> Nat] /\ \A p \in Places(b, a) : t[p] = LengthAt(t, b, a, p)
  BY TableFacts
<1> HIDE DEF t
<1>2. ASSUME NEW p \in Places(b, a), Over(b, a, p) PROVE p \in P
  <2>1. ASSUME NEW M \in Rest(b, a, p) PROVE M = {}
    <3>1. SUFFICES ASSUME NEW q \in M PROVE FALSE
      OBVIOUS
    <3>2. q[1] \in 1..Len(b) /\ q[2] \in 1..Len(a) /\ q[1] >= p[1] /\ q[2] >= p[2]
      BY PairsFollow DEF Rest
    <3>3. Len(b) \in Nat /\ Len(a) \in Nat /\ p[1] \in Int /\ p[2] \in Int
      BY TextFacts, PlaceFacts
    <3> QED
      BY <1>2, <3>2, <3>3 DEF Over
  <2>2. t[p] \in Nat /\ Cardinality({}) = 0
    BY <1>1, FS_EmptySet
  <2>3. ASSUME NEW M \in Rest(b, a, p) PROVE Cardinality(M) <= t[p]
    <3>1. Cardinality(M) = Cardinality({})
      BY <2>1, Zenon
    <3> QED
      BY <2>2, <3>1
  <2> QED
    BY <2>3
<1>3. ASSUME NEW p \in Places(b, a), ~Over(b, a, p), Down(p) \in P, Right(p) \in P, Both(p) \in P
      PROVE  p \in P
  <2>1. SUFFICES ASSUME NEW M \in Rest(b, a, p) PROVE Cardinality(M) <= t[p]
    OBVIOUS
  <2>2. /\ M \in Alignments(b, a) /\ \A q \in M : q[1] >= p[1] /\ q[2] >= p[2]
        /\ IsFiniteSet(M) /\ Cardinality(M) \in Nat
    BY <2>1, AlignmentFinite DEF Rest
  <2>3. \A q \in M : q[1] \in Nat /\ q[2] \in Nat /\ q = <<q[1], q[2]>>
    BY <2>2, PairsFollow
  <2>4. /\ p[1] \in Nat /\ p[2] \in Nat /\ p = <<p[1], p[2]>>
        /\ Down(p)[1] = p[1] + 1 /\ Down(p)[2] = p[2]
        /\ Right(p)[1] = p[1] /\ Right(p)[2] = p[2] + 1
        /\ Both(p)[1] = p[1] + 1 /\ Both(p)[2] = p[2] + 1
    BY PlaceParts
  <2>5. t[Down(p)] \in Nat /\ t[Right(p)] \in Nat /\ t[Both(p)] \in Nat
    BY <1>1, <1>3, PlaceFacts
  <2>6. ASSUME NEW q \in M, NEW r \in M, q[1] = p[1] \/ q[2] = p[2], r[1] = p[1] \/ r[2] = p[2]
        PROVE  q = r
    <3>1. /\ q[1] < r[1] <=> q[2] < r[2]
          /\ r[1] < q[1] <=> r[2] < q[2]
          /\ q[1] = r[1] \/ q[2] = r[2] => q = r
      BY <2>2, PairsFollow
    <3> QED
      BY <2>2, <2>3, <2>4, <2>6, <3>1
  <2>7. CASE b[p[1]] = a[p[2]]
    <3> DEFINE M1 == {q \in M : q[1] > p[1] /\ q[2] > p[2]}
    <3>1. M1 \in Alignments(b, a)
      BY <2>2 DEF Alignments
    <3>2. M1 \in Rest(b, a, Both(p))
      BY <2>3, <2>4, <3>1 DEF Rest
    <3>3. Cardinality(M1) <= t[Both(p)] /\ IsFiniteSet(M1) /\ Cardinality(M1) \in Nat
      BY <1>3, <3>1, <3>2, AlignmentFinite
    <3>4. \A q \in M \ M1 : q[1] = p[1] \/ q[2] = p[2]
      BY <2>2, <2>3, <2>4
    <3>5. M = M1 \/ \E q \in M \ M1 : M = M1 \cup {q}
      BY <2>6, <3>4
    <3>6. Cardinality(M) <= Cardinality(M1) + 1
      <4> HIDE DEF M1
      <4>1. \A q : Cardinality(M1 \cup {q}) = IF q \in M1 THEN Cardinality(M1)
                                                 ELSE Cardinality(M1) + 1
        BY <3>3, FS_AddElement
      <4> QED
        BY <3>3, <3>5, <4>1
    <3>7. t[p] = t[Both(p)] + 1
      BY <1>1, <1>3, <2>7 DEF LengthAt
    <3> HIDE DEF M1
    <3> QED
      BY <2>2, <2>5, <3>3, <3>6, <3>7
  <2>8. CASE b[p[1]] # a[p[2]]
    <3>1. t[p] = Larger(t[Down(p)], t[Right(p)])
      BY <1>1, <1>3, <2>8 DEF LengthAt
    <3>2. M \in Rest(b, a, Down(p)) \/ M \in Rest(b, a, Right(p))
      <4>1. SUFFICES ASSUME NEW q \in M, ~(q[1] >= p[1] + 1), NEW r \in M, ~(r[2] >= p[2] + 1)
                     PROVE  FALSE
        BY <2>2, <2>4 DEF Rest
      <4>2. q[1] = p[1] /\ r[2] = p[2]
        BY <2>2, <2>3, <2>4, <4>1
      <4>3. q = r
        BY <2>6, <4>2
      <4>4. b[q[1]] = a[q[2]]
        BY <2>2, PairsFollow
      <4> QED
        BY <2>8, <4>2, <4>3, <4>4
    <3>3. Cardinality(M) <= t[Down(p)] \/ Cardinality(M) <= t[Right(p)]
      BY <1>3, <3>2
    <3> QED
      BY <2>2, <2>5, <3>1, <3>3 DEF Larger
  <2> QED
    BY <2>7, <2>8
<1>4. Places(b, a) \subseteq P
  <2> HIDE DEF P
  <2> QED
    BY <1>2, <1>3, FromTheEnd
<1> QED
  BY <1>4 DEF t

(* The equation of the greedy walk has a solution for any table. *)
LEMMA WalkExists ==
  ASSUME NEW b \in Texts, NEW a \in Texts, NEW t
  PROVE  \E w \in [Places(b, a) -> SUBSET Places(b, a)] :
           \A p \in Places(b, a) : w[p] = WalkAt(w, t, b, a, p)
<1> DEFINE D == Places(b, a)
           V == SUBSET D
           far == [p \in D |-> Far(b, a, p)]
           step == [p \in D |-> [g \in [D -> V] |-> WalkAt(g, t, b, a, p)]]
           n == Len(b) + Len(a)
<1>1. n \in Nat /\ far \in [D -> 0..n]
  <2>1. n \in Nat
    BY TextFacts
  <2> QED
    BY <2>1, PlaceFacts
<1>2. ASSUME NEW p \in D, NEW g \in [D -> V] PROVE WalkAt(g, t, b, a, p) \in V
  <2>1. CASE Over(b, a, p)
    BY <2>1 DEF WalkAt
  <2>2. CASE ~Over(b, a, p)
    <3>1. g[Down(p)] \in V /\ g[Right(p)] \in V /\ g[Both(p)] \in V
      BY <2>2, PlaceFacts
    <3> QED
      BY <3>1 DEF WalkAt
  <2> QED
    BY <2>1, <2>2
<1>3. step \in [D -> [[D -> V] -> V]]
  BY <1>2
<1>4. ASSUME NEW p \in D, NEW g \in [D -> V], NEW h \in [D -> V], Agree(g, h, D, far, p)
      PROVE  step[p][g] = step[p][h]
  <2>1. CASE Over(b, a, p)
    BY <2>1 DEF WalkAt
  <2>2. CASE ~Over(b, a, p)
    <3>1. \A q \in {Down(p), Right(p), Both(p)} : q \in D /\ far[q] < far[p]
      BY <2>2, PlaceFacts
    <3>2. g[Down(p)] = h[Down(p)] /\ g[Right(p)] = h[Right(p)] /\ g[Both(p)] = h[Both(p)]
      BY <1>4, <3>1 DEF Agree
    <3> QED
      BY <3>2 DEF WalkAt
  <2> QED
    BY <2>1, <2>2
<1>5. PICK w : Solves(w, D, V, step)
  <2>1. {} \in V
    OBVIOUS
  <2> HIDE DEF D, V, far, step, n
  <2> QED
    BY <1>1, <1>3, <1>4, <2>1, RecursionSolves
<1> QED
  BY <1>5 DEF Solves

(* The pairs that survive are what such a walk finds from the first words   *)
(* on.                                                                      *)
LEMMA WalkFacts ==
  ASSUME NEW b \in Texts, NEW a \in Texts
  PROVE  \E w : /\ \A p \in Places(b, a) : w[p] = WalkAt(w, CommonLength(b, a), b, a, p)
                /\ Survivors(b, a) = w[<<1, 1>>]
<1> DEFINE D == Places(b, a)
           t == CommonLength(b, a)
           walked == CHOOSE q : q = [p \in D |-> WalkAt(q, t, b, a, p)]
<1>1. PICK w \in [D -> SUBSET D] : \A p \in D : w[p] = WalkAt(w, t, b, a, p)
  <2> HIDE DEF t
  <2> QED
    BY WalkExists
<1>2. w = [p \in D |-> WalkAt(w, t, b, a, p)]
  BY <1>1
<1>3. walked = [p \in D |-> WalkAt(walked, t, b, a, p)]
  BY <1>2
<1>4. Survivors(b, a) = walked[<<1, 1>>]
  BY DEF Survivors, WalkAt, Over, Down, Right, Both
<1>5. \A p \in D : walked[p] = WalkAt(walked, t, b, a, p)
  BY <1>3
<1> QED
  BY <1>4, <1>5

(* The walk finds an alignment of the length the table says. *)
LEMMA WalkAligns ==
  ASSUME NEW b \in Texts, NEW a \in Texts, NEW w,
         \A p \in Places(b, a) : w[p] = WalkAt(w, CommonLength(b, a), b, a, p)
  PROVE  \A p \in Places(b, a) :
            w[p] \in Rest(b, a, p) /\ Cardinality(w[p]) = CommonLength(b, a)[p]
<1> DEFINE t == CommonLength(b, a)
           P == {p \in Places(b, a) : w[p] \in Rest(b, a, p) /\ Cardinality(w[p]) = t[p]}
<1>1. t \in [Places(b, a) -> Nat] /\ \A p \in Places(b, a) : t[p] = LengthAt(t, b, a, p)
  BY TableFacts
<1>2. \A p \in Places(b, a) : w[p] = WalkAt(w, t, b, a, p)
  OBVIOUS
<1> HIDE DEF t
<1>3. ASSUME NEW p \in Places(b, a), Over(b, a, p) PROVE p \in P
  <2>1. w[p] = {} /\ t[p] = 0
    BY <1>1, <1>2, <1>3 DEF WalkAt, LengthAt
  <2>2. {} \in Rest(b, a, p)
    BY DEF Rest, Alignments
  <2> QED
    BY <2>1, <2>2, FS_EmptySet
<1>4. ASSUME NEW p \in Places(b, a), ~Over(b, a, p), Down(p) \in P, Right(p) \in P, Both(p) \in P
      PROVE  p \in P
  <2>1. /\ p[1] \in Nat /\ p[2] \in Nat /\ p = <<p[1], p[2]>>
        /\ Down(p)[1] = p[1] + 1 /\ Down(p)[2] = p[2]
        /\ Right(p)[1] = p[1] /\ Right(p)[2] = p[2] + 1
        /\ Both(p)[1] = p[1] + 1 /\ Both(p)[2] = p[2] + 1
    BY PlaceParts
  <2>2. /\ \A q \in {Down(p), Right(p), Both(p)} : w[q] \in Alignments(b, a)
        /\ \A r \in w[Down(p)] : r[1] >= p[1] + 1 /\ r[2] >= p[2]
        /\ \A r \in w[Right(p)] : r[1] >= p[1] /\ r[2] >= p[2] + 1
        /\ \A r \in w[Both(p)] : r[1] >= p[1] + 1 /\ r[2] >= p[2] + 1
    BY <1>4, <2>1 DEF Rest
  <2>3. \A q \in {Down(p), Right(p), Both(p)} : \A r \in w[q] :
           r[1] \in Nat /\ r[2] \in Nat /\ b[r[1]] = a[r[2]]
    BY <2>2, PairsFollow
  <2>4. t[Down(p)] \in Nat /\ t[Right(p)] \in Nat /\ t[Both(p)] \in Nat
    BY <1>1, <1>4, PlaceFacts
  <2>5. CASE b[p[1]] = a[p[2]]
    <3> DEFINE W == w[Both(p)]
    <3>1. w[p] = W \cup {p} /\ t[p] = t[Both(p)] + 1
      BY <1>1, <1>2, <1>4, <2>5 DEF WalkAt, LengthAt
    <3>2. W \in Alignments(b, a) /\ Cardinality(W) = t[Both(p)]
      BY <1>4, <2>2
    <3>3. \A r \in W : r[1] > p[1] /\ r[2] > p[2] /\ r[1] \in Nat /\ r[2] \in Nat
      BY <2>1, <2>2, <2>3
    <3> HIDE DEF W
    <3>4. p \in (DOMAIN b) \X (DOMAIN a)
      BY <1>4, PlaceFacts
    <3>5. W \cup {p} \in SUBSET ((DOMAIN b) \X (DOMAIN a))
      BY <3>2, <3>4 DEF Alignments
    <3>6. ASSUME NEW q \in W \cup {p}, NEW r \in W \cup {p}
          PROVE  b[q[1]] = a[q[2]] /\ (q[1] < r[1] <=> q[2] < r[2])
      <4>1. CASE q \in W /\ r \in W
        BY <3>2, <4>1 DEF Alignments
      <4>2. CASE q = p /\ r = p
        BY <2>1, <2>5, <4>2
      <4>3. CASE q \in W /\ r = p
        <5>1. b[q[1]] = a[q[2]]
          BY <3>2, <4>3 DEF Alignments
        <5> QED
          BY <2>1, <3>3, <4>3, <5>1
      <4>4. CASE q = p /\ r \in W
        BY <2>1, <2>5, <3>3, <4>4
      <4> QED
        BY <4>1, <4>2, <4>3, <4>4
    <3>7. W \cup {p} \in Alignments(b, a)
      BY <3>5, <3>6 DEF Alignments
    <3>8. W \cup {p} \in Rest(b, a, p)
      BY <2>1, <3>3, <3>7 DEF Rest
    <3>9. Cardinality(W \cup {p}) = Cardinality(W) + 1
      <4>1. IsFiniteSet(W) /\ p \notin W
        BY <2>1, <3>2, <3>3, AlignmentFinite
      <4> QED
        BY <4>1, FS_AddElement
    <3> QED
      BY <3>1, <3>2, <3>8, <3>9
  <2>6. CASE b[p[1]] # a[p[2]]
    <3>1. t[p] = Larger(t[Down(p)], t[Right(p)])
      BY <1>1, <1>4, <2>6 DEF LengthAt
    <3>2. w[Down(p)] \in Rest(b, a, p) /\ w[Right(p)] \in Rest(b, a, p)
      BY <2>1, <2>2, <2>3 DEF Rest
    <3>3. w[p] = IF t[Down(p)] >= t[Right(p)] THEN w[Down(p)] ELSE w[Right(p)]
      BY <1>2, <1>4, <2>6 DEF WalkAt
    <3>4. Cardinality(w[Down(p)]) = t[Down(p)] /\ Cardinality(w[Right(p)]) = t[Right(p)]
      BY <1>4
    <3> QED
      BY <2>4, <3>1, <3>2, <3>3, <3>4 DEF Larger
  <2> QED
    BY <2>5, <2>6
<1>5. Places(b, a) \subseteq P
  <2> HIDE DEF P
  <2> QED
    BY <1>3, <1>4, FromTheEnd
<1> QED
  BY <1>5 DEF t

(* What survives is an alignment, and none is longer. *)
LEMMA SurvivorsLongest ==
  ASSUME NEW b \in Texts, NEW a \in Texts
  PROVE  /\ Survivors(b, a) \in Alignments(b, a)
         /\ \A M \in Alignments(b, a) : Cardinality(M) <= Cardinality(Survivors(b, a))
<1> DEFINE first == <<1, 1>>
<1>1. PICK w : /\ \A p \in Places(b, a) : w[p] = WalkAt(w, CommonLength(b, a), b, a, p)
               /\ Survivors(b, a) = w[first]
  BY WalkFacts
<1>2. first \in Places(b, a)
  BY TextFacts DEF Places
<1>3. Survivors(b, a) \in Rest(b, a, first) /\ Cardinality(Survivors(b, a)) = CommonLength(b, a)[first]
  BY <1>1, <1>2, WalkAligns
<1>4. ASSUME NEW M \in Alignments(b, a) PROVE M \in Rest(b, a, first)
  <2>1. \A q \in M : q[1] \in 1..Len(b) /\ q[2] \in 1..Len(a)
    BY PairsFollow
  <2>2. \A q \in M : q[1] >= 1 /\ q[2] >= 1
    BY <2>1, TextFacts
  <2>3. first[1] = 1 /\ first[2] = 1
    OBVIOUS
  <2> QED
    BY <2>2, <2>3 DEF Rest
<1>5. ASSUME NEW M \in Alignments(b, a) PROVE Cardinality(M) <= Cardinality(Survivors(b, a))
  BY <1>2, <1>3, <1>4, TableBounds
<1> QED
  BY <1>3, <1>5 DEF Rest

(* An alignment uses a place of the second text once. *)
LEMMA AlignedPlaces ==
  ASSUME NEW b \in Texts, NEW a \in Texts, NEW M \in Alignments(b, a)
  PROVE  /\ {p[2] : p \in M} \subseteq DOMAIN a
         /\ IsFiniteSet({p[2] : p \in M})
         /\ Cardinality({p[2] : p \in M}) = Cardinality(M)
<1> DEFINE S == {p[2] : p \in M}
           f == [p \in M |-> p[2]]
<1>1. IsFiniteSet(M)
  BY AlignmentFinite
<1>2. \A p, q \in M : p[2] = q[2] => p = q
  BY PairsFollow
<1>3. f \in Bijection(M, S)
  BY <1>2 DEF Bijection, Injection, Surjection, IsInjective
<1>4. IsFiniteSet(S) /\ Cardinality(S) = Cardinality(M)
  BY <1>1, <1>3, FS_Bijection DEF ExistsBijection
<1>5. S \subseteq DOMAIN a
  BY TextFacts, PairsFollow
<1> QED
  BY <1>4, <1>5

(* The words left unmarked are those of a longest alignment. Nothing is     *)
(* marked in the second text exactly when some alignment uses all of it:    *)
(* the longest one is then no shorter than the text.                        *)
LEMMA TheDifference == MarksTheDifference
<1> SUFFICES ASSUME NEW before \in Texts, NEW after \in Texts
             PROVE  /\ ~TooLong(before, after) =>
                         \E common \in Alignments(before, after) :
                           /\ (DOMAIN before) \ Removed(before, after) = {p[1] : p \in common}
                           /\ (DOMAIN after) \ Added(before, after) = {p[2] : p \in common}
                           /\ \A M \in Alignments(before, after) : Cardinality(M) <= Cardinality(common)
                    /\ Edits(before, after) = 0 <=>
                         \/ TooLong(before, after)
                         \/ \E M \in Alignments(before, after) : {p[2] : p \in M} = DOMAIN after
  BY DEF MarksTheDifference
<1> DEFINE S == Survivors(before, after)
           used(M) == {p[2] : p \in M}
<1>1. S \in Alignments(before, after) /\ \A M \in Alignments(before, after) : Cardinality(M) <= Cardinality(S)
  BY SurvivorsLongest
<1>2. /\ Len(before) \in Nat /\ Len(after) \in Nat
      /\ DOMAIN before = 1..Len(before) /\ DOMAIN after = 1..Len(after)
  BY TextFacts
<1>3. \A p \in S : p[1] \in DOMAIN before /\ p[2] \in DOMAIN after
  BY <1>1, <1>2, PairsFollow
<1>4. IsFiniteSet(DOMAIN after)
  BY <1>2, FS_Interval
<1>5. CASE TooLong(before, after)
  <2>1. Edits(before, after) = 0
    BY <1>5, FS_EmptySet DEF Edits, Added
  <2> QED
    BY <1>5, <2>1
<1>6. CASE ~TooLong(before, after)
  <2>1. /\ Removed(before, after) = {i \in DOMAIN before : \A p \in S : p[1] # i}
        /\ Added(before, after) = {j \in DOMAIN after : \A p \in S : p[2] # j}
    BY <1>6 DEF Removed, Added
  <2> HIDE DEF S
  <2>2. (DOMAIN before) \ Removed(before, after) = {p[1] : p \in S}
    BY <1>3, <2>1
  <2>3. (DOMAIN after) \ Added(before, after) = used(S)
    BY <1>3, <2>1
  <2>4. Added(before, after) \subseteq DOMAIN after
    BY <2>1
  <2>5. Edits(before, after) = 0 <=> Added(before, after) = {}
    BY <1>4, <2>4, FS_Subset, FS_EmptySet DEF Edits
  <2>6. Added(before, after) = {} <=> used(S) = DOMAIN after
    BY <2>3, <2>4
  <2>7. ASSUME NEW M \in Alignments(before, after), used(M) = DOMAIN after
        PROVE  used(S) = DOMAIN after
    <3>1. /\ Cardinality(DOMAIN after) = Cardinality(M)
          /\ Cardinality(used(S)) = Cardinality(S) /\ used(S) \subseteq DOMAIN after
          /\ Cardinality(S) \in Nat /\ Cardinality(M) \in Nat
      BY <1>1, <2>7, AlignedPlaces, AlignmentFinite
    <3>2. Cardinality(used(S)) <= Cardinality(DOMAIN after)
      BY <1>4, <3>1, FS_Subset
    <3>3. Cardinality(DOMAIN after) = Cardinality(used(S))
      BY <1>1, <3>1, <3>2
    <3> HIDE DEF used
    <3> QED
      BY <1>4, <3>1, <3>3, FS_Subset
  <2> QED
    BY <1>1, <1>6, <2>2, <2>3, <2>5, <2>6, <2>7
<1> QED
  BY <1>5, <1>6

(* Styling a styled text changes nothing, and leaves a text empty or not. *)
LEMMA StyledOnce ==
  ASSUME NEW text \in Texts
  PROVE  /\ Style(text) \in Texts /\ Style(Style(text)) = Style(text)
         /\ Style(text) = NoText <=> text = NoText
<1> QED
  BY TextFacts, DiffAssumption DEF Style, Texts, DiffAssumption, NoText

(* Every way a cleanup can end: declined, the box shows no mark and a       *)
(* reason that has advice; accepted, it says changed just when styling      *)
(* tells the two texts apart, and the panel then has an original to         *)
(* compare with.                                                            *)
LEMMA ThePreview == PreviewMarksTheModel
<1> SUFFICES ASSUME NEW text \in Texts, NEW final \in Outcomes(text)
             PROVE  LET line == PreviewLine(text, final)
                    IN  /\ PreviewMarks(text, final) # {} => line[1] = "changed"
                        /\ line[1] = "changed" => line[2] = Cardinality(PreviewMarks(text, final))
                        /\ line # <<"did not run", "unexplained">>
                        /\ final.status = "applied" => PanelCompares(final)
  BY DEF PreviewMarksTheModel
<1> DEFINE line == PreviewLine(text, final)
           marks == PreviewMarks(text, final)
<1>1. CASE \E s \in {"skipped", "fallback"}, r \in Reasons : final = Declined(text, s, r)
  <2>1. PICK s \in {"skipped", "fallback"}, r \in Reasons : final = Declined(text, s, r)
    BY <1>1
  <2>2. final.status = s /\ final.reason = r /\ final.transcript = Style(text)
    BY <2>1 DEF Declined
  <2>3. PreviewMarks(text, final) = {} /\ PreviewLine(text, final) = Describe(s, r, 0)
    BY <2>2 DEF PreviewMarks, PreviewLine
  <2>4. Describe(s, r, 0) = <<"did not run", r>>
    BY DEF Describe, Reasons, Advised
  <2>5. r # "unexplained" /\ final.status # "applied"
    BY <2>2 DEF Reasons
  <2>6. line = <<"did not run", r>> /\ marks = {}
    BY <2>3, <2>4
  <2> HIDE DEF line, marks
  <2>7. line[1] = "did not run" /\ line[2] = r
    BY <2>6
  <2>8. ASSUME line = <<"did not run", "unexplained">> PROVE FALSE
    <3>1. line[2] = "unexplained"
      BY <2>8
    <3> QED
      BY <2>5, <2>7, <3>1
  <2> QED
    BY <2>5, <2>6, <2>7, <2>8 DEF line, marks
<1>2. CASE \E cleaned \in Texts \ {NoText} : text # NoText /\ final = Accepted(text, cleaned)
  <2>1. PICK cleaned \in Texts \ {NoText} : text # NoText /\ final = Accepted(text, cleaned)
    BY <1>2
  <2>2. /\ final.status = IF Style(cleaned) = Style(text) THEN "unchanged" ELSE "applied"
        /\ final.transcript = Style(cleaned) /\ final.original = text
    BY <2>1 DEF Accepted
  <2>3. CASE Style(cleaned) = Style(text)
    <3>1. PreviewMarks(text, final) = {} /\ PreviewLine(text, final) = Describe("unchanged", final.reason, 0)
      BY <2>2, <2>3 DEF PreviewMarks, PreviewLine
    <3>2. Describe("unchanged", final.reason, 0) = <<"found nothing">>
      BY DEF Describe
    <3>3. line = <<"found nothing">> /\ marks = {} /\ final.status # "applied"
      BY <2>2, <2>3, <3>1, <3>2
    <3> HIDE DEF line, marks
    <3>4. line[1] = "found nothing"
      BY <3>3
    <3>5. ASSUME line = <<"did not run", "unexplained">> PROVE FALSE
      <4>1. line[1] = "did not run"
        BY <3>5
      <4> QED
        BY <3>4, <4>1
    <3> QED
      BY <3>3, <3>4, <3>5 DEF line, marks
  <2>4. CASE Style(cleaned) # Style(text)
    <3>1. /\ PreviewMarks(text, final) = Added(Style(text), Style(cleaned))
          /\ PreviewLine(text, final) = Describe("applied", final.reason, Edits(Style(text), Style(cleaned)))
      BY <2>2, <2>4 DEF PreviewMarks, PreviewLine
    <3>2. PreviewLine(text, final) = <<"changed", Cardinality(PreviewMarks(text, final))>>
      BY <3>1 DEF Describe, Edits
    <3>3. PanelCompares(final)
      <4>1. text # Style(cleaned)
        BY <2>4, StyledOnce
      <4> QED
        BY <2>1, <2>2, <4>1 DEF PanelCompares
    <3> QED
      BY <3>2, <3>3
  <2> QED
    BY <2>3, <2>4
<1>3. \/ \E s \in {"skipped", "fallback"}, r \in Reasons : final = Declined(text, s, r)
      \/ \E cleaned \in Texts \ {NoText} : text # NoText /\ final = Accepted(text, cleaned)
  BY DEF Outcomes
<1> HIDE DEF line, marks
<1> QED
  BY <1>1, <1>2, <1>3

(* Whatever texts there are: a result marks a smallest difference and its    *)
(* number is true (commonTokens, paintDiff), and the try-it box marks only   *)
(* what the model changed (paintComparison).                                 *)
THEOREM ComparisonsAreHonest == PanelSpec => []ComparisonsHonest
<1>1. ComparisonsHonest
  BY TheDifference, ThePreview DEF ComparisonsHonest
<1> QED
  BY <1>1, PTL
=============================================================================
