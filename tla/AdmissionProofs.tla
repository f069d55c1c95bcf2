-------------------------- MODULE AdmissionProofs --------------------------
(***************************************************************************)
(* Theorems about DecodeLimiter, for every finite set of callers and every *)
(* largest engine limit, and below them about TicketQueue, for any streams *)
(* among the jobs, any limits and any length of the line.  The line uses   *)
(* the limiter only as the limiter allows, so the invariant of the limiter *)
(* holds under it, and the places, slots and counters of the tickets rest  *)
(* on that.                                                                *)
(***************************************************************************)
EXTENDS TicketQueue, FiniteSetTheorems, SequenceTheorems, TLAPS

-----------------------------------------------------------------------------
(* The limiter.                                                            *)

(* A caller has a seat exactly while it is suspended at `await seat'. *)
SeatMatchesTask == \A j \in Jobs : seat[j] = "none" <=> task[j] # "seated"

(* The deque names nobody twice, and nobody whose slot was handed over. *)
LineDistinct ==
  \A i, k \in 1..Len(waiters) : waiters[i] = waiters[k] => i = k

LineUngranted ==
  \A i \in 1..Len(waiters) : seat[waiters[i]] \in {"pending", "cancelled"}

PendingInLine ==
  \A j \in Jobs : seat[j] = "pending" => \E i \in 1..Len(waiters) : waiters[i] = j

(* Every _wake() leaves a line behind only when the limit, at least one, is  *)
(* used up.                                                                 *)
LineHeld == waiters # <<>> => active >= 1

LineInv == LineDistinct /\ LineUngranted /\ PendingInLine

IndInv ==
  /\ TypeOK
  /\ SeatMatchesTask
  /\ LineInv
  /\ SlotsAccounted
  /\ LineHeld

-----------------------------------------------------------------------------
(* Lemmas about _wake().                                                    *)

(* Holders, and the seats a _wake() may grant, are finitely many callers.    *)
LEMMA FiniteHolders ==
  /\ IsFiniteSet(Holders)
  /\ Cardinality(Holders) \in Nat
  /\ \A n \in Nat : IsFiniteSet(LiveAmong(n)) /\ Cardinality(LiveAmong(n)) \in Nat
<1>1. Holders \subseteq Jobs
  BY DEF Holders
<1>2. \A n \in Nat : LiveAmong(n) \subseteq Jobs
  BY DEF LiveAmong
<1>3. \A S \in SUBSET Jobs : IsFiniteSet(S) /\ Cardinality(S) \in Nat
  BY JobsAssumption, FS_Subset, FS_CardinalityType
<1> QED
  BY <1>1, <1>2, <1>3

(* Handing slots to callers that held none adds their number.                *)
LEMMA DisjointUnion ==
  ASSUME NEW S, NEW T, IsFiniteSet(S), IsFiniteSet(T), S \cap T = {}
  PROVE  /\ IsFiniteSet(S \cup T)
         /\ Cardinality(S \cup T) = Cardinality(S) + Cardinality(T)
<1>1. Cardinality(S \cap T) = 0 /\ Cardinality(S) \in Nat /\ Cardinality(T) \in Nat
  BY FS_EmptySet, FS_CardinalityType
<1>2. /\ IsFiniteSet(S \cup T)
      /\ Cardinality(S \cup T) = Cardinality(S) + Cardinality(T) - Cardinality(S \cap T)
  BY FS_Union, Zenon
<1> QED
  BY <1>1, <1>2

(* The line a _wake() leaves is again a line: the seats it grants are gone   *)
(* from it and every caller still pending is in it.                          *)
LEMMA WakeKeepsLine ==
  ASSUME TypeOK, LineInv, NEW n \in 0..Len(waiters)
  PROVE  /\ Rest(n) \in Seq(Jobs)
         /\ Len(Rest(n)) = Len(waiters) - n
         /\ Seats(n) \in [Jobs -> SeatStates]
         /\ \A i, k \in 1..Len(Rest(n)) : Rest(n)[i] = Rest(n)[k] => i = k
         /\ \A i \in 1..Len(Rest(n)) : Seats(n)[Rest(n)[i]] \in {"pending", "cancelled"}
         /\ \A j \in Jobs : Seats(n)[j] = "pending" =>
              \E i \in 1..Len(Rest(n)) : Rest(n)[i] = j
<1> DEFINE len == Len(waiters)
<1>1. len \in Nat /\ n \in Nat /\ n <= len /\ \A i \in 1..len : waiters[i] \in Jobs
  BY DEF TypeOK
<1>2. /\ Rest(n) \in Seq(Jobs)
      /\ Len(Rest(n)) = len - n
      /\ \A i \in 1..(len - n) : Rest(n)[i] = waiters[n + i]
  <2>1. n + 1 \in Int /\ len \in Int /\ \A i \in (n + 1)..len : waiters[i] \in Jobs
    BY <1>1
  <2>2. /\ Rest(n) \in Seq(Jobs)
        /\ Len(Rest(n)) = IF n + 1 <= len THEN len - (n + 1) + 1 ELSE 0
        /\ \A i \in 1..(len - (n + 1) + 1) : Rest(n)[i] = waiters[n + 1 + i - 1]
    BY <2>1, SubSeqProperties DEF Rest
  <2> QED
    BY <2>2, <1>1
<1>3. Seats(n) \in [Jobs -> SeatStates]
  BY DEF Seats, TypeOK, SeatStates
<1>4. \A i, k \in 1..Len(Rest(n)) : Rest(n)[i] = Rest(n)[k] => i = k
  BY <1>1, <1>2 DEF LineInv, LineDistinct
<1>5. \A i \in 1..Len(Rest(n)) : Seats(n)[Rest(n)[i]] \in {"pending", "cancelled"}
  <2>1. SUFFICES ASSUME NEW i \in 1..(len - n)
                 PROVE  Seats(n)[waiters[n + i]] \in {"pending", "cancelled"}
    BY <1>2
  <2>2. n + i \in 1..len /\ waiters[n + i] \in Jobs
    BY <1>1
  <2>3. waiters[n + i] \notin LiveAmong(n)
    BY <1>1, <2>2 DEF LiveAmong, LineInv, LineDistinct
  <2> QED
    BY <2>2, <2>3 DEF Seats, LineInv, LineUngranted
<1>6. \A j \in Jobs : Seats(n)[j] = "pending" =>
         \E i \in 1..Len(Rest(n)) : Rest(n)[i] = j
  <2>1. SUFFICES ASSUME NEW j \in Jobs, Seats(n)[j] = "pending"
                 PROVE  \E i \in 1..(len - n) : Rest(n)[i] = j
    BY <1>2
  <2>2. j \notin LiveAmong(n) /\ seat[j] = "pending"
    BY <2>1 DEF Seats
  <2>3. PICK k \in 1..len : waiters[k] = j
    BY <2>2 DEF LineInv, PendingInLine
  <2>4. k > n
    BY <1>1, <2>2, <2>3 DEF LiveAmong
  <2>5. k - n \in 1..(len - n) /\ Rest(n)[k - n] = j
    BY <1>1, <1>2, <2>3, <2>4
  <2> QED
    BY <2>5
<1> QED
  BY <1>2, <1>3, <1>4, <1>5, <1>6

(* Who holds a slot after the seats of LiveAmong(n) were granted. *)
LEMMA WakeGrants ==
  ASSUME TypeOK, NEW n \in 0..Len(waiters)
  PROVE  /\ LiveAmong(n) \subseteq Jobs
         /\ \A j \in Jobs : Seats(n)[j] = "granted" <=> seat[j] = "granted" \/ j \in LiveAmong(n)
         /\ \A j \in Jobs : Seats(n)[j] = "none" <=> seat[j] = "none"
         /\ \A j \in LiveAmong(n) : seat[j] = "pending"
BY DEF LiveAmong, Seats, TypeOK

(* A _wake() that leaves callers in line leaves no slot unused. *)
LEMMA WakeUsesLimit ==
  ASSUME TypeOK, NEW count \in Nat, NEW n \in 0..Len(waiters), WakePops(count, n),
         n < Len(waiters)
  PROVE  count + Cardinality(LiveAmong(n)) >= 1
BY FiniteHolders DEF WakePops, TypeOK

-----------------------------------------------------------------------------

(* The initial states satisfy the inductive invariant.                       *)
LEMMA InitInv == Init => IndInv
<1> SUFFICES ASSUME Init PROVE IndInv
  OBVIOUS
<1>1. TypeOK
  BY MaxLimitAssumption DEF Init, TypeOK, SeatStates, TaskStates
<1>2. SeatMatchesTask /\ LineInv /\ LineHeld
  BY DEF Init, SeatMatchesTask, LineInv, LineDistinct, LineUngranted, PendingInLine, LineHeld
<1>3. Holders = {}
  BY DEF Init, Holders
<1>4. SlotsAccounted
  BY <1>3, FS_EmptySet DEF Init, SlotsAccounted
<1> QED
  BY <1>1, <1>2, <1>4 DEF IndInv

-----------------------------------------------------------------------------
(* Each action preserves the inductive invariant.                           *)

(* acquire() on the fast path: after a _wake() the newcomer takes a slot.    *)
LEMMA AcquireNowInv ==
  ASSUME IndInv, NEW j \in Jobs, AcquireNow(j)
  PROVE  IndInv'
<1>1. PICK n \in 0..Len(waiters) :
        /\ n = Len(waiters)
        /\ active' = active + Cardinality(LiveAmong(n)) + 1
        /\ waiters' = Rest(n)
        /\ seat' = Seats(n)
  BY DEF AcquireNow
<1> DEFINE L == LiveAmong(n)
<1>2. /\ task[j] = "away"
      /\ task' = [task EXCEPT ![j] = "checkpoint"]
      /\ limit' = limit /\ stopping' = stopping
  BY DEF AcquireNow
<1>3. TypeOK /\ LineInv /\ SeatMatchesTask
  BY DEF IndInv
<1>4. /\ IsFiniteSet(Holders) /\ Cardinality(Holders) \in Nat
      /\ IsFiniteSet(L) /\ Cardinality(L) \in Nat
      /\ n \in Nat
  BY <1>3, FiniteHolders DEF TypeOK
<1>5. waiters' \in Seq(Jobs) /\ Len(waiters') = 0
  BY <1>1, <1>3, WakeKeepsLine
<1>6. waiters' = <<>>
  BY <1>5
<1>7. TypeOK'
  <2>1. seat' \in [Jobs -> SeatStates]
    BY <1>1, <1>3, WakeKeepsLine
  <2>2. active' \in Nat
    BY <1>1, <1>3, <1>4 DEF TypeOK
  <2> QED
    BY <1>2, <1>3, <1>5, <2>1, <2>2 DEF TypeOK, TaskStates
<1>8. LineInv'
  <2>1. /\ Rest(n) \in Seq(Jobs)
        /\ Seats(n) \in [Jobs -> SeatStates]
        /\ \A i, k \in 1..Len(Rest(n)) : Rest(n)[i] = Rest(n)[k] => i = k
        /\ \A i \in 1..Len(Rest(n)) : Seats(n)[Rest(n)[i]] \in {"pending", "cancelled"}
        /\ \A k \in Jobs : Seats(n)[k] = "pending" =>
             \E i \in 1..Len(Rest(n)) : Rest(n)[i] = k
    BY <1>3, WakeKeepsLine
  <2> QED
    BY <1>1, <2>1 DEF LineInv, LineDistinct, LineUngranted, PendingInLine
<1>9. SeatMatchesTask'
  BY <1>1, <1>2, <1>3, WakeGrants DEF SeatMatchesTask, TypeOK
<1>10. SlotsAccounted'
  <2>1. Holders' = (Holders \cup L) \cup {j}
    BY <1>1, <1>2, <1>3, WakeGrants DEF Holders, TypeOK
  <2>2. Holders \cap L = {} /\ j \notin Holders \cup L
    BY <1>2, <1>3, WakeGrants DEF Holders, SeatMatchesTask, TypeOK
  <2>3. /\ IsFiniteSet(Holders \cup L)
        /\ Cardinality(Holders \cup L) = Cardinality(Holders) + Cardinality(L)
    BY <1>4, <2>2, DisjointUnion
  <2>4. Cardinality(Holders') = Cardinality(Holders \cup L) + 1
    BY <2>1, <2>2, <2>3, FS_AddElement
  <2> QED
    BY <1>1, <1>4, <2>3, <2>4 DEF IndInv, SlotsAccounted
<1>11. LineHeld'
  BY <1>6 DEF LineHeld
<1> QED
  BY <1>7, <1>8, <1>9, <1>10, <1>11 DEF IndInv

(* The steps TakeSeat and AcquireRefused share: a _wake() before the caller  *)
(* finds no room.                                                            *)
LEMMA NoRoomInv ==
  ASSUME IndInv, NEW n \in 0..Len(waiters), WakePops(active, n), NoRoom(n),
         active' = active + Cardinality(LiveAmong(n))
  PROVE  /\ active' \in Nat
         /\ active' >= 1
         /\ Cardinality(Holders \cup LiveAmong(n)) = active'
<1>1. TypeOK /\ SlotsAccounted /\ n \in Nat
  BY DEF IndInv, TypeOK
<1>2. /\ IsFiniteSet(Holders) /\ IsFiniteSet(LiveAmong(n))
      /\ Cardinality(LiveAmong(n)) \in Nat
  BY <1>1, FiniteHolders
<1>3. Holders \cap LiveAmong(n) = {}
  BY <1>1, WakeGrants DEF Holders, SeatMatchesTask, IndInv, TypeOK
<1>4. Cardinality(Holders \cup LiveAmong(n)) = Cardinality(Holders) + Cardinality(LiveAmong(n))
  BY <1>2, <1>3, DisjointUnion
<1>5. active' >= limit
  BY <1>1, <1>2 DEF NoRoom, WakePops, TypeOK
<1> QED
  BY <1>1, <1>2, <1>4, <1>5 DEF SlotsAccounted, TypeOK

(* acquire() without room: the newcomer joins the end of the line.           *)
LEMMA TakeSeatInv ==
  ASSUME IndInv, NEW j \in Jobs, TakeSeat(j)
  PROVE  IndInv'
<1>1. PICK n \in 0..Len(waiters) :
        /\ WakePops(active, n)
        /\ NoRoom(n)
        /\ active' = active + Cardinality(LiveAmong(n))
        /\ waiters' = Append(Rest(n), j)
        /\ seat' = [Seats(n) EXCEPT ![j] = "pending"]
  BY DEF TakeSeat
<1> DEFINE rest == Rest(n)
           len == Len(rest)
<1>2. /\ task[j] = "away"
      /\ task' = [task EXCEPT ![j] = "seated"]
      /\ limit' = limit /\ stopping' = stopping
  BY DEF TakeSeat
<1>3. TypeOK /\ LineInv /\ SeatMatchesTask
  BY DEF IndInv
<1>4. /\ active' \in Nat /\ active' >= 1
      /\ Cardinality(Holders \cup LiveAmong(n)) = active'
  BY <1>1, NoRoomInv
<1>5. /\ rest \in Seq(Jobs)
      /\ Seats(n) \in [Jobs -> SeatStates]
      /\ \A i, k \in 1..len : rest[i] = rest[k] => i = k
      /\ \A i \in 1..len : Seats(n)[rest[i]] \in {"pending", "cancelled"}
      /\ \A k \in Jobs : Seats(n)[k] = "pending" => \E i \in 1..len : rest[i] = k
  BY <1>3, WakeKeepsLine
<1>6. /\ waiters' \in Seq(Jobs)
      /\ Len(waiters') = len + 1
      /\ len \in Nat
      /\ \A i \in 1..len : waiters'[i] = rest[i] /\ rest[i] \in Jobs
      /\ waiters'[len + 1] = j
  BY <1>1, <1>5, AppendProperties
<1>7. Seats(n)[j] = "none"
  BY <1>2, <1>3, WakeGrants DEF SeatMatchesTask
<1>8. \A i \in 1..len : rest[i] # j
  BY <1>5, <1>7
<1>9. TypeOK'
  BY <1>1, <1>2, <1>3, <1>4, <1>5, <1>6 DEF TypeOK, TaskStates, SeatStates
<1>10. LineInv'
  <2>1. LineDistinct'
    BY <1>5, <1>6, <1>8 DEF LineDistinct
  <2>2. \A i \in 1..(len + 1) : seat'[waiters'[i]] \in {"pending", "cancelled"}
    BY <1>1, <1>5, <1>6, <1>8
  <2>3. PendingInLine'
    <3>1. SUFFICES ASSUME NEW k \in Jobs, seat'[k] = "pending"
                   PROVE  \E i \in 1..(len + 1) : waiters'[i] = k
      BY <1>6 DEF PendingInLine
    <3>2. CASE k = j
      BY <3>2, <1>6
    <3>3. CASE k # j
      <4>1. Seats(n)[k] = "pending"
        BY <3>1, <3>3, <1>1, <1>5
      <4>2. PICK i \in 1..len : rest[i] = k
        BY <4>1, <1>5
      <4> QED
        BY <4>2, <1>6
    <3> QED
      BY <3>2, <3>3
  <2> QED
    BY <2>1, <2>2, <2>3, <1>6 DEF LineInv, LineUngranted
<1>11. SeatMatchesTask'
  BY <1>1, <1>2, <1>3, <1>5, WakeGrants DEF SeatMatchesTask, TypeOK
<1>12. Holders' = Holders \cup LiveAmong(n)
  BY <1>1, <1>2, <1>3, <1>5, <1>7, WakeGrants DEF Holders, SeatMatchesTask, TypeOK
<1> QED
  BY <1>4, <1>9, <1>10, <1>11, <1>12 DEF IndInv, SlotsAccounted, LineHeld

(* acquire() without room and without time leaves no trace.                  *)
LEMMA AcquireRefusedInv ==
  ASSUME IndInv, NEW j \in Jobs, AcquireRefused(j)
  PROVE  IndInv'
<1>1. PICK n \in 0..Len(waiters) :
        /\ WakePops(active, n)
        /\ NoRoom(n)
        /\ active' = active + Cardinality(LiveAmong(n))
        /\ waiters' = Rest(n)
        /\ seat' = Seats(n)
  BY DEF AcquireRefused
<1>2. task' = task /\ limit' = limit /\ stopping' = stopping
  BY DEF AcquireRefused
<1>3. TypeOK /\ LineInv /\ SeatMatchesTask
  BY DEF IndInv
<1>4. /\ active' \in Nat /\ active' >= 1
      /\ Cardinality(Holders \cup LiveAmong(n)) = active'
  BY <1>1, NoRoomInv
<1>5. TypeOK' /\ LineInv'
  <2>1. /\ Rest(n) \in Seq(Jobs)
        /\ Seats(n) \in [Jobs -> SeatStates]
        /\ \A i, k \in 1..Len(Rest(n)) : Rest(n)[i] = Rest(n)[k] => i = k
        /\ \A i \in 1..Len(Rest(n)) : Seats(n)[Rest(n)[i]] \in {"pending", "cancelled"}
        /\ \A k \in Jobs : Seats(n)[k] = "pending" =>
             \E i \in 1..Len(Rest(n)) : Rest(n)[i] = k
    BY <1>3, WakeKeepsLine
  <2>2. TypeOK'
    BY <1>1, <1>2, <1>3, <1>4, <2>1 DEF TypeOK
  <2>3. LineInv'
    BY <1>1, <2>1 DEF LineInv, LineDistinct, LineUngranted, PendingInLine
  <2> QED
    BY <2>2, <2>3
<1>6. SeatMatchesTask'
  BY <1>1, <1>2, <1>3, WakeGrants DEF SeatMatchesTask
<1>7. Holders' = Holders \cup LiveAmong(n)
  BY <1>1, <1>2, <1>3, WakeGrants DEF Holders
<1> QED
  BY <1>4, <1>5, <1>6, <1>7 DEF IndInv, SlotsAccounted, LineHeld

(* Giving back a slot that is held: the decode's end, and both branches of   *)
(* acquire() that release a slot they were handed.                           *)
LEMMA ReleaseSlotInv ==
  ASSUME IndInv, NEW j \in Jobs, j \in Holders, ReleaseSlot(j)
  PROVE  IndInv'
<1>1. PICK n \in 0..Len(waiters) :
        /\ WakePops(Released(active), n)
        /\ active' = Released(active) + Cardinality(LiveAmong(n))
        /\ waiters' = Rest(n)
        /\ seat' = [Seats(n) EXCEPT ![j] = "none"]
  BY DEF ReleaseSlot
<1> DEFINE L == LiveAmong(n)
<1>2. /\ task' = [task EXCEPT ![j] = "away"]
      /\ stopping' = stopping \ {j}
      /\ limit' = limit
  BY DEF ReleaseSlot
<1>3. TypeOK /\ LineInv /\ SeatMatchesTask /\ SlotsAccounted
  BY DEF IndInv
<1>4. /\ IsFiniteSet(Holders) /\ Cardinality(Holders) \in Nat
      /\ IsFiniteSet(L) /\ Cardinality(L) \in Nat
      /\ n \in Nat
  BY <1>3, FiniteHolders DEF TypeOK
<1>5. /\ IsFiniteSet(Holders \ {j})
      /\ Cardinality(Holders \ {j}) = Cardinality(Holders) - 1
      /\ Cardinality(Holders \ {j}) \in Nat
  BY <1>4, FS_RemoveElement, FS_CardinalityType
<1>6. Released(active) = Cardinality(Holders \ {j})
  BY <1>3, <1>4, <1>5 DEF Released, SlotsAccounted
<1>7. j \notin L /\ Holders \cap L = {}
  BY <1>3, WakeGrants DEF Holders, SeatMatchesTask, TypeOK
<1>8. seat[j] # "pending"
  BY <1>3 DEF Holders, SeatMatchesTask, TypeOK
<1>9. /\ Rest(n) \in Seq(Jobs)
      /\ Seats(n) \in [Jobs -> SeatStates]
      /\ Len(Rest(n)) = Len(waiters) - n
      /\ \A i, k \in 1..Len(Rest(n)) : Rest(n)[i] = Rest(n)[k] => i = k
      /\ \A i \in 1..Len(Rest(n)) : Seats(n)[Rest(n)[i]] \in {"pending", "cancelled"}
      /\ \A k \in Jobs : Seats(n)[k] = "pending" =>
           \E i \in 1..Len(Rest(n)) : Rest(n)[i] = k
  BY <1>3, WakeKeepsLine
<1>10. active' \in Nat
  BY <1>1, <1>4, <1>5, <1>6
<1>11. TypeOK'
  BY <1>1, <1>2, <1>3, <1>9, <1>10 DEF TypeOK, TaskStates, SeatStates
<1>12. LineInv'
  <2>1. Seats(n)[j] \notin {"pending", "cancelled"}
    BY <1>3, <1>7, <1>8, WakeGrants DEF Holders, SeatMatchesTask, Seats, TypeOK
  <2>2. \A i \in 1..Len(Rest(n)) : Rest(n)[i] \in Jobs /\ Rest(n)[i] # j
    BY <1>9, <2>1
  <2> QED
    BY <1>1, <1>9, <2>1, <2>2 DEF LineInv, LineDistinct, LineUngranted, PendingInLine
<1>13. SeatMatchesTask'
  BY <1>1, <1>2, <1>3, <1>9, WakeGrants DEF SeatMatchesTask, TypeOK
<1>14. SlotsAccounted'
  <2>1. Holders' = (Holders \ {j}) \cup L
    BY <1>1, <1>2, <1>3, <1>7, <1>9, WakeGrants DEF Holders, TypeOK
  <2>2. Cardinality(Holders') = Cardinality(Holders \ {j}) + Cardinality(L)
    BY <1>4, <1>5, <1>7, <2>1, DisjointUnion
  <2> QED
    BY <1>1, <1>6, <2>2 DEF SlotsAccounted
<1>15. LineHeld'
  <2>1. CASE n < Len(waiters)
    BY <1>1, <1>3, <1>5, <1>6, <2>1, WakeUsesLimit DEF LineHeld
  <2>2. CASE n = Len(waiters)
    BY <1>1, <1>9, <2>2 DEF LineHeld
  <2> QED
    BY <2>1, <2>2, <1>3 DEF TypeOK
<1> QED
  BY <1>11, <1>12, <1>13, <1>14, <1>15 DEF IndInv

(* Task.cancel(): a pending seat is cancelled where it is in the deque.      *)
LEMMA GiveUpInv ==
  ASSUME IndInv, NEW j \in Jobs, GiveUp(j)
  PROVE  IndInv'
<1>1. /\ task[j] \in {"seated", "checkpoint"}
      /\ stopping' = stopping \cup {j}
      /\ seat' = [seat EXCEPT ![j] = IF seat[j] = "pending" THEN "cancelled" ELSE @]
      /\ limit' = limit /\ active' = active /\ waiters' = waiters /\ task' = task
  BY DEF GiveUp
<1>2. TypeOK /\ LineInv /\ SeatMatchesTask /\ SlotsAccounted /\ LineHeld
  BY DEF IndInv
<1>3. TypeOK'
  BY <1>1, <1>2 DEF TypeOK, SeatStates
<1>4. LineInv'
  BY <1>1, <1>2 DEF LineInv, LineDistinct, LineUngranted, PendingInLine, TypeOK
<1>5. SeatMatchesTask'
  BY <1>1, <1>2 DEF SeatMatchesTask, TypeOK
<1>6. Holders' = Holders
  BY <1>1, <1>2 DEF Holders, TypeOK
<1> QED
  BY <1>1, <1>2, <1>3, <1>4, <1>5, <1>6 DEF IndInv, SlotsAccounted, LineHeld

(* A caller that resumes with its slot still holds it.                       *)
LEMMA ResumeInv ==
  ASSUME IndInv, NEW j \in Jobs, Resume(j)
  PROVE  IndInv'
<1>1. /\ \/ task[j] = "checkpoint"
         \/ task[j] = "seated" /\ seat[j] = "granted"
      /\ task' = [task EXCEPT ![j] = "decoding"]
      /\ seat' = [seat EXCEPT ![j] = "none"]
      /\ limit' = limit /\ active' = active /\ waiters' = waiters /\ stopping' = stopping
  BY DEF Resume
<1>2. TypeOK /\ LineInv /\ SeatMatchesTask /\ SlotsAccounted /\ LineHeld
  BY DEF IndInv
<1>3. TypeOK'
  BY <1>1, <1>2 DEF TypeOK, SeatStates, TaskStates
<1>4. seat[j] \in {"none", "granted"}
  BY <1>1, <1>2 DEF SeatMatchesTask
<1>5. LineInv'
  BY <1>1, <1>2, <1>4 DEF LineInv, LineDistinct, LineUngranted, PendingInLine, TypeOK
<1>6. SeatMatchesTask'
  BY <1>1, <1>2 DEF SeatMatchesTask, TypeOK
<1>7. Holders' = Holders
  BY <1>1, <1>2 DEF Holders, TypeOK
<1> QED
  BY <1>1, <1>2, <1>3, <1>5, <1>6, <1>7 DEF IndInv, SlotsAccounted, LineHeld

(* The deque without one of its seats, place by place. *)
LEMMA WithoutElements ==
  ASSUME TypeOK, NEW i \in 1..Len(waiters)
  PROVE  /\ Without(i) \in Seq(Jobs)
         /\ Len(Without(i)) = Len(waiters) - 1
         /\ \A k \in 1..(Len(waiters) - 1) :
              Without(i)[k] = waiters[IF k < i THEN k ELSE k + 1]
<1> DEFINE len == Len(waiters)
           left == SubSeq(waiters, 1, i - 1)
           right == SubSeq(waiters, i + 1, len)
<1>1. len \in Nat /\ i \in 1..len /\ \A k \in 1..len : waiters[k] \in Jobs
  BY DEF TypeOK
<1>2. /\ left \in Seq(Jobs) /\ Len(left) = i - 1
      /\ \A k \in 1..(i - 1) : left[k] = waiters[k]
  <2>1. /\ left \in Seq(Jobs)
        /\ Len(left) = IF 1 <= i - 1 THEN (i - 1) - 1 + 1 ELSE 0
        /\ \A k \in 1..((i - 1) - 1 + 1) : left[k] = waiters[1 + k - 1]
    <3>1. 1 \in Int /\ i - 1 \in Int /\ \A k \in 1..(i - 1) : waiters[k] \in Jobs
      BY <1>1
    <3> QED
      BY <3>1, SubSeqProperties
  <2> QED
    BY <2>1, <1>1
<1>3. /\ right \in Seq(Jobs) /\ Len(right) = len - i
      /\ \A k \in 1..(len - i) : right[k] = waiters[i + k]
  <2>1. /\ right \in Seq(Jobs)
        /\ Len(right) = IF i + 1 <= len THEN len - (i + 1) + 1 ELSE 0
        /\ \A k \in 1..(len - (i + 1) + 1) : right[k] = waiters[i + 1 + k - 1]
    <3>1. i + 1 \in Int /\ len \in Int /\ \A k \in (i + 1)..len : waiters[k] \in Jobs
      BY <1>1
    <3> QED
      BY <3>1, SubSeqProperties
  <2> QED
    BY <2>1, <1>1
<1> HIDE DEF left, right
<1>4. /\ Without(i) \in Seq(Jobs)
      /\ Len(Without(i)) = len - 1
      /\ \A k \in 1..(len - 1) : Without(i)[k] = waiters[IF k < i THEN k ELSE k + 1]
  <2>1. /\ left \o right \in Seq(Jobs)
        /\ Len(left \o right) = Len(left) + Len(right)
        /\ \A k \in 1..(Len(left) + Len(right)) : (left \o right)[k] =
             IF k <= Len(left) THEN left[k] ELSE right[k - Len(left)]
    BY <1>2, <1>3, ConcatProperties
  <2>2. Without(i) = left \o right
    BY DEF Without, left, right
  <2>3. Len(left) + Len(right) = len - 1
    BY <1>1, <1>2, <1>3
  <2>4. ASSUME NEW k \in 1..(len - 1)
        PROVE  (left \o right)[k] = waiters[IF k < i THEN k ELSE k + 1]
    <3>1. CASE k < i
      <4>1. k \in 1..(i - 1) /\ k <= Len(left)
        BY <1>1, <1>2, <3>1
      <4>2. k \in 1..(Len(left) + Len(right))
        BY <2>3
      <4>3. (left \o right)[k] = left[k]
        BY <2>1, <4>1, <4>2
      <4> QED
        BY <1>2, <3>1, <4>1, <4>3
    <3>2. CASE ~(k < i)
      <4>1. k - Len(left) \in 1..(len - i) /\ ~(k <= Len(left))
        BY <1>1, <1>2, <3>2
      <4>2. right[k - Len(left)] = waiters[i + (k - Len(left))]
        BY <4>1, <1>3
      <4>3. i + (k - Len(left)) = k + 1
        BY <1>1, <1>2
      <4> QED
        BY <2>1, <2>3, <3>2, <4>1, <4>2, <4>3
    <3> QED
      BY <3>1, <3>2
  <2> QED
    BY <2>1, <2>2, <2>3, <2>4
<1> QED
  BY <1>4

(* A cancelled caller takes its dead seat out of the deque, and no other.    *)
LEMMA LeaveLineInv ==
  ASSUME IndInv, NEW j \in Jobs, LeaveLine(j)
  PROVE  IndInv'
<1>1. /\ task[j] = "seated" /\ seat[j] = "cancelled"
      /\ seat' = [seat EXCEPT ![j] = "none"]
      /\ task' = [task EXCEPT ![j] = "away"]
      /\ stopping' = stopping \ {j}
      /\ limit' = limit /\ active' = active
  BY DEF LeaveLine
<1>2. TypeOK /\ LineInv /\ SeatMatchesTask /\ SlotsAccounted /\ LineHeld
  BY DEF IndInv
<1>3. SeatMatchesTask'
  BY <1>1, <1>2 DEF SeatMatchesTask, TypeOK
<1>4. Holders' = Holders
  BY <1>1, <1>2 DEF Holders, TypeOK
<1>5. CASE (\A i \in 1..Len(waiters) : waiters[i] # j) /\ waiters' = waiters
  <2>1. TypeOK'
    BY <1>1, <1>2, <1>5 DEF TypeOK, SeatStates, TaskStates
  <2>2. LineInv'
    BY <1>1, <1>2, <1>5 DEF LineInv, LineDistinct, LineUngranted, PendingInLine, TypeOK
  <2> QED
    BY <1>1, <1>2, <1>3, <1>4, <1>5, <2>1, <2>2 DEF IndInv, SlotsAccounted, LineHeld
<1>6. CASE \E i \in 1..Len(waiters) : waiters[i] = j /\ waiters' = Without(i)
  <2>1. PICK i \in 1..Len(waiters) : waiters[i] = j /\ waiters' = Without(i)
    BY <1>6
  <2> DEFINE len == Len(waiters)
  <2>2. len \in Nat /\ i \in 1..len /\ \A k \in 1..len : waiters[k] \in Jobs
    BY <1>2 DEF TypeOK
  <2>5. /\ waiters' \in Seq(Jobs)
        /\ Len(waiters') = len - 1
        /\ \A k \in 1..(len - 1) : waiters'[k] = waiters[IF k < i THEN k ELSE k + 1]
    BY <1>2, <2>1, WithoutElements
  <2>6. TypeOK'
    BY <1>1, <1>2, <2>5 DEF TypeOK, SeatStates, TaskStates
  <2>7. \A k \in 1..(len - 1) : waiters'[k] # j /\ waiters'[k] \in Jobs
    BY <1>2, <2>1, <2>2, <2>5 DEF LineInv, LineDistinct
  <2>8. LineDistinct'
    BY <1>2, <2>2, <2>5 DEF LineInv, LineDistinct
  <2>9. LineUngranted'
    BY <1>1, <1>2, <2>2, <2>5, <2>7 DEF LineInv, LineUngranted, TypeOK
  <2>10. PendingInLine'
    <3>1. SUFFICES ASSUME NEW k \in Jobs, seat'[k] = "pending"
                   PROVE  \E m \in 1..(len - 1) : waiters'[m] = k
      BY <2>5 DEF PendingInLine
    <3>2. k # j /\ seat[k] = "pending"
      BY <1>1, <1>2, <3>1 DEF TypeOK
    <3>3. PICK m \in 1..len : waiters[m] = k
      BY <1>2, <3>2 DEF LineInv, PendingInLine
    <3>4. CASE m < i
      BY <2>2, <2>5, <3>3, <3>4
    <3>5. CASE m > i
      <4>1. m - 1 \in 1..(len - 1) /\ ~(m - 1 < i) /\ m - 1 + 1 = m
        BY <2>2, <3>3, <3>5
      <4> QED
        BY <2>5, <3>3, <4>1
    <3> QED
      BY <2>1, <2>2, <3>2, <3>3, <3>4, <3>5
  <2>11. waiters # <<>>
    BY <2>2
  <2> QED
    BY <1>1, <1>2, <1>3, <1>4, <2>6, <2>8, <2>9, <2>10, <2>11
       DEF IndInv, LineInv, SlotsAccounted, LineHeld
<1> QED
  BY <1>5, <1>6 DEF LeaveLine

(* An engine swap changes the limit only.                                    *)
LEMMA SwapInv ==
  ASSUME IndInv, Swap
  PROVE  IndInv'
<1>1. /\ limit' \in 1..MaxLimit
      /\ active' = active /\ waiters' = waiters /\ seat' = seat /\ task' = task
      /\ stopping' = stopping
  BY DEF Swap
<1> QED
  BY <1>1 DEF IndInv, TypeOK, SeatMatchesTask, LineInv, LineDistinct, LineUngranted,
              PendingInLine, SlotsAccounted, Holders, LineHeld

(* Every step preserves the inductive invariant.                             *)
LEMMA NextInv ==
  ASSUME IndInv, [Next]_vars
  PROVE  IndInv'
<1>1. CASE Swap
  BY <1>1, SwapInv
<1>2. ASSUME NEW j \in Jobs,
             \/ AcquireNow(j) \/ TakeSeat(j) \/ AcquireRefused(j)
             \/ GiveUp(j) \/ Resume(j) \/ ResumeCancelled(j) \/ LeaveLine(j)
             \/ Release(j)
      PROVE  IndInv'
  <2>1. CASE AcquireNow(j)
    BY <2>1, AcquireNowInv
  <2>2. CASE TakeSeat(j)
    BY <2>2, TakeSeatInv
  <2>3. CASE AcquireRefused(j)
    BY <2>3, AcquireRefusedInv
  <2>4. CASE GiveUp(j)
    BY <2>4, GiveUpInv
  <2>5. CASE Resume(j)
    BY <2>5, ResumeInv
  <2>6. CASE ResumeCancelled(j)
    BY <2>6, ReleaseSlotInv DEF ResumeCancelled, Holders
  <2>7. CASE LeaveLine(j)
    BY <2>7, LeaveLineInv
  <2>8. CASE Release(j)
    BY <2>8, ReleaseSlotInv DEF Release, Holders
  <2> QED
    BY <1>2, <2>1, <2>2, <2>3, <2>4, <2>5, <2>6, <2>7, <2>8
<1>3. CASE UNCHANGED vars
  BY <1>3 DEF vars, IndInv, TypeOK, SeatMatchesTask, LineInv, LineDistinct, LineUngranted,
              PendingInLine, SlotsAccounted, Holders, LineHeld
<1> QED
  BY <1>1, <1>2, <1>3 DEF Next

(* The inductive invariant holds in every state of every behaviour.          *)
LEMMA InductiveInvariant == Spec => []IndInv
<1>1. Init => IndInv
  BY InitInv
<1>2. IndInv /\ [Next]_vars => IndInv'
  BY NextInv
<1> QED
  BY <1>1, <1>2, PTL DEF Spec

-----------------------------------------------------------------------------
(* Lemmas for the action properties.                                        *)

(* A _wake() that pops a seat stays within the limit. *)
LEMMA WakeUnderLimit ==
  ASSUME TypeOK, NEW count \in Nat, NEW n \in 0..Len(waiters), WakePops(count, n)
  PROVE  count + Cardinality(LiveAmong(n)) <= limit \/ Cardinality(LiveAmong(n)) = 0
<1>1. n \in Nat /\ limit \in Nat /\ Len(waiters) \in Nat
  BY MaxLimitAssumption DEF TypeOK
<1>2. CASE n = 0
  <2>1. LiveAmong(n) = {}
    BY <1>2 DEF LiveAmong
  <2> QED
    BY <2>1, FS_EmptySet
<1>3. CASE n > 0
  <2>1. n - 1 \in 0..(n - 1) /\ n - 1 \in Nat
    BY <1>1, <1>3
  <2>2. count + Cardinality(LiveAmong(n - 1)) < limit
    BY <2>1 DEF WakePops
  <2>3. /\ IsFiniteSet(LiveAmong(n - 1)) /\ Cardinality(LiveAmong(n - 1)) \in Nat
        /\ Cardinality(LiveAmong(n)) \in Nat
    BY <1>1, <2>1, FiniteHolders
  <2>4. LiveAmong(n) \subseteq LiveAmong(n - 1) \cup {waiters[n]}
    BY <1>1, <1>3 DEF LiveAmong
  <2>5. /\ IsFiniteSet(LiveAmong(n - 1) \cup {waiters[n]})
        /\ Cardinality(LiveAmong(n - 1) \cup {waiters[n]}) <= Cardinality(LiveAmong(n - 1)) + 1
    <3> DEFINE L == LiveAmong(n - 1)
               x == waiters[n]
    <3> HIDE DEF L, x
    <3>1. IsFiniteSet(L) /\ Cardinality(L) \in Nat
      BY <2>3 DEF L
    <3>2. /\ IsFiniteSet(L \cup {x})
          /\ Cardinality(L \cup {x}) = IF x \in L THEN Cardinality(L) ELSE Cardinality(L) + 1
      BY <3>1, FS_AddElement
    <3>3. Cardinality(L \cup {x}) <= Cardinality(L) + 1
      BY <3>1, <3>2
    <3> QED
      BY <3>2, <3>3 DEF L, x
  <2>6. Cardinality(LiveAmong(n)) <= Cardinality(LiveAmong(n - 1) \cup {waiters[n]})
    BY <2>4, <2>5, FS_Subset
  <2>7. Cardinality(LiveAmong(n - 1) \cup {waiters[n]}) \in Nat
    BY <2>5, FS_CardinalityType
  <2> QED
    BY <1>1, <2>2, <2>3, <2>5, <2>6, <2>7
<1> QED
  BY <1>1, <1>2, <1>3

(* Granting the first n seats passes nobody who still waits. *)
LEMMA WakePassesNobody ==
  ASSUME IndInv, NEW n \in 0..Len(waiters),
         NEW j \in LiveAmong(n), NEW k \in Waiting, Before(k, j)
  PROVE  k \in LiveAmong(n)
<1>1. TypeOK /\ LineInv /\ n \in Nat /\ Len(waiters) \in Nat
  BY DEF IndInv, TypeOK
<1>2. PICK i \in 1..n : waiters[i] = j
  BY DEF LiveAmong
<1>3. i \in 1..Len(waiters)
  BY <1>1, <1>2
<1>4. Position(j) = i
  <2>1. \A m \in 1..Len(waiters) : waiters[m] = j => m = i
    BY <1>1, <1>2, <1>3 DEF LineInv, LineDistinct
  <2> QED
    BY <1>2, <1>3, <2>1 DEF Position
<1>5. j \in InLine
  BY <1>2, <1>3 DEF InLine
<1>6. k \in Jobs /\ seat[k] = "pending"
  BY DEF Waiting
<1>7. PICK m \in 1..Len(waiters) : waiters[m] = k
  BY <1>1, <1>6 DEF LineInv, PendingInLine
<1>8. Position(k) = m
  <2>1. \A q \in 1..Len(waiters) : waiters[q] = k => q = m
    BY <1>1, <1>7 DEF LineInv, LineDistinct
  <2> QED
    BY <1>7, <2>1 DEF Position
<1>9. m \in 1..n
  BY <1>1, <1>2, <1>4, <1>5, <1>7, <1>8 DEF Before
<1> QED
  BY <1>6, <1>7, <1>9 DEF LiveAmong

(* If everybody in line was served, nobody waits any more. *)
LEMMA EmptiedLine ==
  ASSUME IndInv', waiters' = <<>>
  PROVE  Waiting' = {}
BY DEF IndInv, LineInv, PendingInLine, Waiting

(* Nothing is left of a line that was popped to its end.                     *)
LEMMA RestOfAll ==
  ASSUME TypeOK, LineInv, NEW n \in 0..Len(waiters)
  PROVE  n = Len(waiters) <=> Rest(n) = <<>>
<1>1. Rest(n) \in Seq(Jobs) /\ Len(Rest(n)) = Len(waiters) - n
  BY WakeKeepsLine
<1> QED
  BY <1>1 DEF TypeOK

(* What a step may do to the slots: run one _wake() over the line, maybe     *)
(* with a newcomer, or leave who holds a slot and who waits alone.           *)
WakeStep(n, count) ==
  /\ WakePops(count, n)
  /\ count <= active
  /\ Waiting' \subseteq {k \in Jobs : Seats(n)[k] = "pending"} \cup (Jobs \ Waiting)
  /\ Holders' \subseteq Holders \cup LiveAmong(n)
  /\ active' = count + Cardinality(LiveAmong(n))
  /\ n < Len(waiters) \/ waiters' = <<>> \/ active' >= limit

FastStep ==
  /\ waiters' = <<>>
  /\ active' <= limit

IdleStep ==
  /\ Holders' = Holders
  /\ Waiting' \subseteq Waiting
  /\ active' = active

(* Every step runs a _wake(), takes the fast path, or leaves slots and line. *)
LEMMA StepKinds ==
  ASSUME IndInv, [Next]_vars
  PROVE  FastStep \/ IdleStep \/ \E n \in 0..Len(waiters), count \in Nat : WakeStep(n, count)
<1>1. TypeOK /\ LineInv /\ SeatMatchesTask
  BY DEF IndInv
<1>2. CASE Swap
  BY <1>2 DEF Swap, IdleStep, Holders, Waiting
<1>3. CASE UNCHANGED vars
  BY <1>3 DEF vars, IdleStep, Holders, Waiting
<1>4. ASSUME NEW j \in Jobs, AcquireNow(j)
      PROVE  FastStep
  <2>1. PICK n \in 0..Len(waiters) :
          /\ n = Len(waiters)
          /\ active + Cardinality(LiveAmong(n)) < limit
          /\ active' = active + Cardinality(LiveAmong(n)) + 1
          /\ waiters' = Rest(n)
    BY <1>4 DEF AcquireNow
  <2>2. waiters' = <<>>
    BY <1>1, <2>1, RestOfAll
  <2>3. Cardinality(LiveAmong(n)) \in Nat /\ limit \in Nat /\ active \in Nat
    BY <1>1, FiniteHolders, MaxLimitAssumption DEF TypeOK
  <2> QED
    BY <2>1, <2>2, <2>3 DEF FastStep
<1>5. ASSUME NEW j \in Jobs, TakeSeat(j)
      PROVE  \E n \in 0..Len(waiters), count \in Nat : WakeStep(n, count)
  <2>1. PICK n \in 0..Len(waiters) :
          /\ WakePops(active, n)
          /\ NoRoom(n)
          /\ active' = active + Cardinality(LiveAmong(n))
          /\ seat' = [Seats(n) EXCEPT ![j] = "pending"]
    BY <1>5 DEF TakeSeat
  <2>2. task[j] = "away" /\ task' = [task EXCEPT ![j] = "seated"]
    BY <1>5 DEF TakeSeat
  <2>3. Seats(n) \in [Jobs -> SeatStates] /\ seat[j] = "none"
    BY <1>1, <2>2, WakeKeepsLine DEF SeatMatchesTask
  <2>4. Holders' \subseteq Holders \cup LiveAmong(n)
    BY <1>1, <2>1, <2>2, <2>3, WakeGrants DEF Holders, TypeOK
  <2>5. Waiting' \subseteq {k \in Jobs : Seats(n)[k] = "pending"} \cup (Jobs \ Waiting)
    BY <2>1, <2>3 DEF Waiting
  <2>6. active \in Nat /\ active <= active /\ (n < Len(waiters) \/ active' >= limit)
    BY <1>1, <2>1 DEF TypeOK, NoRoom
  <2> QED
    BY <2>1, <2>4, <2>5, <2>6 DEF WakeStep
<1>6. ASSUME NEW j \in Jobs, AcquireRefused(j)
      PROVE  \E n \in 0..Len(waiters), count \in Nat : WakeStep(n, count)
  <2>1. PICK n \in 0..Len(waiters) :
          /\ WakePops(active, n)
          /\ NoRoom(n)
          /\ active' = active + Cardinality(LiveAmong(n))
          /\ seat' = Seats(n)
    BY <1>6 DEF AcquireRefused
  <2>2. task' = task
    BY <1>6 DEF AcquireRefused
  <2>3. Holders' \subseteq Holders \cup LiveAmong(n)
    BY <1>1, <2>1, <2>2, WakeGrants DEF Holders
  <2>4. Waiting' \subseteq {k \in Jobs : Seats(n)[k] = "pending"} \cup (Jobs \ Waiting)
    BY <2>1 DEF Waiting
  <2>5. active \in Nat /\ active <= active /\ (n < Len(waiters) \/ active' >= limit)
    BY <1>1, <2>1 DEF TypeOK, NoRoom
  <2> QED
    BY <2>1, <2>3, <2>4, <2>5 DEF WakeStep
<1>7. ASSUME NEW j \in Jobs, ReleaseSlot(j)
      PROVE  \E n \in 0..Len(waiters), count \in Nat : WakeStep(n, count)
  <2>1. PICK n \in 0..Len(waiters) :
          /\ WakePops(Released(active), n)
          /\ active' = Released(active) + Cardinality(LiveAmong(n))
          /\ waiters' = Rest(n)
          /\ seat' = [Seats(n) EXCEPT ![j] = "none"]
    BY <1>7 DEF ReleaseSlot
  <2>2. task' = [task EXCEPT ![j] = "away"]
    BY <1>7 DEF ReleaseSlot
  <2>3. Seats(n) \in [Jobs -> SeatStates]
    BY <1>1, WakeKeepsLine
  <2>4. Holders' \subseteq Holders \cup LiveAmong(n)
    BY <1>1, <2>1, <2>2, <2>3, WakeGrants DEF Holders, TypeOK
  <2>5. Waiting' \subseteq {k \in Jobs : Seats(n)[k] = "pending"} \cup (Jobs \ Waiting)
    BY <2>1, <2>3 DEF Waiting
  <2>6. Released(active) \in Nat /\ Released(active) <= active
    BY <1>1 DEF TypeOK, Released
  <2>7. n < Len(waiters) \/ waiters' = <<>>
    BY <1>1, <2>1, RestOfAll DEF TypeOK
  <2> QED
    BY <2>1, <2>4, <2>5, <2>6, <2>7 DEF WakeStep
<1>8. ASSUME NEW j \in Jobs, GiveUp(j) \/ Resume(j) \/ LeaveLine(j)
      PROVE  IdleStep
  <2>1. CASE GiveUp(j)
    BY <1>1, <2>1 DEF GiveUp, IdleStep, Holders, Waiting, TypeOK
  <2>2. CASE Resume(j)
    BY <1>1, <2>2 DEF Resume, IdleStep, Holders, Waiting, TypeOK
  <2>3. CASE LeaveLine(j)
    BY <1>1, <2>3 DEF LeaveLine, IdleStep, Holders, Waiting, TypeOK
  <2> QED
    BY <1>8, <2>1, <2>2, <2>3
<1> QED
  BY <1>2, <1>3, <1>4, <1>5, <1>6, <1>7, <1>8 DEF Next, Release, ResumeCancelled

(* The line is served in order by every step of these kinds. *)
LEMMA StepProperties ==
  ASSUME IndInv, IndInv', [Next]_vars
  PROVE  /\ active' > active => active' <= limit
         /\ \A j \in Holders' \ Holders, k \in Waiting : Before(k, j) => k \notin Waiting'
         /\ (Holders' # Holders \/ ~(Waiting' \subseteq Waiting))
              => (Waiting' = {} \/ active' >= limit)
<1>1. TypeOK /\ TypeOK' /\ LineInv
  BY DEF IndInv
<1>2. CASE FastStep
  BY <1>2, EmptiedLine DEF FastStep
<1>3. CASE IdleStep
  BY <1>1, <1>3 DEF IdleStep, TypeOK
<1>4. ASSUME NEW n \in 0..Len(waiters), NEW count \in Nat, WakeStep(n, count)
      PROVE  /\ active' > active => active' <= limit
             /\ \A j \in Holders' \ Holders, k \in Waiting : Before(k, j) => k \notin Waiting'
             /\ Waiting' = {} \/ active' >= limit
  <2>1. n \in Nat /\ Cardinality(LiveAmong(n)) \in Nat
    BY <1>1, FiniteHolders DEF TypeOK
  <2>2. active' > active => active' <= limit
    BY <1>1, <1>4, <2>1, WakeUnderLimit DEF WakeStep, TypeOK
  <2>3. ASSUME NEW j \in Holders' \ Holders, NEW k \in Waiting, Before(k, j)
        PROVE  k \notin Waiting'
    <3>1. j \in LiveAmong(n)
      BY <1>4 DEF WakeStep
    <3>2. k \in LiveAmong(n)
      BY <2>3, <3>1, WakePassesNobody
    <3>3. Seats(n)[k] # "pending"
      BY <1>1, <3>2, WakeGrants DEF Seats
    <3> QED
      BY <1>4, <3>3 DEF WakeStep
  <2>4. Waiting' = {} \/ active' >= limit
    <3>1. CASE n < Len(waiters)
      BY <1>4, <3>1 DEF WakeStep, WakePops
    <3>2. CASE waiters' = <<>>
      BY <3>2, EmptiedLine
    <3> QED
      BY <1>4, <3>1, <3>2 DEF WakeStep
  <2> QED
    BY <2>2, <2>3, <2>4
<1> QED
  BY <1>2, <1>3, <1>4, StepKinds

-----------------------------------------------------------------------------
(* The limiter implements SlotPool.                                         *)

(* Who stands before whom, by positions. *)
LEMMA Ordered ==
  ASSUME NEW w, NEW S, NEW k, NEW j
  PROVE  <<k, j>> \in InOrder(w, S) <=>
           /\ k \in S /\ j \in S
           /\ \E a, b \in 1..Len(w) : a < b /\ w[a] = k /\ w[b] = j
BY DEF InOrder

(* Two orders of the same callers are equal if they agree on every pair. *)
LEMMA SameOrder ==
  ASSUME NEW S, NEW A \in SUBSET (S \X S), NEW B \in SUBSET (S \X S),
         \A k, j \in S : <<k, j>> \in A <=> <<k, j>> \in B
  PROVE  A = B
OBVIOUS

(* Whoever waits stands at some place of the deque. *)
LEMMA WaitersStand ==
  ASSUME IndInv, NEW k \in Waiting
  PROVE  \E a \in 1..Len(waiters) : waiters[a] = k
BY DEF IndInv, LineInv, PendingInLine, Waiting

(* The seats that are popped are a front of the line, and those behind it    *)
(* keep their order.                                                         *)
LEMMA WakeTakesFront ==
  ASSUME IndInv, NEW n \in 0..Len(waiters)
  PROVE  /\ LiveAmong(n) \in SUBSET Waiting
         /\ Pool!Front(LiveAmong(n))
         /\ n = Len(waiters) => LiveAmong(n) = Waiting
<1>1. TypeOK /\ LineInv /\ n \in Nat /\ Len(waiters) \in Nat /\ n <= Len(waiters)
  BY DEF IndInv, TypeOK
<1>2. LiveAmong(n) \in SUBSET Waiting
  BY DEF LiveAmong, Waiting
<1>3. ASSUME NEW j \in LiveAmong(n), NEW k \in Waiting, <<k, j>> \in InOrder(waiters, Waiting)
      PROVE  k \in LiveAmong(n)
  <2>1. PICK a, b \in 1..Len(waiters) : a < b /\ waiters[a] = k /\ waiters[b] = j
    BY <1>3, Ordered
  <2>2. PICK i \in 1..n : waiters[i] = j
    BY DEF LiveAmong
  <2>3. b = i
    BY <1>1, <2>1, <2>2 DEF LineInv, LineDistinct
  <2>4. a \in 1..n
    BY <1>1, <2>1, <2>3
  <2> QED
    BY <2>1, <2>4 DEF LiveAmong, Waiting
<1>4. n = Len(waiters) => LiveAmong(n) = Waiting
  BY <1>1 DEF LiveAmong, Waiting, LineInv, PendingInLine
<1> QED
  BY <1>2, <1>3, <1>4 DEF Pool!Front

LEMMA WakeKeepsOrder ==
  ASSUME IndInv, NEW n \in 0..Len(waiters), NEW W, W = Waiting \ LiveAmong(n)
  PROVE  InOrder(Rest(n), W) = InOrder(waiters, Waiting) \cap (W \X W)
<1> DEFINE len == Len(waiters)
<1>1. TypeOK /\ LineInv /\ len \in Nat /\ n \in Nat /\ n <= len
  BY DEF IndInv, TypeOK
<1>2. Len(Rest(n)) = len - n /\ \A i \in 1..(len - n) : Rest(n)[i] = waiters[n + i]
  <2>1. n + 1 \in Int /\ len \in Int /\ \A i \in (n + 1)..len : waiters[i] \in Jobs
    BY <1>1 DEF TypeOK
  <2>2. /\ Len(Rest(n)) = IF n + 1 <= len THEN len - (n + 1) + 1 ELSE 0
        /\ \A i \in 1..(len - (n + 1) + 1) : Rest(n)[i] = waiters[n + 1 + i - 1]
    BY <2>1, SubSeqProperties DEF Rest
  <2> QED
    BY <2>2, <1>1
<1>3. ASSUME NEW k \in W, NEW j \in W
      PROVE  <<k, j>> \in InOrder(Rest(n), W) <=> <<k, j>> \in InOrder(waiters, Waiting)
  <2>1. k \in Waiting /\ j \in Waiting /\ k \notin LiveAmong(n) /\ j \notin LiveAmong(n)
    OBVIOUS
  <2>2. ASSUME <<k, j>> \in InOrder(Rest(n), W)
        PROVE  <<k, j>> \in InOrder(waiters, Waiting)
    <3>1. PICK a, b \in 1..(len - n) : a < b /\ Rest(n)[a] = k /\ Rest(n)[b] = j
      BY <1>2, <2>2, Ordered
    <3>2. n + a \in 1..len /\ n + b \in 1..len /\ n + a < n + b
      BY <1>1, <3>1
    <3>3. waiters[n + a] = k /\ waiters[n + b] = j
      BY <1>2, <3>1
    <3> QED
      BY <2>1, <3>2, <3>3, Ordered
  <2>3. ASSUME <<k, j>> \in InOrder(waiters, Waiting)
        PROVE  <<k, j>> \in InOrder(Rest(n), W)
    <3>1. PICK a, b \in 1..len : a < b /\ waiters[a] = k /\ waiters[b] = j
      BY <2>3, Ordered
    <3>2. ~(a \in 1..n)
      BY <2>1, <3>1 DEF LiveAmong, Waiting
    <3>3. a - n \in 1..(len - n) /\ b - n \in 1..(len - n) /\ a - n < b - n
      BY <1>1, <3>1, <3>2
    <3>4. n + (a - n) = a /\ n + (b - n) = b
      BY <1>1, <3>1
    <3>5. Rest(n)[a - n] = k /\ Rest(n)[b - n] = j
      BY <1>2, <3>1, <3>3, <3>4
    <3>6. a - n \in 1..Len(Rest(n)) /\ b - n \in 1..Len(Rest(n))
      BY <1>2, <3>3
    <3> QED
      BY <3>3, <3>5, <3>6, Ordered
  <2> QED
    BY <2>2, <2>3
<1>4. InOrder(Rest(n), W) \in SUBSET (W \X W)
  BY DEF InOrder
<1> DEFINE S      == W
           after  == InOrder(Rest(n), W)
           before == InOrder(waiters, Waiting) \cap (W \X W)
<1>5. after \in SUBSET (S \X S) /\ before \in SUBSET (S \X S)
  BY <1>4
<1>6. \A k, j \in S : <<k, j>> \in after <=> <<k, j>> \in before
  BY <1>3
<1> HIDE DEF S, after, before
<1>7. after = before
  BY <1>5, <1>6, SameOrder
<1> QED
  BY <1>7 DEF after, before

(* A newcomer stands behind everybody who still waits. *)
LEMMA SeatIsLast ==
  ASSUME NEW w \in Seq(Jobs), NEW W \in SUBSET Jobs, NEW j \in Jobs, j \notin W,
         \A k \in W : \E a \in 1..Len(w) : w[a] = k,
         \A a \in 1..Len(w) : w[a] # j
  PROVE  InOrder(Append(w, j), W \cup {j}) = InOrder(w, W) \cup (W \X {j})
<1> DEFINE v == Append(w, j)
           len == Len(w)
<1>1. /\ len \in Nat /\ Len(v) = len + 1 /\ v[len + 1] = j
      /\ \A a \in 1..len : v[a] = w[a]
  OBVIOUS
<1> HIDE DEF v, len
<1>2. ASSUME NEW k \in W \cup {j}, NEW m \in W \cup {j}
      PROVE  <<k, m>> \in InOrder(v, W \cup {j}) <=> <<k, m>> \in InOrder(w, W) \cup (W \X {j})
  <2>1. CASE k = j
    <3>1. ~ \E a, b \in 1..Len(v) : a < b /\ v[a] = k /\ v[b] = m
      <4>1. ASSUME NEW a \in 1..Len(v), NEW b \in 1..Len(v), a < b PROVE v[a] # j
        <5>1. a \in 1..len
          BY <1>1, <4>1
        <5> QED
          BY <1>1, <5>1 DEF len
      <4> QED
        BY <2>1, <4>1
    <3>2. <<k, m>> \notin InOrder(v, W \cup {j})
      BY <3>1, Ordered
    <3>3. <<k, m>> \notin InOrder(w, W)
      BY <2>1, Ordered
    <3> QED
      BY <2>1, <3>2, <3>3
  <2>2. CASE k \in W /\ m = j
    <3>1. PICK a \in 1..len : w[a] = k
      BY <2>2 DEF len
    <3>2. a \in 1..Len(v) /\ len + 1 \in 1..Len(v) /\ a < len + 1 /\ v[a] = k /\ v[len + 1] = m
      BY <1>1, <2>2, <3>1
    <3>3. <<k, m>> \in InOrder(v, W \cup {j})
      BY <3>2, Ordered
    <3> QED
      BY <2>2, <3>3
  <2>3. CASE k \in W /\ m \in W
    <3>1. ASSUME <<k, m>> \in InOrder(v, W \cup {j}) PROVE <<k, m>> \in InOrder(w, W)
      <4>1. PICK a, b \in 1..Len(v) : a < b /\ v[a] = k /\ v[b] = m
        BY <3>1, Ordered
      <4>2. a \in 1..len /\ b \in 1..len
        BY <1>1, <2>3, <4>1
      <4>3. a \in 1..Len(w) /\ b \in 1..Len(w) /\ w[a] = k /\ w[b] = m
        BY <1>1, <4>1, <4>2 DEF len
      <4> QED
        BY <2>3, <4>1, <4>3, Ordered
    <3>2. ASSUME <<k, m>> \in InOrder(w, W) PROVE <<k, m>> \in InOrder(v, W \cup {j})
      <4>1. PICK a, b \in 1..len : a < b /\ w[a] = k /\ w[b] = m
        BY <3>2, Ordered DEF len
      <4>2. a \in 1..Len(v) /\ b \in 1..Len(v) /\ v[a] = k /\ v[b] = m
        BY <1>1, <4>1
      <4> QED
        BY <4>1, <4>2, Ordered
    <3> QED
      BY <2>3, <3>1, <3>2
  <2> QED
    BY <2>1, <2>2, <2>3
<1>3. InOrder(v, W \cup {j}) \in SUBSET ((W \cup {j}) \X (W \cup {j}))
  BY DEF InOrder
<1>4. InOrder(w, W) \cup (W \X {j}) \in SUBSET ((W \cup {j}) \X (W \cup {j}))
  BY DEF InOrder
<1> DEFINE S     == W \cup {j}
           after == InOrder(v, W \cup {j})
           told  == InOrder(w, W) \cup (W \X {j})
<1>5. /\ after \in SUBSET (S \X S) /\ told \in SUBSET (S \X S)
      /\ \A k, m \in S : <<k, m>> \in after <=> <<k, m>> \in told
  BY <1>2, <1>3, <1>4
<1> HIDE DEF S, after, told
<1>6. after = told
  BY <1>5, SameOrder
<1> QED
  BY <1>6 DEF after, told, v

(* Counting is the same in the pool. *)
LEMMA PoolCounts == \A S : Pool!Cardinality(S) = Cardinality(S)
BY Zenon DEF Pool!Cardinality, Cardinality

(* A _wake() hands the pool's slots to a front of the line and to no more.   *)
LEMMA WakeServes ==
  ASSUME IndInv, NEW h, NEW count \in Nat, count = Cardinality(h),
         NEW n \in 0..Len(waiters), WakePops(count, n)
  PROVE  Pool!Serves(h, LiveAmong(n))
<1>1. TypeOK /\ Len(waiters) \in Nat /\ limit \in Nat /\ n \in Nat
  BY MaxLimitAssumption DEF IndInv, TypeOK
<1>0. Cardinality(LiveAmong(n)) \in Nat /\ IsFiniteSet(LiveAmong(n))
  BY <1>1, FiniteHolders
<1>2. LiveAmong(n) = Waiting \/ Cardinality(h) + Cardinality(LiveAmong(n)) >= limit
  BY <1>0, <1>1, WakeTakesFront DEF WakePops
<1>3. LiveAmong(n) # {} => Cardinality(h) + Cardinality(LiveAmong(n)) <= limit
  <2>1. Cardinality(LiveAmong(n)) = 0 => LiveAmong(n) = {}
    BY <1>0, FS_EmptySet
  <2> QED
    BY <1>0, <1>1, <2>1, WakeUnderLimit
<1>4. Pool!Front(LiveAmong(n))
  BY WakeTakesFront
<1> QED
  BY <1>2, <1>3, <1>4, PoolCounts DEF Pool!Serves

(* Who holds and who waits after a _wake() and what its caller did. *)
LEMMA WakeLeaves ==
  ASSUME IndInv, NEW n \in 0..Len(waiters), NEW j \in Jobs
  PROVE  LET none == [Seats(n) EXCEPT ![j] = "none"]
             last == [Seats(n) EXCEPT ![j] = "pending"]
         IN  /\ seat' = Seats(n) => Waiting' = Waiting \ LiveAmong(n)
             /\ seat[j] # "pending" /\ seat' = none => Waiting' = Waiting \ LiveAmong(n)
             /\ seat[j] # "pending" /\ seat' = last =>
                  Waiting' = (Waiting \ LiveAmong(n)) \cup {j}
<1>1. TypeOK
  BY DEF IndInv
<1>2. Seats(n) \in [Jobs -> SeatStates]
  BY WakeKeepsLine DEF IndInv
<1>3. \A k \in Jobs : Seats(n)[k] = "pending" <=> k \in Waiting \ LiveAmong(n)
  BY <1>1 DEF Seats, Waiting
<1>4. seat' = Seats(n) => Waiting' = Waiting \ LiveAmong(n)
  BY <1>3 DEF Waiting
<1>5. seat[j] # "pending" /\ seat' = [Seats(n) EXCEPT ![j] = "none"]
        => Waiting' = Waiting \ LiveAmong(n)
  BY <1>2, <1>3 DEF Waiting
<1>6. seat[j] # "pending" /\ seat' = [Seats(n) EXCEPT ![j] = "pending"]
        => Waiting' = (Waiting \ LiveAmong(n)) \cup {j}
  BY <1>2, <1>3 DEF Waiting
<1> QED
  BY <1>4, <1>5, <1>6

(* Taking the seat of somebody who does not wait out of the deque moves      *)
(* nobody who does.                                                          *)
LEMMA WithoutKeepsOrder ==
  ASSUME TypeOK, NEW i \in 1..Len(waiters), waiters[i] \notin Waiting
  PROVE  InOrder(Without(i), Waiting) = InOrder(waiters, Waiting)
<1> DEFINE len == Len(waiters)
           w   == Without(i)
<1>1. len \in Nat /\ i \in 1..len
  BY DEF TypeOK
<1>2. Len(w) = len - 1 /\ \A k \in 1..(len - 1) : w[k] = waiters[IF k < i THEN k ELSE k + 1]
  BY WithoutElements
<1> HIDE DEF w
<1>3. ASSUME NEW k \in Waiting, NEW j \in Waiting
      PROVE  <<k, j>> \in InOrder(w, Waiting) <=> <<k, j>> \in InOrder(waiters, Waiting)
  <2>1. ASSUME <<k, j>> \in InOrder(w, Waiting)
        PROVE  <<k, j>> \in InOrder(waiters, Waiting)
    <3>1. PICK a, b \in 1..(len - 1) : a < b /\ w[a] = k /\ w[b] = j
      BY <1>2, <2>1, Ordered
    <3> DEFINE c == IF a < i THEN a ELSE a + 1
               d == IF b < i THEN b ELSE b + 1
    <3>2. c \in 1..len /\ d \in 1..len /\ c < d
      BY <1>1, <3>1
    <3>3. waiters[c] = k /\ waiters[d] = j
      BY <1>2, <3>1
    <3> HIDE DEF c, d
    <3> QED
      BY <3>2, <3>3, Ordered
  <2>2. ASSUME <<k, j>> \in InOrder(waiters, Waiting)
        PROVE  <<k, j>> \in InOrder(w, Waiting)
    <3>1. PICK a, b \in 1..len : a < b /\ waiters[a] = k /\ waiters[b] = j
      BY <2>2, Ordered
    <3>2. a # i /\ b # i
      BY <3>1
    <3> DEFINE c == IF a < i THEN a ELSE a - 1
               d == IF b < i THEN b ELSE b - 1
    <3>3. c \in 1..(len - 1) /\ d \in 1..(len - 1) /\ c < d
      BY <1>1, <3>1, <3>2
    <3>4. (IF c < i THEN c ELSE c + 1) = a /\ (IF d < i THEN d ELSE d + 1) = b
      BY <1>1, <3>1, <3>2
    <3> HIDE DEF c, d
    <3>5. w[c] = k /\ w[d] = j
      BY <1>2, <3>1, <3>3, <3>4
    <3>6. c \in 1..Len(w) /\ d \in 1..Len(w)
      BY <1>2, <3>3
    <3> QED
      BY <3>3, <3>5, <3>6, Ordered
  <2> QED
    BY <2>1, <2>2
<1> DEFINE S      == Waiting
           after  == InOrder(w, Waiting)
           before == InOrder(waiters, Waiting)
<1>4. /\ after \in SUBSET (S \X S) /\ before \in SUBSET (S \X S)
      /\ \A k, j \in S : <<k, j>> \in after <=> <<k, j>> \in before
  BY <1>3 DEF InOrder
<1> HIDE DEF S, after, before
<1>5. after = before
  BY <1>4, SameOrder
<1> QED
  BY <1>5 DEF after, before, w

(* Whoever is not in acquire() and does not decode is outside the pool.      *)
LEMMA AwayIsOutside ==
  ASSUME IndInv, NEW j \in Jobs, task[j] = "away"
  PROVE  seat[j] = "none" /\ Pool!Outside(j)
<1>1. seat[j] = "none"
  BY DEF IndInv, SeatMatchesTask
<1>2. j \notin Holders /\ j \notin Waiting
  BY <1>1 DEF Holders, Waiting
<1> QED
  BY <1>1, <1>2 DEF Pool!Outside

(* A _wake() that leaves the line to those behind its last seat.             *)
LEMMA WakeStays ==
  ASSUME IndInv, NEW n \in 0..Len(waiters), waiters' = Rest(n), Waiting' = Waiting \ LiveAmong(n)
  PROVE  Pool!Stay(Waiting \ LiveAmong(n))
<1> DEFINE W == Waiting \ LiveAmong(n)
<1>1. InOrder(Rest(n), W) = InOrder(waiters, Waiting) \cap (W \X W)
  BY WakeKeepsOrder
<1> QED
  BY <1>1 DEF Pool!Stay

(* The three ways out of the first step of acquire() enter the pool, join    *)
(* its line, or are sent away.                                               *)
LEMMA AcquireNowEnters ==
  ASSUME IndInv, NEW j \in Jobs, AcquireNow(j)
  PROVE  Pool!Enter(j)
<1>1. PICK n \in 0..Len(waiters) :
        /\ WakePops(active, n)
        /\ n = Len(waiters)
        /\ active + Cardinality(LiveAmong(n)) < limit
        /\ waiters' = Rest(n)
        /\ seat' = Seats(n)
  BY DEF AcquireNow
<1> DEFINE L == LiveAmong(n)
<1>2. task[j] = "away" /\ task' = [task EXCEPT ![j] = "checkpoint"] /\ limit' = limit
  BY DEF AcquireNow
<1>3. TypeOK /\ SlotsAccounted /\ active \in Nat
  BY DEF IndInv, TypeOK
<1>4. L \in SUBSET Waiting /\ L = Waiting
  BY <1>1, WakeTakesFront
<1>5. Waiting' = Waiting \ L
  BY <1>1, WakeLeaves
<1>6. Pool!Stay({})
  BY <1>1, <1>4, <1>5, WakeStays
<1>7. Holders' = Holders \cup L \cup {j}
  BY <1>1, <1>2, <1>3, WakeGrants DEF Holders, TypeOK
<1>8. Pool!Serves(Holders, L)
  BY <1>1, <1>3, WakeServes DEF SlotsAccounted
<1>9. Pool!Cardinality(Holders) + Pool!Cardinality(L) < limit
  BY <1>1, <1>3, PoolCounts DEF SlotsAccounted
<1>10. Pool!Outside(j)
  BY <1>2, AwayIsOutside
<1> HIDE DEF L
<1> QED
  BY <1>2, <1>4, <1>6, <1>7, <1>8, <1>9, <1>10 DEF Pool!Enter

(* With no room, what is left of the line is left, with a last one or not.   *)
LEMMA NoRoomEnters ==
  ASSUME IndInv, NEW j \in Jobs, task[j] = "away", NEW n \in 0..Len(waiters),
         WakePops(active, n), NoRoom(n), limit' = limit,
         Holders' = Holders \cup LiveAmong(n),
         \/ Pool!Stay(Waiting \ LiveAmong(n)) \/ Pool!Join(Waiting \ LiveAmong(n), j)
  PROVE  Pool!Enter(j)
<1> DEFINE L == LiveAmong(n)
<1>1. TypeOK /\ SlotsAccounted /\ active \in Nat /\ n \in Nat /\ limit \in Nat
  BY MaxLimitAssumption DEF IndInv, TypeOK
<1>2. Cardinality(L) \in Nat
  BY <1>1, FiniteHolders
<1>3. ~(Pool!Cardinality(Holders) + Pool!Cardinality(L) < limit)
  BY <1>1, <1>2, PoolCounts DEF SlotsAccounted, NoRoom, WakePops
<1>4. L \in SUBSET Waiting
  BY WakeTakesFront
<1>5. Pool!Serves(Holders, L)
  BY <1>1, WakeServes DEF SlotsAccounted
<1>6. Pool!Outside(j)
  BY AwayIsOutside
<1> HIDE DEF L
<1>7. Holders' = Holders \cup L /\ (Pool!Stay(Waiting \ L) \/ Pool!Join(Waiting \ L, j))
  BY DEF L
<1> QED
  BY <1>3, <1>4, <1>5, <1>6, <1>7 DEF Pool!Enter

LEMMA TakeSeatEnters ==
  ASSUME IndInv, NEW j \in Jobs, TakeSeat(j)
  PROVE  Pool!Enter(j)
<1>1. PICK n \in 0..Len(waiters) :
        /\ WakePops(active, n)
        /\ NoRoom(n)
        /\ waiters' = Append(Rest(n), j)
        /\ seat' = [Seats(n) EXCEPT ![j] = "pending"]
  BY DEF TakeSeat
<1>2. task[j] = "away" /\ task' = [task EXCEPT ![j] = "seated"] /\ limit' = limit
  BY DEF TakeSeat
<1>3. TypeOK /\ LineInv /\ seat[j] = "none"
  BY <1>2, AwayIsOutside DEF IndInv
<1> DEFINE W == Waiting \ LiveAmong(n)
<1>4. Waiting' = W \cup {j}
  BY <1>1, <1>3, WakeLeaves
<1>5. /\ Rest(n) \in Seq(Jobs) /\ Seats(n) \in [Jobs -> SeatStates]
      /\ \A i \in 1..Len(Rest(n)) : Seats(n)[Rest(n)[i]] \in {"pending", "cancelled"}
      /\ \A k \in Jobs : Seats(n)[k] = "pending" => \E i \in 1..Len(Rest(n)) : Rest(n)[i] = k
  BY <1>3, WakeKeepsLine
<1>6. Seats(n)[j] = "none"
  BY <1>3, WakeGrants
<1>7. W \in SUBSET Jobs /\ j \notin W
  BY <1>3 DEF Waiting
<1>8. \A k \in W : \E a \in 1..Len(Rest(n)) : Rest(n)[a] = k
  BY <1>5 DEF Seats, Waiting
<1>9. \A a \in 1..Len(Rest(n)) : Rest(n)[a] # j
  BY <1>5, <1>6
<1>10. InOrder(Rest(n), W) = InOrder(waiters, Waiting) \cap (W \X W)
  BY WakeKeepsOrder
<1>11. InOrder(Append(Rest(n), j), W \cup {j}) = InOrder(Rest(n), W) \cup (W \X {j})
  <2> DEFINE w == Rest(n)
  <2> HIDE DEF W, w
  <2>1. w \in Seq(Jobs) /\ (\A k \in W : \E a \in 1..Len(w) : w[a] = k)
        /\ \A a \in 1..Len(w) : w[a] # j
    BY <1>5, <1>8, <1>9 DEF w
  <2>2. InOrder(Append(w, j), W \cup {j}) = InOrder(w, W) \cup (W \X {j})
    BY <1>7, <2>1, SeatIsLast
  <2> QED
    BY <2>2 DEF w
<1>12. Pool!Join(W, j)
  BY <1>1, <1>4, <1>10, <1>11 DEF Pool!Join
<1>13. Holders' = Holders \cup LiveAmong(n)
  BY <1>1, <1>2, <1>3, <1>5, WakeGrants DEF Holders, TypeOK
<1> QED
  BY <1>1, <1>2, <1>12, <1>13, NoRoomEnters

LEMMA AcquireRefusedEnters ==
  ASSUME IndInv, NEW j \in Jobs, AcquireRefused(j)
  PROVE  Pool!Enter(j)
<1>1. PICK n \in 0..Len(waiters) :
        /\ WakePops(active, n)
        /\ NoRoom(n)
        /\ waiters' = Rest(n)
        /\ seat' = Seats(n)
  BY DEF AcquireRefused
<1>2. task[j] = "away" /\ task' = task /\ limit' = limit
  BY DEF AcquireRefused
<1>3. Pool!Stay(Waiting \ LiveAmong(n))
  BY <1>1, WakeLeaves, WakeStays
<1>4. Holders' = Holders \cup LiveAmong(n)
  BY <1>1, <1>2, WakeGrants DEF IndInv, Holders
<1> QED
  BY <1>1, <1>2, <1>3, <1>4, NoRoomEnters

(* A slot that is released, by a decode that ended or a caller that was      *)
(* cancelled with it, goes back to the pool and on to the front of the line. *)
LEMMA ReleaseGivesBack ==
  ASSUME IndInv, NEW j \in Jobs, j \in Holders, ReleaseSlot(j)
  PROVE  Pool!GiveBack(j)
<1>1. PICK n \in 0..Len(waiters) :
        /\ WakePops(Released(active), n)
        /\ waiters' = Rest(n)
        /\ seat' = [Seats(n) EXCEPT ![j] = "none"]
  BY DEF ReleaseSlot
<1> DEFINE L == LiveAmong(n)
<1>2. task' = [task EXCEPT ![j] = "away"] /\ limit' = limit
  BY DEF ReleaseSlot
<1>3. TypeOK /\ LineInv /\ SeatMatchesTask /\ SlotsAccounted
  BY DEF IndInv
<1>4. IsFiniteSet(Holders) /\ Cardinality(Holders) \in Nat
  BY FiniteHolders
<1>5. /\ Cardinality(Holders \ {j}) = Cardinality(Holders) - 1
      /\ Cardinality(Holders \ {j}) \in Nat
  BY <1>4, FS_RemoveElement, FS_CardinalityType
<1>6. Released(active) = Cardinality(Holders \ {j}) /\ Released(active) \in Nat
  BY <1>3, <1>4, <1>5 DEF Released, SlotsAccounted
<1>7. seat[j] # "pending" /\ j \notin L
  BY <1>3, WakeGrants DEF Holders, SeatMatchesTask, TypeOK
<1>8. Waiting' = Waiting \ L
  BY <1>1, <1>7, WakeLeaves
<1>9. Pool!Stay(Waiting \ L)
  BY <1>1, <1>8, WakeStays
<1>10. Seats(n) \in [Jobs -> SeatStates]
  BY <1>3, WakeKeepsLine
<1>11. Holders' = (Holders \ {j}) \cup L
  BY <1>1, <1>2, <1>3, <1>7, <1>10, WakeGrants DEF Holders, TypeOK
<1>12. Pool!Serves(Holders \ {j}, L)
  BY <1>1, <1>6, WakeServes
<1>13. L \in SUBSET Waiting
  BY WakeTakesFront
<1> HIDE DEF L
<1> QED
  BY <1>2, <1>9, <1>11, <1>12, <1>13 DEF Pool!GiveBack

(* A caller that gives up while it waits leaves the pool's line, where its   *)
(* seat may still stand in the deque; one with a slot keeps it for now.      *)
LEMMA GiveUpLeaves ==
  ASSUME IndInv, NEW j \in Jobs, GiveUp(j)
  PROVE  Pool!Leave(j) \/ UNCHANGED Pool!poolvars
<1>1. /\ limit' = limit /\ waiters' = waiters /\ task' = task
      /\ seat' = [seat EXCEPT ![j] = IF seat[j] = "pending" THEN "cancelled" ELSE @]
  BY DEF GiveUp
<1>2. TypeOK
  BY DEF IndInv
<1>3. Holders' = Holders
  BY <1>1, <1>2 DEF Holders, TypeOK
<1>4. CASE seat[j] = "pending"
  <2>1. j \in Waiting /\ Waiting' = Waiting \ {j}
    BY <1>1, <1>2, <1>4 DEF Waiting, TypeOK
  <2> DEFINE W == Waiting \ {j}
  <2>2. InOrder(waiters, W) = InOrder(waiters, Waiting) \cap (W \X W)
    BY DEF InOrder
  <2>3. Pool!Stay(Waiting \ {j})
    BY <1>1, <2>1, <2>2 DEF Pool!Stay
  <2> QED
    BY <1>1, <1>3, <2>1, <2>3 DEF Pool!Leave
<1>5. CASE seat[j] # "pending"
  <2>1. Waiting' = Waiting
    BY <1>1, <1>2, <1>5 DEF Waiting, TypeOK
  <2> QED
    BY <1>1, <1>3, <2>1 DEF Pool!poolvars
<1> QED
  BY <1>4, <1>5

(* The pool does not see a caller resume with its slot, *)
LEMMA ResumeUnseen ==
  ASSUME IndInv, NEW j \in Jobs, Resume(j)
  PROVE  UNCHANGED Pool!poolvars
<1>1. Holders' = Holders /\ Waiting' = Waiting
  BY DEF IndInv, TypeOK, SeatMatchesTask, Resume, Holders, Waiting
<1> QED
  BY <1>1 DEF Resume, Pool!poolvars

(* nor a cancelled seat being taken out of the deque.                        *)
LEMMA LeaveLineUnseen ==
  ASSUME IndInv, NEW j \in Jobs, LeaveLine(j)
  PROVE  UNCHANGED Pool!poolvars
<1>1. /\ task[j] = "seated" /\ seat[j] = "cancelled" /\ limit' = limit
      /\ seat' = [seat EXCEPT ![j] = "none"] /\ task' = [task EXCEPT ![j] = "away"]
  BY DEF LeaveLine
<1>2. TypeOK
  BY DEF IndInv
<1>3. Holders' = Holders /\ Waiting' = Waiting
  BY <1>1, <1>2 DEF Holders, Waiting, TypeOK
<1>4. InOrder(waiters', Waiting) = InOrder(waiters, Waiting)
  <2>1. CASE waiters' = waiters
    BY <2>1
  <2>2. ASSUME NEW i \in 1..Len(waiters), waiters[i] = j, waiters' = Without(i)
        PROVE  InOrder(waiters', Waiting) = InOrder(waiters, Waiting)
    <3>1. j \notin Waiting
      BY <1>1 DEF Waiting
    <3> QED
      BY <1>2, <2>2, <3>1, WithoutKeepsOrder
  <2> QED
    BY <2>1, <2>2 DEF LeaveLine
<1> QED
  BY <1>1, <1>3, <1>4 DEF Pool!poolvars

(* Every step of the limiter is a step of the pool or unseen by it.          *)
LEMMA PoolStep ==
  ASSUME IndInv, [Next]_vars
  PROVE  [Pool!PoolNext]_(Pool!poolvars)
<1>1. CASE Swap
  BY <1>1 DEF Swap, Holders, Waiting, Pool!Resize, Pool!PoolNext
<1>2. ASSUME NEW j \in Jobs, AcquireNow(j) \/ TakeSeat(j) \/ AcquireRefused(j)
      PROVE  Pool!PoolNext
  BY <1>2, AcquireNowEnters, TakeSeatEnters, AcquireRefusedEnters DEF Pool!PoolNext
<1>3. ASSUME NEW j \in Jobs, GiveUp(j) \/ Resume(j) \/ LeaveLine(j)
      PROVE  [Pool!PoolNext]_(Pool!poolvars)
  BY <1>3, GiveUpLeaves, ResumeUnseen, LeaveLineUnseen DEF Pool!PoolNext
<1>4. ASSUME NEW j \in Jobs, Release(j) \/ ResumeCancelled(j)
      PROVE  Pool!PoolNext
  <2>1. j \in Holders /\ ReleaseSlot(j)
    BY <1>4 DEF Release, ResumeCancelled, Holders
  <2> QED
    BY <2>1, ReleaseGivesBack DEF Pool!PoolNext
<1>5. CASE UNCHANGED vars
  BY <1>5 DEF vars, Holders, Waiting, Pool!poolvars
<1> QED
  BY <1>1, <1>2, <1>3, <1>4, <1>5 DEF Next

-----------------------------------------------------------------------------
(* The theorems.                                                            *)

(* Type correctness of the limiter's state. *)
THEOREM TypeCorrect == Spec => []TypeOK
<1>1. IndInv => TypeOK
  BY DEF IndInv
<1> QED
  BY <1>1, InductiveInvariant, PTL

(* _active counts exactly the callers that hold a slot, in every state: no   *)
(* slot leaks and none is returned twice (service.py:439-470).               *)
THEOREM SlotsNeverLeak == Spec => []SlotsAccounted
<1>1. IndInv => SlotsAccounted
  BY DEF IndInv
<1> QED
  BY <1>1, InductiveInvariant, PTL

(* A caller that waits is in the deque exactly once (service.py:454-478). *)
THEOREM WaitersNeverLost == Spec => []WaitersInLine
<1>1. IndInv => WaitersInLine
  BY DEF IndInv, LineInv, LineDistinct, PendingInLine, WaitersInLine, Waiting
<1> QED
  BY <1>1, InductiveInvariant, PTL

(* While anybody waits somebody holds a slot, whose release serves the line. *)
THEOREM WakeUpNeverLost == Spec => []NoLostWakeup
<1>1. ASSUME IndInv PROVE NoLostWakeup
  <2>1. SUFFICES ASSUME NEW j \in Waiting PROVE Holders # {}
    BY DEF NoLostWakeup
  <2>2. waiters # <<>>
    BY <1>1 DEF IndInv, LineInv, PendingInLine, Waiting
  <2>3. Cardinality(Holders) >= 1
    BY <1>1, <2>2 DEF IndInv, LineHeld, SlotsAccounted
  <2> QED
    BY <2>3, FS_EmptySet
<1> QED
  BY <1>1, InductiveInvariant, PTL

(* No step hands out a slot beyond the loaded engine's limit, whatever was   *)
(* loaded before (service.py:425-431).                                       *)
THEOREM GrantsRespectLimit == Spec => GrantsUnderLimit
<1>1. IndInv /\ IndInv' /\ [Next]_vars => [active' > active => active' <= limit]_vars
  BY StepProperties
<1> QED
  BY <1>1, InductiveInvariant, PTL DEF Spec, GrantsUnderLimit

(* Nobody who still waits is passed, neither by somebody behind it in line   *)
(* nor by a newcomer (service.py:425-431).                                   *)
THEOREM FirstComeFirstServed == Spec => NobodyPasses
<1>1. IndInv /\ IndInv' /\ [Next]_vars =>
        [\A j \in Holders' \ Holders, k \in Waiting : Before(k, j) => k \notin Waiting']_vars
  BY StepProperties
<1> QED
  BY <1>1, InductiveInvariant, PTL DEF Spec, NobodyPasses

(* A step that touches the slots leaves callers waiting only behind a full   *)
(* engine (service.py:439-478).                                              *)
THEOREM SlotsNeverIdle == Spec => WorkConserving
<1>1. IndInv /\ IndInv' /\ [Next]_vars =>
        [(Holders' # Holders \/ ~(Waiting' \subseteq Waiting))
           => (Waiting' = {} \/ active' >= limit)]_vars
  BY StepProperties
<1> QED
  BY <1>1, InductiveInvariant, PTL DEF Spec, WorkConserving

(* Types, the count of slots and the line of waiters hold together, for any  *)
(* number of callers and any limit (service.py:434-478).                     *)
THEOREM LimiterIsConsistent == Spec => []LimiterConsistent
BY TypeCorrect, SlotsNeverLeak, WaitersNeverLost, PTL DEF LimiterConsistent

(* The limiter is the pool that its docstring describes (service.py, lines   *)
(* 425-431): dead seats, grants that their owners have not heard of and      *)
(* hand-overs by callers that give up are invisible to who uses it.          *)
THEOREM LimiterIsAPool == Spec => ImplementsSlotPool
<1>1. Init => Pool!PoolInit
  <2> SUFFICES ASSUME Init PROVE Pool!PoolInit
    OBVIOUS
  <2>1. Holders = {} /\ Waiting = {}
    BY DEF Init, Holders, Waiting
  <2>2. InOrder(waiters, {}) = {}
    BY DEF InOrder
  <2> QED
    BY <2>1, <2>2 DEF Init, Pool!PoolInit
<1>2. IndInv /\ [Next]_vars => [Pool!PoolNext]_(Pool!poolvars)
  BY PoolStep
<1> QED
  BY <1>1, <1>2, InductiveInvariant, PTL DEF Spec, ImplementsSlotPool, Pool!PoolSpec

-----------------------------------------------------------------------------
(* The tickets.                                                            *)

(* How far a job has come says where its limiter task is suspended. *)
PhaseMatchesTask ==
  \A j \in Jobs :
    /\ phase[j] \in {"new", "normalizing", "probing", "done"} => task[j] = "away"
    /\ phase[j] = "acquiring" => task[j] \in {"checkpoint", "seated"}
    /\ phase[j] \in {"confirming", "decoding"} => task[j] = "decoding"

Places   == {j \in Jobs : inLine[j]}
Refusals == {j \in In({"done"}) : end[j] = "refused"}
Decoding == In({"decoding"})

-----------------------------------------------------------------------------
(* The limiter under the line. *)

(* Every step of the line is a step of the limiter, or leaves it alone. *)
LEMMA LineUsesLimiter ==
  ASSUME [TicketNext]_allVars
  PROVE  [Next]_vars
<1>1. CASE SwapEngine
  BY <1>1 DEF SwapEngine, Next
<1>2. ASSUME NEW j \in Jobs, TicketStep(j) PROVE [Next]_vars
  BY <1>2
     DEF TicketStep, TakeTicket, Normalized, ProbeGone, NormalizeEnds, TicketAcquires,
         TicketRefused, StopWaiting, GoneWins, Stopped, Granted, Confirm, ConfirmGone, DecodeEnds,
         HangUp, Next
<1>3. CASE UNCHANGED allVars
  BY <1>3 DEF allVars
<1> QED
  BY <1>1, <1>2, <1>3 DEF TicketNext

(* The tickets are a client of the limiter: whatever holds of every          *)
(* behaviour of the limiter holds of its slots under the line.               *)
THEOREM LineImplementsLimiter == TicketSpec => Spec
<1>1. TicketInit => Init
  BY DEF TicketInit
<1>2. [TicketNext]_allVars => [Next]_vars
  BY LineUsesLimiter
<1> QED
  BY <1>1, <1>2, PTL DEF TicketSpec, Spec

(* So the places in line promise their holders what SlotPool promises: first *)
(* come, first served, up to the limit, also under the line's own timeouts,  *)
(* probes and cancellations.                                                 *)
THEOREM LineImplementsPool == TicketSpec => ImplementsSlotPool
BY LineImplementsLimiter, LimiterIsAPool

-----------------------------------------------------------------------------
(* Types, phases and places. *)

(* What a step of one job does to where that job is suspended. *)
LEMMA TaskMoves ==
  ASSUME NEW j \in Jobs
  PROVE  /\ AcquireNow(j) => task' = [task EXCEPT ![j] = "checkpoint"]
         /\ TakeSeat(j) => task' = [task EXCEPT ![j] = "seated"]
         /\ Resume(j) => task' = [task EXCEPT ![j] = "decoding"]
         /\ ResumeCancelled(j) \/ LeaveLine(j) \/ Release(j) =>
              task' = [task EXCEPT ![j] = "away"]
         /\ AcquireRefused(j) \/ GiveUp(j) => task' = task
BY DEF AcquireNow, TakeSeat, Resume, ResumeCancelled, LeaveLine, Release, ReleaseSlot,
       AcquireRefused, GiveUp

(* A job that is finished is over, out of line, and nothing else of it moves. *)
LEMMA FinishMoves ==
  ASSUME TicketTypeOK, NEW j \in Jobs, NEW e \in Ends, Finish(j, e)
  PROVE  /\ phase' = [phase EXCEPT ![j] = "done"] /\ phase' \in [Jobs -> Phases]
         /\ inLine' = [inLine EXCEPT ![j] = FALSE] /\ inLine' \in [Jobs -> BOOLEAN]
         /\ end' = [end EXCEPT ![j] = e] /\ end' \in [Jobs -> Ends]
         /\ queueDepth' \in Nat /\ rejected' \in Nat
BY DEF TicketTypeOK, Phases, Finish, Goto, EndAs, LeaveTicket, Lowered

(* A job that starts to decode is out of line. *)
LEMMA StartMoves ==
  ASSUME TicketTypeOK, NEW j \in Jobs, StartDecode(j)
  PROVE  /\ phase' = [phase EXCEPT ![j] = "decoding"] /\ phase' \in [Jobs -> Phases]
         /\ inLine' = [inLine EXCEPT ![j] = FALSE] /\ inLine' \in [Jobs -> BOOLEAN]
         /\ queueDepth' \in Nat /\ running' \in Nat /\ rejected' \in Nat
BY DEF TicketTypeOK, Phases, StartDecode, Goto, Lowered

(* Where the jobs are, between two states. *)
PhaseInv == TicketTypeOK /\ PhaseMatchesTask /\ PlaceMatchesPhase
LEMMA PhaseStep ==
  ASSUME PhaseInv, IndInv, [TicketNext]_allVars
  PROVE  PhaseInv'
<1> TypeOK' /\ task \in [Jobs -> TaskStates] /\ Batch \subseteq Jobs
  <2>1. IndInv'
    BY LineUsesLimiter, NextInv
  <2> QED
    BY <2>1 DEF IndInv, Batch, TypeOK
<1> USE DEF PhaseInv, TicketTypeOK, PhaseMatchesTask, PlaceMatchesPhase, Phases, Ends, Goto, EndAs,
            LeaveTicket, Lowered
<1>1. CASE SwapEngine
  BY <1>1 DEF SwapEngine, Swap, ticketVars, counters
<1>2. ASSUME NEW j \in Jobs, TicketStep(j) PROVE PhaseInv'
  <2>1. CASE TakeTicket(j)
    <3>1. CASE OfferQueue
      <4>1. /\ phase[j] = "new" /\ j \in Batch
            /\ phase' = [phase EXCEPT ![j] = "normalizing"]
            /\ inLine' = [inLine EXCEPT ![j] = TRUE]
            /\ UNCHANGED <<task, gone, end, running, rejected>>
        BY <2>1, <3>1 DEF TakeTicket, vars
      <4>2. queueDepth' \in Nat
        BY <2>1, <3>1 DEF TakeTicket
      <4>3. TicketTypeOK'
        BY <4>1, <4>2
      <4>4. PhaseMatchesTask' /\ PlaceMatchesPhase'
        BY <4>1
      <4> QED
        BY <4>3, <4>4
    <3>2. CASE ~OfferQueue
      BY <2>1, <3>2 DEF TakeTicket, vars
    <3> QED
      BY <3>1, <3>2
  <2>2. CASE Normalized(j)
    BY <2>2 DEF Normalized, vars, counters
  <2>3. CASE ProbeGone(j)
    <3>1. PICK e \in Ends : Finish(j, e)
      BY <2>3 DEF ProbeGone
    <3> QED
      BY <2>3, <3>1, FinishMoves DEF ProbeGone, vars
  <2>4. ASSUME NEW e \in {"failed", "refused", "gone", "cancelled"}, NormalizeEnds(j, e)
        PROVE  PhaseInv'
    BY <2>4 DEF NormalizeEnds, Finish, vars
  <2>5. CASE TicketAcquires(j)
    BY <2>5, TaskMoves DEF TicketAcquires, Asking, counters, Batch
  <2>6. CASE TicketRefused(j)
    BY <2>6, TaskMoves DEF TicketRefused, Finish, Asking
  <2>7. ASSUME NEW e \in {"refused", "gone", "cancelled"}, StopWaiting(j, e)
        PROVE  PhaseInv'
    BY <2>7, TaskMoves DEF StopWaiting, counters
  <2>8. CASE GoneWins(j)
    BY <2>8 DEF GoneWins, vars, counters
  <2>9. CASE Stopped(j)
    BY <2>9, TaskMoves DEF Stopped, Finish
  <2>10. CASE Granted(j)
    <3>1. task' = [task EXCEPT ![j] = "decoding"]
      BY <2>10, TaskMoves DEF Granted
    <3>2. CASE j \in Streams
      BY <2>10, <3>1, <3>2, StartMoves DEF Granted, Batch
    <3>3. CASE j \notin Streams
      BY <2>10, <3>1, <3>3 DEF Granted, counters, Batch
    <3> QED
      BY <3>2, <3>3
  <2>11. CASE Confirm(j)
    BY <2>11 DEF Confirm, StartDecode, vars
  <2>12. CASE ConfirmGone(j)
    <3>1. PICK e \in Ends : Finish(j, e)
      BY <2>12 DEF ConfirmGone
    <3> QED
      BY <2>12, <3>1, FinishMoves, TaskMoves DEF ConfirmGone
  <2>13. ASSUME NEW e \in {"decoded", "failed", "cancelled"}, DecodeEnds(j, e)
         PROVE  PhaseInv'
    BY <2>13, TaskMoves DEF DecodeEnds, Finish
  <2>14. CASE HangUp(j)
    BY <2>14, LeaversAssumption DEF HangUp, vars, counters, Batch
  <2> QED
    BY <1>2, <2>1, <2>2, <2>3, <2>4, <2>5, <2>6, <2>7, <2>8, <2>9, <2>10, <2>11, <2>12, <2>13,
       <2>14 DEF TicketStep
<1>3. CASE UNCHANGED allVars
  BY <1>3 DEF allVars, ticketVars, counters, vars
<1> QED
  BY <1>1, <1>2, <1>3 DEF TicketNext

-----------------------------------------------------------------------------
(* The slots. *)

(* The slots out are those of the jobs that confirm, decode or are still to  *)
(* be resumed with one.                                                      *)
LEMMA SlotsAreOwned ==
  ASSUME IndInv, PhaseInv
  PROVE  SlotsOwned
<1> DEFINE A == In({"confirming", "decoding"})
           B == {j \in In({"acquiring"}) : task[j] = "checkpoint" \/ seat[j] = "granted"}
<1>1. Holders = A \cup B /\ A \cap B = {}
  BY DEF Holders, In, IndInv, TypeOK, SeatMatchesTask, PhaseInv, TicketTypeOK, Phases,
         PhaseMatchesTask
<1>2. IsFiniteSet(A) /\ IsFiniteSet(B)
  BY JobsAssumption, FS_Subset DEF In
<1>3. Cardinality(Holders) = Cardinality(A) + Cardinality(B)
  BY <1>1, <1>2, DisjointUnion
<1> QED
  BY <1>3 DEF SlotsOwned, IndInv, SlotsAccounted

-----------------------------------------------------------------------------
(* The counters. *)

(* Sets of jobs are finite; their numbers change by one with a member. *)
LEMMA JobSets ==
  ASSUME NEW S \in SUBSET Jobs, NEW j \in Jobs
  PROVE  /\ IsFiniteSet(S) /\ Cardinality(S) \in Nat
         /\ Cardinality(S \cup {j}) = IF j \in S THEN Cardinality(S) ELSE Cardinality(S) + 1
         /\ Cardinality(S \ {j}) = IF j \in S THEN Cardinality(S) - 1 ELSE Cardinality(S)
         /\ Cardinality(S \ {j}) \in Nat
<1>1. IsFiniteSet(S) /\ IsFiniteSet(S \ {j})
  BY JobsAssumption, FS_Subset
<1> QED
  BY <1>1, FS_CardinalityType, FS_AddElement, FS_RemoveElement

CountInv == CountersExact /\ OccupancyBound

(* A ticket that is left gives back its place once and counts its refusal    *)
(* once, whichever way it is left.                                           *)
LEMMA FinishCounts ==
  ASSUME PhaseInv, CountInv, NEW j \in Jobs, NEW e \in Ends, phase[j] # "done", Finish(j, e),
         running' = IF phase[j] = "decoding" THEN Lowered(running) ELSE running
  PROVE  CountInv'
<1>1. /\ phase' = [phase EXCEPT ![j] = "done"] /\ inLine' = [inLine EXCEPT ![j] = FALSE]
      /\ end' = [end EXCEPT ![j] = e]
  BY FinishMoves DEF PhaseInv
<1>2. phase \in [Jobs -> Phases] /\ inLine \in [Jobs -> BOOLEAN] /\ end \in [Jobs -> Ends]
  BY DEF PhaseInv, TicketTypeOK
<1>3. /\ Places' = Places \ {j} /\ Decoding' = Decoding \ {j}
      /\ Refusals' = IF e = "refused" THEN Refusals \cup {j} ELSE Refusals
      /\ j \notin Refusals
  BY <1>1, <1>2 DEF Places, Decoding, Refusals, In
<1>4. /\ queueDepth = Cardinality(Places) /\ running = Cardinality(Decoding)
      /\ rejected = Cardinality(Refusals)
  BY DEF CountInv, CountersExact, Places, Decoding, Refusals
<1>5. /\ j \in Places <=> inLine[j]
      /\ j \in Decoding <=> phase[j] = "decoding"
      /\ {Places, Decoding, Refusals, Decoding \cap Batch} \subseteq SUBSET Jobs
  BY DEF Places, Decoding, Refusals, In
<1>6. queueDepth' = Cardinality(Places') /\ queueDepth' <= queueDepth
  <2>1. /\ Cardinality(Places) \in Nat /\ Cardinality(Places \ {j}) \in Nat
        /\ Cardinality(Places \ {j}) =
             IF j \in Places THEN Cardinality(Places) - 1 ELSE Cardinality(Places)
    BY <1>5, JobSets
  <2> QED
    BY <1>3, <1>4, <1>5, <2>1 DEF Finish, LeaveTicket, Lowered
<1>7. running' = Cardinality(Decoding')
  <2>1. /\ Cardinality(Decoding) \in Nat /\ Cardinality(Decoding \ {j}) \in Nat
        /\ Cardinality(Decoding \ {j}) =
             IF j \in Decoding THEN Cardinality(Decoding) - 1 ELSE Cardinality(Decoding)
    BY <1>5, JobSets
  <2> QED
    BY <1>3, <1>4, <1>5, <2>1 DEF Lowered
<1>8. rejected' = Cardinality(Refusals')
  BY <1>3, <1>4, <1>5, JobSets DEF Finish, LeaveTicket
<1>9. Cardinality(Decoding' \cap Batch) <= Cardinality(Decoding \cap Batch)
  BY <1>3, <1>5, JobSets, FS_Subset
<1>10. OccupancyBound'
  <2>1. queueDepth + Cardinality(Decoding \cap Batch) <= MaxLimit + MaxQueued
    BY DEF CountInv, OccupancyBound, Decoding
  <2>2. queueDepth \in Nat /\ queueDepth' \in Nat
    BY FinishMoves DEF PhaseInv, TicketTypeOK
  <2>3. Cardinality(Decoding \cap Batch) \in Nat /\ Cardinality(Decoding' \cap Batch) \in Nat
    BY <1>3, <1>5, JobSets
  <2> QED
    BY <1>6, <1>9, <2>1, <2>2, <2>3, MaxLimitAssumption, MaxQueuedAssumption
       DEF OccupancyBound, Decoding
<1> QED
  BY <1>6, <1>7, <1>8, <1>10 DEF CountInv, CountersExact, Places, Decoding, Refusals

(* A decode that starts takes its job's place for its slot. *)
LEMMA StartCounts ==
  ASSUME PhaseInv, CountInv, NEW j \in Jobs, phase[j] \in {"acquiring", "confirming"},
         StartDecode(j), end' = end
  PROVE  CountInv'
<1>1. /\ phase' = [phase EXCEPT ![j] = "decoding"] /\ inLine' = [inLine EXCEPT ![j] = FALSE]
      /\ rejected' = rejected /\ running' = running + 1
  BY StartMoves DEF PhaseInv, StartDecode
<1>2. phase \in [Jobs -> Phases] /\ inLine \in [Jobs -> BOOLEAN]
  BY DEF PhaseInv, TicketTypeOK
<1>3. /\ Places' = Places \ {j} /\ Decoding' = Decoding \cup {j} /\ Refusals' = Refusals
      /\ j \notin Decoding
  BY <1>1, <1>2 DEF Places, Decoding, Refusals, In
<1>4. /\ queueDepth = Cardinality(Places) /\ running = Cardinality(Decoding)
      /\ rejected = Cardinality(Refusals)
  BY DEF CountInv, CountersExact, Places, Decoding, Refusals
<1>5. /\ j \in Places <=> inLine[j]
      /\ {Places, Decoding, Decoding \cap Batch} \subseteq SUBSET Jobs
  BY DEF Places, Decoding, In
<1>6. /\ queueDepth' = Cardinality(Places')
      /\ queueDepth' = IF inLine[j] THEN queueDepth - 1 ELSE queueDepth
  <2>1. /\ Cardinality(Places) \in Nat /\ Cardinality(Places \ {j}) \in Nat
        /\ Cardinality(Places \ {j}) =
             IF j \in Places THEN Cardinality(Places) - 1 ELSE Cardinality(Places)
    BY <1>5, JobSets
  <2> QED
    BY <1>3, <1>4, <1>5, <2>1 DEF StartDecode, Lowered
<1>7. running' = Cardinality(Decoding')
  BY <1>1, <1>3, <1>4, <1>5, JobSets
<1>8. OccupancyBound'
  <2>1. queueDepth + Cardinality(Decoding \cap Batch) <= MaxLimit + MaxQueued
    BY DEF CountInv, OccupancyBound, Decoding
  <2>2. queueDepth \in Nat /\ queueDepth' \in Nat
    BY StartMoves DEF PhaseInv, TicketTypeOK
  <2>3. Cardinality(Decoding \cap Batch) \in Nat
    BY <1>5, JobSets
  <2>4. j \in Batch <=> inLine[j]
    BY DEF PhaseInv, PlaceMatchesPhase
  <2>5. Decoding' \cap Batch = IF j \in Batch THEN (Decoding \cap Batch) \cup {j}
                              ELSE Decoding \cap Batch
    BY <1>3
  <2>6. Cardinality(Decoding' \cap Batch) =
          IF j \in Batch THEN Cardinality(Decoding \cap Batch) + 1
                         ELSE Cardinality(Decoding \cap Batch)
    BY <1>3, <1>5, <2>5, JobSets
  <2> QED
    BY <1>6, <2>1, <2>2, <2>3, <2>4, <2>6, MaxLimitAssumption, MaxQueuedAssumption
       DEF OccupancyBound, Decoding
<1> QED
  BY <1>1, <1>3, <1>4, <1>6, <1>7, <1>8 DEF CountInv, CountersExact, Places, Decoding, Refusals

(* A ticket is admitted only while decodes and places together leave room,   *)
(* and a refused one is counted.                                             *)
LEMMA TicketCounts ==
  ASSUME PhaseInv, CountInv, NEW j \in Jobs, TakeTicket(j)
  PROVE  CountInv'
<1>1. phase \in [Jobs -> Phases] /\ inLine \in [Jobs -> BOOLEAN] /\ end \in [Jobs -> Ends]
  BY DEF PhaseInv, TicketTypeOK
<1>2. /\ queueDepth = Cardinality(Places) /\ running = Cardinality(Decoding)
      /\ rejected = Cardinality(Refusals)
  BY DEF CountInv, CountersExact, Places, Decoding, Refusals
<1>3. /\ phase[j] = "new" /\ ~inLine[j] /\ j \notin Refusals /\ running' = running
      /\ {Places, Decoding, Refusals, Decoding \cap Batch} \subseteq SUBSET Jobs
  BY <1>1 DEF PhaseInv, PlaceMatchesPhase, TakeTicket, Places, Decoding, Refusals, In
<1>4. CASE OfferQueue
  <2>1. /\ phase' = [phase EXCEPT ![j] = "normalizing"] /\ inLine' = [inLine EXCEPT ![j] = TRUE]
        /\ queueDepth' = queueDepth + 1 /\ end' = end /\ rejected' = rejected
    BY <1>4 DEF TakeTicket, Goto
  <2>2. Places' = Places \cup {j} /\ j \notin Places /\ Decoding' = Decoding /\ Refusals' = Refusals
    BY <1>1, <1>3, <2>1 DEF Places, Decoding, Refusals, In
  <2>3. queueDepth' = Cardinality(Places')
    BY <1>2, <1>3, <2>1, <2>2, JobSets
  <2>4. Cardinality(Decoding \cap Batch) <= Cardinality(Decoding)
    BY <1>3, JobSets, FS_Subset
  <2>5. /\ Cardinality(Decoding) \in Nat /\ Cardinality(Decoding \cap Batch) \in Nat
        /\ queueDepth \in Nat /\ limit \in Nat /\ limit <= MaxLimit
    <3>1. Cardinality(Decoding) \in Nat /\ Cardinality(Decoding \cap Batch) \in Nat
      BY <1>3, JobSets
    <3>2. queueDepth \in Nat /\ limit \in 1..MaxLimit
      BY DEF PhaseInv, TicketTypeOK, TypeOK
    <3> QED
      BY <3>1, <3>2, MaxLimitAssumption
  <2>6. OccupancyBound'
    BY <1>2, <1>4, <2>1, <2>2, <2>4, <2>5, MaxLimitAssumption, MaxQueuedAssumption
       DEF OccupancyBound, OfferQueue, Decoding
  <2> QED
    BY <1>2, <1>3, <2>1, <2>2, <2>3, <2>6
       DEF CountInv, CountersExact, Places, Decoding, Refusals
<1>5. CASE ~OfferQueue
  <2>1. /\ phase' = [phase EXCEPT ![j] = "done"] /\ inLine' = inLine /\ queueDepth' = queueDepth
        /\ end' = [end EXCEPT ![j] = "refused"] /\ rejected' = rejected + 1
    BY <1>5 DEF TakeTicket, Goto, EndAs
  <2>2. Places' = Places /\ Decoding' = Decoding /\ Refusals' = Refusals \cup {j}
    BY <1>1, <1>3, <2>1 DEF Places, Decoding, Refusals, In
  <2>3. rejected' = Cardinality(Refusals')
    BY <1>2, <1>3, <2>1, <2>2, JobSets
  <2> QED
    BY <1>2, <1>3, <2>1, <2>2, <2>3
       DEF CountInv, CountersExact, OccupancyBound, Places, Decoding, Refusals
<1> QED
  BY <1>4, <1>5

(* Steps that leave the counters alone move no job into a decode or out of   *)
(* the line, and decide no refusal that is counted already.                  *)
LEMMA QuietCounts ==
  ASSUME CountInv, UNCHANGED <<inLine, counters>>, Places' = Places, Decoding' = Decoding,
         Refusals' = Refusals
  PROVE  CountInv'
BY DEF CountInv, CountersExact, OccupancyBound, counters, Places, Decoding, Refusals

(* The counters follow every step of every job. *)
LEMMA CountStep ==
  ASSUME PhaseInv, CountInv, [TicketNext]_allVars
  PROVE  CountInv'
<1>0. phase \in [Jobs -> Phases] /\ end \in [Jobs -> Ends]
  BY DEF PhaseInv, TicketTypeOK
<1>1. CASE SwapEngine
  BY <1>1, QuietCounts DEF SwapEngine, ticketVars, counters, Places, Decoding, Refusals, In
<1>2. ASSUME NEW j \in Jobs, TicketStep(j) PROVE CountInv'
  <2>1. CASE TakeTicket(j)
    BY <2>1, TicketCounts
  <2>2. CASE Normalized(j)
    BY <2>2, <1>0, QuietCounts DEF Normalized, Goto, Places, Decoding, Refusals, In
  <2>3. CASE ProbeGone(j)
    <3>1. PICK e \in Ends : Finish(j, e)
      BY <2>3 DEF ProbeGone, Ends
    <3> QED
      BY <2>3, <3>1, FinishCounts DEF ProbeGone
  <2>4. ASSUME NEW e \in {"failed", "refused", "gone", "cancelled"}, NormalizeEnds(j, e)
        PROVE  CountInv'
    BY <2>4, FinishCounts DEF NormalizeEnds, Ends
  <2>5. CASE TicketAcquires(j)
    BY <2>5, <1>0, QuietCounts DEF TicketAcquires, Asking, Goto, Places, Decoding, Refusals, In
  <2>6. CASE TicketRefused(j)
    BY <2>6, FinishCounts DEF TicketRefused, Asking, Ends
  <2>7. ASSUME NEW e \in {"refused", "gone", "cancelled"}, StopWaiting(j, e)
        PROVE  CountInv'
    BY <2>7, <1>0, QuietCounts DEF StopWaiting, EndAs, Places, Decoding, Refusals, In
  <2>8. CASE GoneWins(j)
    BY <2>8, <1>0, QuietCounts DEF GoneWins, EndAs, Places, Decoding, Refusals, In
  <2>9. CASE Stopped(j)
    BY <2>9, <1>0, FinishCounts DEF Stopped
  <2>10. CASE Granted(j)
    <3>1. CASE j \in Streams
      BY <2>10, <3>1, StartCounts DEF Granted
    <3>2. CASE j \notin Streams
      BY <2>10, <3>2, <1>0, QuietCounts DEF Granted, Goto, Places, Decoding, Refusals, In
    <3> QED
      BY <3>1, <3>2
  <2>11. CASE Confirm(j)
    BY <2>11, StartCounts DEF Confirm
  <2>12. CASE ConfirmGone(j)
    <3>1. PICK e \in Ends : Finish(j, e)
      BY <2>12 DEF ConfirmGone, Ends
    <3> QED
      BY <2>12, <3>1, FinishCounts DEF ConfirmGone
  <2>13. ASSUME NEW e \in {"decoded", "failed", "cancelled"}, DecodeEnds(j, e)
         PROVE  CountInv'
    BY <2>13, FinishCounts DEF DecodeEnds, Ends
  <2>14. CASE HangUp(j)
    BY <2>14, QuietCounts DEF HangUp, Places, Decoding, Refusals, In
  <2> QED
    BY <1>2, <2>1, <2>2, <2>3, <2>4, <2>5, <2>6, <2>7, <2>8, <2>9, <2>10, <2>11, <2>12, <2>13,
       <2>14 DEF TicketStep
<1>3. CASE UNCHANGED allVars
  BY <1>3, QuietCounts DEF allVars, ticketVars, counters, Places, Decoding, Refusals, In
<1> QED
  BY <1>1, <1>2, <1>3 DEF TicketNext

-----------------------------------------------------------------------------
(* Theorems. *)

TicketInv == IndInv /\ PhaseInv /\ CountInv

(* The line is empty at the start and every counter is zero. *)
LEMMA TicketStart == TicketInit => TicketInv
<1> SUFFICES ASSUME TicketInit PROVE TicketInv
  OBVIOUS
<1>1. IndInv /\ TypeOK
  BY InitInv DEF TicketInit, IndInv
<1>2. PhaseInv
  BY <1>1 DEF TicketInit, Init, PhaseInv, TicketTypeOK, PhaseMatchesTask, PlaceMatchesPhase,
              Phases, Ends
<1>3. Places = {} /\ Decoding = {} /\ Refusals = {}
  BY DEF TicketInit, Places, Decoding, Refusals, In
<1>4. CountInv
  BY <1>3, FS_EmptySet, MaxLimitAssumption, MaxQueuedAssumption
     DEF TicketInit, CountInv, CountersExact, OccupancyBound, Places, Decoding, Refusals
<1> QED
  BY <1>1, <1>2, <1>4 DEF TicketInv

(* The invariant of the whole line: the limiter's, the phases' and the       *)
(* counters' together.                                                       *)
LEMMA TicketInvariant == TicketSpec => []TicketInv
<1>1. TicketInv /\ [TicketNext]_allVars => TicketInv'
  BY LineUsesLimiter, NextInv, PhaseStep, CountStep DEF TicketInv
<1> QED
  BY <1>1, TicketStart, PTL DEF TicketSpec

(* Types, places in line and decode slots belong together in every reachable *)
(* state: whichever way a job leaves, its place and its slot go back once.   *)
THEOREM TicketsHold == TicketSpec => []TicketsConsistent
<1>1. TicketInv => TicketsConsistent
  BY SlotsAreOwned DEF TicketInv, PhaseInv, TicketsConsistent
<1> QED
  BY <1>1, TicketInvariant, PTL

(* queue_depth, active_transcriptions and rejected_transcriptions are the    *)
(* truth whenever the status page may read them.                             *)
THEOREM CountersAreExact == TicketSpec => []CountersExact
<1>1. TicketInv => CountersExact
  BY DEF TicketInv, CountInv
<1> QED
  BY <1>1, TicketInvariant, PTL

(* Tickets are admitted against what is queued and running together, so the  *)
(* batch work never exceeds the roomiest engine plus the configured line.    *)
THEOREM OccupancyIsBounded == TicketSpec => []OccupancyBound
<1>1. TicketInv => OccupancyBound
  BY DEF TicketInv, CountInv
<1> QED
  BY <1>1, TicketInvariant, PTL

(* The second look at the client, after the wait for the slot, keeps every   *)
(* decode from starting for a client that has gone.                          *)
THEOREM GoneAreNotDecoded == TicketSpec => NeverDecodesForTheGone
<1> DEFINE A == \A j \in Batch : phase'[j] = "decoding" /\ phase[j] # "decoding" => j \notin gone
<1>1. TicketInv /\ [TicketNext]_allVars => [A]_allVars
  <2> SUFFICES ASSUME TicketInv, TicketNext PROVE A
    OBVIOUS
  <2>0. phase \in [Jobs -> Phases] /\ end \in [Jobs -> Ends] /\ Batch \subseteq Jobs
    BY DEF TicketInv, PhaseInv, TicketTypeOK, Batch
  <2>1. CASE SwapEngine
    BY <2>1 DEF SwapEngine, ticketVars
  <2>2. ASSUME NEW j \in Jobs, TicketStep(j) PROVE A
    <3>1. CASE Confirm(j)
      BY <3>1, <2>0 DEF Confirm, StartDecode, Goto
    <3>2. CASE Granted(j)
      <4>1. CASE j \in Streams
        BY <3>2, <4>1, <2>0 DEF Granted, StartDecode, Goto, Batch
      <4>2. CASE j \notin Streams
        BY <3>2, <4>2, <2>0 DEF Granted, Goto
      <4> QED
        BY <4>1, <4>2
    <3>3. CASE ~Confirm(j) /\ ~Granted(j)
      <4>1. phase' = phase \/ \E p \in Phases \ {"decoding"} : phase' = [phase EXCEPT ![j] = p]
        BY <2>2, <3>3
           DEF TicketStep, TakeTicket, Normalized, ProbeGone, NormalizeEnds, TicketAcquires,
               TicketRefused, StopWaiting, GoneWins, Stopped, ConfirmGone, DecodeEnds,
               HangUp, Finish, Goto, Phases
      <4> QED
        BY <4>1, <2>0
    <3> QED
      BY <3>1, <3>2, <3>3
  <2> QED
    BY <2>1, <2>2 DEF TicketNext
<1> QED
  BY <1>1, TicketInvariant, PTL DEF TicketSpec, NeverDecodesForTheGone
=============================================================================
