--------------------------- MODULE DecodeLimiter ---------------------------
(***************************************************************************)
(* The decode slots of app/service.py (_DecodeLimiter): a first-come,      *)
(* first-served pool whose capacity is read from the loaded engine at      *)
(* every grant.                                                            *)
(*                                                                         *)
(* Every asyncio task runs on one event loop, so the code between two      *)
(* awaits is one action.  A task suspended in acquire() is resumed by an   *)
(* action of its own, which leaves room for everything the event loop may  *)
(* run in between: other callers, a cancellation, an engine swap.          *)
(***************************************************************************)
EXTENDS Integers, Sequences, FiniteSets

CONSTANTS Jobs,      (* callers of acquire(); each asks again after it is done *)
          MaxLimit   (* the largest number of clips any engine decodes at once *)

ASSUME JobsAssumption == IsFiniteSet(Jobs)
ASSUME MaxLimitAssumption == MaxLimit \in Nat \ {0}

VARIABLES
  limit,    (* parallel_limit() of the engine that is loaded now            *)
  active,   (* _active: the slots handed out                                *)
  waiters,  (* _waiters: the deque of seats, each named by its owner        *)
  seat,     (* the future a queued caller awaits                            *)
  task,     (* where each caller is suspended                               *)
  stopping  (* callers whose cancellation is requested but not yet raised   *)

vars == <<limit, active, waiters, seat, task, stopping>>

SeatStates == {"none", "pending", "granted", "cancelled"}
TaskStates == {"away", "checkpoint", "seated", "decoding"}

TypeOK ==
  /\ limit \in 1..MaxLimit
  /\ active \in Nat
  /\ waiters \in Seq(Jobs)
  /\ seat \in [Jobs -> SeatStates]
  /\ task \in [Jobs -> TaskStates]
  /\ stopping \in SUBSET Jobs

Init ==
  /\ limit \in 1..MaxLimit
  /\ active = 0
  /\ waiters = <<>>
  /\ seat = [j \in Jobs |-> "none"]
  /\ task = [j \in Jobs |-> "away"]
  /\ stopping = {}

-----------------------------------------------------------------------------
(* _wake() pops seats from the head while there is room; a seat that is     *)
(* already done (its owner gave up) is dropped and takes no slot.           *)

LiveAmong(n) == {j \in Jobs : seat[j] = "pending" /\ \E i \in 1..n : waiters[i] = j}

(* A slip in WakePops: one free slot wakes one waiter, however many fit. *)
WakesOnlyOne(count, n) ==
  n = IF waiters # <<>> /\ count < limit THEN 1 ELSE 0

(* Started with `count' slots out, the loop stops after popping n seats. *)
WakePops(count, n) ==
  /\ n \in 0..Len(waiters)
  /\ n < Len(waiters) => count + Cardinality(LiveAmong(n)) >= limit
  /\ \A m \in 0..(n - 1) : count + Cardinality(LiveAmong(m)) < limit

Rest(n) == SubSeq(waiters, n + 1, Len(waiters))

Seats(n) == [j \in Jobs |-> IF j \in LiveAmong(n) THEN "granted" ELSE seat[j]]

-----------------------------------------------------------------------------
(* acquire(): the three ways out of its first step.                         *)

AcquireNow(j) ==
  /\ task[j] = "away"
  /\ \E n \in 0..Len(waiters) :
       /\ WakePops(active, n)
       /\ n = Len(waiters)
       /\ active + Cardinality(LiveAmong(n)) < limit
       /\ active' = active + Cardinality(LiveAmong(n)) + 1
       /\ waiters' = Rest(n)
       /\ seat' = Seats(n)
  /\ task' = [task EXCEPT ![j] = "checkpoint"]
  /\ UNCHANGED <<limit, stopping>>

(* No room for a newcomer: seats are still in line or every slot is out. *)
NoRoom(n) == n < Len(waiters) \/ active + Cardinality(LiveAmong(n)) >= limit

(* Mutant of TakeSeat: appendleft instead of append. *)
TakeSeatInFront(j) ==
  /\ task[j] = "away"
  /\ \E n \in 0..Len(waiters) :
       /\ WakePops(active, n)
       /\ NoRoom(n)
       /\ active' = active + Cardinality(LiveAmong(n))
       /\ waiters' = <<j>> \o Rest(n)
       /\ seat' = [Seats(n) EXCEPT ![j] = "pending"]
  /\ task' = [task EXCEPT ![j] = "seated"]
  /\ UNCHANGED <<limit, stopping>>

TakeSeat(j) ==
  /\ task[j] = "away"
  /\ \E n \in 0..Len(waiters) :
       /\ WakePops(active, n)
       /\ NoRoom(n)
       /\ active' = active + Cardinality(LiveAmong(n))
       /\ waiters' = Append(Rest(n), j)
       /\ seat' = [Seats(n) EXCEPT ![j] = "pending"]
  /\ task' = [task EXCEPT ![j] = "seated"]
  /\ UNCHANGED <<limit, stopping>>

(* wait_seconds <= 0 raises TimeoutError at once: a live stream, or a clip   *)
(* whose queue budget FFmpeg already spent.                                  *)
AcquireRefused(j) ==
  /\ task[j] = "away"
  /\ \E n \in 0..Len(waiters) :
       /\ WakePops(active, n)
       /\ NoRoom(n)
       /\ active' = active + Cardinality(LiveAmong(n))
       /\ waiters' = Rest(n)
       /\ seat' = Seats(n)
  /\ UNCHANGED <<limit, task, stopping>>

-----------------------------------------------------------------------------
(* release(): give the slot of `count' back and hand it on in one step.      *)

Released(count) == IF count > 0 THEN count - 1 ELSE 0

(* Mutant of ReleaseSlot: release() without _wake(). *)
ReleaseWithoutWake(j) ==
  /\ active' = Released(active)
  /\ seat' = [seat EXCEPT ![j] = "none"]
  /\ task' = [task EXCEPT ![j] = "away"]
  /\ stopping' = stopping \ {j}
  /\ UNCHANGED <<limit, waiters>>

ReleaseSlot(j) ==
  /\ \E n \in 0..Len(waiters) :
       /\ WakePops(Released(active), n)
       /\ active' = Released(active) + Cardinality(LiveAmong(n))
       /\ waiters' = Rest(n)
       /\ seat' = [Seats(n) EXCEPT ![j] = "none"]
  /\ task' = [task EXCEPT ![j] = "away"]
  /\ stopping' = stopping \ {j}
  /\ UNCHANGED limit

(* The decode ends, however it ends: decode_slot() releases in its finally. *)
Release(j) == task[j] = "decoding" /\ ReleaseSlot(j)

-----------------------------------------------------------------------------
(* Task.cancel(), by the timeout, the disconnect watcher or a shutdown.  A   *)
(* pending seat is cancelled on the spot but stays in the deque until its    *)
(* owner runs; a granted one cannot be, so the task is only marked.          *)

GiveUp(j) ==
  /\ task[j] \in {"seated", "checkpoint"}
  /\ j \notin stopping
  /\ stopping' = stopping \cup {j}
  /\ seat' = [seat EXCEPT ![j] = IF seat[j] = "pending" THEN "cancelled" ELSE @]
  /\ UNCHANGED <<limit, active, waiters, task>>

(* The caller resumes with its slot and starts to decode. *)
Resume(j) ==
  /\ j \notin stopping
  /\ \/ task[j] = "checkpoint"
     \/ task[j] = "seated" /\ seat[j] = "granted"
  /\ task' = [task EXCEPT ![j] = "decoding"]
  /\ seat' = [seat EXCEPT ![j] = "none"]
  /\ UNCHANGED <<limit, active, waiters, stopping>>

(* Mutant of ResumeCancelled: the cancelled caller forgets the slot it was   *)
(* handed between the grant and its resumption.                              *)
ResumeForgetsSlot(j) ==
  /\ j \in stopping
  /\ \/ task[j] = "checkpoint"
     \/ task[j] = "seated" /\ seat[j] = "granted"
  /\ seat' = [seat EXCEPT ![j] = "none"]
  /\ task' = [task EXCEPT ![j] = "away"]
  /\ stopping' = stopping \ {j}
  /\ UNCHANGED <<limit, active, waiters>>

(* The except branches: a slot that was handed over is passed on ... *)
ResumeCancelled(j) ==
  /\ j \in stopping
  /\ \/ task[j] = "checkpoint"
     \/ task[j] = "seated" /\ seat[j] = "granted"
  /\ ReleaseSlot(j)

Without(i) == SubSeq(waiters, 1, i - 1) \o SubSeq(waiters, i + 1, Len(waiters))

(* ... and a seat that never got one is taken out of the line, if a _wake()  *)
(* has not dropped it already.                                               *)
LeaveLine(j) ==
  /\ j \in stopping
  /\ task[j] = "seated"
  /\ seat[j] = "cancelled"
  /\ \/ /\ \A i \in 1..Len(waiters) : waiters[i] # j
        /\ UNCHANGED waiters
     \/ \E i \in 1..Len(waiters) : waiters[i] = j /\ waiters' = Without(i)
  /\ seat' = [seat EXCEPT ![j] = "none"]
  /\ task' = [task EXCEPT ![j] = "away"]
  /\ stopping' = stopping \ {j}
  /\ UNCHANGED <<limit, active>>

(* EngineManager swaps the engine: the limit changes and nobody is woken. *)
Swap ==
  /\ limit' \in (1..MaxLimit) \ {limit}
  /\ UNCHANGED <<active, waiters, seat, task, stopping>>

Next ==
  \/ Swap
  \/ \E j \in Jobs :
       \/ AcquireNow(j) \/ TakeSeat(j) \/ AcquireRefused(j)
       \/ GiveUp(j) \/ Resume(j) \/ ResumeCancelled(j) \/ LeaveLine(j)
       \/ Release(j)

(* The event loop runs every ready task, and a decode ends.  Nobody is made  *)
(* to ask, to give up or to swap the engine.                                 *)
Fairness ==
  \A j \in Jobs :
    /\ WF_vars(Resume(j))
    /\ WF_vars(ResumeCancelled(j))
    /\ WF_vars(LeaveLine(j))
    /\ WF_vars(Release(j))

Spec == Init /\ [][Next]_vars

FairSpec == Spec /\ Fairness

-----------------------------------------------------------------------------
(* Properties.                                                              *)

InLine == {waiters[i] : i \in 1..Len(waiters)}

Waiting == {j \in Jobs : seat[j] = "pending"}

(* Whoever will give a slot back: resumed with it, or still to be resumed. *)
Holders ==
  {j \in Jobs : task[j] \in {"checkpoint", "decoding"} \/ seat[j] = "granted"}

(* No slot leaks and none is given back twice: _active counts the callers    *)
(* that hold one, also when a grant and a timeout meet in one tick, so the   *)
(* max(0, ...) of release() never hides an extra release.                    *)
SlotsAccounted == active = Cardinality(Holders)

(* A caller that still waits has its seat in the deque, once: popping or     *)
(* removing other seats never loses it.                                      *)
WaitersInLine ==
  \A j \in Waiting :
    \E i \in 1..Len(waiters) :
      /\ waiters[i] = j
      /\ \A k \in 1..Len(waiters) : waiters[k] = j => k = i

(* What one run checks of the limiter's bookkeeping: types, count and line.  *)
LimiterConsistent == TypeOK /\ SlotsAccounted /\ WaitersInLine

(* No lost wake-up: while somebody waits, somebody holds a slot, and its     *)
(* release will run _wake().                                                 *)
NoLostWakeup == Waiting # {} => Holders # {}

(* A step hands out slots only up to the limit of the engine loaded then: a  *)
(* swap to a single-decode engine stops the grants until it has drained.     *)
GrantsUnderLimit == [][active' > active => active' <= limit]_vars

Position(j) == CHOOSE i \in 1..Len(waiters) : waiters[i] = j

Before(k, j) == j \in InLine => Position(k) < Position(j)

(* First come, first served: whoever takes a slot leaves nobody waiting that *)
(* stood in line before it, newcomers on the fast path included.             *)
NobodyPasses ==
  [][\A j \in Holders' \ Holders, k \in Waiting : Before(k, j) => k \notin Waiting']_vars

(* Work conserving: every step that hands out, returns or asks for a slot    *)
(* leaves callers waiting only if the engine's limit is used up.             *)
WorkConserving ==
  [][(Holders' # Holders \/ ~(Waiting' \subseteq Waiting))
        => (Waiting' = {} \/ active' >= limit)]_vars

(* Nobody starves: under the fairness of the event loop and decodes that     *)
(* end, a waiting caller is served (or gives up), however many newcomers ask. *)
EveryWaiterLeaves ==
  \A j \in Jobs : seat[j] = "pending" ~> seat[j] # "pending"

-----------------------------------------------------------------------------
(* The mapping under which the limiter implements SlotPool: a slot is held   *)
(* from the moment it is granted, also before its owner runs, and a seat     *)
(* whose owner gave up is not in line.                                       *)

(* The pairs of callers in S of which the first stands before the second in w. *)
InOrder(w, S) ==
  {p \in S \X S : \E a, b \in 1..Len(w) : a < b /\ w[a] = p[1] /\ w[b] = p[2]}

Pool == INSTANCE SlotPool WITH holders <- Holders, line <- Waiting,
                               ahead <- InOrder(waiters, Waiting)

(* The limiter with its dead seats, its checkpoint after the grant and its   *)
(* hand-over to callers that are giving up is a first-come, first-served     *)
(* pool: every step is a step of SlotPool or invisible there.                *)
ImplementsSlotPool == Pool!PoolSpec
=============================================================================
