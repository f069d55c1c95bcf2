---------------------------- MODULE CleanupProofs ----------------------------
(***************************************************************************)
(* Proofs about CleanupRuntime: admission is exact, no server leaks, the   *)
(* status is honest and a request keeps its server, for any number of      *)
(* requests, models and workers.                                           *)
(***************************************************************************)
EXTENDS CleanupRuntime, FiniteSetTheorems, TLAPS

(* Only the load of the current worker can still start a server. *)
LoadsOwned == \A w \in Workers : load[w] \in {"probing", "waiting"} => w = worker

(* Only a lease holds a runtime. *)
ServedLeased == \A u \in Users : served[u] # NoWorker => user[u] = "leased"

(* The manager's half of the inductive invariant ... *)
AdmissionInv ==
  /\ slot \in Nat /\ leases \in Nat
  /\ user \in [Users -> {"away", "waiting", "granted", "leased"}]
  /\ served \in [Users -> Workers \cup {NoWorker}]
  /\ idle \in BOOLEAN
  /\ AdmissionExact
  /\ ServedLeased

(* ... and the host's. *)
HostTypeOK ==
  /\ enabled \in BOOLEAN /\ selected \in Models \cup {NoModel}
  /\ worker \in Workers \cup {NoWorker}
  /\ key \in Models \cup {NoModel}
  /\ process \in [Workers -> {"none", "spawned", "ready"}]
  /\ load \in [Workers -> {"none", "probing", "waiting", "cancelled"}]
  /\ reaped \in SUBSET Workers
  /\ failure \in BOOLEAN /\ offloaded \in BOOLEAN

HostInv == HostTypeOK /\ LoadsOwned /\ NoServerLeak /\ StatusHonest

CleanupInv == AdmissionInv /\ HostInv /\ stopped \in BOOLEAN

Seated == {u \in Users : user[u] \in {"granted", "leased"}}
Leased == {u \in Users : user[u] = "leased"}

-----------------------------------------------------------------------------
(* The host.                                                                *)

(* What cancelling the current load leaves. *)
LEMMA CancelledLoads ==
  ASSUME HostInv
  PROVE  /\ Cancelled \in [Workers -> {"none", "probing", "waiting", "cancelled"}]
         /\ \A w \in Workers : Cancelled[w] \notin {"probing", "waiting"}
<1>1. load \in [Workers -> {"none", "probing", "waiting", "cancelled"}]
  BY DEF HostInv, HostTypeOK
<1>2. \A w \in Workers : load[w] \in {"probing", "waiting"} => w = worker
  BY DEF HostInv, LoadsOwned
<1> QED BY <1>1, <1>2 DEF Cancelled

(* A detached worker is reaped and its load is cancelled. *)
LEMMA DetachKeeps ==
  ASSUME HostInv, NEW b \in BOOLEAN, Detach(b),
         enabled' \in BOOLEAN, selected' \in Models \cup {NoModel}
  PROVE  HostInv'
<1>1. /\ worker' = NoWorker /\ key' = NoModel /\ load' = Cancelled
      /\ reaped' = reaped \cup ({worker} \ {NoWorker})
      /\ offloaded' = b /\ process' = process /\ failure' = failure
  BY DEF Detach, Reaping
<1>2. HostTypeOK' BY <1>1, CancelledLoads DEF HostInv, HostTypeOK
<1>3. LoadsOwned' BY <1>1, CancelledLoads DEF LoadsOwned
<1>4. NoServerLeak'
  BY <1>1, NoWorkerAssumption DEF HostInv, NoServerLeak, Running
<1>5. StatusHonest' BY <1>1 DEF StatusHonest, Running
<1> QED BY <1>2, <1>3, <1>4, <1>5 DEF HostInv

(* Whoever asks for a runtime, the host stays in order; the worker is        *)
(* replaced only by one for another model.                                   *)
LEMMA RuntimeKeeps ==
  ASSUME HostInv, NEW x, Runtime(x), UNCHANGED choice
  PROVE  HostInv' /\ (worker' = worker \/ ~Fits)
<1> USE DEF choice
<1>1. CASE NothingToRun
  BY <1>1 DEF NothingToRun, processes, report, HostInv, HostTypeOK, LoadsOwned,
              NoServerLeak, StatusHonest, Running
<1>2. CASE Resident
  <2>1. HostTypeOK' BY <1>2 DEF Resident, processes, HostInv, HostTypeOK
  <2>2. LoadsOwned' BY <1>2 DEF Resident, processes, HostInv, LoadsOwned
  <2>3. NoServerLeak' BY <1>2 DEF Resident, processes, HostInv, NoServerLeak, Running
  <2>4. StatusHonest' BY <1>2 DEF Resident, StatusHonest
  <2> QED BY <2>1, <2>2, <2>3, <2>4, <1>2 DEF HostInv, Resident
<1>3. CASE StartsLoad
  <2>1. /\ worker \in Workers /\ ~Running(worker)
        /\ load' = [load EXCEPT ![worker] = IF @ = "none" THEN "probing" ELSE @]
        /\ UNCHANGED <<worker, key, process, reaped, failure, offloaded, enabled, selected>>
    BY <1>3 DEF StartsLoad, Fits, HostInv, HostTypeOK, report
  <2>2. load \in [Workers -> {"none", "probing", "waiting", "cancelled"}]
    BY DEF HostInv, HostTypeOK
  <2>3. load' \in [Workers -> {"none", "probing", "waiting", "cancelled"}]
    BY <2>1, <2>2
  <2>4. HostTypeOK' BY <2>1, <2>3 DEF HostInv, HostTypeOK
  <2>5. LoadsOwned' BY <2>1, <2>2 DEF HostInv, LoadsOwned
  <2>6. NoServerLeak' BY <2>1 DEF HostInv, NoServerLeak, Running
  <2>7. StatusHonest' BY <2>1 DEF HostInv, StatusHonest, Running
  <2> QED BY <2>1, <2>4, <2>5, <2>6, <2>7 DEF HostInv
<1>4. CASE Replaces
  <2>1. PICK w \in Fresh : /\ worker' = w /\ key' = selected
                           /\ load' = [Cancelled EXCEPT ![w] = "probing"]
    BY <1>4 DEF Replaces
  <2>2. w \in Workers /\ process[w] = "none" /\ w # NoWorker
    BY NoWorkerAssumption DEF Fresh
  <2>3. /\ reaped' = reaped \cup ({worker} \ {NoWorker})
        /\ offloaded' = FALSE /\ ~Fits
        /\ UNCHANGED <<process, failure, enabled, selected>>
    BY <1>4 DEF Replaces, Reaping
  <2>4. /\ Cancelled \in [Workers -> {"none", "probing", "waiting", "cancelled"}]
        /\ \A v \in Workers : Cancelled[v] \notin {"probing", "waiting"}
    BY CancelledLoads
  <2>5. HostTypeOK' BY <2>1, <2>2, <2>3, <2>4 DEF HostInv, HostTypeOK
  <2>6. LoadsOwned' BY <2>1, <2>2, <2>4 DEF LoadsOwned
  <2>7. NoServerLeak' BY <2>1, <2>2, <2>3 DEF HostInv, NoServerLeak, Running
  <2>8. StatusHonest' BY <2>1, <2>2, <2>3 DEF StatusHonest, Running
  <2> QED BY <2>3, <2>5, <2>6, <2>7, <2>8 DEF HostInv
<1> QED BY <1>1, <1>2, <1>3, <1>4 DEF Runtime

(* A step of a worker, its process or the thread that stops it. *)
WorkerStep(w) ==
  \/ Spawn(w) \/ Ready(w) \/ Loaded(w) \/ LoadFails(w) \/ LoadCancelled(w)
  \/ Reaped(w) \/ Exit(w)

LEMMA WorkerKeeps ==
  ASSUME HostInv, NEW w \in Workers, WorkerStep(w)
  PROVE  HostInv' /\ UNCHANGED <<admission, worker, stopped>>
<1> USE DEF choice, report, HostInv
<1>0. /\ process \in [Workers -> {"none", "spawned", "ready"}]
      /\ load \in [Workers -> {"none", "probing", "waiting", "cancelled"}]
      /\ reaped \subseteq Workers
      /\ UNCHANGED <<admission, choice, worker, key, stopped>>
  BY DEF HostTypeOK, WorkerStep, Spawn, Ready, Loaded, LoadFails, LoadCancelled, Reaped, Exit
<1>1. CASE Spawn(w)
  <2>1. /\ w = worker /\ load' = [load EXCEPT ![w] = "waiting"]
        /\ process' = [process EXCEPT ![w] = "spawned"]
        /\ UNCHANGED <<reaped, failure, offloaded>>
    BY <1>1 DEF Spawn, LoadsOwned
  <2>2. HostTypeOK' BY <2>1, <1>0 DEF HostTypeOK
  <2>3. LoadsOwned' BY <2>1, <1>0 DEF LoadsOwned
  <2>4. NoServerLeak' BY <2>1, <1>0 DEF NoServerLeak, Running
  <2>5. StatusHonest' BY <2>1, <1>0 DEF StatusHonest, Running
  <2> QED BY <2>2, <2>3, <2>4, <2>5, <1>0
<1>2. CASE Ready(w)
  <2>1. /\ process[w] # "none" /\ process' = [process EXCEPT ![w] = "ready"]
        /\ UNCHANGED <<load, reaped, failure, offloaded>>
    BY <1>2 DEF Ready
  <2>2. HostTypeOK' BY <2>1, <1>0 DEF HostTypeOK
  <2>3. LoadsOwned' BY <2>1, <1>0 DEF LoadsOwned
  <2>4. NoServerLeak' BY <2>1, <1>0 DEF NoServerLeak, Running
  <2>5. StatusHonest' BY <2>1, <1>0 DEF StatusHonest, Running, HostTypeOK
  <2> QED BY <2>2, <2>3, <2>4, <2>5, <1>0
<1>3. CASE Loaded(w)
  <2>1. /\ load' = [load EXCEPT ![w] = "none"] /\ ~failure' /\ ~offloaded'
        /\ failure' \in BOOLEAN /\ offloaded' \in BOOLEAN
        /\ UNCHANGED <<process, reaped>>
    BY <1>3 DEF Loaded
  <2>2. HostTypeOK' BY <2>1, <1>0 DEF HostTypeOK
  <2>3. LoadsOwned' BY <2>1, <1>0 DEF LoadsOwned
  <2>4. NoServerLeak' BY <2>1, <1>0 DEF NoServerLeak, Running
  <2>5. StatusHonest' BY <2>1 DEF StatusHonest
  <2> QED BY <2>2, <2>3, <2>4, <2>5, <1>0
<1>4. CASE LoadFails(w)
  <2>1. /\ w = worker /\ load' = [load EXCEPT ![w] = "none"]
        /\ process' = [process EXCEPT ![w] = "none"]
        /\ failure' = TRUE /\ UNCHANGED <<reaped, offloaded>>
    BY <1>4 DEF LoadFails, LoadsOwned
  <2>2. HostTypeOK' BY <2>1, <1>0 DEF HostTypeOK
  <2>3. LoadsOwned' BY <2>1, <1>0 DEF LoadsOwned
  <2>4. NoServerLeak' BY <2>1, <1>0 DEF NoServerLeak, Running
  <2>5. StatusHonest' BY <2>1, <1>0 DEF StatusHonest, Running
  <2> QED BY <2>2, <2>3, <2>4, <2>5, <1>0
<1>5. CASE LoadCancelled(w)
  <2>1. /\ load' = [load EXCEPT ![w] = "none"]
        /\ process' = [process EXCEPT ![w] = "none"]
        /\ UNCHANGED <<reaped, failure, offloaded>>
    BY <1>5 DEF LoadCancelled
  <2>2. HostTypeOK' BY <2>1, <1>0 DEF HostTypeOK
  <2>3. LoadsOwned' BY <2>1, <1>0 DEF LoadsOwned
  <2>4. NoServerLeak' BY <2>1, <1>0 DEF NoServerLeak, Running
  <2>5. StatusHonest' BY <2>1, <1>0 DEF StatusHonest, Running, HostTypeOK
  <2> QED BY <2>2, <2>3, <2>4, <2>5, <1>0
<1>6. CASE Reaped(w) \/ Exit(w)
  <2>1. /\ process' = [process EXCEPT ![w] = "none"]
        /\ reaped' = reaped \/ reaped' = reaped \ {w}
        /\ UNCHANGED <<load, failure, offloaded>>
    BY <1>6 DEF Reaped, Exit
  <2>2. HostTypeOK' BY <2>1, <1>0 DEF HostTypeOK
  <2>3. LoadsOwned' BY <2>1, <1>0 DEF LoadsOwned
  <2>4. NoServerLeak' BY <2>1, <1>0 DEF NoServerLeak, Running
  <2>5. StatusHonest' BY <2>1, <1>0 DEF StatusHonest, Running, HostTypeOK
  <2> QED BY <2>2, <2>3, <2>4, <2>5, <1>0
<1> QED BY <1>1, <1>2, <1>3, <1>4, <1>5, <1>6 DEF WorkerStep

-----------------------------------------------------------------------------
(* The manager.                                                             *)

(* The sets that admission counts are finite, the leased are seated, and the *)
(* counters are their sizes.                                                 *)
LEMMA SetsFinite ==
  ASSUME AdmissionInv
  PROVE  /\ IsFiniteSet(Seated) /\ IsFiniteSet(Leased) /\ Leased \subseteq Seated
         /\ Cardinality(Seated) \in Nat /\ Cardinality(Leased) \in Nat
         /\ slot + Cardinality(Seated) = 1
         /\ leases = Cardinality(Leased)
<1>1. Seated \subseteq Users /\ Leased \subseteq Seated BY DEF Seated, Leased
<1>2. IsFiniteSet(Seated) /\ IsFiniteSet(Leased)
  BY <1>1, CleanupUsersAssumption, FS_Subset
<1>3. Cardinality(Seated) \in Nat /\ Cardinality(Leased) \in Nat
  BY <1>2, FS_CardinalityType
<1> QED BY <1>1, <1>2, <1>3 DEF AdmissionInv, AdmissionExact, Seated, Leased

(* Nobody is leased a runtime while the count is 0. *)
LEMMA NoLeaseNoUser ==
  ASSUME AdmissionInv, leases = 0, NEW u \in Users
  PROVE  user[u] # "leased"
<1>1. Leased = {} BY SetsFinite, FS_EmptySet
<1> QED BY <1>1 DEF Leased

(* release() passes the slot on or gives it back. *)
LEMMA ReleaseKeeps ==
  ASSUME AdmissionInv, NEW u \in Users, user[u] \in {"granted", "leased"}, Releases(u)
  PROVE  /\ slot' \in Nat
         /\ user' \in [Users -> {"away", "waiting", "granted", "leased"}]
         /\ slot' + Cardinality(Seated') = 1
         /\ Leased' = Leased \ {u}
<1>1. /\ slot \in Nat /\ slot + Cardinality(Seated) = 1
      /\ IsFiniteSet(Seated) /\ Cardinality(Seated) \in Nat
      /\ user \in [Users -> {"away", "waiting", "granted", "leased"}]
  BY SetsFinite DEF AdmissionInv
<1>2. u \in Seated BY DEF Seated
<1>3. /\ IsFiniteSet(Seated \ {u})
      /\ Cardinality(Seated \ {u}) = Cardinality(Seated) - 1
  BY <1>1, <1>2, FS_RemoveElement
<1>4. CASE slot' = slot + 1 /\ user' = [user EXCEPT ![u] = "away"]
  <2>1. Seated' = Seated \ {u} BY <1>1, <1>4 DEF Seated
  <2>2. Leased' = Leased \ {u} BY <1>1, <1>4 DEF Leased
  <2>3. user' \in [Users -> {"away", "waiting", "granted", "leased"}] BY <1>1, <1>4
  <2> QED BY <2>1, <2>2, <2>3, <1>1, <1>3, <1>4
<1>5. ASSUME NEW v \in Waiting, slot' = slot,
             user' = [user EXCEPT ![u] = "away", ![v] = "granted"]
      PROVE  /\ slot' \in Nat
             /\ user' \in [Users -> {"away", "waiting", "granted", "leased"}]
             /\ slot' + Cardinality(Seated') = 1
             /\ Leased' = Leased \ {u}
  <2>1. v \in Users /\ user[v] = "waiting" /\ v # u BY DEF Waiting
  <2>2. v \notin Seated \ {u} BY <2>1 DEF Seated
  <2>3. Seated' = (Seated \ {u}) \cup {v} BY <1>1, <1>5, <2>1 DEF Seated
  <2>4. Leased' = Leased \ {u} BY <1>1, <1>5, <2>1 DEF Leased
  <2>5. user' \in [Users -> {"away", "waiting", "granted", "leased"}]
    BY <1>1, <1>5, <2>1
  <2>6. Cardinality((Seated \ {u}) \cup {v}) = Cardinality(Seated \ {u}) + 1
    BY <1>3, <2>2, FS_AddElement
  <2> QED BY <2>3, <2>4, <2>5, <2>6, <1>1, <1>3, <1>5
<1> QED BY <1>4, <1>5 DEF Releases

(* The step of taking a lease, counted. *)
LEMMA TakesLeaseKeeps ==
  ASSUME AdmissionInv, NEW u \in Users, user[u] # "leased", TakesLease(u),
         slot' \in Nat, slot' + Cardinality(Seated \cup {u}) = 1
  PROVE  AdmissionInv'
<1>1. /\ user \in [Users -> {"away", "waiting", "granted", "leased"}]
      /\ served \in [Users -> Workers \cup {NoWorker}]
      /\ leases \in Nat /\ idle \in BOOLEAN
  BY DEF AdmissionInv
<1>2. PICK w \in Workers \cup {NoWorker} : served' = [served EXCEPT ![u] = w]
  BY DEF TakesLease
<1>3. user' = [user EXCEPT ![u] = "leased"] /\ leases' = leases + 1 /\ idle' = idle
  BY DEF TakesLease
<1>4. Seated' = Seated \cup {u} BY <1>1, <1>3 DEF Seated
<1>5. Leased' = Leased \cup {u} /\ u \notin Leased BY <1>1, <1>3 DEF Leased
<1>6. Cardinality(Leased \cup {u}) = Cardinality(Leased) + 1
  BY <1>5, SetsFinite, FS_AddElement
<1>7. leases' = Cardinality(Leased') BY <1>3, <1>5, <1>6, SetsFinite
<1>8. slot' + Cardinality(Seated') = 1 BY <1>4
<1>9. AdmissionExact' BY <1>7, <1>8 DEF AdmissionExact, Seated, Leased
<1>10. ServedLeased' BY <1>1, <1>2, <1>3 DEF AdmissionInv, ServedLeased
<1>11. user' \in [Users -> {"away", "waiting", "granted", "leased"}] BY <1>1, <1>3
<1>12. served' \in [Users -> Workers \cup {NoWorker}] BY <1>1, <1>2
<1> QED BY <1>1, <1>3, <1>9, <1>10, <1>11, <1>12 DEF AdmissionInv

LEMMA UserKeeps ==
  ASSUME AdmissionInv, NEW u \in Users,
         Admit(u) \/ Wait(u) \/ Granted(u) \/ Busy(u) \/ Withdraw(u) \/ EndLease(u)
  PROVE  AdmissionInv'
<1>1. /\ user \in [Users -> {"away", "waiting", "granted", "leased"}]
      /\ served \in [Users -> Workers \cup {NoWorker}]
      /\ slot \in Nat /\ leases \in Nat /\ idle \in BOOLEAN
      /\ ServedLeased
  BY DEF AdmissionInv
<1>2. CASE Admit(u)
  <2>1. u \notin Seated /\ slot \in Nat \ {0} /\ slot' = slot - 1
    BY <1>1, <1>2 DEF Admit, Seated
  <2>2. Cardinality(Seated \cup {u}) = Cardinality(Seated) + 1
    BY <2>1, SetsFinite, FS_AddElement
  <2>3. slot' \in Nat /\ slot' + Cardinality(Seated \cup {u}) = 1
    BY <2>1, <2>2, SetsFinite
  <2> QED BY <2>3, <1>2, TakesLeaseKeeps DEF Admit
<1>3. CASE Granted(u)
  <2>1. Seated \cup {u} = Seated /\ slot' = slot BY <1>3 DEF Granted, Seated
  <2>2. slot' \in Nat /\ slot' + Cardinality(Seated \cup {u}) = 1
    BY <1>1, <2>1, SetsFinite
  <2> QED BY <2>2, <1>3, TakesLeaseKeeps DEF Granted
<1>4. CASE Wait(u) \/ Busy(u)
  <2>1. /\ user[u] \in {"away", "waiting"}
        /\ user' = [user EXCEPT ![u] = "waiting"] \/ user' = [user EXCEPT ![u] = "away"]
        /\ UNCHANGED <<slot, leases, served, idle>>
    BY <1>4 DEF Wait, Busy
  <2>2. user' \in [Users -> {"away", "waiting", "granted", "leased"}] BY <1>1, <2>1
  <2>3. Seated' = Seated /\ Leased' = Leased BY <1>1, <2>1 DEF Seated, Leased
  <2>4. AdmissionExact'
    BY <2>1, <2>3, SetsFinite DEF AdmissionExact, Seated, Leased
  <2>5. ServedLeased' BY <1>1, <2>1 DEF ServedLeased
  <2> QED BY <1>1, <2>1, <2>2, <2>4, <2>5 DEF AdmissionInv
<1>5. CASE Withdraw(u)
  <2>1. user[u] = "granted" /\ Releases(u) /\ UNCHANGED <<leases, served, idle>>
    BY <1>5 DEF Withdraw
  <2>2. /\ slot' \in Nat
        /\ user' \in [Users -> {"away", "waiting", "granted", "leased"}]
        /\ slot' + Cardinality(Seated') = 1
        /\ Leased' = Leased \ {u}
    BY <2>1, ReleaseKeeps
  <2>3. Leased' = Leased BY <2>1, <2>2 DEF Leased
  <2>4. leases' = Cardinality(Leased') BY <2>1, <2>3, SetsFinite
  <2>5. AdmissionExact' BY <2>2, <2>4 DEF AdmissionExact, Seated, Leased
  <2>6. \A v \in Users : user[v] = "leased" => user'[v] = "leased"
    BY <2>3 DEF Leased
  <2>7. ServedLeased' BY <1>1, <2>1, <2>6 DEF ServedLeased
  <2> QED BY <1>1, <2>1, <2>2, <2>5, <2>7 DEF AdmissionInv
<1>6. CASE EndLease(u)
  <2>1. /\ user[u] = "leased" /\ Releases(u) /\ leases' = leases - 1
        /\ served' = [served EXCEPT ![u] = NoWorker] /\ idle' = FALSE
    BY <1>6 DEF EndLease
  <2>2. /\ slot' \in Nat
        /\ user' \in [Users -> {"away", "waiting", "granted", "leased"}]
        /\ slot' + Cardinality(Seated') = 1
        /\ Leased' = Leased \ {u}
    BY <2>1, ReleaseKeeps
  <2>3. u \in Leased BY <2>1 DEF Leased
  <2>4. IsFiniteSet(Leased \ {u}) /\ Cardinality(Leased \ {u}) = Cardinality(Leased) - 1
    BY <2>3, SetsFinite, FS_RemoveElement
  <2>5. leases' = Cardinality(Leased') BY <2>1, <2>2, <2>4, SetsFinite
  <2>6. Cardinality(Leased') \in Nat BY <2>2, <2>4, FS_CardinalityType
  <2>7. AdmissionExact' BY <2>2, <2>5 DEF AdmissionExact, Seated, Leased
  <2>8. \A v \in Users : v # u /\ user[v] = "leased" => user'[v] = "leased"
    BY <2>2 DEF Leased
  <2>9. ServedLeased' BY <1>1, <2>1, <2>8 DEF ServedLeased
  <2>10. served' \in [Users -> Workers \cup {NoWorker}] BY <1>1, <2>1
  <2> QED BY <2>1, <2>2, <2>5, <2>6, <2>7, <2>9, <2>10 DEF AdmissionInv
<1> QED BY <1>2, <1>3, <1>4, <1>5, <1>6

(* Steps of the operators and of the host leave admission alone. *)
LEMMA AdmissionStays ==
  ASSUME AdmissionInv, UNCHANGED <<slot, user, leases, served>>, idle' \in BOOLEAN
  PROVE  AdmissionInv'
BY DEF AdmissionInv, AdmissionExact, ServedLeased

-----------------------------------------------------------------------------
(* The whole.                                                               *)

LEMMA CleanupInitInv == CleanupInit => CleanupInv
<1> SUFFICES ASSUME CleanupInit PROVE CleanupInv
  OBVIOUS
<1> USE DEF CleanupInit
<1>1. Seated = {} /\ Leased = {} BY DEF Seated, Leased
<1>2. AdmissionExact BY <1>1, FS_EmptySet DEF AdmissionExact, Seated, Leased
<1>3. ServedLeased BY DEF ServedLeased
<1>4. AdmissionInv BY <1>2, <1>3 DEF AdmissionInv
<1>5. HostTypeOK BY DEF HostTypeOK
<1>6. LoadsOwned /\ NoServerLeak /\ StatusHonest
  BY DEF LoadsOwned, NoServerLeak, StatusHonest, Running
<1> QED BY <1>4, <1>5, <1>6 DEF CleanupInv, HostInv

(* What a step that asks for a runtime or detaches the worker does to it. *)
LEMMA CleanupStep ==
  ASSUME CleanupInv, [CleanupNext]_cleanupVars
  PROVE  /\ CleanupInv'
         /\ worker' = worker \/ ~Fits \/ leases = 0
<1>0. AdmissionInv /\ HostInv /\ stopped \in BOOLEAN BY DEF CleanupInv
<1>1. ASSUME NEW u \in Users,
             Admit(u) \/ Wait(u) \/ Granted(u) \/ Busy(u) \/ Withdraw(u) \/ EndLease(u)
      PROVE  CleanupInv' /\ (worker' = worker \/ ~Fits)
  <2>1. AdmissionInv' BY <1>0, <1>1, UserKeeps
  <2>2. stopped' = stopped /\ UNCHANGED choice
    BY <1>1 DEF Admit, Wait, Granted, Busy, Withdraw, EndLease, TakesLease
  <2>3. CASE Admit(u) \/ Granted(u)
    <3>1. \E x \in Workers \cup {NoWorker} : Runtime(x)
      BY <2>3 DEF Admit, Granted, TakesLease
    <3>2. HostInv' /\ (worker' = worker \/ ~Fits) BY <3>1, <2>2, <1>0, RuntimeKeeps
    <3> QED BY <3>2, <2>1, <2>2, <1>0 DEF CleanupInv
  <2>4. CASE Wait(u) \/ Busy(u) \/ Withdraw(u) \/ EndLease(u)
    <3>1. UNCHANGED <<choice, worker, processes, report>>
      BY <2>4 DEF Wait, Busy, Withdraw, EndLease
    <3>2. HostInv'
      BY <3>1, <1>0 DEF choice, processes, report, HostInv, HostTypeOK, LoadsOwned,
                        NoServerLeak, StatusHonest, Running
    <3> QED BY <3>1, <3>2, <2>1, <2>2, <1>0 DEF CleanupInv
  <2> QED BY <2>3, <2>4, <1>1
<1>2. CASE Warmup
  <2>1. UNCHANGED <<admission, choice, stopped>> BY <1>2 DEF Warmup
  <2>2. HostInv' /\ (worker' = worker \/ ~Fits) BY <1>2, <2>1, <1>0, RuntimeKeeps DEF Warmup
  <2>3. AdmissionInv' BY <2>1, <1>0, AdmissionStays DEF admission, AdmissionInv
  <2> QED BY <2>1, <2>2, <2>3, <1>0 DEF CleanupInv
<1>3. ASSUME NEW on \in BOOLEAN, NEW changed \in BOOLEAN, NEW model \in Models \cup {NoModel},
             Configure(on, model, changed)
      PROVE  CleanupInv' /\ (worker' = worker \/ leases = 0)
  <2>1. /\ UNCHANGED <<admission, stopped>>
        /\ enabled' \in BOOLEAN /\ selected' \in Models \cup {NoModel}
    BY <1>3 DEF Configure
  <2>2. AdmissionInv' BY <2>1, <1>0, AdmissionStays DEF admission, AdmissionInv
  <2>3. CASE UNCHANGED <<worker, processes, report>>
    <3>1. HostInv'
      BY <2>1, <2>3, <1>0 DEF processes, report, HostInv, HostTypeOK, LoadsOwned,
                              NoServerLeak, StatusHonest, Running
    <3> QED BY <3>1, <2>1, <2>2, <2>3, <1>0 DEF CleanupInv
  <2>4. CASE leases = 0 /\ Detach(FALSE)
    <3>1. HostInv' BY <2>1, <2>4, <1>0, DetachKeeps
    <3> QED BY <3>1, <2>1, <2>2, <2>4, <1>0 DEF CleanupInv
  <2> QED BY <2>3, <2>4, <1>3 DEF Configure
<1>4. CASE Deleted \/ TimePassed \/ \E model \in Models : Downloaded(model)
  <2>1. /\ UNCHANGED <<slot, user, leases, served, worker, processes, report, stopped>>
        /\ enabled' = enabled /\ idle' \in BOOLEAN
        /\ selected' \in Models \cup {NoModel}
    BY <1>4, <1>0 DEF Deleted, TimePassed, Downloaded, admission, choice,
                      AdmissionInv, HostInv, HostTypeOK
  <2>2. AdmissionInv' BY <2>1, <1>0, AdmissionStays
  <2>3. HostInv'
    BY <2>1, <1>0 DEF processes, report, HostInv, HostTypeOK, LoadsOwned,
                      NoServerLeak, StatusHonest, Running
  <2> QED BY <2>1, <2>2, <2>3, <1>0 DEF CleanupInv
<1>5. CASE Offload \/ ShutDown
  <2>1. PICK b \in BOOLEAN : Detach(b) BY <1>5 DEF Offload, ShutDown
  <2>2. UNCHANGED <<admission, choice>> /\ stopped' \in BOOLEAN
    BY <1>5, <1>0 DEF Offload, ShutDown
  <2>3. HostInv'
    <3>1. enabled' \in BOOLEAN /\ selected' \in Models \cup {NoModel}
      BY <2>2, <1>0 DEF choice, HostInv, HostTypeOK
    <3> QED BY <3>1, <2>1, <1>0, DetachKeeps
  <2>4. AdmissionInv' BY <2>2, <1>0, AdmissionStays DEF admission, AdmissionInv
  <2>5. leases = 0
    <3>1. CASE Offload BY <3>1 DEF Offload
    <3>2. CASE ShutDown
      <4>1. Leased = {} BY <3>2 DEF ShutDown, Leased
      <4> QED BY <4>1, <1>0, SetsFinite, FS_EmptySet
    <3> QED BY <3>1, <3>2, <1>5
  <2> QED BY <2>2, <2>3, <2>4, <2>5 DEF CleanupInv
<1>6. ASSUME NEW w \in Workers, WorkerStep(w)
      PROVE  CleanupInv' /\ worker' = worker
  <2>1. HostInv' /\ UNCHANGED <<admission, worker, stopped>>
    BY <1>0, <1>6, WorkerKeeps
  <2>2. AdmissionInv' BY <2>1, <1>0, AdmissionStays DEF admission, AdmissionInv
  <2> QED BY <2>1, <2>2, <1>0 DEF CleanupInv
<1>7. CASE UNCHANGED cleanupVars
  <2>1. UNCHANGED <<admission, choice, worker, processes, report, stopped>>
    BY <1>7 DEF cleanupVars
  <2>2. AdmissionInv' BY <2>1, <1>0, AdmissionStays DEF admission, AdmissionInv
  <2>3. HostInv'
    BY <2>1, <1>0 DEF choice, processes, report, HostInv, HostTypeOK, LoadsOwned,
                      NoServerLeak, StatusHonest, Running
  <2> QED BY <2>1, <2>2, <2>3, <1>0 DEF CleanupInv
<1> QED BY <1>1, <1>2, <1>3, <1>4, <1>5, <1>6, <1>7 DEF CleanupNext, WorkerStep

(* Every reachable state satisfies the inductive invariant. *)
THEOREM CleanupInvariant == CleanupSpec => []CleanupInv
<1>1. CleanupInit => CleanupInv BY CleanupInitInv
<1>2. CleanupInv /\ [CleanupNext]_cleanupVars => CleanupInv' BY CleanupStep
<1> QED BY <1>1, <1>2, PTL DEF CleanupSpec

(* The types of CleanupRuntime: each variable of the manager, the host and   *)
(* the workers stays in its range.                                           *)
THEOREM CleanupTypes == CleanupSpec => []CleanupTypeOK
<1>1. CleanupInv => CleanupTypeOK
  BY DEF CleanupInv, AdmissionInv, HostInv, HostTypeOK, CleanupTypeOK
<1> QED BY <1>1, CleanupInvariant, PTL

(* The slot and the lease count agree with who is admitted, whatever meets   *)
(* in one tick (manager.py:468-478).                                         *)
THEOREM CleanupAdmission == CleanupSpec => []AdmissionExact
<1>1. CleanupInv => AdmissionExact BY DEF CleanupInv, AdmissionInv
<1> QED BY <1>1, CleanupInvariant, PTL

(* A server that runs is the host's or is being stopped (host.py:111-125,    *)
(* worker.py:214-222).                                                       *)
THEOREM CleanupNoLeak == CleanupSpec => []NoServerLeak
<1>1. CleanupInv => NoServerLeak BY DEF CleanupInv, HostInv
<1> QED BY <1>1, CleanupInvariant, PTL

(* "offloaded" and the error of the status card are true of what runs        *)
(* (host.py:143-159).                                                        *)
THEOREM CleanupStatus == CleanupSpec => []StatusHonest
<1>1. CleanupInv => StatusHonest BY DEF CleanupInv, HostInv
<1> QED BY <1>1, CleanupInvariant, PTL

(* A leased request keeps its server while the selection stays               *)
(* (manager.py:355, 418-419).                                                *)
THEOREM CleanupKeepsServer == CleanupSpec => KeepsItsServer
<1> DEFINE Kept ==
      \A u \in Users :
        served[u] # NoWorker /\ served[u] = worker /\ worker' # worker
          => served'[u] = NoWorker \/ selected # key
<1>1. ASSUME CleanupInv, CleanupNext PROVE Kept
  <2> SUFFICES ASSUME NEW u \in Users,
                      served[u] # NoWorker, served[u] = worker, worker' # worker
               PROVE  served'[u] = NoWorker \/ selected # key
    OBVIOUS
  <2>1. user[u] = "leased" BY <1>1 DEF CleanupInv, AdmissionInv, ServedLeased
  <2>2. leases # 0 BY <1>1, <2>1, NoLeaseNoUser DEF CleanupInv
  <2>3. ~Fits BY <1>1, <2>2, CleanupStep
  <2> QED BY <2>3 DEF Fits
<1>2. CleanupInv /\ [CleanupNext]_cleanupVars => [Kept]_cleanupVars BY <1>1
<1> QED BY <1>2, CleanupInvariant, PTL DEF CleanupSpec, KeepsItsServer

(* Types, admission and the status report hold together, for any number of   *)
(* users, models and workers (manager.py, host.py, worker.py).               *)
THEOREM CleanupIsConsistent == CleanupSpec => []CleanupConsistent
BY CleanupTypes, CleanupAdmission, CleanupStatus, PTL DEF CleanupConsistent

=============================================================================
