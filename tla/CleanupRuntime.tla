--------------------------- MODULE CleanupRuntime ---------------------------
(***************************************************************************)
(* The optional correction of transcripts: CleanupManager admits one       *)
(* request at a time (app/cleanup/manager.py), WorkerHost keeps one        *)
(* llama-server that fits the selection (app/cleanup/host.py), and         *)
(* LlamaServerWorker starts and stops the process (app/cleanup/worker.py). *)
(*                                                                         *)
(* This is the managed deployment.  A worker object outlives its place in  *)
(* the host: its load task must still be told that it was cancelled, and a *)
(* thread must still terminate its process.                                *)
(***************************************************************************)
EXTENDS Naturals, FiniteSets

CONSTANTS
  Users,    (* transcripts that want a correction; each may come again *)
  Models,   (* installable cleanup models                              *)
  Workers,  (* LlamaServerWorker objects; one no longer used is new    *)
  NoModel,  (* nothing selected or installed                           *)
  NoWorker  (* no worker                                               *)

ASSUME CleanupUsersAssumption == IsFiniteSet(Users)
ASSUME NoModelAssumption == NoModel \notin Models
ASSUME NoWorkerAssumption == NoWorker \notin Workers

VARIABLES
  slot,      (* value of the semaphore _slot                      *)
  user,      (* where each user is                                *)
  leases,    (* _active_leases                                    *)
  served,    (* the worker whose runtime each user was leased     *)
  enabled,   (* cleanup_enabled                                   *)
  selected,  (* the model that is selected and installed          *)
  worker,    (* _worker of the host                               *)
  key,       (* the model the worker was built for                *)
  process,   (* the llama-server of each worker                   *)
  load,      (* the load task of each worker                      *)
  reaped,    (* workers a thread has still to stop                *)
  failure,   (* the host remembers a failed start                 *)
  offloaded, (* the host was stopped by the idle monitor          *)
  idle,      (* the idle period has passed since the last lease   *)
  stopped    (* the gateway has shut down                         *)

admission == <<slot, user, leases, served, idle>>
choice == <<enabled, selected>>
processes == <<key, process, load, reaped>>
report == <<failure, offloaded>>
cleanupVars == <<admission, choice, worker, processes, report, stopped>>

CleanupTypeOK ==
  /\ slot \in Nat /\ leases \in Nat
  /\ user \in [Users -> {"away", "waiting", "granted", "leased"}]
  /\ served \in [Users -> Workers \cup {NoWorker}]
  /\ enabled \in BOOLEAN /\ selected \in Models \cup {NoModel}
  /\ worker \in Workers \cup {NoWorker}
  /\ key \in Models \cup {NoModel}
  /\ process \in [Workers -> {"none", "spawned", "ready"}]
  /\ load \in [Workers -> {"none", "probing", "waiting", "cancelled"}]
  /\ reaped \in SUBSET Workers
  /\ failure \in BOOLEAN /\ offloaded \in BOOLEAN
  /\ idle \in BOOLEAN /\ stopped \in BOOLEAN

CleanupInit ==
  /\ slot = 1 /\ leases = 0
  /\ user = [u \in Users |-> "away"]
  /\ served = [u \in Users |-> NoWorker]
  /\ enabled \in BOOLEAN /\ selected \in Models \cup {NoModel}
  /\ worker = NoWorker
  /\ key = NoModel
  /\ process = [w \in Workers |-> "none"]
  /\ load = [w \in Workers |-> "none"]
  /\ reaped = {}
  /\ failure = FALSE /\ offloaded = FALSE
  /\ idle = FALSE /\ stopped = FALSE

-----------------------------------------------------------------------------
(* WorkerHost.                                                              *)

(* is_running: a process that has not exited, ready or not. *)
Running(w) == w # NoWorker /\ process[w] # "none"

(* A detached worker's load is cancelled, its process left to a thread. *)
Cancelled == [w \in Workers |-> IF w = worker /\ load[w] # "none" THEN "cancelled" ELSE load[w]]
Reaping == reaped \cup ({worker} \ {NoWorker})

(* stop() and aclose(). *)
Detach(asOffload) ==
  /\ worker' = NoWorker /\ key' = NoModel
  /\ load' = Cancelled
  /\ reaped' = Reaping
  /\ offloaded' = asOffload
  /\ UNCHANGED <<process, failure>>

(* Objects that nothing refers to any more stand for new ones. *)
Fresh ==
  {w \in Workers \ (reaped \cup {worker}) :
     /\ load[w] = "none" /\ process[w] = "none"
     /\ \A u \in Users : served[u] # w}

(* _ensure() finds a worker built for the selected model. *)
Fits == worker # NoWorker /\ key = selected

(* _runtime() of the manager and runtime() of the host.  The four cases end  *)
(* with the worker whose runtime the caller gets, or none: off or nothing    *)
(* installed; resident; a load started or under way; another worker needed.  *)
NothingToRun ==
  /\ ~enabled \/ selected = NoModel
  /\ UNCHANGED <<worker, processes, report>>

Resident ==
  /\ enabled /\ selected # NoModel /\ Fits /\ Running(worker)
  /\ failure' = FALSE /\ offloaded' = FALSE
  /\ UNCHANGED <<worker, processes>>

StartsLoad ==
  /\ enabled /\ selected # NoModel /\ Fits /\ ~Running(worker)
  /\ load' = [load EXCEPT ![worker] = IF @ = "none" THEN "probing" ELSE @]
  /\ UNCHANGED <<worker, key, process, reaped, report>>

Replaces ==
  /\ enabled /\ selected # NoModel /\ ~Fits
  /\ \E w \in Fresh :
       /\ worker' = w
       /\ key' = selected
       /\ load' = [Cancelled EXCEPT ![w] = "probing"]
  /\ reaped' = Reaping
  /\ offloaded' = FALSE
  /\ UNCHANGED <<process, failure>>

Runtime(w) ==
  \/ Resident /\ w = worker
  \/ w = NoWorker /\ (NothingToRun \/ StartsLoad \/ Replaces)

-----------------------------------------------------------------------------
(* Admission.                                                               *)

Waiting == {u \in Users : user[u] = "waiting"}

(* release() of the semaphore hands the slot to somebody who waits. *)
Releases(u) ==
  \/ /\ Waiting = {}
     /\ slot' = slot + 1
     /\ user' = [user EXCEPT ![u] = "away"]
  \/ \E v \in Waiting :
       /\ user' = [user EXCEPT ![u] = "away", ![v] = "granted"]
       /\ UNCHANGED slot

(* lease(), admitted: there is no await until the runtime is known. *)
TakesLease(u) ==
  /\ user' = [user EXCEPT ![u] = "leased"]
  /\ leases' = leases + 1
  /\ \E w \in Workers \cup {NoWorker} :
       Runtime(w) /\ served' = [served EXCEPT ![u] = w]
  /\ UNCHANGED <<idle, choice, stopped>>

Admit(u) ==
  /\ ~stopped /\ user[u] = "away"
  /\ slot > 0 /\ Waiting = {}
  /\ slot' = slot - 1
  /\ TakesLease(u)

Wait(u) ==
  /\ ~stopped /\ user[u] = "away"
  /\ slot = 0 \/ Waiting # {}
  /\ user' = [user EXCEPT ![u] = "waiting"]
  /\ UNCHANGED <<slot, leases, served, idle, choice, worker, processes, report, stopped>>

Granted(u) ==
  /\ user[u] = "granted"
  /\ TakesLease(u)
  /\ UNCHANGED slot

(* A slip in Busy: the slot is released although it was not acquired.        *)
BusyReleases(u) ==
  /\ user[u] = "waiting"
  /\ user' = [user EXCEPT ![u] = "away"]
  /\ slot' = slot + 1
  /\ UNCHANGED <<leases, served, idle, choice, worker, processes, report, stopped>>

(* _admit() times out, or the request is cancelled while it waits ... *)
Busy(u) ==
  /\ user[u] = "waiting"
  /\ user' = [user EXCEPT ![u] = "away"]
  /\ UNCHANGED <<slot, leases, served, idle, choice, worker, processes, report, stopped>>

(* ... or just after it was granted: asyncio passes the slot on. *)
Withdraw(u) ==
  /\ user[u] = "granted"
  /\ Releases(u)
  /\ UNCHANGED <<leases, served, idle, choice, worker, processes, report, stopped>>

(* The correction ends, in time or not, and _release() runs. *)
EndLease(u) ==
  /\ user[u] = "leased"
  /\ Releases(u)
  /\ leases' = leases - 1
  /\ served' = [served EXCEPT ![u] = NoWorker]
  /\ idle' = FALSE
  /\ UNCHANGED <<choice, worker, processes, report, stopped>>

-----------------------------------------------------------------------------
(* Operators.                                                               *)

(* "Load model now". *)
Warmup ==
  /\ ~stopped
  /\ \E w \in Workers \cup {NoWorker} : Runtime(w)
  /\ UNCHANGED <<admission, choice, stopped>>

(* Mutant of Configure: leases are not asked for. *)
ConfigureAtOnce(on, model, changed) ==
  /\ ~stopped
  /\ model # selected => changed
  /\ enabled' = on /\ selected' = model
  /\ IF changed \/ ~on THEN Detach(FALSE) ELSE UNCHANGED <<worker, processes, report>>
  /\ UNCHANGED <<admission, stopped>>

(* configure(): to name the model that was in use unnamed is a change too.    *)
(* The write of the config may fail before the worker is stopped; under a    *)
(* lease the worker is left alone.                                           *)
Configure(on, model, changed) ==
  /\ ~stopped
  /\ model # selected => changed
  /\ enabled' = on /\ selected' = model
  /\ \/ UNCHANGED <<worker, processes, report>>
     \/ (changed \/ ~on) /\ leases = 0 /\ Detach(FALSE)
  /\ UNCHANGED <<admission, stopped>>

(* A first download selects itself; a model is deleted while its server does *)
(* not run.                                                                  *)
Downloaded(model) ==
  /\ ~stopped
  /\ selected = NoModel /\ selected' = model
  /\ UNCHANGED <<admission, enabled, worker, processes, report, stopped>>

Deleted ==
  /\ ~stopped
  /\ selected # NoModel /\ ~Running(worker) /\ selected' = NoModel
  /\ UNCHANGED <<admission, enabled, worker, processes, report, stopped>>

TimePassed ==
  /\ ~idle /\ ~stopped
  /\ idle' = TRUE
  /\ UNCHANGED <<slot, user, leases, served, choice, worker, processes, report, stopped>>

(* offload_if_idle(). *)
Offload ==
  /\ ~stopped
  /\ idle /\ leases = 0 /\ Running(worker)
  /\ Detach(TRUE)
  /\ UNCHANGED <<admission, choice, stopped>>

(* shutdown(), when the server has finished its requests. *)
ShutDown ==
  /\ ~stopped
  /\ \A u \in Users : user[u] = "away"
  /\ stopped' = TRUE
  /\ Detach(FALSE)
  /\ UNCHANGED <<admission, choice>>

-----------------------------------------------------------------------------
(* LlamaServerWorker: the load task, the process and the thread that stops. *)

(* Mutant of Spawn: a cancellation during the probe of the flags is lost. *)
SpawnsAnyway(w) ==
  /\ load[w] \in {"probing", "cancelled"} /\ process[w] = "none"
  /\ process' = [process EXCEPT ![w] = "spawned"]
  /\ load' = [load EXCEPT ![w] = "waiting"]
  /\ UNCHANGED <<admission, choice, worker, key, reaped, report, stopped>>

(* _start(): the process is adopted as soon as it is spawned. *)
Spawn(w) ==
  /\ load[w] = "probing"
  /\ process' = [process EXCEPT ![w] = "spawned"]
  /\ load' = [load EXCEPT ![w] = "waiting"]
  /\ UNCHANGED <<admission, choice, worker, key, reaped, report, stopped>>

(* The model is loaded: /health answers. *)
Ready(w) ==
  /\ process[w] = "spawned"
  /\ process' = [process EXCEPT ![w] = "ready"]
  /\ UNCHANGED <<admission, choice, worker, key, load, reaped, report, stopped>>

Loaded(w) ==
  /\ load[w] = "waiting" /\ process[w] = "ready"
  /\ load' = [load EXCEPT ![w] = "none"]
  /\ failure' = FALSE /\ offloaded' = FALSE
  /\ UNCHANGED <<admission, choice, worker, key, process, reaped, stopped>>

(* Mutant of LoadFails: a server that hangs is waited for without a budget. *)
WaitsForServer(w) ==
  /\ load[w] \in {"probing", "waiting"} /\ process[w] = "none"
  /\ load' = [load EXCEPT ![w] = "none"]
  /\ failure' = TRUE
  /\ UNCHANGED <<admission, choice, worker, key, process, reaped, offloaded, stopped>>

(* No executable, no model file, no process, an exit or no answer in time. *)
LoadFails(w) ==
  /\ load[w] \in {"probing", "waiting"}
  /\ load' = [load EXCEPT ![w] = "none"]
  /\ process' = [process EXCEPT ![w] = "none"]
  /\ failure' = TRUE
  /\ UNCHANGED <<admission, choice, worker, key, reaped, offloaded, stopped>>

(* CancelledError reaches the load: whatever it has spawned is stopped. *)
LoadCancelled(w) ==
  /\ load[w] = "cancelled"
  /\ load' = [load EXCEPT ![w] = "none"]
  /\ process' = [process EXCEPT ![w] = "none"]
  /\ UNCHANGED <<admission, choice, worker, key, reaped, report, stopped>>

(* The thread of _reap(), or aclose(). *)
Reaped(w) ==
  /\ w \in reaped
  /\ reaped' = reaped \ {w}
  /\ process' = [process EXCEPT ![w] = "none"]
  /\ UNCHANGED <<admission, choice, worker, key, load, report, stopped>>

(* A server exits by itself. *)
Exit(w) ==
  /\ process[w] # "none"
  /\ process' = [process EXCEPT ![w] = "none"]
  /\ UNCHANGED <<admission, choice, worker, key, load, reaped, report, stopped>>

CleanupNext ==
  \/ \E u \in Users :
       Admit(u) \/ Wait(u) \/ Granted(u) \/ Busy(u) \/ Withdraw(u) \/ EndLease(u)
  \/ \E on, changed \in BOOLEAN, model \in Models \cup {NoModel} :
       Configure(on, model, changed)
  \/ \E model \in Models : Downloaded(model)
  \/ Warmup \/ Deleted \/ TimePassed \/ Offload \/ ShutDown
  \/ \E w \in Workers :
       \/ Spawn(w) \/ Ready(w) \/ Loaded(w) \/ LoadFails(w) \/ LoadCancelled(w)
       \/ Reaped(w) \/ Exit(w)

CleanupSpec == CleanupInit /\ [][CleanupNext]_cleanupVars

(* The event loop runs the load task, whose start has a budget, and the      *)
(* thread pool runs what it is given.  No server needs to become ready.      *)
CleanupFairness ==
  \A w \in Workers :
    /\ WF_cleanupVars(Spawn(w) \/ LoadFails(w))
    /\ WF_cleanupVars(Loaded(w) \/ LoadFails(w))
    /\ WF_cleanupVars(LoadCancelled(w))
    /\ WF_cleanupVars(Reaped(w))

FairCleanupSpec == CleanupSpec /\ CleanupFairness

-----------------------------------------------------------------------------
(* Properties.                                                              *)

(* Admission is exact: one slot, with whoever is leased or about to be, and  *)
(* the lease count that configure() and the idle monitor go by is the truth  *)
(* whatever meets in one tick: a grant, a timeout, a cancellation.           *)
AdmissionExact ==
  /\ slot + Cardinality({u \in Users : user[u] \in {"granted", "leased"}}) = 1
  /\ leases = Cardinality({u \in Users : user[u] = "leased"})

(* No server is left behind: one that runs belongs to the current worker or  *)
(* a thread is still to stop it, also when its start is given up at any of   *)
(* its awaits (worker.py:214-215).                                           *)
NoServerLeak ==
  \A w \in Workers : Running(w) => w = worker \/ w \in reaped

(* What the operator is told holds: "offloaded" is said of no server, an     *)
(* error of a server only while its new start is still being watched.        *)
StatusHonest ==
  /\ offloaded => worker = NoWorker
  /\ failure /\ Running(worker) => load[worker] # "none"

(* A request keeps the server it was admitted against while the selection    *)
(* stays: neither a settings change nor the idle monitor nor another request *)
(* takes it away (manager.py:355, 418-419).                                  *)
KeepsItsServer ==
  [][\A u \in Users :
       served[u] # NoWorker /\ served[u] = worker /\ worker' # worker
         => served'[u] = NoWorker \/ selected # key]_cleanupVars

(* Types, admission and report together.                                     *)
CleanupConsistent == CleanupTypeOK /\ AdmissionExact /\ StatusHonest

(* The status card does not show "loading" for ever: every load ends, though *)
(* a server may hang; and a server the host gave up is gone at last.         *)
LoadsEnd ==
  \A w \in Workers :
    /\ load[w] # "none" ~> load[w] = "none"
    /\ w \in reaped /\ Running(w) ~> ~Running(w)

=============================================================================
