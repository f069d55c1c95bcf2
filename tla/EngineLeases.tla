---------------------------- MODULE EngineLeases ----------------------------
(***************************************************************************)
(* Engines that are swapped while they are in use: EngineManager and its   *)
(* _LeaseBook (app/engines.py).  A transcription, a stream or a warm-up    *)
(* takes a lease on the engine that is current; a settings change builds   *)
(* another engine and retires that one, which is closed when its last      *)
(* lease ends; an idle current engine is unloaded but kept.                *)
(*                                                                         *)
(* The book knows an engine by id(), which Python gives to another object  *)
(* once this one is gone.  So Engines are the ids, and one is used again   *)
(* as soon as nothing refers to its engine.                                *)
(***************************************************************************)
EXTENDS Naturals, FiniteSets

CONSTANTS
  Engines,     (* ids of engine objects                                    *)
  Users,       (* requests and the warm-up task; each may lease repeatedly *)
  Configs,     (* engine signatures of the runtime config                  *)
  NoEngine,    (* no engine                                                *)
  MaxFailures  (* bound on the writes of the config that fail              *)

ASSUME UsersAssumption == IsFiniteSet(Users)
ASSUME NoEngineAssumption == NoEngine \notin Engines
ASSUME MaxFailuresAssumption == MaxFailures \in Nat

VARIABLES
  current,   (* _engine                                        *)
  counts,    (* _counts                                        *)
  retired,   (* _retired                                       *)
  leaseOf,   (* the engine each user was handed                *)
  resident,  (* model_is_resident of each engine               *)
  built,     (* the signature each engine was built from       *)
  config,    (* the signature of the runtime config in memory  *)
  saved,     (* ... and in config.json                         *)
  offloaded, (* _model_was_offloaded                           *)
  idle,      (* the idle period has passed since _last_used_at *)
  failures,  (* history: failed writes                         *)
  stopped    (* the gateway has shut down                      *)

leaseVars == <<current, counts, retired, leaseOf, resident, built, config, saved,
               offloaded, idle, failures, stopped>>
settings == <<config, saved, failures>>

LeaseTypeOK ==
  /\ current \in Engines
  /\ counts \in [Engines -> Nat]
  /\ retired \in SUBSET Engines
  /\ leaseOf \in [Users -> Engines \cup {NoEngine}]
  /\ resident \in [Engines -> BOOLEAN]
  /\ built \in [Engines -> Configs]
  /\ config \in Configs /\ saved \in Configs
  /\ offloaded \in BOOLEAN /\ idle \in BOOLEAN
  /\ failures \in 0..MaxFailures
  /\ stopped \in BOOLEAN

LeaseInit ==
  /\ current \in Engines
  /\ counts = [e \in Engines |-> 0]
  /\ retired = {}
  /\ leaseOf = [u \in Users |-> NoEngine]
  /\ resident = [e \in Engines |-> FALSE]
  /\ config \in Configs /\ saved = config
  /\ built = [e \in Engines |-> config]
  /\ offloaded = FALSE /\ idle = FALSE
  /\ failures = 0
  /\ stopped = FALSE

-----------------------------------------------------------------------------
Lease(u) ==
  /\ ~stopped /\ leaseOf[u] = NoEngine
  /\ leaseOf' = [leaseOf EXCEPT ![u] = current]
  /\ counts' = [counts EXCEPT ![current] = @ + 1]
  /\ UNCHANGED <<current, retired, resident, built, settings, offloaded, idle, stopped>>

(* A decode or a warm-up loads the model of the engine it holds. *)
Load(u) ==
  /\ leaseOf[u] # NoEngine
  /\ resident' = [resident EXCEPT ![leaseOf[u]] = TRUE]
  /\ UNCHANGED <<current, counts, retired, leaseOf, built, settings, offloaded, idle, stopped>>

(* Mutant of ReleaseLast: off by one. *)
ReleaseNone(e) == counts[e] < 1 /\ e \in retired

(* _LeaseBook.release(): the last lease closes an engine that is retired. *)
ReleaseLast(e) == counts[e] <= 1 /\ e \in retired

(* A slip in EndLease: release() forgets all the leases of the engine.       *)
EndAllLeases(u) ==
  LET e == leaseOf[u] IN
  /\ e # NoEngine
  /\ leaseOf' = [leaseOf EXCEPT ![u] = NoEngine]
  /\ counts' = [counts EXCEPT ![e] = 0]
  /\ retired' = IF ReleaseLast(e) THEN retired \ {e} ELSE retired
  /\ resident' = [resident EXCEPT ![e] = @ /\ ~ReleaseLast(e)]
  /\ idle' = FALSE
  /\ offloaded' = (offloaded /\ ~resident'[current])
  /\ UNCHANGED <<current, built, settings, stopped>>

(* _finish_lease(). *)
EndLease(u) ==
  LET e == leaseOf[u] IN
  /\ e # NoEngine
  /\ leaseOf' = [leaseOf EXCEPT ![u] = NoEngine]
  /\ counts' = [counts EXCEPT ![e] = IF @ > 1 THEN @ - 1 ELSE 0]
  /\ retired' = IF ReleaseLast(e) THEN retired \ {e} ELSE retired
  /\ resident' = [resident EXCEPT ![e] = @ /\ ~ReleaseLast(e)]
  /\ idle' = FALSE
  /\ offloaded' = (offloaded /\ ~resident'[current])
  /\ UNCHANGED <<current, built, settings, stopped>>

-----------------------------------------------------------------------------
(* Whatever refers to an engine keeps its id from being given out again. *)
Alive == {current} \cup retired \cup {leaseOf[u] : u \in Users}

(* Two slips in Retire: close at once; leave a leased engine to itself. *)
RetireNow(e) == resident' = [resident EXCEPT ![e] = FALSE] /\ UNCHANGED retired

RetireForgets(e) ==
  IF counts[e] > 0
  THEN UNCHANGED <<resident, retired>>
  ELSE resident' = [resident EXCEPT ![e] = FALSE] /\ UNCHANGED retired

(* _LeaseBook.retire(): close now, or on the last release. *)
Retire(e) ==
  IF counts[e] > 0
  THEN retired' = retired \cup {e} /\ UNCHANGED resident
  ELSE resident' = [resident EXCEPT ![e] = FALSE] /\ UNCHANGED retired

(* _swap(): save, build, retire. *)
SwapTo(c) ==
  /\ ~stopped
  /\ config' = c /\ saved' = c
  /\ \E e \in Engines \ Alive :
       /\ current' = e
       /\ built' = [built EXCEPT ![e] = c]
  /\ Retire(current)
  /\ offloaded' = FALSE
  /\ UNCHANGED <<counts, leaseOf, idle, failures, stopped>>

(* select_model() and forget_if_active() always swap ... *)
SelectModel(c) == SwapTo(c)

(* ... configure() only when the signature moves; otherwise, and when any    *)
(* other settings of the same object are saved, the file is written.         *)
Configure(c) == c # config /\ SwapTo(c)

SaveOnly ==
  /\ ~stopped
  /\ saved' = config
  /\ UNCHANGED <<current, counts, retired, leaseOf, resident, built, config,
                 offloaded, idle, failures, stopped>>

(* The write of the config raises after the config in memory was changed. *)
SaveFails(c) ==
  /\ ~stopped /\ failures < MaxFailures
  /\ failures' = failures + 1
  /\ config' = c
  /\ UNCHANGED <<current, counts, retired, leaseOf, resident, built, saved,
                 offloaded, idle, stopped>>

-----------------------------------------------------------------------------
TimePasses ==
  /\ ~idle /\ ~stopped
  /\ idle' = TRUE
  /\ UNCHANGED <<current, counts, retired, leaseOf, resident, built, settings,
                 offloaded, stopped>>

(* No lease on any engine, retired ones included. *)
Unused == \A e \in Engines : counts[e] = 0

OffloadIfIdle ==
  /\ ~stopped
  /\ idle /\ resident[current] /\ Unused
  /\ resident' = [resident EXCEPT ![current] = FALSE]
  /\ offloaded' = TRUE
  /\ UNCHANGED <<current, counts, retired, leaseOf, built, settings, idle, stopped>>

(* _shutdown_runtime(): the server has finished its requests (uvicorn, no    *)
(* graceful timeout is set) and the warm-up was cancelled and awaited.       *)
Shutdown ==
  /\ ~stopped
  /\ \A u \in Users : leaseOf[u] = NoEngine
  /\ resident' = [resident EXCEPT ![current] = FALSE]
  /\ stopped' = TRUE
  /\ UNCHANGED <<current, counts, retired, leaseOf, built, settings, offloaded, idle>>

LeaseNext ==
  \/ \E u \in Users : Lease(u) \/ Load(u) \/ EndLease(u)
  \/ \E c \in Configs : SelectModel(c) \/ Configure(c) \/ SaveFails(c)
  \/ SaveOnly \/ TimePasses \/ OffloadIfIdle \/ Shutdown

LeaseSpec == LeaseInit /\ [][LeaseNext]_leaseVars

(* Leases end: they are context managers around decodes that end. *)
LeaseFairness == \A u \in Users : WF_leaseVars(EndLease(u))

FairLeaseSpec == LeaseSpec /\ LeaseFairness

-----------------------------------------------------------------------------
(* Properties.                                                              *)

LeasesOn(e) == {u \in Users : leaseOf[u] = e}

(* The book is exact although ids are used again: it counts the leases of    *)
(* the engine that has the id now, and only an engine that was replaced and  *)
(* is still in use waits to be closed.                                       *)
BookExact ==
  /\ \A e \in Engines : counts[e] = Cardinality(LeasesOn(e))
  /\ \A e \in retired : e # current /\ LeasesOn(e) # {}

(* No model stays in memory behind an engine nobody will close: only the     *)
(* current one and replaced ones still in use are loaded, none after a       *)
(* shutdown (engines.py:350-356, service.py:629-630).                        *)
NoModelLeak ==
  \A e \in Engines :
    resident[e] => ~stopped /\ (e = current \/ (e \in retired /\ LeasesOn(e) # {}))

(* A model is never unloaded under a request: neither a swap nor the idle    *)
(* offload touches a leased engine; what unloads it is its last lease.       *)
LeasedStaysLoaded ==
  [][\A e \in Engines :
       resident[e] /\ ~resident'[e] /\ LeasesOn(e) # {} => LeasesOn(e)' = {}]_leaseVars

(* The "offloaded" notice of the status page is never shown over a loaded    *)
(* model, except while the request that reloaded it still runs.              *)
OffloadNoticeHonest == offloaded /\ resident[current] => LeasesOn(current) # {}

(* Types, book and notice together.                                          *)
LeasesConsistent == LeaseTypeOK /\ BookExact /\ OffloadNoticeHonest

(* A replaced engine is closed at last, however many requests share it.      *)
RetiredCloses == \A e \in Engines : e \in retired ~> e \notin retired

(* engines.py:496-497 says that configure() without a new signature leaves   *)
(* the model of these settings where it is: what config.json says, once it   *)
(* agrees with the config in memory, is what is loaded.                      *)
SavedMeansLoaded == saved = config => built[current] = config

=============================================================================
