------------------------- MODULE EngineLeasesProofs -------------------------
(***************************************************************************)
(* Proofs about EngineLeases: the book is exact, no model leaks, and no    *)
(* model is unloaded under a request, for any number of requests, engines  *)
(* and settings changes.                                                   *)
(***************************************************************************)
EXTENDS EngineLeases, FiniteSetTheorems, TLAPS

(* A user holds an engine the manager still knows, and none after shutdown. *)
LeasesKnown ==
  \A u \in Users :
    leaseOf[u] # NoEngine =>
      /\ ~stopped
      /\ leaseOf[u] = current \/ leaseOf[u] \in retired

LeaseInv == LeaseTypeOK /\ BookExact /\ LeasesKnown /\ NoModelLeak /\ OffloadNoticeHonest

(* The leases of an engine are finitely many; there are none exactly when    *)
(* their number is 0.                                                        *)
LEMMA LeasesFinite ==
  ASSUME NEW e \in Engines
  PROVE  /\ IsFiniteSet(LeasesOn(e))
         /\ Cardinality(LeasesOn(e)) \in Nat
         /\ Cardinality(LeasesOn(e)) = 0 <=> LeasesOn(e) = {}
<1>1. LeasesOn(e) \subseteq Users BY DEF LeasesOn
<1>2. IsFiniteSet(LeasesOn(e)) BY <1>1, UsersAssumption, FS_Subset
<1> QED BY <1>2, FS_CardinalityType, FS_EmptySet

(* The initial states satisfy the invariant. *)
LEMMA LeaseInitInv == LeaseInit => LeaseInv
<1> SUFFICES ASSUME LeaseInit PROVE LeaseInv
  OBVIOUS
<1>1. LeaseTypeOK
  <2>1. 0 \in 0..MaxFailures BY MaxFailuresAssumption
  <2>2. counts \in [Engines -> Nat] /\ resident \in [Engines -> BOOLEAN]
    BY DEF LeaseInit
  <2>3. built \in [Engines -> Configs] /\ leaseOf \in [Users -> Engines \cup {NoEngine}]
    BY DEF LeaseInit
  <2> QED BY <2>1, <2>2, <2>3 DEF LeaseInit, LeaseTypeOK
<1>2. \A e \in Engines : LeasesOn(e) = {}
  BY NoEngineAssumption DEF LeaseInit, LeasesOn
<1>3. BookExact BY <1>2, FS_EmptySet DEF LeaseInit, BookExact
<1>4. LeasesKnown BY DEF LeaseInit, LeasesKnown
<1>5. NoModelLeak BY DEF LeaseInit, NoModelLeak
<1>6. OffloadNoticeHonest BY DEF LeaseInit, OffloadNoticeHonest
<1> QED BY <1>1, <1>3, <1>4, <1>5, <1>6 DEF LeaseInv

(* A lease on the current engine is counted. *)
LEMMA LeaseKeeps ==
  ASSUME LeaseInv, NEW u \in Users, Lease(u)
  PROVE  LeaseInv'
<1> USE DEF LeaseInv
<1>1. LeaseTypeOK' BY DEF LeaseTypeOK, Lease, settings
<1>2. /\ current \in Engines /\ current' = current /\ retired' = retired
      /\ leaseOf' = [leaseOf EXCEPT ![u] = current]
      /\ counts' = [counts EXCEPT ![current] = @ + 1]
      /\ leaseOf[u] = NoEngine
      /\ leaseOf \in [Users -> Engines \cup {NoEngine}]
      /\ counts \in [Engines -> Nat]
  BY DEF Lease, LeaseTypeOK
<1>3. LeasesOn(current)' = LeasesOn(current) \cup {u} /\ u \notin LeasesOn(current)
  BY <1>2, NoEngineAssumption DEF LeasesOn
<1>4. \A e \in Engines : e # current => LeasesOn(e)' = LeasesOn(e)
  BY <1>2, NoEngineAssumption DEF LeasesOn
<1>5. \A e \in Engines : LeasesOn(e) \subseteq LeasesOn(e)'
  BY <1>3, <1>4, <1>2
<1>6. Cardinality(LeasesOn(current) \cup {u}) = Cardinality(LeasesOn(current)) + 1
  BY <1>2, <1>3, LeasesFinite, FS_AddElement
<1>7. \A e \in Engines : counts'[e] = Cardinality(LeasesOn(e)')
  <2> TAKE e \in Engines
  <2>1. counts[e] = Cardinality(LeasesOn(e)) BY DEF BookExact
  <2>2. CASE e = current BY <2>1, <2>2, <1>2, <1>3, <1>6
  <2>3. CASE e # current BY <2>1, <2>3, <1>2, <1>4
  <2> QED BY <2>2, <2>3
<1>8. BookExact'
  <2>1. \A e \in retired : e # current /\ LeasesOn(e) # {} BY DEF BookExact
  <2>2. \A e \in retired' : e # current' /\ LeasesOn(e)' # {}
    BY <2>1, <1>2, <1>5 DEF LeaseTypeOK
  <2> QED BY <2>2, <1>7 DEF BookExact
<1>9. LeasesKnown' BY <1>2 DEF LeasesKnown, Lease
<1>10. NoModelLeak' BY <1>2, <1>5 DEF NoModelLeak, Lease
<1>11. OffloadNoticeHonest' BY <1>2, <1>3 DEF OffloadNoticeHonest, Lease
<1> QED BY <1>1, <1>8, <1>9, <1>10, <1>11

(* Steps that leave the leases, the book and the engine alone keep it exact. *)
LEMMA SameBook ==
  ASSUME LeaseInv, UNCHANGED <<current, counts, retired, leaseOf>>
  PROVE  BookExact' /\ \A e \in Engines : LeasesOn(e)' = LeasesOn(e)
<1>1. \A e \in Engines : LeasesOn(e)' = LeasesOn(e) BY DEF LeasesOn
<1>2. retired \subseteq Engines BY DEF LeaseInv, LeaseTypeOK
<1> QED BY <1>1, <1>2 DEF LeaseInv, BookExact

(* A leased engine may be loaded: the manager knows it. *)
LEMMA LoadKeeps ==
  ASSUME LeaseInv, NEW u \in Users, Load(u)
  PROVE  LeaseInv'
<1> DEFINE e == leaseOf[u]
<1>0. e \in Engines /\ e # NoEngine BY DEF LeaseInv, LeaseTypeOK, Load
<1>1. LeaseTypeOK' BY <1>0 DEF LeaseInv, LeaseTypeOK, Load, settings
<1>2. BookExact' /\ \A d \in Engines : LeasesOn(d)' = LeasesOn(d)
  BY SameBook DEF Load
<1>3. LeasesKnown' BY DEF LeaseInv, LeasesKnown, Load
<1>4. u \in LeasesOn(e) BY DEF LeasesOn
<1>5. ~stopped /\ (e = current \/ e \in retired)
  BY <1>0 DEF LeaseInv, LeasesKnown
<1>6. resident' = [resident EXCEPT ![e] = TRUE] /\ UNCHANGED <<stopped, current, retired, offloaded>>
  BY DEF Load
<1>7. NoModelLeak'
  <2> SUFFICES ASSUME NEW d \in Engines, resident'[d]
               PROVE  ~stopped' /\ (d = current' \/ (d \in retired' /\ LeasesOn(d)' # {}))
    BY DEF NoModelLeak
  <2>1. CASE d = e BY <2>1, <1>2, <1>4, <1>5, <1>6
  <2>2. CASE d # e
    <3>1. resident[d] BY <2>2, <1>6, <1>0 DEF LeaseInv, LeaseTypeOK
    <3> QED BY <3>1, <1>2, <1>6 DEF LeaseInv, NoModelLeak
  <2> QED BY <2>1, <2>2
<1>8. OffloadNoticeHonest'
  <2>1. current \in Engines BY DEF LeaseInv, LeaseTypeOK
  <2>2. CASE e = current BY <2>1, <2>2, <1>2, <1>4, <1>6 DEF OffloadNoticeHonest
  <2>3. CASE e # current
    <3>1. resident'[current'] = resident[current]
      BY <2>1, <2>3, <1>6 DEF LeaseInv, LeaseTypeOK
    <3> QED BY <3>1, <2>1, <1>2, <1>6 DEF LeaseInv, OffloadNoticeHonest
  <2> QED BY <2>2, <2>3
<1> QED BY <1>1, <1>2, <1>3, <1>7, <1>8 DEF LeaseInv

(* What is left of the leases when u ends the one it has on d. *)
LEMMA OneLeaseLess ==
  ASSUME LeaseInv, NEW u \in Users, EndLease(u), NEW d \in Engines, d = leaseOf[u]
  PROVE  /\ LeasesOn(d)' = LeasesOn(d) \ {u}
         /\ \A e \in Engines : e # d => LeasesOn(e)' = LeasesOn(e)
         /\ counts[d] \in Nat \ {0}
         /\ counts' = [counts EXCEPT ![d] = @ - 1]
         /\ counts'[d] = Cardinality(LeasesOn(d)')
<1>1. /\ leaseOf' = [leaseOf EXCEPT ![u] = NoEngine]
      /\ leaseOf \in [Users -> Engines \cup {NoEngine}]
      /\ counts' = [counts EXCEPT ![d] = IF @ > 1 THEN @ - 1 ELSE 0]
      /\ counts \in [Engines -> Nat]
  BY DEF LeaseInv, LeaseTypeOK, EndLease
<1>3. LeasesOn(d)' = LeasesOn(d) \ {u}
  BY <1>1, NoEngineAssumption DEF LeasesOn
<1>4. \A e \in Engines : e # d => LeasesOn(e)' = LeasesOn(e)
  BY <1>1, NoEngineAssumption DEF LeasesOn
<1>5. u \in LeasesOn(d) BY DEF LeasesOn
<1>6. IsFiniteSet(LeasesOn(d)) /\ Cardinality(LeasesOn(d)) \in Nat
      /\ Cardinality(LeasesOn(d)) # 0
  BY <1>1, <1>5, LeasesFinite
<1>7. Cardinality(LeasesOn(d) \ {u}) = Cardinality(LeasesOn(d)) - 1
  BY <1>5, <1>6, FS_RemoveElement
<1>8. counts[d] = Cardinality(LeasesOn(d)) BY <1>1 DEF LeaseInv, BookExact
<1>9. counts' = [counts EXCEPT ![d] = @ - 1]
  <2>1. (IF counts[d] > 1 THEN counts[d] - 1 ELSE 0) = counts[d] - 1 BY <1>6, <1>8
  <2> QED BY <2>1, <1>1
<1>10. counts'[d] = Cardinality(LeasesOn(d)')
  BY <1>1, <1>3, <1>7, <1>8, <1>9
<1> QED BY <1>3, <1>4, <1>6, <1>8, <1>9, <1>10

(* The end of a lease keeps the book and closes what it was the last to use. *)
LEMMA EndLeaseKeeps ==
  ASSUME LeaseInv, NEW u \in Users, EndLease(u)
  PROVE  LeaseInv'
<1> DEFINE d == leaseOf[u]
<1>1. d \in Engines /\ d # NoEngine BY DEF LeaseInv, LeaseTypeOK, EndLease
<1>2. PICK e \in Engines : e = leaseOf[u] BY <1>1
<1>3. /\ LeasesOn(e)' = LeasesOn(e) \ {u}
      /\ \A x \in Engines : x # e => LeasesOn(x)' = LeasesOn(x)
      /\ counts[e] \in Nat \ {0}
      /\ counts' = [counts EXCEPT ![e] = @ - 1]
      /\ counts'[e] = Cardinality(LeasesOn(e)')
  BY <1>2, OneLeaseLess
<1>4. /\ current \in Engines /\ current' = current /\ stopped' = stopped
      /\ leaseOf' = [leaseOf EXCEPT ![u] = NoEngine]
      /\ retired' = IF ReleaseLast(e) THEN retired \ {e} ELSE retired
      /\ resident' = [resident EXCEPT ![e] = @ /\ ~ReleaseLast(e)]
      /\ offloaded' = (offloaded /\ ~resident'[current])
      /\ retired \subseteq Engines
      /\ leaseOf \in [Users -> Engines \cup {NoEngine}]
      /\ counts \in [Engines -> Nat]
      /\ resident \in [Engines -> BOOLEAN]
  BY <1>2 DEF LeaseInv, LeaseTypeOK, EndLease
<1>5. LeaseTypeOK'
  <2>1. counts' \in [Engines -> Nat] BY <1>3, <1>4
  <2>2. resident' \in [Engines -> BOOLEAN]
    <3>1. (resident[e] /\ ~ReleaseLast(e)) \in BOOLEAN OBVIOUS
    <3> QED BY <3>1, <1>4
  <2>3. retired' \in SUBSET Engines BY <1>4
  <2>4. leaseOf' \in [Users -> Engines \cup {NoEngine}] BY <1>4
  <2>5. offloaded' \in BOOLEAN BY <1>4
  <2>6. UNCHANGED <<current, built, config, saved, failures, stopped>> /\ idle' = FALSE
    BY DEF EndLease, settings
  <2> QED BY <2>1, <2>2, <2>3, <2>4, <2>5, <2>6 DEF LeaseInv, LeaseTypeOK
<1>6. ReleaseLast(e) <=> e \in retired /\ LeasesOn(e)' = {}
  <2>1. IsFiniteSet(LeasesOn(e)) /\ IsFiniteSet(LeasesOn(e)')
    BY <1>3, LeasesFinite, FS_Subset
  <2>2. counts'[e] = counts[e] - 1 BY <1>3, <1>4
  <2>3. counts'[e] = 0 <=> LeasesOn(e)' = {} BY <1>3, <2>1, FS_EmptySet
  <2> QED BY <1>3, <2>2, <2>3 DEF ReleaseLast
<1>7. \A x \in Engines : x # e => LeasesOn(x)' = LeasesOn(x) /\ counts'[x] = counts[x]
  BY <1>3, <1>4
<1>8. BookExact'
  <2>1. \A x \in Engines : counts'[x] = Cardinality(LeasesOn(x)')
    BY <1>3, <1>7 DEF LeaseInv, BookExact
  <2>2. ASSUME NEW x \in retired' PROVE x # current' /\ LeasesOn(x)' # {}
    <3>1. x \in retired /\ x \in Engines BY <1>4
    <3>2. x # current /\ LeasesOn(x) # {} BY <3>1 DEF LeaseInv, BookExact
    <3>3. x = e => ~ReleaseLast(e) BY <1>4
    <3> QED BY <3>1, <3>2, <3>3, <1>4, <1>6, <1>7
  <2> QED BY <2>1, <2>2 DEF BookExact
<1>9. LeasesKnown'
  <2> SUFFICES ASSUME NEW v \in Users, leaseOf'[v] # NoEngine
               PROVE  ~stopped' /\ (leaseOf'[v] = current' \/ leaseOf'[v] \in retired')
    BY DEF LeasesKnown
  <2>1. v # u /\ leaseOf'[v] = leaseOf[v] BY <1>4
  <2>2. ~stopped /\ (leaseOf[v] = current \/ leaseOf[v] \in retired)
    BY <2>1 DEF LeaseInv, LeasesKnown
  <2>3. leaseOf[v] = e => LeasesOn(e)' # {}
    BY <2>1, <1>3 DEF LeasesOn
  <2> QED BY <2>1, <2>2, <2>3, <1>4, <1>6
<1>10. NoModelLeak'
  <2> SUFFICES ASSUME NEW x \in Engines, resident'[x]
               PROVE  ~stopped' /\ (x = current' \/ (x \in retired' /\ LeasesOn(x)' # {}))
    BY DEF NoModelLeak
  <2>1. resident[x] /\ (x = e => ~ReleaseLast(e)) BY <1>4
  <2>2. ~stopped /\ (x = current \/ (x \in retired /\ LeasesOn(x) # {}))
    BY <2>1 DEF LeaseInv, NoModelLeak
  <2> QED BY <2>1, <2>2, <1>4, <1>6, <1>7
<1>11. OffloadNoticeHonest' BY <1>4 DEF OffloadNoticeHonest
<1> QED BY <1>5, <1>8, <1>9, <1>10, <1>11 DEF LeaseInv

(* A swap to a fresh engine closes the old one now or leaves it to its users. *)
LEMMA SwapKeeps ==
  ASSUME LeaseInv, NEW c \in Configs, SwapTo(c)
  PROVE  LeaseInv'
<1>1. PICK e \in Engines \ Alive :
        current' = e /\ built' = [built EXCEPT ![e] = c]
  BY DEF SwapTo
<1>2. /\ config' = c /\ saved' = c /\ offloaded' = FALSE
      /\ UNCHANGED <<counts, leaseOf, idle, failures, stopped>>
      /\ Retire(current) /\ ~stopped
  BY DEF SwapTo
<1>3. /\ current \in Engines /\ retired \subseteq Engines
      /\ counts \in [Engines -> Nat] /\ resident \in [Engines -> BOOLEAN]
      /\ leaseOf \in [Users -> Engines \cup {NoEngine}]
  BY DEF LeaseInv, LeaseTypeOK
<1>4. e # current /\ e \notin retired /\ LeasesOn(e) = {}
  BY <1>1 DEF Alive, LeasesOn
<1>5. \A x \in Engines : LeasesOn(x)' = LeasesOn(x) BY <1>2 DEF LeasesOn
<1>6. \/ /\ LeasesOn(current) # {}
         /\ retired' = retired \cup {current} /\ resident' = resident
      \/ /\ LeasesOn(current) = {}
         /\ retired' = retired /\ resident' = [resident EXCEPT ![current] = FALSE]
  <2>1. counts[current] > 0 <=> LeasesOn(current) # {}
    BY <1>3, LeasesFinite DEF LeaseInv, BookExact
  <2> QED BY <2>1, <1>2 DEF Retire
<1>7. LeaseTypeOK'
  <2>1. retired' \in SUBSET Engines /\ resident' \in [Engines -> BOOLEAN]
    BY <1>3, <1>6
  <2> QED BY <2>1, <1>1, <1>2 DEF LeaseInv, LeaseTypeOK
<1>8. BookExact'
  <2>1. \A x \in retired : x \in Engines /\ x # e /\ LeasesOn(x) # {}
    BY <1>3, <1>4 DEF LeaseInv, BookExact
  <2> QED BY <2>1, <1>1, <1>2, <1>3, <1>4, <1>5, <1>6 DEF LeaseInv, BookExact
<1>9. LeasesKnown'
  <2> SUFFICES ASSUME NEW v \in Users, leaseOf'[v] # NoEngine
               PROVE  ~stopped' /\ leaseOf'[v] \in retired'
    BY DEF LeasesKnown
  <2>1. leaseOf[v] = current \/ leaseOf[v] \in retired
    BY <1>2 DEF LeaseInv, LeasesKnown
  <2>2. leaseOf[v] = current => LeasesOn(current) # {} BY DEF LeasesOn
  <2> QED BY <2>1, <2>2, <1>2, <1>6
<1>10. NoModelLeak'
  <2> SUFFICES ASSUME NEW x \in Engines, resident'[x]
               PROVE  ~stopped' /\ (x = current' \/ (x \in retired' /\ LeasesOn(x)' # {}))
    BY DEF NoModelLeak
  <2>1. resident[x] BY <1>3, <1>6
  <2>2. x = current \/ (x \in retired /\ LeasesOn(x) # {})
    BY <2>1 DEF LeaseInv, NoModelLeak
  <2>3. x = current => LeasesOn(current) # {} BY <1>3, <1>6
  <2> QED BY <2>2, <2>3, <1>2, <1>5, <1>6
<1>11. OffloadNoticeHonest' BY <1>2 DEF OffloadNoticeHonest
<1> QED BY <1>7, <1>8, <1>9, <1>10, <1>11 DEF LeaseInv

(* Steps that touch neither leases nor engines: saving, failing to save,     *)
(* the passing of time.                                                      *)
LEMMA QuietKeeps ==
  ASSUME LeaseInv,
         \/ SaveOnly
         \/ TimePasses
         \/ \E c \in Configs : SaveFails(c)
         \/ UNCHANGED leaseVars
  PROVE  LeaseInv'
<1>1. UNCHANGED <<current, counts, retired, leaseOf, resident, built, offloaded, stopped>>
  BY DEF SaveOnly, TimePasses, SaveFails, leaseVars, settings
<1>2. LeaseTypeOK'
  <2>1. CASE SaveOnly BY <2>1 DEF LeaseInv, LeaseTypeOK, SaveOnly
  <2>2. CASE TimePasses BY <2>2 DEF LeaseInv, LeaseTypeOK, TimePasses, settings
  <2>3. ASSUME NEW c \in Configs, SaveFails(c) PROVE LeaseTypeOK'
    <3>1. failures' \in 0..MaxFailures
      BY <2>3, MaxFailuresAssumption DEF LeaseInv, LeaseTypeOK, SaveFails
    <3> QED BY <2>3, <3>1 DEF LeaseInv, LeaseTypeOK, SaveFails
  <2>4. CASE UNCHANGED leaseVars BY <2>4 DEF LeaseInv, LeaseTypeOK, leaseVars, settings
  <2> QED BY <2>1, <2>2, <2>3, <2>4
<1>3. BookExact' /\ \A e \in Engines : LeasesOn(e)' = LeasesOn(e) BY <1>1, SameBook
<1>4. LeasesKnown' BY <1>1 DEF LeaseInv, LeasesKnown
<1>5. NoModelLeak' BY <1>1, <1>3 DEF LeaseInv, NoModelLeak
<1>6. OffloadNoticeHonest'
  <2>1. current \in Engines BY DEF LeaseInv, LeaseTypeOK
  <2> QED BY <2>1, <1>1, <1>3 DEF LeaseInv, OffloadNoticeHonest
<1> QED BY <1>2, <1>3, <1>4, <1>5, <1>6 DEF LeaseInv

(* The idle offload and the shutdown unload the current engine only. *)
LEMMA UnloadKeeps ==
  ASSUME LeaseInv, OffloadIfIdle \/ Shutdown
  PROVE  LeaseInv'
<1>1. /\ resident' = [resident EXCEPT ![current] = FALSE]
      /\ UNCHANGED <<current, counts, retired, leaseOf, built, settings, idle>>
  BY DEF OffloadIfIdle, Shutdown
<1>2. current \in Engines /\ resident \in [Engines -> BOOLEAN]
  BY DEF LeaseInv, LeaseTypeOK
<1>3. ~resident'[current'] BY <1>1, <1>2
<1>4. LeaseTypeOK'
  <2>1. resident' \in [Engines -> BOOLEAN] BY <1>1, <1>2
  <2>2. offloaded' \in BOOLEAN /\ stopped' \in BOOLEAN
    BY DEF LeaseInv, LeaseTypeOK, OffloadIfIdle, Shutdown
  <2> QED BY <2>1, <2>2, <1>1 DEF LeaseInv, LeaseTypeOK, settings
<1>5. BookExact' /\ \A e \in Engines : LeasesOn(e)' = LeasesOn(e) BY <1>1, SameBook
<1>6. Shutdown => \A u \in Users : leaseOf'[u] = NoEngine BY <1>1 DEF Shutdown
<1>7. OffloadIfIdle => stopped' = stopped BY DEF OffloadIfIdle
<1>8. LeasesKnown' BY <1>1, <1>6, <1>7 DEF LeaseInv, LeasesKnown
<1>9. Shutdown => \A e \in Engines : LeasesOn(e) = {}
  BY NoEngineAssumption DEF Shutdown, LeasesOn
<1>10. NoModelLeak'
  <2> SUFFICES ASSUME NEW x \in Engines, resident'[x]
               PROVE  ~stopped' /\ (x = current' \/ (x \in retired' /\ LeasesOn(x)' # {}))
    BY DEF NoModelLeak
  <2>1. resident[x] /\ x # current BY <1>1, <1>2
  <2>2. ~stopped /\ x \in retired /\ LeasesOn(x) # {}
    BY <2>1 DEF LeaseInv, NoModelLeak
  <2> QED BY <2>2, <1>1, <1>5, <1>7, <1>9
<1>11. OffloadNoticeHonest' BY <1>3 DEF OffloadNoticeHonest
<1> QED BY <1>4, <1>5, <1>8, <1>10, <1>11 DEF LeaseInv

(* Every step keeps the invariant. *)
LEMMA LeaseNextInv == LeaseInv /\ [LeaseNext]_leaseVars => LeaseInv'
<1> SUFFICES ASSUME LeaseInv, [LeaseNext]_leaseVars PROVE LeaseInv'
  OBVIOUS
<1>1. ASSUME NEW u \in Users, Lease(u) PROVE LeaseInv' BY <1>1, LeaseKeeps
<1>2. ASSUME NEW u \in Users, Load(u) PROVE LeaseInv' BY <1>2, LoadKeeps
<1>3. ASSUME NEW u \in Users, EndLease(u) PROVE LeaseInv' BY <1>3, EndLeaseKeeps
<1>4. ASSUME NEW c \in Configs, SelectModel(c) \/ Configure(c) PROVE LeaseInv'
  BY <1>4, SwapKeeps DEF SelectModel, Configure
<1>5. ASSUME OffloadIfIdle \/ Shutdown PROVE LeaseInv' BY <1>5, UnloadKeeps
<1>6. ASSUME \/ SaveOnly \/ TimePasses \/ UNCHANGED leaseVars
             \/ \E c \in Configs : SaveFails(c)
      PROVE  LeaseInv'
  BY <1>6, QuietKeeps
<1> QED BY <1>1, <1>2, <1>3, <1>4, <1>5, <1>6 DEF LeaseNext

(* The invariant holds in every state of every behaviour. *)
LEMMA LeaseInvariant == LeaseSpec => []LeaseInv
BY LeaseInitInv, LeaseNextInv, PTL DEF LeaseSpec

(* Every variable keeps its type, for any number of engines and requests. *)
THEOREM LeaseTypeCorrect == LeaseSpec => []LeaseTypeOK
<1>1. LeaseInv => LeaseTypeOK BY DEF LeaseInv
<1> QED BY <1>1, LeaseInvariant, PTL

(* The lease book counts exactly the leases of the engines that exist now,   *)
(* although ids are given out again, and only replaced engines that are      *)
(* still in use wait in it to be closed.                                     *)
THEOREM BookIsExact == LeaseSpec => []BookExact
<1>1. LeaseInv => BookExact BY DEF LeaseInv
<1> QED BY <1>1, LeaseInvariant, PTL

(* No model stays in memory behind an engine that nobody will close.         *)
THEOREM ModelsNeverLeak == LeaseSpec => []NoModelLeak
<1>1. LeaseInv => NoModelLeak BY DEF LeaseInv
<1> QED BY <1>1, LeaseInvariant, PTL

(* The offload notice is not shown over a loaded model at rest.              *)
THEOREM OffloadNotice == LeaseSpec => []OffloadNoticeHonest
<1>1. LeaseInv => OffloadNoticeHonest BY DEF LeaseInv
<1> QED BY <1>1, LeaseInvariant, PTL

(* A step unloads a leased engine only by ending its last lease.             *)
LEMMA UnloadsOnlyUnleased ==
  ASSUME LeaseInv, [LeaseNext]_leaseVars, NEW e \in Engines,
         resident[e], ~resident'[e], LeasesOn(e) # {}
  PROVE  LeasesOn(e)' = {}
<1>0. /\ resident \in [Engines -> BOOLEAN] /\ current \in Engines
      /\ counts \in [Engines -> Nat] /\ leaseOf \in [Users -> Engines \cup {NoEngine}]
  BY DEF LeaseInv, LeaseTypeOK
<1>1. counts[e] # 0
  <2>1. counts[e] = Cardinality(LeasesOn(e)) BY DEF LeaseInv, BookExact
  <2> QED BY <2>1, LeasesFinite
<1>2. ASSUME NEW u \in Users, Lease(u) PROVE FALSE BY <1>2 DEF Lease
<1>3. ASSUME NEW u \in Users, Load(u) PROVE FALSE
  <2>1. resident' = [resident EXCEPT ![leaseOf[u]] = TRUE] BY <1>3 DEF Load
  <2> QED BY <2>1, <1>0
<1>4. ASSUME NEW u \in Users, EndLease(u) PROVE LeasesOn(e)' = {}
  <2>1. leaseOf[u] \in Engines BY <1>4, <1>0 DEF EndLease
  <2>2. PICK d \in Engines : d = leaseOf[u] BY <2>1
  <2>3. resident' = [resident EXCEPT ![d] = @ /\ ~ReleaseLast(d)]
    BY <1>4, <2>2 DEF EndLease
  <2>4. d = e /\ ReleaseLast(e) BY <2>3, <1>0
  <2>5. /\ LeasesOn(e)' = LeasesOn(e) \ {u}
        /\ counts' = [counts EXCEPT ![e] = @ - 1]
        /\ counts'[e] = Cardinality(LeasesOn(e)')
    BY <1>4, <2>2, <2>4, OneLeaseLess
  <2>6. counts'[e] = 0 BY <2>4, <2>5, <1>0, <1>1 DEF ReleaseLast
  <2>7. IsFiniteSet(LeasesOn(e)') BY <2>5, LeasesFinite, FS_Subset
  <2> QED BY <2>5, <2>6, <2>7, FS_EmptySet
<1>5. ASSUME NEW c \in Configs, SwapTo(c) PROVE FALSE
  <2>1. Retire(current) BY <1>5 DEF SwapTo
  <2>2. counts[current] > 0 => resident' = resident BY <2>1 DEF Retire
  <2>3. ~(counts[current] > 0) => resident' = [resident EXCEPT ![current] = FALSE]
    BY <2>1 DEF Retire
  <2>4. e = current /\ ~(counts[current] > 0) BY <2>2, <2>3, <1>0
  <2> QED BY <2>4, <1>0, <1>1
<1>6. ASSUME OffloadIfIdle PROVE FALSE BY <1>6, <1>0, <1>1 DEF OffloadIfIdle, Unused
<1>7. ASSUME Shutdown PROVE FALSE
  <2>1. LeasesOn(e) = {} BY <1>7, NoEngineAssumption DEF Shutdown, LeasesOn
  <2> QED BY <2>1
<1>8. ASSUME \/ SaveOnly \/ TimePasses \/ UNCHANGED leaseVars
             \/ \E c \in Configs : SaveFails(c)
      PROVE  FALSE
  BY <1>8 DEF SaveOnly, TimePasses, SaveFails, leaseVars
<1> QED BY <1>2, <1>3, <1>4, <1>5, <1>6, <1>7, <1>8 DEF LeaseNext, SelectModel, Configure

(* A model is never unloaded under a request: neither a swap nor the idle    *)
(* offload unloads an engine somebody has leased.                            *)
THEOREM NeverUnloadedUnderARequest == LeaseSpec => LeasedStaysLoaded
<1>1. ASSUME LeaseInv, [LeaseNext]_leaseVars
      PROVE  \A e \in Engines :
               resident[e] /\ ~resident'[e] /\ LeasesOn(e) # {} => LeasesOn(e)' = {}
  BY <1>1, UnloadsOnlyUnleased
<1>2. LeaseInv /\ [LeaseNext]_leaseVars =>
        [\A e \in Engines :
           resident[e] /\ ~resident'[e] /\ LeasesOn(e) # {} => LeasesOn(e)' = {}]_leaseVars
  BY <1>1
<1> QED BY <1>2, LeaseInvariant, PTL DEF LeaseSpec, LeasedStaysLoaded

(* Types, the lease book and the offload notice hold together, for any       *)
(* number of engines, requests and failed loads (engines.py).                *)
THEOREM LeasesAreConsistent == LeaseSpec => []LeasesConsistent
BY LeaseTypeCorrect, BookIsExact, OffloadNotice, PTL DEF LeasesConsistent

=============================================================================
