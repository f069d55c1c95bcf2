-------------------------- MODULE WebSessionProofs --------------------------
(***************************************************************************)
(* Proofs about TokenStore and WebSession, for any number of pages, device *)
(* tokens and secrets.  The store is consistent because no secret is held  *)
(* in two tokens' places at once; a working token stays because a secret   *)
(* that was rejected while all changes were written has been ended, and an *)
(* ended secret never comes back.                                          *)
(***************************************************************************)
EXTENDS WebSession, TLAPS

(* What memory, the file, the QR codes and the answers have of a token. *)
Held(i) == {tokens[i], file[i], cache[i], good[i]}

(* No secret belongs to two tokens. *)
SecretsApart == \A i, k \in Ids : i # k => Held(i) \cap Held(k) \subseteq {None}

StoreInv == TokensConsistent /\ SecretsApart

(* Nobody sends or stores what was never handed out. *)
OnlyKnown ==
  /\ stored \in Known \cup {None}
  /\ \A p \in Pages : request[p].token \in Known \cup {None}

(* A 401 that is on its way was not for the gateway's own token, and unless  *)
(* some change was not written, not for a secret that may be accepted again. *)
RejectedForGood ==
  \A p \in Pages :
    request[p].at = "401" =>
      /\ request[p].token # Bootstrap
      /\ ~request[p].shaky => request[p].token \in {None, Junk} \cup ended

WebInv == StoreInv /\ SignInConsistent /\ OnlyKnown /\ RejectedForGood

-----------------------------------------------------------------------------
(* The store. *)

(* The files, the QR codes and the answers agree about a token whose writes  *)
(* succeed, and keep the trace of the ones that failed.                      *)
LEMMA SavedKeeps ==
  ASSUME StoreInv, NEW i \in Ids, NEW s \in Secrets \cup {None},
         s # None => Fresh(s), tokens' = [tokens EXCEPT ![i] = s], Saved(i, s)
  PROVE  StoreInv'
<1>1. /\ tokens \in [Ids -> Secrets \cup {None}] /\ file \in [Ids -> Secrets \cup {None}]
      /\ cache \in [Ids -> Secrets \cup {None}] /\ good \in [Ids -> Secrets \cup {None}]
      /\ ended \subseteq Secrets /\ torn \subseteq Ids
  BY DEF StoreInv, TokensConsistent, StoreTypeOK
<1>2. /\ file' = tokens' /\ cache' = [cache EXCEPT ![i] = s] /\ good' = [good EXCEPT ![i] = s]
      /\ ended' = ended \cup ({good[i]} \ {None}) /\ torn' = torn \ {i}
  BY DEF Saved
<1>3. StoreTypeOK'
  BY <1>1, <1>2 DEF StoreTypeOK
<1>4. \A k \in Ids : /\ tokens[k] \notin ended
                     /\ k # i => Held(i) \cap Held(k) \subseteq {None}
                     /\ s # None => s \notin Held(k) \cup ended
  BY <1>1, SecretsAssumption
     DEF StoreInv, TokensConsistent, SecretsApart, Accepted, Range, Fresh, Held
<1>5. \A k \in Ids : tokens'[k] \notin ended'
  BY <1>1, <1>2, <1>4, SecretsAssumption DEF Held
<1>6. ended' \cap (Accepted' \cup Range(file)') = {}
  BY <1>1, <1>2, <1>5 DEF Accepted, Range
<1>7. ASSUME NEW k \in Ids
      PROVE  /\ tokens'[k] # None => cache'[k] \notin ended'
             /\ k \notin torn' => /\ tokens'[k] = good'[k] /\ file'[k] = good'[k]
                                  /\ cache'[k] \in {None, good'[k]}
  <2>1. CASE k = i
    BY <1>1, <1>2, <1>4, <2>1, SecretsAssumption DEF Held
  <2>2. CASE k # i
    BY <1>1, <1>2, <1>4, <2>2, SecretsAssumption DEF Held, StoreInv, TokensConsistent
  <2> QED
    BY <2>1, <2>2
<1>8. SecretsApart'
  BY <1>1, <1>2, <1>4 DEF SecretsApart, Held, StoreInv
<1> QED
  BY <1>3, <1>6, <1>7, <1>8 DEF StoreInv, TokensConsistent

(* A write that fails leaves a token that memory alone has changed. *)
LEMMA RaisedKeeps ==
  ASSUME StoreInv, NEW i \in Ids, NEW s \in Secrets \cup {None}, s # None => Fresh(s),
         tokens[i] # None \/ FreshId(i), tokens' = [tokens EXCEPT ![i] = s], SaveRaises(i)
  PROVE  StoreInv'
<1>1. /\ tokens \in [Ids -> Secrets \cup {None}] /\ file \in [Ids -> Secrets \cup {None}]
      /\ cache \in [Ids -> Secrets \cup {None}] /\ good \in [Ids -> Secrets \cup {None}]
      /\ ended \subseteq Secrets /\ torn \subseteq Ids
  BY DEF StoreInv, TokensConsistent, StoreTypeOK
<1>2. torn' = torn \cup {i} /\ UNCHANGED <<file, cache, good, ended>>
  BY DEF SaveRaises
<1>3. StoreTypeOK'
  BY <1>1, <1>2 DEF StoreTypeOK
<1>4. \A k \in Ids : /\ tokens[k] \notin ended /\ file[k] \notin ended
                     /\ s # None => s \notin Held(k) \cup ended
  BY <1>1, SecretsAssumption DEF StoreInv, TokensConsistent, Accepted, Range, Fresh, Held
<1>5. ended' \cap (Accepted' \cup Range(file)') = {}
  BY <1>1, <1>2, <1>4, SecretsAssumption DEF Accepted, Range
<1>6. ASSUME NEW k \in Ids
      PROVE  /\ tokens'[k] # None => cache'[k] \notin ended'
             /\ k \notin torn' => /\ tokens'[k] = good'[k] /\ file'[k] = good'[k]
                                  /\ cache'[k] \in {None, good'[k]}
  BY <1>1, <1>2, SecretsAssumption DEF StoreInv, TokensConsistent, FreshId
<1>7. SecretsApart'
  BY <1>1, <1>2, <1>4 DEF SecretsApart, Held, StoreInv
<1> QED
  BY <1>3, <1>5, <1>6, <1>7 DEF StoreInv, TokensConsistent

(* Memory comes back from the file: what failed to be written is undone. *)
LEMMA RestartKeeps ==
  ASSUME StoreInv, RestartStore
  PROVE  StoreInv'
<1>1. /\ tokens \in [Ids -> Secrets \cup {None}] /\ file \in [Ids -> Secrets \cup {None}]
      /\ cache \in [Ids -> Secrets \cup {None}] /\ good \in [Ids -> Secrets \cup {None}]
      /\ ended \subseteq Secrets /\ torn \subseteq Ids
  BY DEF StoreInv, TokensConsistent, StoreTypeOK
<1>2. /\ tokens' = file /\ cache' = [i \in Ids |-> None] /\ UNCHANGED <<file, good, ended>>
      /\ torn' = {i \in torn : file[i] # good[i]}
  BY DEF RestartStore, Nowhere
<1>3. StoreTypeOK'
  BY <1>1, <1>2 DEF StoreTypeOK
<1>4. ended' \cap (Accepted' \cup Range(file)') = {}
  BY <1>1, <1>2 DEF Accepted, Range, StoreInv, TokensConsistent
<1>5. \A k \in Ids : /\ tokens'[k] # None => cache'[k] \notin ended'
                     /\ k \notin torn' => /\ tokens'[k] = good'[k] /\ file'[k] = good'[k]
                                          /\ cache'[k] \in {None, good'[k]}
  BY <1>1, <1>2, SecretsAssumption DEF StoreInv, TokensConsistent
<1>6. SecretsApart'
  BY <1>1, <1>2 DEF SecretsApart, Held, StoreInv
<1> QED
  BY <1>3, <1>4, <1>5, <1>6 DEF StoreInv, TokensConsistent

(* Every request to the store and every restart keep its invariant; and what *)
(* was handed out stays known, what was ended stays ended.                   *)
LEMMA StoreKeeps ==
  ASSUME StoreInv, StoreStep
  PROVE  StoreInv' /\ Known \subseteq Known' /\ ended \subseteq ended'
<1>1. good \in [Ids -> Secrets \cup {None}]
  BY DEF StoreInv, TokensConsistent, StoreTypeOK
<1>2. ASSUME NEW i \in Ids, NEW s \in Secrets \cup {None}, s # None => Fresh(s),
             tokens[i] # None \/ FreshId(i), Change(i, s)
      PROVE  StoreInv' /\ Known \subseteq Known' /\ ended \subseteq ended'
  <2>1. CASE Saved(i, s)
    <3>1. StoreInv'
      BY <1>2, <2>1, SavedKeeps DEF Change
    <3>2. good' = [good EXCEPT ![i] = s] /\ ended' = ended \cup ({good[i]} \ {None})
      BY <2>1 DEF Saved
    <3>3. ASSUME NEW k \in Ids, good[k] # None
          PROVE  good[k] \in ended' \cup (Range(good)' \ {None})
      BY <1>1, <3>2, <3>3 DEF Range
    <3> QED
      BY <1>1, <3>1, <3>2, <3>3 DEF Known, Range
  <2>2. CASE SaveRaises(i)
    BY <1>2, <2>2, RaisedKeeps DEF Change, SaveRaises, Known
  <2> QED
    BY <1>2, <2>1, <2>2 DEF Change
<1>3. CASE RestartStore
  BY <1>3, RestartKeeps DEF RestartStore, Known
<1>4. ASSUME NEW i \in Ids, NEW s \in Secrets, CreateToken(i, s) \/ RotateToken(i, s)
      PROVE  StoreInv' /\ Known \subseteq Known' /\ ended \subseteq ended'
  BY <1>2, <1>4 DEF CreateToken, RotateToken
<1>5. ASSUME NEW i \in Ids, RevokeToken(i)
      PROVE  StoreInv' /\ Known \subseteq Known' /\ ended \subseteq ended'
  BY <1>2, <1>5 DEF RevokeToken
<1> QED
  BY <1>3, <1>4, <1>5 DEF StoreStep

-----------------------------------------------------------------------------
(* The pages. *)

(* A token that the gateway rejects while memory and file agree has been     *)
(* ended, or was never one.                                                  *)
LEMMA RejectedIsEnded ==
  ASSUME StoreInv, torn = {}, NEW t \in Known \cup {None}, ~IsAccepted(t)
  PROVE  t \in {None, Junk} \cup ended
<1>1. tokens \in [Ids -> Secrets \cup {None}] /\ good \in [Ids -> Secrets \cup {None}]
  BY DEF StoreInv, TokensConsistent, StoreTypeOK
<1>2. \A i \in Ids : tokens[i] = good[i]
  BY DEF StoreInv, TokensConsistent
<1> QED
  BY <1>1, <1>2 DEF Known, IsAccepted, Accepted, Range

(* What is ended or no token is not accepted.                                *)
LEMMA EndedIsRejected ==
  ASSUME StoreInv, NEW t \in {None, Junk} \cup ended, t # Bootstrap
  PROVE  ~IsAccepted(t)
<1>1. tokens \in [Ids -> Secrets \cup {None}] /\ ended \cap Accepted = {}
  BY DEF StoreInv, TokensConsistent, StoreTypeOK
<1> QED
  BY <1>1, WebAssumption DEF IsAccepted, Accepted, Range

(* The pages share one browser with the store, and no token but a handed out *)
(* one ever reaches it.                                                      *)
LEMMA WebStart == WebInit => WebInv
<1> SUFFICES ASSUME WebInit PROVE WebInv
  OBVIOUS
<1>1. StoreInv
  <2>1. /\ tokens = [i \in Ids |-> None] /\ file = [i \in Ids |-> None]
        /\ cache = [i \in Ids |-> None] /\ good = [i \in Ids |-> None] /\ ended = {} /\ torn = {}
    BY DEF WebInit, StoreInit, Nowhere
  <2>2. StoreTypeOK /\ SecretsApart
    BY <2>1 DEF StoreTypeOK, SecretsApart, Held
  <2> QED
    BY <2>1, <2>2 DEF StoreInv, TokensConsistent
<1>2. WebTypeOK
  BY DEF WebInit, WebTypeOK, Texts, Opened, Idle
<1>3. stored = None => \E p \in Pages : overlay[p]
  BY WebAssumption DEF WebInit, Opened
<1>4. OnlyKnown /\ RejectedForGood
  BY DEF WebInit, Idle, OnlyKnown, RejectedForGood, Known
<1> QED
  BY <1>1, <1>2, <1>3, <1>4 DEF WebInv, SignInConsistent, StoreInv

(* A page drops, stores, sends or is answered for one token at a time.       *)
LEMMA PageKeeps ==
  ASSUME WebInv, NEW p \in Pages, UNCHANGED storeVars,
         \/ Send(p) \/ Serve(p) \/ Rejected(p) \/ Failed(p) \/ Forget(p) \/ Reload(p)
         \/ \E t \in Known : Save(p, t)
  PROVE  WebInv'
<1>1. /\ stored \in Texts /\ overlay \in [Pages -> BOOLEAN]
      /\ request \in [Pages -> [token : Texts, at : {"idle", "sent", "401"}, shaky : BOOLEAN]]
      /\ Idle \in [token : Texts, at : {"idle", "sent", "401"}, shaky : BOOLEAN]
  BY DEF WebInv, SignInConsistent, WebTypeOK, Texts, Idle
<1>2. StoreInv' /\ Known' = Known /\ ended' = ended
  BY DEF WebInv, StoreInv, TokensConsistent, StoreTypeOK, SecretsApart, Held, Accepted, storeVars,
         Known
<1>3. Known \subseteq Texts /\ None \notin Known /\ None \in Texts
  BY SecretsAssumption, WebAssumption
     DEF Known, Texts, Range, WebInv, StoreInv, TokensConsistent, StoreTypeOK
<1>4. /\ stored = None => \E q \in Pages : overlay[q]
      /\ OnlyKnown /\ RejectedForGood
  BY DEF WebInv, SignInConsistent
<1>5. SUFFICES ASSUME TRUE
               PROVE  /\ WebTypeOK' /\ (stored' = None => \E q \in Pages : overlay'[q])
                      /\ OnlyKnown' /\ RejectedForGood'
  BY <1>2 DEF WebInv, SignInConsistent, StoreInv
<1>6. CASE Send(p)
  BY <1>1, <1>2, <1>3, <1>4, <1>6 DEF Send, WebTypeOK, OnlyKnown, RejectedForGood, Idle
<1>7. CASE Serve(p)
  <2>1. CASE IsAccepted(request[p].token)
    BY <1>1, <1>2, <1>3, <1>4, <1>7, <2>1 DEF Serve, WebTypeOK, OnlyKnown, RejectedForGood, Idle
  <2>2. CASE ~IsAccepted(request[p].token)
    <3>1. /\ request' = [request EXCEPT ![p] = [@ EXCEPT !.at = "401", !.shaky = (torn # {})]]
          /\ UNCHANGED <<stored, overlay>>
      BY <1>7, <2>2 DEF Serve
    <3>2. WebTypeOK'
      BY <1>1, <3>1 DEF WebTypeOK, Texts
    <3>3. /\ request[p].token # Bootstrap
          /\ torn = {} => request[p].token \in {None, Junk} \cup ended
      BY <1>4, <2>2, RejectedIsEnded DEF WebInv, OnlyKnown, IsAccepted
    <3>4. OnlyKnown' /\ RejectedForGood'
      BY <1>1, <1>2, <1>4, <3>1, <3>3 DEF OnlyKnown, RejectedForGood
    <3> QED
      BY <1>4, <3>1, <3>2, <3>4
  <2> QED
    BY <2>1, <2>2
<1>8. CASE Rejected(p) \/ Forget(p)
  <2>1. /\ stored' = None /\ overlay' = [overlay EXCEPT ![p] = TRUE]
        /\ request' = request \/ request' = [request EXCEPT ![p] = Idle]
    BY <1>8 DEF Rejected, Forget, Show
  <2>2. overlay' \in [Pages -> BOOLEAN] /\ overlay'[p]
    BY <1>1, <2>1
  <2>3. request' \in [Pages -> [token : Texts, at : {"idle", "sent", "401"}, shaky : BOOLEAN]]
    BY <1>1, <2>1
  <2>4. OnlyKnown' /\ RejectedForGood'
    BY <1>1, <1>2, <1>4, <2>1 DEF OnlyKnown, RejectedForGood, Idle
  <2> QED
    BY <1>3, <2>1, <2>2, <2>3, <2>4 DEF WebTypeOK, Texts
<1>9. CASE Failed(p)
  BY <1>1, <1>2, <1>3, <1>4, <1>9 DEF Failed, WebTypeOK, OnlyKnown, RejectedForGood, Idle
<1>10. CASE Reload(p)
  BY <1>1, <1>2, <1>3, <1>4, <1>10
     DEF Reload, Show, Opened, WebTypeOK, OnlyKnown, RejectedForGood, Idle
<1>11. ASSUME NEW t \in Known, Save(p, t)
       PROVE  /\ WebTypeOK' /\ (stored' = None => \E q \in Pages : overlay'[q])
              /\ OnlyKnown' /\ RejectedForGood'
  BY <1>1, <1>2, <1>3, <1>4, <1>11 DEF Save, Show, WebTypeOK, OnlyKnown, RejectedForGood
<1> QED
  BY <1>6, <1>7, <1>8, <1>9, <1>10, <1>11

(* The store changes under the pages, which learn of it from their answers.  *)
LEMMA WebKeeps == WebInv /\ [WebNext]_vars => WebInv'
<1> SUFFICES ASSUME WebInv, [WebNext]_vars PROVE WebInv'
  OBVIOUS
<1>1. ASSUME NEW p \in Pages,
             \/ Send(p) \/ Serve(p) \/ Rejected(p) \/ Failed(p) \/ Forget(p) \/ Reload(p)
             \/ \E t \in Known : Save(p, t)
      PROVE  WebInv'
  <2>1. UNCHANGED storeVars
    BY <1>1 DEF Send, Serve, Rejected, Failed, Forget, Reload, Save
  <2> QED
    BY <1>1, <2>1, PageKeeps
<1>2. CASE StoreStep /\ UNCHANGED webVars
  <2>1. StoreInv' /\ Known \subseteq Known' /\ ended \subseteq ended'
    BY <1>2, StoreKeeps DEF WebInv
  <2>2. UNCHANGED <<stored, overlay, request>>
    BY <1>2 DEF webVars
  <2>3. WebTypeOK' /\ (stored' = None => \E p \in Pages : overlay'[p])
    BY <2>2 DEF WebInv, SignInConsistent, WebTypeOK, Texts
  <2>4. OnlyKnown' /\ RejectedForGood'
    BY <2>1, <2>2 DEF WebInv, OnlyKnown, RejectedForGood
  <2> QED
    BY <2>1, <2>3, <2>4 DEF WebInv, SignInConsistent, StoreInv
<1>3. CASE UNCHANGED vars
  BY <1>3 DEF vars, webVars, storeVars, WebInv, SignInConsistent, WebTypeOK, Texts, StoreInv,
              TokensConsistent, StoreTypeOK, SecretsApart, Held, Accepted, Range, OnlyKnown,
              RejectedForGood, Known
<1> QED
  BY <1>1, <1>2, <1>3 DEF WebNext

-----------------------------------------------------------------------------
(* Theorems. *)

(* All four places of a token and the pages' dialogs stay in order. *)
LEMMA WebInvariant == WebSpec => []WebInv
<1> QED
  BY WebStart, WebKeeps, PTL DEF WebSpec

(* What was revoked or rotated away is accepted nowhere and shown nowhere,   *)
(* a token whose writes went well works before and after a restart, and a    *)
(* browser without a token has a page that asks for one.                     *)
THEOREM SignInHolds == WebSpec => []SignInConsistent
<1>1. WebInv => SignInConsistent
  BY DEF WebInv
<1> QED
  BY <1>1, WebInvariant, PTL

(* A 401 to a request with the stored token, from a gateway that had written *)
(* all its changes, means that the token has ended: it cannot be working.    *)
THEOREM WorkingTokensStay == WebSpec => WorkingTokenStays
<1> DEFINE A == IsAccepted(stored) /\ stored' = None =>
                  \E p \in Pages : \/ Forget(p)
                                   \/ /\ request[p].at = "401" /\ request'[p] = Idle
                                      /\ request[p].token # stored \/ request[p].shaky
<1>1. WebInv /\ [WebNext]_vars => [A]_vars
  <2> SUFFICES ASSUME WebInv, WebNext, IsAccepted(stored), stored' = None,
                      \A p \in Pages : ~Forget(p)
               PROVE  \E p \in Pages : /\ request[p].at = "401" /\ request'[p] = Idle
                                       /\ request[p].token # stored \/ request[p].shaky
    OBVIOUS
  <2>1. request \in [Pages -> [token : Texts, at : {"idle", "sent", "401"}, shaky : BOOLEAN]]
    BY DEF WebInv, SignInConsistent, WebTypeOK
  <2>2. stored # None /\ None \notin Known
    BY EndedIsRejected, SecretsAssumption, WebAssumption
       DEF Known, WebInv, StoreInv, TokensConsistent, StoreTypeOK
  <2>3. PICK p \in Pages : Rejected(p)
    BY <2>2 DEF WebNext, Send, Serve, Failed, Reload, Save, webVars
  <2>4. request[p].at = "401" /\ request'[p] = Idle
    BY <2>1, <2>3 DEF Rejected
  <2>5. request[p].token # stored \/ request[p].shaky
    BY <2>4, EndedIsRejected DEF WebInv, RejectedForGood
  <2> QED
    BY <2>4, <2>5
<1> QED
  BY <1>1, WebInvariant, PTL DEF WebSpec, WorkingTokenStays
=============================================================================
