----------------------------- MODULE WebSession -----------------------------
(***************************************************************************)
(* Who asks for the token, and when (src/app/webui/app.js): the token that *)
(* all pages of a browser share in localStorage, the overlay each page     *)
(* asks for it with, and the requests each page sends with the token of    *)
(* the moment.  A 401 drops the stored token, whatever it is by then.      *)
(* The gateway accepts its own token and the device tokens of TokenStore.  *)
(***************************************************************************)
EXTENDS TokenStore

CONSTANTS Pages,      \* pages of one browser, with one request in flight each (bound)
          Bootstrap,  \* VOCAGATEWAY_TOKEN, always accepted
          Junk        \* a text that is long enough to be a token and is none

ASSUME WebAssumption ==
  /\ Pages # {} /\ Bootstrap # Junk /\ None \notin {Bootstrap, Junk} /\ Junk \notin Secrets

VARIABLES stored,   \* localStorage: the token, or None
          overlay,  \* the token dialog of each page is shown, whatever it says
          request   \* per page: the token its request was sent with, and its fate

webVars == <<stored, overlay, request>>
vars == <<storeVars, webVars>>

IsAccepted(t) == t = Bootstrap \/ t \in Accepted

Idle == [token |-> None, at |-> "idle", shaky |-> FALSE]

\* A page opens: with the dialog if no token is stored.
Opened(token) == token = None

WebInit ==
  /\ StoreInit /\ stored \in {None, Bootstrap, Junk}
  /\ overlay = [p \in Pages |-> Opened(stored)]
  /\ request = [p \in Pages |-> Idle]

Show(p, shown) == overlay' = [overlay EXCEPT ![p] = shown]

\* htmx:configRequest and the fetches: the token is read as the request goes out.  The
\* pills ask every five seconds, also behind the dialog.
Send(p) ==
  /\ request[p].at = "idle"
  /\ request' = [request EXCEPT ![p] = [Idle EXCEPT !.token = stored, !.at = "sent"]]
  /\ UNCHANGED <<storeVars, stored, overlay>>

\* require_token; shaky (history) if a change of the tokens is in memory only.  An answer
\* other than a 401 changes nothing here.
Serve(p) ==
  /\ request[p].at = "sent"
  /\ request' = [request EXCEPT ![p] = IF IsAccepted(@.token) THEN Idle
                                      ELSE [@ EXCEPT !.at = "401", !.shaky = (torn # {})]]
  /\ UNCHANGED <<storeVars, stored, overlay>>

\* A slip: the dialog only for a page that had a token.
RejectedQuietly(p) ==
  /\ request[p].at = "401"
  /\ request' = [request EXCEPT ![p] = Idle] /\ stored' = None
  /\ Show(p, overlay[p] \/ stored # None)
  /\ UNCHANGED storeVars

\* htmx:responseError, and the same in each fetch.
Rejected(p) ==
  /\ request[p].at = "401"
  /\ request' = [request EXCEPT ![p] = Idle] /\ stored' = None /\ Show(p, TRUE)
  /\ UNCHANGED storeVars

\* A slip: every failure ends the session.
FailedIsRejected(p) ==
  /\ request[p].at = "sent"
  /\ request' = [request EXCEPT ![p] = Idle] /\ stored' = None /\ Show(p, TRUE)
  /\ UNCHANGED storeVars

\* An error, or no answer: a toast.
Failed(p) ==
  /\ request[p].at = "sent"
  /\ request' = [request EXCEPT ![p] = Idle]
  /\ UNCHANGED <<storeVars, stored, overlay>>

\* A token is pasted into the dialog; one that is too short changes only what it says.
Save(p, t) ==
  /\ overlay[p] /\ stored' = t /\ Show(p, FALSE)
  /\ UNCHANGED <<storeVars, request>>

\* The forget button, which is inert behind the dialog.
Forget(p) ==
  /\ ~overlay[p] /\ stored' = None /\ Show(p, TRUE)
  /\ UNCHANGED <<storeVars, request>>

\* The page is loaded again.
Reload(p) ==
  /\ request' = [request EXCEPT ![p] = Idle] /\ Show(p, Opened(stored))
  /\ UNCHANGED <<storeVars, stored>>

\* What a user may have copied: what was handed out, or is no token.
Known == {Bootstrap, Junk} \cup ended \cup (Range(good) \ {None})

WebNext ==
  \/ \E p \in Pages : \/ Send(p) \/ Serve(p) \/ Rejected(p) \/ Failed(p) \/ Forget(p)
                      \/ Reload(p) \/ \E t \in Known : Save(p, t)
  \/ StoreStep /\ UNCHANGED webVars

\* The pills ask on, and are answered: not always with a failure, nor into a page that is
\* loaded anew.
WebFairness == \A p \in Pages : WF_vars(Send(p)) /\ SF_vars(Serve(p)) /\ SF_vars(Rejected(p))
WebSpec == WebInit /\ [][WebNext]_vars /\ WebFairness

-----------------------------------------------------------------------------
(* Properties.                                                             *)

Texts == Secrets \cup {None, Bootstrap, Junk}

WebTypeOK ==
  /\ stored \in Texts /\ overlay \in [Pages -> BOOLEAN]
  /\ request \in [Pages -> [token : Texts, at : {"idle", "sent", "401"}, shaky : BOOLEAN]]

\* The gateway's tokens are in order, and while no token is stored some page asks for one,
\* whichever page dropped it, forgot it or was loaded since; the others follow with their
\* next request.
SignInConsistent ==
  WebTypeOK /\ TokensConsistent /\ (stored = None => \E p \in Pages : overlay[p])

\* No page stays as it is without a token: while the one that is stored, or none, is left
\* alone and not accepted, dropped by another page or ended by the gateway, every page comes
\* to ask for one.
AsksForToken ==
  \A p \in Pages : (<>[][stored' = stored]_vars) => []<>(overlay[p] \/ IsAccepted(stored))

\* A token that works is dropped only on request, or by a late answer: to a request that
\* was sent with another token, or was rejected for a change the gateway could not write
\* and has forgotten since.
WorkingTokenStays ==
  [][IsAccepted(stored) /\ stored' = None =>
       \E p \in Pages : \/ Forget(p)
                        \/ /\ request[p].at = "401" /\ request'[p] = Idle
                           /\ request[p].token # stored \/ request[p].shaky]_vars
=============================================================================
