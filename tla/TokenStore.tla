----------------------------- MODULE TokenStore -----------------------------
(***************************************************************************)
(* TokenStore (src/app/tokens.py): the device tokens in memory, the file   *)
(* they are saved to, and the plaintexts kept in memory for QR codes.      *)
(* create, rotate and revoke change memory first, then write all of it to  *)
(* the file, and touch the plaintexts last; a write that fails raises      *)
(* between the two.  A digest stands for its secret.                       *)
(***************************************************************************)
EXTENDS Naturals, FiniteSets, Functions

CONSTANTS Ids,      \* device tokens that may exist at once
          Secrets,  \* plaintexts the gateway may draw (bound)
          None      \* no such token, no such plaintext

ASSUME SecretsAssumption == None \notin Secrets

VARIABLES tokens,   \* _tokens: the secret accepted for each id
          file,     \* the same, as the file has it
          cache,    \* _plaintext_cache
          good,     \* history: per id the secret of its last answered create or rotate
          ended,    \* history: secrets whose rotate or revoke was answered
          torn      \* history: ids with a failed write since their last answered one

storeVars == <<tokens, file, cache, good, ended, torn>>

Nowhere == [i \in Ids |-> None]
Accepted == Range(tokens) \ {None}

StoreInit ==
  /\ tokens = Nowhere /\ file = Nowhere /\ cache = Nowhere
  /\ good = Nowhere /\ ended = {} /\ torn = {}

\* Neither ids nor secrets are drawn twice.
FreshId(i) == tokens[i] = None /\ file[i] = None /\ cache[i] = None /\ good[i] = None
Fresh(s) == s \notin Range(tokens) \cup Range(file) \cup Range(cache) \cup Range(good) \cup ended

\* A slip: a revoked token keeps its plaintext.
SavedKeepsPlaintext(i, s) ==
  /\ file' = tokens' /\ cache' = IF s = None THEN cache ELSE [cache EXCEPT ![i] = s]
  /\ good' = [good EXCEPT ![i] = s]
  /\ ended' = ended \cup ({good[i]} \ {None}) /\ torn' = torn \ {i}

\* _save() after a change of i that leaves it with secret s (None: revoked).
Saved(i, s) ==
  /\ file' = tokens'
  /\ cache' = [cache EXCEPT ![i] = s] /\ good' = [good EXCEPT ![i] = s]
  /\ ended' = ended \cup ({good[i]} \ {None}) /\ torn' = torn \ {i}

\* Nothing is written, the caller gets an error and the secret is lost.
SaveRaises(i) == torn' = torn \cup {i} /\ UNCHANGED <<file, cache, good, ended>>

\* One request that sets the secret of i, from memory to file.
Change(i, s) ==
  /\ tokens' = [tokens EXCEPT ![i] = s]
  /\ Saved(i, s) \/ SaveRaises(i)

CreateToken(i, s) == FreshId(i) /\ Fresh(s) /\ Change(i, s)
RotateToken(i, s) == tokens[i] # None /\ Fresh(s) /\ Change(i, s)
RevokeToken(i)    == tokens[i] # None /\ Change(i, None)

\* The process ends and starts again: the file is read, the plaintexts are gone, and so
\* is what was changed in memory alone.
RestartStore ==
  /\ tokens' = file /\ cache' = Nowhere
  /\ torn' = {i \in torn : file[i] # good[i]}
  /\ UNCHANGED <<file, good, ended>>

StoreStep ==
  \/ \E i \in Ids, s \in Secrets : CreateToken(i, s) \/ RotateToken(i, s)
  \/ \E i \in Ids : RevokeToken(i)
  \/ RestartStore

-----------------------------------------------------------------------------
(* Properties.                                                             *)

StoreTypeOK ==
  /\ {tokens, file, cache, good} \subseteq [Ids -> Secrets \cup {None}]
  /\ ended \subseteq Secrets /\ torn \subseteq Ids

\* However writes fail and the process restarts between them: a secret whose revocation
\* or rotation was answered is never accepted again and its QR code never shown; and an
\* id whose own writes went well is accepted with the secret that was handed out, before
\* and after a restart, and its QR code works.
TokensConsistent ==
  /\ StoreTypeOK
  /\ ended \cap (Accepted \cup Range(file)) = {}
  /\ \A i \in Ids :
       /\ tokens[i] # None => cache[i] \notin ended
       /\ i \notin torn => tokens[i] = good[i] /\ file[i] = good[i] /\ cache[i] \in {None, good[i]}
=============================================================================
