--------------------------- MODULE SessionProofs ---------------------------
(***************************************************************************)
(* Proofs about SessionJobs, for any number of finish requests, uploads    *)
(* and deaths of the process.  What holds only for orderly clients, or for *)
(* one job at a time, says so in its hypotheses.                           *)
(***************************************************************************)
EXTENDS SessionJobs, TLAPS

(* No two jobs can work on the session at once: there is one handler, or     *)
(* clients wait for their finish calls before they upload, delete or finish. *)
Serial == OrderlyJobs \/ \A g, h \in Handlers : g = h

(* One job at a time, and a claim that nothing has replaced is its job's:    *)
(* `transcribing' until the result is stored, `completed' from then on.      *)
OneOwner ==
  /\ \A g, h \in Working : g = h
  /\ \A h \in Working :
       claimant = h => row.state = IF job[h].at = "recording" THEN "completed" ELSE "transcribing"

(* A session in `transcribing' is the claim of the job that works, if any.   *)
ClaimOwned ==
  row.state = "transcribing" =>
    /\ \A h \in Working : claimant = h /\ job[h].at # "recording"
    /\ Working = {} => crashes > 0

(* Orderly clients upload only while nobody works, and work only while       *)
(* nobody uploads; what works is the claimant, and a completed session gets  *)
(* no upload.                                                                *)
Orderly ==
  OrderlyJobs =>
    /\ Working # {} => Streaming = {}
    /\ \A h \in Working : claimant = h
    /\ row.state = "completed" => Streaming = {}

ClaimInv == SessionTypeOK /\ OneOwner /\ ClaimOwned /\ Orderly

(* One upload at a time writes the temporary file, and nothing else is in it.*)
UploadAlone ==
  /\ \A u, v \in Streaming : u = v
  /\ \A u \in Streaming : temp \subseteq {u}

(* What the row names is what is on disk and what its claimant has heard,    *)
(* from the normalized file in between to the stored text.                   *)
HeardCurrent ==
  /\ row.state = "absent" => ~row.audio
  /\ row.audio => file = row.recording
  /\ row.state = "completed" => row.transcript = row.recording
  /\ \A h \in Working :
       claimant = h /\ job[h].at # "recording" =>
         /\ row.audio
         /\ job[h].at # "claimed" => job[h].heard = row.recording
         /\ job[h].at = "queued" => norm = row.recording

FreshInv == ClaimInv /\ (crashes = 0 => UploadAlone /\ HeardCurrent)

(* While the process lives, an absent row is being uploaded by nobody, and   *)
(* only a row that names a recording has one on disk.                        *)
FilesNamed ==
  /\ row.state = "absent" => Streaming = {} /\ ~row.audio
  /\ ~row.audio => file = {}

-----------------------------------------------------------------------------
(* Types. *)

(* The row that complete() leaves. *)
LEMMA StoredRow ==
  ASSUME SessionTypeOK, NEW text \in SUBSET Uploads
  PROVE  /\ Completed(text) \in [state : States, audio : BOOLEAN, recording : SUBSET Uploads,
                                 transcript : SUBSET Uploads]
         /\ Completed(text).state = "completed" /\ Completed(text).transcript = text
         /\ Completed(text).recording = row.recording
         /\ Completed(text).audio = (row.audio /\ ~DeleteAudio)
BY SessionAssumption DEF SessionTypeOK, States, Completed

(* The row that an upload leaves. *)
LEMMA NewRow ==
  ASSUME NEW u \in Uploads, EndUpload(u)
  PROVE  \/ temp = {} /\ UNCHANGED <<row, file, claimant>>
         \/ temp # {} /\ file' = temp /\ row.state = "absent" /\ UNCHANGED <<row, claimant>>
         \/ /\ temp # {} /\ file' = temp /\ row.state # "absent" /\ claimant' = Nobody
            /\ row' = [state |-> "uploaded", audio |-> TRUE, recording |-> {u}, transcript |-> {}]
            /\ row' \in [state : States, audio : BOOLEAN, recording : SUBSET Uploads,
                          transcript : SUBSET Uploads]
<1>1. {u} \in SUBSET Uploads /\ {} \in SUBSET Uploads
  OBVIOUS
<1>2. [state |-> "uploaded", audio |-> TRUE, recording |-> {u}, transcript |-> {}]
        \in [state : States, audio : BOOLEAN, recording : SUBSET Uploads,
              transcript : SUBSET Uploads]
  BY <1>1 DEF States
<1> QED
  BY <1>2 DEF EndUpload, MarkUploaded

(* The initial state has the types. *)
LEMMA TypeInit == SessionInit => SessionTypeOK
BY SessionAssumption
   DEF SessionInit, SessionTypeOK, NoRow, Idle, States, UploadStates, JobStates

(* Every step keeps the types. *)
LEMMA TypeStep ==
  ASSUME SessionTypeOK, [SessionNext]_sessionVars
  PROVE  SessionTypeOK'
<1> USE SessionAssumption DEF SessionTypeOK, States, UploadStates, JobStates
<1>1. CASE Create
  BY <1>1 DEF Create, NoRow, files
<1>2. CASE Delete
  BY <1>2 DEF Delete, NoRow, files
<1>3. ASSUME NEW u \in Uploads, StartUpload(u) PROVE SessionTypeOK'
  BY <1>3 DEF StartUpload, files
<1>4. ASSUME NEW u \in Uploads, UploadFails(u) PROVE SessionTypeOK'
  BY <1>4 DEF UploadFails, files
<1>5. ASSUME NEW u \in Uploads, EndUpload(u) PROVE SessionTypeOK'
  BY <1>5, NewRow DEF EndUpload, files
<1>6. ASSUME NEW u \in Uploads, CrashInUpload(u) PROVE SessionTypeOK'
  BY <1>6 DEF CrashInUpload, Idle, files
<1>7. ASSUME NEW h \in Handlers, Claim(h) PROVE SessionTypeOK'
  BY <1>7 DEF Claim, files
<1>8. ASSUME NEW h \in Handlers, OpenSource(h) PROVE SessionTypeOK'
  BY <1>8 DEF OpenSource, files
<1>9. ASSUME NEW h \in Handlers, Normalize(h) PROVE SessionTypeOK'
  BY <1>9 DEF Normalize, files
<1>10. ASSUME NEW h \in Handlers, Decode(h) PROVE SessionTypeOK'
  BY <1>10 DEF Decode, files
<1>11. ASSUME NEW h \in Handlers, CleanUp(h) PROVE SessionTypeOK'
  BY <1>11 DEF CleanUp, files
<1>12. ASSUME NEW h \in Handlers, Persist(h) PROVE SessionTypeOK'
  BY <1>12, StoredRow DEF Persist, files
<1>13. ASSUME NEW h \in Handlers, Superseded(h) PROVE SessionTypeOK'
  BY <1>13 DEF Superseded, GiveUpJob, Idle, files
<1>14. ASSUME NEW h \in Handlers, FailJob(h) PROVE SessionTypeOK'
  BY <1>14 DEF FailJob, GiveUpJob, Idle, files
<1>15. ASSUME NEW h \in Handlers, RestoreUploaded(h) PROVE SessionTypeOK'
  BY <1>15 DEF RestoreUploaded, GiveUpJob, Idle, files
<1>16. ASSUME NEW h \in Handlers, EndJob(h) PROVE SessionTypeOK'
  BY <1>16 DEF EndJob, Idle, files
<1>17. ASSUME NEW h \in Handlers, CrashInPersist(h) PROVE SessionTypeOK'
  BY <1>17, StoredRow DEF CrashInPersist, Dies, Idle, files
<1>18. CASE Crash
  BY <1>18 DEF Crash, Dies, Idle, files
<1>19. CASE CrashInDelete
  BY <1>19 DEF CrashInDelete, Dies, Idle, NoRow, files
<1>20. CASE UNCHANGED sessionVars
  BY <1>20 DEF sessionVars, files
<1> QED
  BY <1>1, <1>2, <1>3, <1>4, <1>5, <1>6, <1>7, <1>8, <1>9, <1>10, <1>11, <1>12, <1>13, <1>14, <1>15, <1>16, <1>17, <1>18, <1>19, <1>20 DEF SessionNext, JobStep

(* Deaths are counted, by one at a time. *)
LEMMA DeathsCounted ==
  ASSUME SessionTypeOK, [SessionNext]_sessionVars, crashes' = 0
  PROVE  crashes = 0
<1>1. crashes \in Nat /\ crashes' \in {crashes, crashes + 1}
  BY SessionAssumption
     DEF SessionTypeOK, SessionNext, sessionVars, JobStep, Create, Delete, StartUpload,
         UploadFails, EndUpload, CrashInUpload, Claim, OpenSource, Normalize, Decode, CleanUp,
         Persist, Superseded, FailJob, RestoreUploaded, GiveUpJob, EndJob, CrashInPersist, Crash,
         CrashInDelete, Dies
<1> QED
  BY <1>1

(* In every state the rows, files and requests have their types. *)
THEOREM SessionTypes == SessionSpec => []SessionTypeOK
BY TypeInit, TypeStep, PTL DEF SessionSpec

-----------------------------------------------------------------------------
(* The recording of a row. *)

(* A step keeps the recording of a row that names one. *)
LEMMA RecordingStep ==
  ASSUME SessionTypeOK, RecordingOnDisk, [SessionNext]_sessionVars
  PROVE  RecordingOnDisk'
<1> USE SessionAssumption DEF SessionTypeOK, RecordingOnDisk
<1>1. CASE Create
  BY <1>1 DEF Create, NoRow, files
<1>2. CASE Delete
  BY <1>2 DEF Delete, NoRow, files
<1>3. ASSUME NEW u \in Uploads, StartUpload(u) PROVE RecordingOnDisk'
  BY <1>3 DEF StartUpload, files
<1>4. ASSUME NEW u \in Uploads, UploadFails(u) PROVE RecordingOnDisk'
  BY <1>4 DEF UploadFails, files
<1>5. ASSUME NEW u \in Uploads, EndUpload(u) PROVE RecordingOnDisk'
  BY <1>5 DEF EndUpload, files
<1>6. ASSUME NEW u \in Uploads, CrashInUpload(u) PROVE RecordingOnDisk'
  BY <1>6 DEF CrashInUpload, Idle, files
<1>7. ASSUME NEW h \in Handlers, Claim(h) PROVE RecordingOnDisk'
  BY <1>7 DEF Claim, files
<1>8. ASSUME NEW h \in Handlers, OpenSource(h) PROVE RecordingOnDisk'
  BY <1>8 DEF OpenSource, files
<1>9. ASSUME NEW h \in Handlers, Normalize(h) PROVE RecordingOnDisk'
  BY <1>9 DEF Normalize, files
<1>10. ASSUME NEW h \in Handlers, Decode(h) PROVE RecordingOnDisk'
  BY <1>10 DEF Decode, files
<1>11. ASSUME NEW h \in Handlers, CleanUp(h) PROVE RecordingOnDisk'
  BY <1>11 DEF CleanUp, files
<1>12. ASSUME NEW h \in Handlers, Persist(h) PROVE RecordingOnDisk'
  BY <1>12, StoredRow DEF Persist, files
<1>13. ASSUME NEW h \in Handlers, Superseded(h) PROVE RecordingOnDisk'
  BY <1>13 DEF Superseded, GiveUpJob, Idle, files
<1>14. ASSUME NEW h \in Handlers, FailJob(h) PROVE RecordingOnDisk'
  BY <1>14 DEF FailJob, GiveUpJob, Idle, files
<1>15. ASSUME NEW h \in Handlers, RestoreUploaded(h) PROVE RecordingOnDisk'
  BY <1>15 DEF RestoreUploaded, GiveUpJob, Idle, files
<1>16. ASSUME NEW h \in Handlers, EndJob(h) PROVE RecordingOnDisk'
  BY <1>16 DEF EndJob, Idle, files
<1>17. ASSUME NEW h \in Handlers, CrashInPersist(h) PROVE RecordingOnDisk'
  BY <1>17, StoredRow DEF CrashInPersist, Dies, Idle, files
<1>18. CASE Crash
  BY <1>18 DEF Crash, Dies, Idle, files
<1>19. CASE CrashInDelete
  BY <1>19 DEF CrashInDelete, Dies, Idle, NoRow, files
<1>20. CASE UNCHANGED sessionVars
  BY <1>20 DEF sessionVars, files
<1> QED
  BY <1>1, <1>2, <1>3, <1>4, <1>5, <1>6, <1>7, <1>8, <1>9, <1>10, <1>11, <1>12, <1>13, <1>14, <1>15, <1>16, <1>17, <1>18, <1>19, <1>20 DEF SessionNext, JobStep

(* Whatever uploads, jobs, deletes and deaths of the process do to each      *)
(* other, a row that names a recording finds one on disk: files are unlinked *)
(* only after the row stopped naming them (service.py, storage.py).          *)
THEOREM RecordingKept == SessionSpec => []RecordingOnDisk
<1>1. SessionInit => RecordingOnDisk
  BY DEF SessionInit, NoRow, RecordingOnDisk
<1> QED
  BY <1>1, SessionTypes, RecordingStep, PTL DEF SessionSpec

-----------------------------------------------------------------------------
(* Claims. *)

(* Whoever can claim the session is the only one to work on it then. *)
LEMMA ClaimAlone ==
  ASSUME Serial, ClaimInv, NEW h \in Handlers, Claim(h)
  PROVE  Working = {}
<1>1. CASE OrderlyJobs
  BY <1>1 DEF ClaimInv, OneOwner, Orderly, Working, Claim
<1>2. CASE \A g, k \in Handlers : g = k
  BY <1>2 DEF Working, Claim
<1> QED
  BY <1>1, <1>2 DEF Serial

(* The same handlers work after a step that leaves every job in its place or *)
(* moves one on.                                                             *)
LEMMA ClaimStep ==
  ASSUME Serial, ClaimInv, [SessionNext]_sessionVars
  PROVE  ClaimInv'
<1> SessionTypeOK /\ SessionTypeOK'
  BY TypeStep DEF ClaimInv
<1>0. ASSUME NEW h \in Handlers, Claim(h) PROVE Working = {} /\ Working' = {h}
  <2>1. Working = {}
    BY <1>0, ClaimAlone
  <2>2. job' = [job EXCEPT ![h].at = "claimed"]
    BY <1>0 DEF Claim
  <2> QED
    BY <2>1, <2>2 DEF Working, SessionTypeOK
<1> USE SessionAssumption DEF ClaimInv, OneOwner, ClaimOwned, Orderly, Streaming
<1>1. CASE Create
  BY <1>1 DEF Create, NoRow, files, Working, SessionTypeOK
<1>2. CASE Delete
  BY <1>2 DEF Delete, NoRow, files, Working, SessionTypeOK
<1>3. ASSUME NEW u \in Uploads, StartUpload(u) PROVE ClaimInv'
  BY <1>3 DEF StartUpload, files, Working, SessionTypeOK
<1>4. ASSUME NEW u \in Uploads, UploadFails(u) PROVE ClaimInv'
  BY <1>4 DEF UploadFails, files, Working, SessionTypeOK
<1>5. ASSUME NEW u \in Uploads, EndUpload(u) PROVE ClaimInv'
  <2>1. /\ Working' = Working /\ job' = job /\ crashes' = crashes /\ Streaming' = Streaming \ {u}
        /\ u \in Streaming
    BY <1>5 DEF EndUpload, Working, SessionTypeOK
  <2>2. \/ row' = row /\ claimant' = claimant
        \/ claimant' = Nobody /\ row'.state = "uploaded"
    BY <1>5, NewRow
  <2>3. OneOwner' /\ ClaimOwned'
    BY <2>1, <2>2 DEF Working
  <2>4. Orderly'
    BY <2>1, <2>2 DEF Working
  <2> QED
    BY <2>3, <2>4
<1>6. ASSUME NEW u \in Uploads, CrashInUpload(u) PROVE ClaimInv'
  BY <1>6 DEF CrashInUpload, Idle, files, Working, SessionTypeOK
<1>7. ASSUME NEW h \in Handlers, Claim(h) PROVE ClaimInv'
  <2>0. Working = {} /\ Working' = {h}
    BY <1>7, <1>0
  <2>1. claimant' = h /\ job'[h].at = "claimed" /\ row'.state = "transcribing"
    BY <1>7 DEF Claim, SessionTypeOK
  <2>2. OrderlyJobs => Streaming' = {}
    BY <1>7 DEF Claim
  <2> QED
    BY <2>0, <2>1, <2>2
<1>8. ASSUME NEW h \in Handlers, OpenSource(h) PROVE ClaimInv'
  BY <1>8 DEF OpenSource, files, Working, SessionTypeOK
<1>9. ASSUME NEW h \in Handlers, Normalize(h) PROVE ClaimInv'
  BY <1>9 DEF Normalize, files, Working, SessionTypeOK
<1>10. ASSUME NEW h \in Handlers, Decode(h) PROVE ClaimInv'
  BY <1>10 DEF Decode, files, Working, SessionTypeOK
<1>11. ASSUME NEW h \in Handlers, CleanUp(h) PROVE ClaimInv'
  BY <1>11 DEF CleanUp, files, Working, SessionTypeOK
<1>12. ASSUME NEW h \in Handlers, Persist(h) PROVE ClaimInv'
  BY <1>12, StoredRow DEF Persist, files, Working, SessionTypeOK
<1>13. ASSUME NEW h \in Handlers, Superseded(h) PROVE ClaimInv'
  BY <1>13 DEF Superseded, GiveUpJob, Idle, files, Working, SessionTypeOK
<1>14. ASSUME NEW h \in Handlers, FailJob(h) PROVE ClaimInv'
  BY <1>14 DEF FailJob, GiveUpJob, Idle, files, Working, SessionTypeOK
<1>15. ASSUME NEW h \in Handlers, RestoreUploaded(h) PROVE ClaimInv'
  BY <1>15 DEF RestoreUploaded, GiveUpJob, Idle, files, Working, SessionTypeOK
<1>16. ASSUME NEW h \in Handlers, EndJob(h) PROVE ClaimInv'
  BY <1>16 DEF EndJob, Idle, files, Working, SessionTypeOK
<1>17. ASSUME NEW h \in Handlers, CrashInPersist(h) PROVE ClaimInv'
  BY <1>17, StoredRow DEF CrashInPersist, Dies, Idle, files, Working, SessionTypeOK
<1>18. CASE Crash
  BY <1>18 DEF Crash, Dies, Idle, files, Working, SessionTypeOK
<1>19. CASE CrashInDelete
  BY <1>19 DEF CrashInDelete, Dies, Idle, NoRow, files, Working, SessionTypeOK
<1>20. CASE UNCHANGED sessionVars
  BY <1>20 DEF sessionVars, files, Working, SessionTypeOK
<1> QED
  BY <1>1, <1>2, <1>3, <1>4, <1>5, <1>6, <1>7, <1>8, <1>9, <1>10, <1>11, <1>12, <1>13, <1>14, <1>15, <1>16, <1>17, <1>18, <1>19, <1>20 DEF SessionNext, JobStep

(* With one handler, or clients that wait for their answers, a claim holds   *)
(* until something replaces the session: no other job fails it, restores it  *)
(* or completes it, and without a death `transcribing' means that a job is   *)
(* at work (service.py:660-661, storage.py:302-304).                         *)
THEOREM ClaimsHold ==
  ASSUME Serial
  PROVE  SessionSpec => []SessionConsistent
<1>1. SessionInit => ClaimInv
  BY TypeInit DEF SessionInit, ClaimInv, OneOwner, ClaimOwned, Orderly, Working, Streaming, Idle,
                  NoRow
<1>2. ClaimInv /\ [SessionNext]_sessionVars => ClaimInv'
  BY ClaimStep
<1>3. ClaimInv => SessionConsistent
  BY DEF ClaimInv, OneOwner, ClaimOwned, SessionConsistent, ClaimHolds, TranscribingHasJob
<1> QED
  BY <1>1, <1>2, <1>3, PTL DEF SessionSpec

-----------------------------------------------------------------------------
(* What a session holds. *)

(* The recording in the file, what the claimant hears and what is stored     *)
(* stay one and the same while the process lives.                            *)
LEMMA FreshStep ==
  ASSUME Serial, OrderlyUploads, FreshInv, [SessionNext]_sessionVars
  PROVE  FreshInv'
<1> SessionTypeOK /\ ClaimInv /\ ClaimInv' /\ (crashes' = 0 => crashes = 0)
  BY ClaimStep, DeathsCounted DEF FreshInv, ClaimInv
<1> SUFFICES ASSUME crashes' = 0 PROVE UploadAlone' /\ HeardCurrent'
  BY DEF FreshInv
<1> UploadAlone /\ HeardCurrent
  BY DEF FreshInv
<1> USE SessionAssumption DEF ClaimInv, UploadAlone, HeardCurrent, Working, Streaming
<1>1. CASE Create
  BY <1>1 DEF Create, NoRow, files, SessionTypeOK, OneOwner, ClaimOwned
<1>2. CASE Delete
  BY <1>2 DEF Delete, NoRow, files, SessionTypeOK, OneOwner, ClaimOwned
<1>3. ASSUME NEW u \in Uploads, StartUpload(u) PROVE (UploadAlone /\ HeardCurrent)'
  BY <1>3 DEF StartUpload, files, SessionTypeOK, OneOwner, ClaimOwned
<1>4. ASSUME NEW u \in Uploads, UploadFails(u) PROVE (UploadAlone /\ HeardCurrent)'
  BY <1>4 DEF UploadFails, files, SessionTypeOK, OneOwner, ClaimOwned
<1>5. ASSUME NEW u \in Uploads, EndUpload(u) PROVE (UploadAlone /\ HeardCurrent)'
  <2>1. /\ Working' = Working /\ job' = job /\ norm' = norm /\ Streaming' = Streaming \ {u}
        /\ u \in Streaming /\ temp' = {} /\ temp \subseteq {u} /\ Nobody \notin Working
    BY <1>5 DEF EndUpload, SessionTypeOK
  <2>2. UploadAlone'
    BY <2>1
  <2>3. HeardCurrent'
    <3>1. CASE row' = row /\ file' = file /\ claimant' = claimant
      BY <2>1, <3>1
    <3>2. CASE row' = row /\ row.state = "absent" /\ claimant' = claimant
      BY <2>1, <3>2 DEF ClaimOwned, OneOwner
    <3>3. CASE /\ temp # {} /\ file' = temp /\ claimant' = Nobody
               /\ row' = [state |-> "uploaded", audio |-> TRUE, recording |-> {u},
                          transcript |-> {}]
      BY <2>1, <3>3
    <3> QED
      BY <1>5, NewRow, <3>1, <3>2, <3>3
  <2> QED
    BY <2>2, <2>3
<1>6. ASSUME NEW u \in Uploads, CrashInUpload(u) PROVE (UploadAlone /\ HeardCurrent)'
  BY <1>6 DEF CrashInUpload, Idle, files, SessionTypeOK, OneOwner, ClaimOwned
<1>7. ASSUME NEW h \in Handlers, Claim(h) PROVE (UploadAlone /\ HeardCurrent)'
  BY <1>7, ClaimAlone DEF Claim, files, SessionTypeOK, OneOwner, ClaimOwned
<1>8. ASSUME NEW h \in Handlers, OpenSource(h) PROVE (UploadAlone /\ HeardCurrent)'
  BY <1>8 DEF OpenSource, files, SessionTypeOK, OneOwner, ClaimOwned
<1>9. ASSUME NEW h \in Handlers, Normalize(h) PROVE (UploadAlone /\ HeardCurrent)'
  BY <1>9 DEF Normalize, files, SessionTypeOK, OneOwner, ClaimOwned
<1>10. ASSUME NEW h \in Handlers, Decode(h) PROVE (UploadAlone /\ HeardCurrent)'
  BY <1>10 DEF Decode, files, SessionTypeOK, OneOwner, ClaimOwned
<1>11. ASSUME NEW h \in Handlers, CleanUp(h) PROVE (UploadAlone /\ HeardCurrent)'
  BY <1>11 DEF CleanUp, files, SessionTypeOK, OneOwner, ClaimOwned
<1>12. ASSUME NEW h \in Handlers, Persist(h) PROVE (UploadAlone /\ HeardCurrent)'
  BY <1>12, StoredRow DEF Persist, files, SessionTypeOK, OneOwner, ClaimOwned
<1>13. ASSUME NEW h \in Handlers, Superseded(h) PROVE (UploadAlone /\ HeardCurrent)'
  BY <1>13 DEF Superseded, GiveUpJob, Idle, files, SessionTypeOK, OneOwner, ClaimOwned
<1>14. ASSUME NEW h \in Handlers, FailJob(h) PROVE (UploadAlone /\ HeardCurrent)'
  BY <1>14 DEF FailJob, GiveUpJob, Idle, files, SessionTypeOK, OneOwner, ClaimOwned
<1>15. ASSUME NEW h \in Handlers, RestoreUploaded(h) PROVE (UploadAlone /\ HeardCurrent)'
  BY <1>15 DEF RestoreUploaded, GiveUpJob, Idle, files, SessionTypeOK, OneOwner, ClaimOwned
<1>16. ASSUME NEW h \in Handlers, EndJob(h) PROVE (UploadAlone /\ HeardCurrent)'
  BY <1>16 DEF EndJob, Idle, files, SessionTypeOK, OneOwner, ClaimOwned
<1>17. ASSUME NEW h \in Handlers, CrashInPersist(h) PROVE (UploadAlone /\ HeardCurrent)'
  BY <1>17, StoredRow DEF CrashInPersist, Dies, Idle, files, SessionTypeOK, OneOwner, ClaimOwned
<1>18. CASE Crash
  BY <1>18 DEF Crash, Dies, Idle, files, SessionTypeOK, OneOwner, ClaimOwned
<1>19. CASE CrashInDelete
  BY <1>19 DEF CrashInDelete, Dies, Idle, NoRow, files, SessionTypeOK, OneOwner, ClaimOwned
<1>20. CASE UNCHANGED sessionVars
  BY <1>20 DEF sessionVars, files, SessionTypeOK, OneOwner, ClaimOwned
<1> QED
  BY <1>1, <1>2, <1>3, <1>4, <1>5, <1>6, <1>7, <1>8, <1>9, <1>10, <1>11, <1>12, <1>13, <1>14, <1>15, <1>16, <1>17, <1>18, <1>19, <1>20 DEF SessionNext, JobStep

(* One upload at a time, and jobs that are serial: a stored result is the    *)
(* text of the recording the session was last given.                         *)
THEOREM ResultsAreFresh ==
  ASSUME Serial, OrderlyUploads
  PROVE  SessionSpec => []NoStaleResult
<1>1. SessionInit => FreshInv
  BY TypeInit DEF SessionInit, FreshInv, ClaimInv, OneOwner, ClaimOwned, Orderly, UploadAlone,
                  HeardCurrent, Working, Streaming, Idle, NoRow
<1>2. FreshInv /\ [SessionNext]_sessionVars => FreshInv'
  BY FreshStep
<1>3. FreshInv => NoStaleResult
  BY DEF FreshInv, HeardCurrent, NoStaleResult
<1> QED
  BY <1>1, <1>2, <1>3, PTL DEF SessionSpec

-----------------------------------------------------------------------------
(* Orderly clients. *)

(* Any number of handlers keep what orderly clients rely on. *)
LEMMA NamedStep ==
  ASSUME OrderlyJobs, ClaimInv, crashes = 0 => FilesNamed, [SessionNext]_sessionVars
  PROVE  crashes' = 0 => FilesNamed'
<1> SUFFICES ASSUME crashes' = 0 PROVE FilesNamed'
  OBVIOUS
<1> SessionTypeOK /\ SessionTypeOK' /\ ClaimInv' /\ Orderly /\ FilesNamed
  BY ClaimStep, DeathsCounted DEF Serial, ClaimInv
<1> USE SessionAssumption DEF FilesNamed, Streaming, Working
<1>1. CASE Create
  BY <1>1 DEF Create, NoRow, files, SessionTypeOK, Orderly
<1>2. CASE Delete
  BY <1>2 DEF Delete, NoRow, files, SessionTypeOK, Orderly
<1>3. ASSUME NEW u \in Uploads, StartUpload(u) PROVE FilesNamed'
  BY <1>3 DEF StartUpload, files, SessionTypeOK, Orderly
<1>4. ASSUME NEW u \in Uploads, UploadFails(u) PROVE FilesNamed'
  BY <1>4 DEF UploadFails, files, SessionTypeOK, Orderly
<1>5. ASSUME NEW u \in Uploads, EndUpload(u) PROVE FilesNamed'
  <2>1. /\ u \in Streaming /\ Streaming' \subseteq Streaming
        /\ row.state # "absent"
    BY <1>5 DEF EndUpload, SessionTypeOK
  <2>2. CASE row' = row /\ file' = file
    BY <2>1, <2>2
  <2>3. CASE row'.state = "uploaded" /\ row'.audio
    BY <2>3
  <2> QED
    BY <1>5, <2>1, <2>2, <2>3, NewRow
<1>6. ASSUME NEW u \in Uploads, CrashInUpload(u) PROVE FilesNamed'
  BY <1>6 DEF CrashInUpload, Idle, files, SessionTypeOK, Orderly
<1>7. ASSUME NEW h \in Handlers, Claim(h) PROVE FilesNamed'
  BY <1>7 DEF Claim, files, SessionTypeOK, Orderly
<1>8. ASSUME NEW h \in Handlers, OpenSource(h) PROVE FilesNamed'
  BY <1>8 DEF OpenSource, files, SessionTypeOK, Orderly
<1>9. ASSUME NEW h \in Handlers, Normalize(h) PROVE FilesNamed'
  BY <1>9 DEF Normalize, files, SessionTypeOK, Orderly
<1>10. ASSUME NEW h \in Handlers, Decode(h) PROVE FilesNamed'
  BY <1>10 DEF Decode, files, SessionTypeOK, Orderly
<1>11. ASSUME NEW h \in Handlers, CleanUp(h) PROVE FilesNamed'
  BY <1>11 DEF CleanUp, files, SessionTypeOK, Orderly
<1>12. ASSUME NEW h \in Handlers, Persist(h) PROVE FilesNamed'
  BY <1>12, StoredRow DEF Persist, files, SessionTypeOK, Orderly
<1>13. ASSUME NEW h \in Handlers, Superseded(h) PROVE FilesNamed'
  BY <1>13 DEF Superseded, GiveUpJob, Idle, files, SessionTypeOK, Orderly
<1>14. ASSUME NEW h \in Handlers, FailJob(h) PROVE FilesNamed'
  BY <1>14 DEF FailJob, GiveUpJob, Idle, files, SessionTypeOK, Orderly
<1>15. ASSUME NEW h \in Handlers, RestoreUploaded(h) PROVE FilesNamed'
  BY <1>15 DEF RestoreUploaded, GiveUpJob, Idle, files, SessionTypeOK, Orderly
<1>16. ASSUME NEW h \in Handlers, EndJob(h) PROVE FilesNamed'
  BY <1>16 DEF EndJob, Idle, files, SessionTypeOK, Orderly
<1>17. ASSUME NEW h \in Handlers, CrashInPersist(h) PROVE FilesNamed'
  BY <1>17, StoredRow DEF CrashInPersist, Dies, Idle, files, SessionTypeOK, Orderly
<1>18. CASE Crash
  BY <1>18 DEF Crash, Dies, Idle, files, SessionTypeOK, Orderly
<1>19. CASE CrashInDelete
  BY <1>19 DEF CrashInDelete, Dies, Idle, NoRow, files, SessionTypeOK, Orderly
<1>20. CASE UNCHANGED sessionVars
  BY <1>20 DEF sessionVars, files, SessionTypeOK, Orderly
<1> QED
  BY <1>1, <1>2, <1>3, <1>4, <1>5, <1>6, <1>7, <1>8, <1>9, <1>10, <1>11, <1>12, <1>13, <1>14, <1>15, <1>16, <1>17, <1>18, <1>19, <1>20 DEF SessionNext, JobStep

(* Clients that upload, delete and finish in turn leave no recording behind  *)
(* that no row names, which is all a retention sweep goes by.                *)
THEOREM NoRecordingOutlivesItsRow ==
  ASSUME OrderlyJobs
  PROVE  SessionSpec => []NoOrphanRecording
<1>1. SessionInit => ClaimInv /\ FilesNamed
  BY TypeInit DEF SessionInit, ClaimInv, OneOwner, ClaimOwned, Orderly, FilesNamed, Working,
                  Streaming, Idle, NoRow
<1>2. ClaimInv /\ (crashes = 0 => FilesNamed) /\ [SessionNext]_sessionVars
        => (ClaimInv /\ (crashes = 0 => FilesNamed))'
  BY ClaimStep, NamedStep DEF Serial
<1>3. (crashes = 0 => FilesNamed) => NoOrphanRecording
  BY DEF FilesNamed, NoOrphanRecording
<1> QED
  BY <1>1, <1>2, <1>3, PTL DEF SessionSpec

(* A stored result stays, deaths of the process included, until the client   *)
(* deletes it: nothing but a delete takes it away.                           *)
THEOREM ResultsStay ==
  ASSUME OrderlyJobs
  PROVE  SessionSpec => CompletedIsFinal
<1>1. ASSUME ClaimInv, [SessionNext]_sessionVars
      PROVE  row.state = "completed" => row' \in {row, NoRow}
  <2> SUFFICES ASSUME row.state = "completed" PROVE row' \in {row, NoRow}
    OBVIOUS
  <2>1. Streaming = {}
    BY <1>1 DEF ClaimInv, Orderly
  <2> QED
    BY <1>1, <2>1
       DEF Streaming, SessionNext, sessionVars, JobStep, Create, Delete, StartUpload, UploadFails,
           EndUpload, CrashInUpload, Claim, OpenSource, Normalize, Decode, CleanUp, Persist,
           Superseded, FailJob, RestoreUploaded, GiveUpJob, EndJob, CrashInPersist, Crash,
           CrashInDelete, Dies
<1>2. SessionInit => ClaimInv
  BY TypeInit DEF SessionInit, ClaimInv, OneOwner, ClaimOwned, Orderly, Working, Streaming, Idle,
                  NoRow
<1>3. ClaimInv /\ [SessionNext]_sessionVars => ClaimInv'
  BY ClaimStep DEF Serial
<1> QED
  BY <1>1, <1>2, <1>3, PTL DEF SessionSpec, CompletedIsFinal
=============================================================================
