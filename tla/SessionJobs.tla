---------------------------- MODULE SessionJobs ----------------------------
(***************************************************************************)
(* One recording session: its row in SQLite (app/storage.py), its files,   *)
(* the upload, finish, retry and delete handlers (app/routes/sessions.py)  *)
(* and the transcription jobs that finish it (app/service.py).             *)
(*                                                                         *)
(* Sessions share no state, so one is enough.  Handlers are coroutines of  *)
(* one process: the code between two awaits is one action.  The process    *)
(* may die, also between a commit and the unlink that follows it.          *)
(*                                                                         *)
(* A recording is named by the upload that carries it.  The content of a   *)
(* file, or the text made from it, is the set of uploads it came from: {}  *)
(* is a missing file, two members are two uploads written into one file.   *)
(***************************************************************************)
EXTENDS Naturals, FiniteSets

CONSTANTS
  Handlers,       (* concurrent finish and retry requests                     *)
  Uploads,        (* upload requests; each is made once                       *)
  DeleteAudio,    (* delete_successful_audio                                  *)
  OrderlyUploads, (* clients start no upload while another is running         *)
  OrderlyJobs,    (* clients upload, delete and finish one after the other    *)
  MaxCrashes,     (* bound on the deaths of the process                       *)
  Nobody          (* no handler                                               *)

ASSUME SessionAssumption ==
  /\ {DeleteAudio, OrderlyUploads, OrderlyJobs} \subseteq BOOLEAN
  /\ MaxCrashes \in Nat
  /\ Nobody \notin Handlers

VARIABLES
  row,      (* the row of the session, or none                             *)
  file,     (* the stored recording in upload_dir                          *)
  temp,     (* the temporary file every upload of this session writes to   *)
  norm,     (* the normalized file every job of this session shares        *)
  upload,   (* where each upload request is                                *)
  job,      (* where each finish request is, and what it last read         *)
  claimant, (* history: who claimed the session since it was last changed  *)
  crashes   (* history: deaths so far                                      *)

files == <<file, temp, norm>>
sessionVars == <<row, files, upload, job, claimant, crashes>>

States == {"absent", "created", "uploaded", "transcribing", "completed", "failed"}
UploadStates == {"unsent", "streaming", "over"}
JobStates ==
  {"idle", "claimed", "normalizing", "queued", "decoding", "cleaning", "recording"}

SessionTypeOK ==
  /\ row \in [state : States, audio : BOOLEAN,
              recording : SUBSET Uploads, transcript : SUBSET Uploads]
  /\ file \in SUBSET Uploads /\ temp \in SUBSET Uploads /\ norm \in SUBSET Uploads
  /\ upload \in [Uploads -> UploadStates]
  /\ job \in [Handlers -> [at : JobStates, heard : SUBSET Uploads]]
  /\ claimant \in Handlers \cup {Nobody}
  /\ crashes \in 0..MaxCrashes

NoRow == [state |-> "absent", audio |-> FALSE, recording |-> {}, transcript |-> {}]
Idle == [at |-> "idle", heard |-> {}]

SessionInit ==
  /\ row = NoRow
  /\ file = {} /\ temp = {} /\ norm = {}
  /\ upload = [u \in Uploads |-> "unsent"]
  /\ job = [h \in Handlers |-> Idle]
  /\ claimant = Nobody
  /\ crashes = 0

Working == {h \in Handlers : job[h].at # "idle"}
Streaming == {u \in Uploads : upload[u] = "streaming"}

-----------------------------------------------------------------------------
(* POST /v1/sessions: the first write wins. *)
Create ==
  /\ row.state = "absent"
  /\ row' = [NoRow EXCEPT !.state = "created"]
  /\ UNCHANGED <<files, upload, job, claimant, crashes>>

(* Mutant of StartUpload: a completed session takes another recording. *)
StartUploadAnyway(u) ==
  /\ upload[u] = "unsent"
  /\ OrderlyUploads => Streaming = {}
  /\ OrderlyJobs => Working = {}
  /\ row.state # "absent"
  /\ upload' = [upload EXCEPT ![u] = "streaming"]
  /\ temp' = (temp \cap Streaming) \cup {u}
  /\ UNCHANGED <<row, file, norm, job, claimant, crashes>>

(* PUT .../audio: nothing to do for a completed session; otherwise the       *)
(* stream goes to the shared temporary file, opened for writing.             *)
StartUpload(u) ==
  /\ upload[u] = "unsent"
  /\ OrderlyUploads => Streaming = {}
  /\ OrderlyJobs => Working = {}
  /\ row.state \notin {"absent", "completed"}
  /\ upload' = [upload EXCEPT ![u] = "streaming"]
  /\ temp' = (temp \cap Streaming) \cup {u}
  /\ UNCHANGED <<row, file, norm, job, claimant, crashes>>

(* The stream breaks or is refused: the temporary file is unlinked. *)
UploadFails(u) ==
  /\ upload[u] = "streaming"
  /\ upload' = [upload EXCEPT ![u] = "over"]
  /\ temp' = {}
  /\ UNCHANGED <<row, file, norm, job, claimant, crashes>>

(* repository.update(state="uploaded"), whatever the row's state is by now. *)
MarkUploaded(u) ==
  IF row.state = "absent"
  THEN UNCHANGED <<row, claimant>>
  ELSE /\ row' = [state |-> "uploaded", audio |-> TRUE, recording |-> {u}, transcript |-> {}]
       /\ claimant' = Nobody

(* End of the stream: os.replace() and the update of the row, in one step.   *)
(* Without a temporary file the replace raises; without a row the update     *)
(* does, after the replace.                                                  *)
EndUpload(u) ==
  /\ upload[u] = "streaming"
  /\ upload' = [upload EXCEPT ![u] = "over"]
  /\ IF temp = {}
     THEN UNCHANGED <<row, file, claimant>>
     ELSE file' = temp /\ MarkUploaded(u)
  /\ temp' = {}
  /\ UNCHANGED <<norm, job, crashes>>

(* Mutant of Delete: the files of an answered session are not looked for. *)
DeleteUnanswered ==
  /\ row.state # "absent"
  /\ OrderlyJobs => Working = {} /\ Streaming = {}
  /\ row' = NoRow
  /\ claimant' = Nobody
  /\ file' = IF row.audio /\ row.transcript = {} THEN {} ELSE file
  /\ norm' = {}
  /\ UNCHANGED <<temp, upload, job, crashes>>

(* DELETE, and the retention sweep: the row first, then its files. *)
Delete ==
  /\ row.state # "absent"
  /\ OrderlyJobs => Working = {} /\ Streaming = {}
  /\ row' = NoRow
  /\ claimant' = Nobody
  /\ file' = IF row.audio THEN {} ELSE file
  /\ norm' = {}
  /\ UNCHANGED <<temp, upload, job, crashes>>

-----------------------------------------------------------------------------

(* finish() and retry: the checks, the ticket and the claim have no await    *)
(* between them.  A completed or busy session, and a full line, are answered *)
(* without a change.                                                         *)
Claim(h) ==
  /\ job[h].at = "idle"
  /\ OrderlyJobs => Streaming = {}
  /\ row.state \in {"created", "uploaded", "failed"} /\ row.audio
  /\ row' = [row EXCEPT !.state = "transcribing"]
  /\ claimant' = h
  /\ job' = [job EXCEPT ![h].at = "claimed"]
  /\ UNCHANGED <<files, upload, crashes>>

(* FFmpeg opens the stored recording ... *)
OpenSource(h) ==
  /\ job[h].at = "claimed" /\ file # {}
  /\ job' = [job EXCEPT ![h] = [at |-> "normalizing", heard |-> file]]
  /\ UNCHANGED <<row, files, upload, claimant, crashes>>

(* ... and leaves the normalized file, under the session's name. *)
Normalize(h) ==
  /\ job[h].at = "normalizing"
  /\ norm' = job[h].heard
  /\ job' = [job EXCEPT ![h].at = "queued"]
  /\ UNCHANGED <<row, file, temp, upload, claimant, crashes>>

(* With a decode slot the engine reads whatever that file holds by then. *)
Decode(h) ==
  /\ job[h].at = "queued" /\ norm # {}
  /\ job' = [job EXCEPT ![h] = [at |-> "decoding", heard |-> norm]]
  /\ UNCHANGED <<row, files, upload, claimant, crashes>>

CleanUp(h) ==
  /\ job[h].at = "decoding"
  /\ job' = [job EXCEPT ![h].at = "cleaning"]
  /\ UNCHANGED <<row, files, upload, claimant, crashes>>

(* repository.complete(): one statement, only from `transcribing'. *)
Completed(text) ==
  [row EXCEPT !.state = "completed", !.transcript = text,
              !.audio = IF DeleteAudio THEN FALSE ELSE @]

(* Mutant of Persist: the result is stored whatever the state is. *)
PersistBlindly(h) ==
  /\ job[h].at = "cleaning" /\ row.state # "absent"
  /\ row' = Completed(job[h].heard)
  /\ file' = IF DeleteAudio THEN {} ELSE file
  /\ job' = [job EXCEPT ![h].at = "recording"]
  /\ UNCHANGED <<temp, norm, upload, claimant, crashes>>

Persist(h) ==
  /\ job[h].at = "cleaning" /\ row.state = "transcribing"
  /\ row' = Completed(job[h].heard)
  /\ file' = IF DeleteAudio THEN {} ELSE file
  /\ job' = [job EXCEPT ![h].at = "recording"]
  /\ UNCHANGED <<temp, norm, upload, claimant, crashes>>

(* The failure handlers and _release() of a job that gives up. *)
GiveUpJob(h, state) ==
  /\ row' = IF row.state = "transcribing" THEN [row EXCEPT !.state = state] ELSE row
  /\ norm' = {}
  /\ job' = [job EXCEPT ![h] = Idle]
  /\ UNCHANGED <<file, temp, upload, claimant, crashes>>

(* complete() matched no row: the session was deleted or replaced. *)
Superseded(h) ==
  /\ job[h].at = "cleaning" /\ row.state # "transcribing"
  /\ GiveUpJob(h, "failed")

(* Mutant of FailJob: CancelledError is not caught. *)
FailSilently(h) ==
  /\ job[h].at # "idle"
  /\ norm' = {}
  /\ job' = [job EXCEPT ![h] = Idle]
  /\ UNCHANGED <<row, file, temp, upload, claimant, crashes>>

(* Any other error or cancellation, at any await, the engine's health probe  *)
(* after the result was stored included.                                     *)
FailJob(h) == job[h].at # "idle" /\ GiveUpJob(h, "failed")

(* A slip in RestoreUploaded: the session is not handed back.                *)
RestoreNothing(h) ==
  /\ job[h].at \in {"claimed", "normalizing", "queued"}
  /\ norm' = {}
  /\ job' = [job EXCEPT ![h] = Idle]
  /\ UNCHANGED <<row, file, temp, upload, claimant, crashes>>

(* Refused by the queue or the client is gone: no decode was attempted. *)
RestoreUploaded(h) ==
  /\ job[h].at \in {"claimed", "normalizing", "queued"}
  /\ GiveUpJob(h, "uploaded")

EndJob(h) ==
  /\ job[h].at = "recording"
  /\ norm' = {}
  /\ job' = [job EXCEPT ![h] = Idle]
  /\ UNCHANGED <<row, file, temp, upload, claimant, crashes>>

-----------------------------------------------------------------------------
(* The process dies and is started again: requests are gone, row and files  *)
(* stay as they are.                                                        *)
Dies ==
  /\ crashes < MaxCrashes
  /\ crashes' = crashes + 1
  /\ job' = [h \in Handlers |-> Idle]
  /\ upload' = [u \in Uploads |-> IF upload[u] = "streaming" THEN "over" ELSE upload[u]]
  /\ UNCHANGED <<temp, norm, claimant>>

Crash == Dies /\ UNCHANGED <<row, file>>

(* After the recording was put in place, before its row was updated. *)
CrashInUpload(u) ==
  /\ upload[u] = "streaming" /\ temp # {}
  /\ crashes < MaxCrashes
  /\ crashes' = crashes + 1
  /\ file' = temp /\ temp' = {}
  /\ job' = [h \in Handlers |-> Idle]
  /\ upload' = [v \in Uploads |-> IF upload[v] = "streaming" THEN "over" ELSE upload[v]]
  /\ UNCHANGED <<row, norm, claimant>>

(* Mutant of CrashInPersist: the recording is unlinked before the commit. *)
CrashAfterUnlink(h) ==
  /\ job[h].at = "cleaning" /\ row.state = "transcribing"
  /\ Dies
  /\ file' = {}
  /\ UNCHANGED row

(* After the result was committed, before the recording was unlinked. *)
CrashInPersist(h) ==
  /\ job[h].at = "cleaning" /\ row.state = "transcribing"
  /\ Dies
  /\ row' = Completed(job[h].heard)
  /\ UNCHANGED file

(* After the row was deleted, before its files were. *)
CrashInDelete ==
  /\ row.state # "absent"
  /\ Dies
  /\ row' = NoRow
  /\ UNCHANGED file

-----------------------------------------------------------------------------
JobStep(h) ==
  \/ OpenSource(h) \/ Normalize(h) \/ Decode(h) \/ CleanUp(h) \/ Persist(h)
  \/ Superseded(h) \/ FailJob(h) \/ RestoreUploaded(h) \/ EndJob(h)

SessionNext ==
  \/ Create \/ Delete
  \/ \E u \in Uploads : StartUpload(u) \/ UploadFails(u) \/ EndUpload(u) \/ CrashInUpload(u)
  \/ \E h \in Handlers : Claim(h) \/ JobStep(h) \/ CrashInPersist(h)
  \/ Crash \/ CrashInDelete

SessionSpec == SessionInit /\ [][SessionNext]_sessionVars

(* A job that has started goes on: FFmpeg and the wait are under the queue   *)
(* deadline, the decode and the correction under their own.                  *)
JobFairness == \A h \in Handlers : WF_sessionVars(JobStep(h))

LiveSessionSpec == SessionSpec /\ JobFairness

-----------------------------------------------------------------------------
(* Properties.                                                              *)

(* A completed session holds the text of the recording it was last given:    *)
(* complete() stores no stale result (storage.py:266-269).  A death between  *)
(* putting a recording in place and updating its row leaves the newer one.   *)
NoStaleResult ==
  row.state = "completed" /\ crashes = 0 => row.transcript = row.recording

(* While a job works on a session nobody has changed since its claim, the    *)
(* session stays its own: no other job fails it, restores it or completes it *)
(* (storage.py:302-304, service.py:770-772).                                 *)
ClaimHolds ==
  \A h \in Working :
    claimant = h /\ job[h].at # "recording" => row.state = "transcribing"

(* A session that can still be finished has its recording on disk: files are *)
(* unlinked only after the row stopped naming them, a crash in between       *)
(* included.                                                                 *)
RecordingOnDisk == row.audio => file # {}

(* Nothing but a delete takes a stored result away: a completed session      *)
(* answers from storage (service.py:165-170).                                *)
CompletedIsFinal ==
  [][row.state = "completed" => row' \in {row, NoRow}]_sessionVars

(* Without a crash a session is in `transcribing' only while a job works on  *)
(* it, which is what keeps finish and retry open (service.py:660-661).       *)
TranscribingHasJob == row.state = "transcribing" /\ crashes = 0 => Working # {}

(* What the runs check of the row: its type, and that jobs and claims agree. *)
SessionConsistent == SessionTypeOK /\ ClaimHolds /\ TranscribingHasJob

(* A claimed session is answered, failed or handed back, unless the process  *)
(* died: nothing looks at a `transcribing' row when it starts again.         *)
ClaimEnds == row.state = "transcribing" ~> row.state # "transcribing" \/ crashes > 0

(* Recordings remain on disk for the retry period of their session only      *)
(* (docs/deployment.md:367): with clients that upload and delete in turn,    *)
(* none outlives its row, which is all a retention sweep goes by.            *)
NoOrphanRecording ==
  row.state = "absent" /\ Working = {} /\ Streaming = {} /\ crashes = 0 => file = {}

=============================================================================
