--------------------------- MODULE ModelDownloads ---------------------------
(***************************************************************************)
(* The downloads of ModelManager (src/app/model_manager.py): one handle    *)
(* per model with its status and its cancel flag, the task that fetches    *)
(* into a partial path and then puts that in the place of the model, and   *)
(* start, cancel and delete, which run between any two of its awaits.      *)
(*                                                                         *)
(* What a task does after its last await is one step on the event loop;    *)
(* only the death of the process can come in the middle of it.             *)
(***************************************************************************)
EXTENDS Naturals, FiniteSets

CONSTANTS Models, Kinds

\* A single file; a directory, from an archive or a repository; a directory that is
\* verified in a thread after the last look at the cancel flag.
ASSUME KindsAssumption == Kinds \subseteq {"file", "directory", "moonshine"}

VARIABLES kind,       \* how the model is downloaded (from the catalog)
          handle,     \* _downloads[model]: status and cancel flag
          task,       \* at which await the task of the handle is
          writers,    \* tasks that write the partial path of the model
          installed   \* the model is at its final path

serverVars == <<kind, handle, task, writers, installed>>

NoHandle == [status |-> "none", cancel |-> FALSE]
Downloading(m) == handle[m].status = "downloading"

DownloadsInit ==
  /\ kind \in [Models -> Kinds] /\ installed \in [Models -> BOOLEAN]
  /\ handle = [m \in Models |-> NoHandle] /\ task = [m \in Models |-> "none"]
  /\ writers = [m \in Models |-> 0]

\* A slip: a cancelled download counts as over before its task has ended.
StartAgain(m) ==
  /\ ~(Downloading(m) /\ ~handle[m].cancel)
  /\ handle' = [handle EXCEPT ![m] = [status |-> "downloading", cancel |-> FALSE]]
  /\ task' = [task EXCEPT ![m] = "fetching"]
  /\ writers' = [writers EXCEPT ![m] = @ + 1]
  /\ UNCHANGED <<kind, installed>>

\* Refused while the model downloads; an installed model may be downloaded again.
StartDownload(m) ==
  /\ ~Downloading(m)
  /\ handle' = [handle EXCEPT ![m] = [status |-> "downloading", cancel |-> FALSE]]
  /\ task' = [task EXCEPT ![m] = "fetching"]
  /\ writers' = [writers EXCEPT ![m] = @ + 1]
  /\ UNCHANGED <<kind, installed>>

CancelDownload(m) ==
  /\ Downloading(m)
  /\ handle' = [handle EXCEPT ![m].cancel = TRUE]
  /\ UNCHANGED <<kind, task, writers, installed>>

\* Refused while the model downloads.
DeleteModel(m) ==
  /\ ~Downloading(m) /\ installed[m]
  /\ handle' = [handle EXCEPT ![m] = NoHandle]
  /\ installed' = [installed EXCEPT ![m] = FALSE]
  /\ UNCHANGED <<kind, task, writers>>

\* The task ends; its partial path is gone, renamed or removed.
Ends(m, status) ==
  /\ handle' = [handle EXCEPT ![m].status = status]
  /\ task' = [task EXCEPT ![m] = "none"]
  /\ writers' = [writers EXCEPT ![m] = @ - 1]

Promote(m) == Ends(m, "completed") /\ installed' = [installed EXCEPT ![m] = TRUE]

\* A slip: no look at the flag after the last byte.
FetchedUnasked(m) ==
  /\ task[m] = "fetching"
  /\ IF kind[m] = "moonshine"
     THEN task' = [task EXCEPT ![m] = "verifying"] /\ UNCHANGED <<handle, writers, installed>>
     ELSE Promote(m)
  /\ UNCHANGED kind

\* The last byte is there and the flag is not set: promoted at once, or verified first.
Fetched(m) ==
  /\ task[m] = "fetching" /\ ~handle[m].cancel
  /\ IF kind[m] = "moonshine"
     THEN task' = [task EXCEPT ![m] = "verifying"] /\ UNCHANGED <<handle, writers, installed>>
     ELSE Promote(m)
  /\ UNCHANGED kind

Verified(m) == task[m] = "verifying" /\ Promote(m) /\ UNCHANGED kind

\* The flag is seen between two blocks, or after the last one.
Cancelled(m) ==
  /\ task[m] = "fetching" /\ handle[m].cancel
  /\ Ends(m, "cancelled") /\ UNCHANGED <<kind, installed>>

\* The network, the digest, the archive or the disk.
DownloadFails(m) ==
  /\ task[m] # "none"
  /\ Ends(m, "failed") /\ UNCHANGED <<kind, installed>>

Dead == /\ handle' = [m \in Models |-> NoHandle] /\ task' = [m \in Models |-> "none"]
        /\ writers' = [m \in Models |-> 0]

\* The process dies and is started again: the handles are lost, the files stay.
Crash == Dead /\ UNCHANGED <<kind, installed>>

\* An old directory is removed before the new one is renamed in its place.
Replacing(m) ==
  /\ kind[m] # "file"
  /\ task[m] = "verifying" \/ (task[m] = "fetching" /\ ~handle[m].cancel /\ kind[m] = "directory")

\* The process dies between the two, or the rename fails.
CrashInPromote(m) ==
  /\ Replacing(m) /\ Dead
  /\ installed' = [installed EXCEPT ![m] = FALSE] /\ UNCHANGED kind
PromoteFails(m) ==
  /\ Replacing(m) /\ Ends(m, "failed")
  /\ installed' = [installed EXCEPT ![m] = FALSE] /\ UNCHANGED kind

TaskStep(m) == Fetched(m) \/ Verified(m) \/ Cancelled(m) \/ DownloadFails(m) \/ PromoteFails(m)

\* Entry states of the list, as every admin query resolves them.
Entry(m) == IF Downloading(m) THEN "downloading"
            ELSE IF installed[m] THEN "installed" ELSE "available"
Entries == [m \in Models |-> Entry(m)]

-----------------------------------------------------------------------------
(* Properties.                                                             *)

DownloadsTypeOK ==
  /\ kind \in [Models -> Kinds] /\ installed \in [Models -> BOOLEAN]
  /\ handle \in [Models -> [status : {"none", "downloading", "completed", "cancelled", "failed"},
                            cancel : BOOLEAN]]
  /\ task \in [Models -> {"none", "fetching", "verifying"}]

\* One task at most writes the partial path of a model, and while it does, delete, start
\* and the status know of it; what a status calls completed is installed.
OneWriter ==
  /\ DownloadsTypeOK
  /\ \A m \in Models : /\ writers[m] \in {0, 1} /\ (writers[m] = 1 <=> Downloading(m))
                       /\ handle[m].status = "completed" => installed[m]

\* A download whose cancellation was accepted never replaces the model nor costs the one
\* that is there, save for the kind that is verified after its last look at the flag; and
\* an installed model is lost only by a delete, or between the removal of its directory
\* and the rename of the new one.
CancelHonoured ==
  [][\A m \in Models :
       /\ (handle[m].cancel /\ task[m] = "fetching") => handle'[m].status # "completed"
       /\ installed[m] /\ ~installed'[m] =>
            \/ ~Downloading(m)
            \/ kind[m] # "file" /\ (handle[m].cancel => task[m] = "verifying")]_serverVars
=============================================================================
