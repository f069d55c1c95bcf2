-------------------------- MODULE ModelsPageProofs --------------------------
(***************************************************************************)
(* Proofs about ModelDownloads and ModelsPage, for any set of models of    *)
(* any kinds and any number of requests in flight.                         *)
(***************************************************************************)
EXTENDS ModelsPage, TLAPS

(* One task per download: the status, the task and the partial path agree. *)
OneTask ==
  \A m \in Models :
    /\ writers[m] = (IF task[m] = "none" THEN 0 ELSE 1)
    /\ Downloading(m) <=> task[m] # "none"
    /\ handle[m].status = "completed" => installed[m]

DownloadsInv == DownloadsTypeOK /\ writers \in [Models -> Nat] /\ OneTask

(* What the handlers and the tasks of the gateway may do to one model. *)
ModelStep(m) ==
  TaskStep(m) \/ StartDownload(m) \/ CancelDownload(m) \/ DeleteModel(m) \/ CrashInPromote(m)

Statuses == {"none", "downloading", "completed", "cancelled", "failed"}

-----------------------------------------------------------------------------
(* The gateway. *)

(* A task that ends gives its partial path up with its status. *)
LEMMA EndsKeeps ==
  ASSUME DownloadsInv, NEW m \in Models, task[m] # "none", UNCHANGED kind,
         NEW st \in {"completed", "cancelled", "failed"}, Ends(m, st),
         NEW b \in BOOLEAN, installed' = [installed EXCEPT ![m] = b], st = "completed" => b
  PROVE  DownloadsInv'
<1>1. /\ kind \in [Models -> Kinds] /\ installed \in [Models -> BOOLEAN]
      /\ handle \in [Models -> [status : Statuses, cancel : BOOLEAN]]
      /\ task \in [Models -> {"none", "fetching", "verifying"}] /\ writers \in [Models -> Nat]
  BY DEF DownloadsInv, DownloadsTypeOK, Statuses
<1>2. /\ handle' = [handle EXCEPT ![m].status = st] /\ task' = [task EXCEPT ![m] = "none"]
      /\ writers' = [writers EXCEPT ![m] = @ - 1]
  BY DEF Ends
<1>3. writers[m] = 1
  BY DEF DownloadsInv, OneTask
<1>4. DownloadsTypeOK'
  BY <1>1, <1>2 DEF DownloadsTypeOK, Statuses
<1>5. writers' = [writers EXCEPT ![m] = 0]
  BY <1>2, <1>3
<1>6. \A n \in Models : writers'[n] = (IF task'[n] = "none" THEN 0 ELSE 1)
  BY <1>1, <1>2, <1>5 DEF DownloadsInv, OneTask
<1>7. handle'[m].status = st /\ installed'[m] = b
  BY <1>1, <1>2
<1>8. \A n \in Models \ {m} : handle'[n] = handle[n] /\ task'[n] = task[n] /\ installed'[n] = installed[n]
  BY <1>1, <1>2
<1>9. OneTask'
  BY <1>1, <1>2, <1>6, <1>7, <1>8 DEF OneTask, DownloadsInv, Downloading
<1> QED
  BY <1>1, <1>4, <1>5, <1>9 DEF DownloadsInv

(* The death of the process ends every task; the paths of the tasks go with  *)
(* it, and no status is left that could be wrong.                            *)
LEMMA DeadKeeps ==
  ASSUME DownloadsInv, Dead, UNCHANGED kind, installed' \in [Models -> BOOLEAN]
  PROVE  DownloadsInv'
<1>1. DownloadsTypeOK'
  BY DEF DownloadsInv, DownloadsTypeOK, Dead, NoHandle
<1>2. OneTask' /\ writers' \in [Models -> Nat]
  BY DEF OneTask, Dead, NoHandle, Downloading
<1> QED
  BY <1>1, <1>2 DEF DownloadsInv

(* A download starts only where none is, so it is the only one.              *)
LEMMA StartKeeps ==
  ASSUME DownloadsInv, NEW m \in Models, StartDownload(m)
  PROVE  DownloadsInv'
<1>1. /\ kind \in [Models -> Kinds] /\ installed \in [Models -> BOOLEAN]
      /\ handle \in [Models -> [status : Statuses, cancel : BOOLEAN]]
      /\ task \in [Models -> {"none", "fetching", "verifying"}] /\ writers \in [Models -> Nat]
  BY DEF DownloadsInv, DownloadsTypeOK, Statuses
<1>2. /\ handle' = [handle EXCEPT ![m] = [status |-> "downloading", cancel |-> FALSE]]
      /\ task' = [task EXCEPT ![m] = "fetching"]
      /\ writers' = [writers EXCEPT ![m] = @ + 1] /\ UNCHANGED <<kind, installed>>
  BY DEF StartDownload
<1>3. writers' = [writers EXCEPT ![m] = 1]
  <2>1. writers[m] = 0
    BY DEF StartDownload, DownloadsInv, OneTask
  <2> QED
    BY <1>1, <1>2, <2>1
<1>4. DownloadsTypeOK'
  BY <1>1, <1>2 DEF DownloadsTypeOK, Statuses
<1>5. handle'[m].status = "downloading" /\ task'[m] = "fetching" /\ writers'[m] = 1
  BY <1>1, <1>2, <1>3
<1>6. \A n \in Models \ {m} : handle'[n] = handle[n] /\ task'[n] = task[n] /\ writers'[n] = writers[n]
  BY <1>1, <1>2, <1>3
<1>7. OneTask'
  BY <1>2, <1>5, <1>6 DEF OneTask, DownloadsInv, Downloading
<1> QED
  BY <1>1, <1>3, <1>4, <1>7 DEF DownloadsInv

(* The requests to cancel and to delete leave the task alone.                *)
LEMMA RequestKeeps ==
  ASSUME DownloadsInv, NEW m \in Models, CancelDownload(m) \/ DeleteModel(m)
  PROVE  DownloadsInv'
<1>1. /\ kind \in [Models -> Kinds] /\ installed \in [Models -> BOOLEAN]
      /\ handle \in [Models -> [status : Statuses, cancel : BOOLEAN]]
      /\ task \in [Models -> {"none", "fetching", "verifying"}] /\ writers \in [Models -> Nat]
  BY DEF DownloadsInv, DownloadsTypeOK, Statuses
<1>2. CASE CancelDownload(m)
  <2>1. /\ handle' = [handle EXCEPT ![m].cancel = TRUE]
        /\ UNCHANGED <<kind, task, writers, installed>>
    BY <1>2 DEF CancelDownload
  <2>2. DownloadsTypeOK'
    BY <1>1, <2>1 DEF DownloadsTypeOK, Statuses
  <2>3. \A n \in Models : handle'[n].status = handle[n].status
    BY <1>1, <2>1
  <2> QED
    BY <2>1, <2>2, <2>3 DEF DownloadsInv, OneTask, Downloading
<1>3. CASE DeleteModel(m)
  <2>1. /\ handle' = [handle EXCEPT ![m] = NoHandle] /\ installed' = [installed EXCEPT ![m] = FALSE]
        /\ UNCHANGED <<kind, task, writers>> /\ ~Downloading(m)
    BY <1>3 DEF DeleteModel
  <2>2. NoHandle \in [status : Statuses, cancel : BOOLEAN] /\ NoHandle.status = "none"
    BY DEF NoHandle, Statuses
  <2>3. DownloadsTypeOK'
    BY <1>1, <2>1, <2>2 DEF DownloadsTypeOK, Statuses
  <2>4. \A n \in Models \ {m} : handle'[n] = handle[n] /\ installed'[n] = installed[n]
    BY <1>1, <2>1
  <2>5. handle'[m].status = "none"
    BY <1>1, <2>1, <2>2
  <2> QED
    BY <2>1, <2>3, <2>4, <2>5 DEF DownloadsInv, OneTask, Downloading
<1> QED
  BY <1>2, <1>3

(* Every step of the gateway keeps one writer per model.                     *)
LEMMA GatewayKeeps ==
  ASSUME DownloadsInv, \/ \E m \in Models : ModelStep(m)
                       \/ Crash
                       \/ UNCHANGED serverVars
  PROVE  DownloadsInv'
<1>1. /\ installed \in [Models -> BOOLEAN]
      /\ handle \in [Models -> [status : Statuses, cancel : BOOLEAN]]
      /\ task \in [Models -> {"none", "fetching", "verifying"}] /\ writers \in [Models -> Nat]
  BY DEF DownloadsInv, DownloadsTypeOK, Statuses
<1>2. ASSUME NEW m \in Models, ModelStep(m) PROVE DownloadsInv'
  <2>1. CASE StartDownload(m)
    BY <2>1, StartKeeps
  <2>2. CASE CancelDownload(m) \/ DeleteModel(m)
    BY <2>2, RequestKeeps
  <2>3. CASE CrashInPromote(m)
    BY <1>1, <2>3, DeadKeeps DEF CrashInPromote
  <2>4. ASSUME task[m] # "none", Promote(m), UNCHANGED kind PROVE DownloadsInv'
    BY <2>4, EndsKeeps DEF Promote
  <2>5. ASSUME task[m] # "none", NEW st \in {"cancelled", "failed"}, Ends(m, st),
               UNCHANGED <<kind, installed>>
        PROVE  DownloadsInv'
    <3>1. installed' = [installed EXCEPT ![m] = installed[m]] /\ installed[m] \in BOOLEAN
      BY <1>1, <2>5
    <3> QED
      BY <2>5, <3>1, EndsKeeps
  <2>6. CASE Fetched(m)
    <3>1. CASE kind[m] = "moonshine"
      <4>1. task[m] = "fetching" /\ task' = [task EXCEPT ![m] = "verifying"]
            /\ UNCHANGED <<kind, handle, writers, installed>>
        BY <2>6, <3>1 DEF Fetched
      <4> QED
        BY <1>1, <4>1 DEF DownloadsInv, DownloadsTypeOK, OneTask, Downloading
    <3>2. CASE kind[m] # "moonshine"
      BY <2>4, <2>6, <3>2 DEF Fetched
    <3> QED
      BY <3>1, <3>2
  <2>7. CASE Verified(m)
    BY <2>4, <2>7 DEF Verified
  <2>8. CASE Cancelled(m)
    BY <2>5, <2>8 DEF Cancelled
  <2>9. CASE DownloadFails(m)
    BY <2>5, <2>9 DEF DownloadFails
  <2>10. CASE PromoteFails(m)
    BY <2>10, EndsKeeps DEF PromoteFails, Replacing
  <2> QED
    BY <1>2, <2>1, <2>2, <2>3, <2>6, <2>7, <2>8, <2>9, <2>10 DEF ModelStep, TaskStep
<1>3. CASE Crash
  BY <1>1, <1>3, DeadKeeps DEF Crash
<1>4. CASE UNCHANGED serverVars
  BY <1>4 DEF serverVars, DownloadsInv, DownloadsTypeOK, OneTask, Downloading
<1> QED
  BY <1>2, <1>3, <1>4

(* The page reaches the gateway's state only through its handlers.           *)
LEMMA PageUsesGateway ==
  ASSUME [PageNext]_vars
  PROVE  \/ \E m \in Models : ModelStep(m)
         \/ Crash
         \/ UNCHANGED serverVars
<1>1. CASE ServerStep
  BY <1>1 DEF ServerStep, ModelStep
<1>2. ASSUME NEW l \in Lists, Press(l)
      PROVE  \E m \in Models : ModelStep(m)
  BY <1>2 DEF Press, ModelStep
<1>3. CASE UNCHANGED vars
  BY <1>3 DEF vars, serverVars
<1>4. ASSUME PageNext, ~ServerStep, \A l \in Lists : ~Press(l)
      PROVE  UNCHANGED serverVars
  BY <1>4 DEF PageNext, LeaveModels, PillSwap, VisibilityChange, ServePoll, SendPoll, PollFails,
              PollRejected, ServeList, AskList, SwapList, ListFails, PollAnswered
<1> QED
  BY <1>1, <1>2, <1>3, <1>4

-----------------------------------------------------------------------------
(* The page. *)

(* Whatever is swapped in, scheduling sets the timer by what is shown then.  *)
LEMMA ScheduledIsAlive ==
  ASSUME PollingAlive, PageTypeOK', ScheduleModelPoll
  PROVE  PollingAlive'
BY DEF PollingAlive, ScheduleModelPoll, Cards

(* The answers of the gateway are never taken for a request without one.     *)
LEMMA AnswersAreAnswers == Entries \in Answers /\ Entries' \in Answers
BY DEF Entries, Entry, Answers, States

(* A page that is not scheduled anew has a request out, or its last answer   *)
(* has failed.                                                               *)
LEMMA PageKeeps ==
  ASSUME PollingAlive, [PageNext]_vars
  PROVE  PollingAlive'
<1>0. /\ Entries \in Answers /\ Entries' \in Answers
      /\ Idle # Sent /\ Idle \notin Answers /\ Sent \notin Answers
  BY AnswersAreAnswers, PageAssumption
<1> USE DEF Free
<1>1. PageTypeOK /\ (armed => visible /\ Cards(shown) # {})
  BY DEF PollingAlive
<1>2. ASSUME NEW p \in Polls, ServePoll(p) PROVE PollingAlive'
  <2>1. /\ poll[p].answer = Sent /\ poll' = [poll EXCEPT ![p].answer = Entries]
        /\ UNCHANGED <<shown, visible, armed, list, lapsed>>
    BY <1>2 DEF ServePoll
  <2>2. PageTypeOK' /\ poll'[p].answer = Entries
    BY <1>0, <1>1, <2>1 DEF PageTypeOK
  <2> QED
    BY <1>0, <1>1, <2>1, <2>2 DEF PollingAlive, Cards
<1>3. ASSUME NEW l \in Lists, ServeList(l) PROVE PollingAlive'
  BY <1>0, <1>1, <1>3 DEF ServeList, PollingAlive, PageTypeOK, Cards
<1>4. CASE ServerStep
  BY <1>4 DEF ServerStep, pageVars, PollingAlive, PageTypeOK, Cards
<1>5. ASSUME NEW l \in Lists, Press(l) PROVE PollingAlive'
  BY <1>0, <1>1, <1>5 DEF Press, PollingAlive, PageTypeOK, Cards
<1>6. ASSUME NEW l \in Lists, AskList(l) PROVE PollingAlive'
  BY <1>0, <1>1, <1>6 DEF AskList, PollingAlive, PageTypeOK, Cards
<1>7. ASSUME NEW l \in Lists, SwapList(l) PROVE PollingAlive'
  BY <1>0, <1>1, <1>7, ScheduledIsAlive DEF SwapList, PageTypeOK, ScheduleModelPoll
<1>8. ASSUME NEW l \in Lists, ListFails(l) PROVE PollingAlive'
  BY <1>0, <1>1, <1>8 DEF ListFails, PollingAlive, PageTypeOK, Cards
<1>9. CASE LeaveModels \/ PillSwap \/ VisibilityChange
  BY <1>0, <1>1, <1>9, ScheduledIsAlive
     DEF LeaveModels, PillSwap, VisibilityChange, PageTypeOK, ScheduleModelPoll
<1>10. ASSUME NEW p \in Polls, SendPoll(p) PROVE PollingAlive'
  <2>1. /\ poll' = [poll EXCEPT ![p] = [cards |-> Cards(shown), answer |-> Sent]]
        /\ armed' = FALSE /\ UNCHANGED <<shown, visible, list, lapsed>>
    BY <1>1, <1>10 DEF SendPoll
  <2>2. Cards(shown) \subseteq Models
    BY DEF Cards
  <2>3. PageTypeOK' /\ poll'[p].answer = Sent
    BY <1>1, <2>1, <2>2 DEF PageTypeOK
  <2> QED
    BY <1>0, <2>1, <2>3 DEF PollingAlive
<1>11. ASSUME NEW p \in Polls, poll' = [poll EXCEPT ![p] = NoPoll], UNCHANGED <<shown, visible>>,
              armed' \in BOOLEAN, lapsed' \in BOOLEAN, list' \in [Lists -> {Idle, Sent} \cup Answers]
       PROVE  PageTypeOK'
  <2>1. NoPoll \in [cards : SUBSET Models, answer : {Idle, Sent} \cup Answers]
    BY DEF NoPoll
  <2> QED
    BY <1>1, <1>11, <2>1 DEF PageTypeOK
<1>12. ASSUME NEW p \in Polls, PollFails(p) PROVE PollingAlive'
  <2>1. PageTypeOK'
    BY <1>1, <1>11, <1>12 DEF PollFails, ScheduleModelPoll, PageTypeOK
  <2> QED
    BY <1>12, <2>1, ScheduledIsAlive DEF PollFails
<1>13. ASSUME NEW p \in Polls, PollRejected(p) PROVE PollingAlive'
  <2>1. PageTypeOK'
    BY <1>1, <1>11, <1>13 DEF PollRejected, PageTypeOK
  <2> QED
    BY <1>1, <1>13, <2>1 DEF PollRejected, PollingAlive, Cards
<1>14. ASSUME NEW p \in Polls, NEW l \in Lists, PollAnswered(p, l) PROVE PollingAlive'
  <2>1. CASE shown # NoList /\ \E m \in poll[p].cards : poll[p].answer[m] # "downloading"
    <3>1. /\ list' = [list EXCEPT ![l] = Sent] /\ UNCHANGED <<shown, visible, armed, lapsed>>
      BY <1>14, <2>1 DEF PollAnswered
    <3>2. list'[l] # Idle
      BY <1>0, <1>1, <3>1 DEF PageTypeOK
    <3>3. PageTypeOK'
      BY <1>1, <1>11, <1>14, <3>1 DEF PollAnswered, PageTypeOK
    <3> QED
      BY <1>1, <3>1, <3>2, <3>3 DEF PollingAlive, Cards
  <2>2. CASE ~(shown # NoList /\ \E m \in poll[p].cards : poll[p].answer[m] # "downloading")
    <3>1. PageTypeOK'
      BY <1>1, <1>11, <1>14, <2>2 DEF PollAnswered, ScheduleModelPoll, PageTypeOK
    <3> QED
      BY <1>14, <2>2, <3>1, ScheduledIsAlive DEF PollAnswered
  <2> QED
    BY <2>1, <2>2
<1>15. CASE UNCHANGED vars
  BY <1>15 DEF vars, pageVars, PollingAlive, PageTypeOK, Cards
<1> QED
  BY <1>2, <1>3, <1>4, <1>5, <1>6, <1>7, <1>8, <1>9, <1>10, <1>12, <1>13, <1>14, <1>15
     DEF PageNext

-----------------------------------------------------------------------------
(* Theorems. *)

(* The statuses and the tasks of the gateway agree, whatever the page does.  *)
LEMMA DownloadsInvariant == PageSpec => []DownloadsInv
<1>1. PageInit => DownloadsInv
  BY DEF PageInit, DownloadsInit, DownloadsInv, DownloadsTypeOK, OneTask, NoHandle, Downloading
<1>2. DownloadsInv /\ [PageNext]_vars => DownloadsInv'
  BY PageUsesGateway, GatewayKeeps
<1> QED
  BY <1>1, <1>2, PTL DEF PageSpec

(* No two tasks ever write the partial path of a model, and no handler acts  *)
(* on a model without knowing of the task that does.                         *)
THEOREM OneWriterPerModel == PageSpec => []OneWriter
<1>1. DownloadsInv => OneWriter
  BY DEF DownloadsInv, OneTask, OneWriter, DownloadsTypeOK
<1> QED
  BY <1>1, DownloadsInvariant, PTL

(* A download whose flag is set before its last look at it does not complete *)
(* and costs nothing; a model is lost by a delete or in the middle of its    *)
(* replacement, and in no other way.                                         *)
THEOREM CancelIsHonoured == PageSpec => CancelHonoured
<1> DEFINE Honoured(m) ==
             /\ (handle[m].cancel /\ task[m] = "fetching") => handle'[m].status # "completed"
             /\ installed[m] /\ ~installed'[m] =>
                  \/ ~Downloading(m)
                  \/ kind[m] # "file" /\ (handle[m].cancel => task[m] = "verifying")
           A == \A m \in Models : Honoured(m)
<1>1. DownloadsInv /\ [PageNext]_vars => [A]_serverVars
  <2> SUFFICES ASSUME DownloadsInv, [PageNext]_vars, ~ UNCHANGED serverVars PROVE A
    OBVIOUS
  <2>1. /\ installed \in [Models -> BOOLEAN]
        /\ handle \in [Models -> [status : Statuses, cancel : BOOLEAN]]
        /\ task \in [Models -> {"none", "fetching", "verifying"}]
    BY DEF DownloadsInv, DownloadsTypeOK, Statuses
  <2>2. \A n \in Models : task[n] = "fetching" => handle[n].status = "downloading"
    BY DEF DownloadsInv, OneTask, Downloading
  <2>3. CASE Crash
    BY <2>1, <2>3 DEF Crash, Dead, NoHandle
  <2>4. ASSUME NEW m \in Models, ModelStep(m), NEW n \in Models
        PROVE  Honoured(n)
    <3>1. CASE CrashInPromote(m)
      <4>1. /\ handle'[n].status = "none" /\ installed' = [installed EXCEPT ![m] = FALSE]
            /\ kind[m] # "file" /\ (handle[m].cancel => task[m] = "verifying")
        BY <3>1 DEF CrashInPromote, Dead, NoHandle, Replacing
      <4> QED
        BY <2>1, <4>1
    <3>2. ASSUME NEW st \in Statuses, Ends(m, st),
                 (handle[m].cancel /\ task[m] = "fetching") => st # "completed"
          PROVE  (handle[n].cancel /\ task[n] = "fetching") => handle'[n].status # "completed"
      <4>1. handle' = [handle EXCEPT ![m].status = st]
        BY <3>2 DEF Ends
      <4> QED
        BY <2>1, <2>2, <3>2, <4>1
    <3>3. CASE PromoteFails(m)
      <4>1. /\ installed' = [installed EXCEPT ![m] = FALSE]
            /\ kind[m] # "file" /\ (handle[m].cancel => task[m] = "verifying")
        BY <3>3 DEF PromoteFails, Replacing
      <4>2. (handle[n].cancel /\ task[n] = "fetching") => handle'[n].status # "completed"
        BY <3>2, <3>3 DEF PromoteFails, Statuses
      <4> QED
        BY <2>1, <4>1, <4>2
    <3>4. CASE DeleteModel(m)
      <4>1. /\ installed' = [installed EXCEPT ![m] = FALSE] /\ ~Downloading(m)
            /\ handle' = [handle EXCEPT ![m] = NoHandle]
        BY <3>4 DEF DeleteModel
      <4> QED
        BY <2>1, <2>2, <4>1 DEF NoHandle, Downloading
    <3>5. ASSUME Promote(m), ~(handle[m].cancel /\ task[m] = "fetching")
          PROVE  Honoured(n)
      <4>1. (handle[n].cancel /\ task[n] = "fetching") => handle'[n].status # "completed"
        BY <3>2, <3>5 DEF Promote, Statuses
      <4>2. installed[n] => installed'[n]
        BY <2>1, <3>5 DEF Promote
      <4> QED
        BY <4>1, <4>2
    <3>6. CASE Fetched(m)
      <4>1. CASE kind[m] = "moonshine"
        BY <2>2, <3>6, <4>1 DEF Fetched
      <4>2. CASE kind[m] # "moonshine"
        BY <3>5, <3>6, <4>2 DEF Fetched
      <4> QED
        BY <4>1, <4>2
    <3>7. CASE Verified(m)
      BY <3>5, <3>7 DEF Verified
    <3>8. CASE Cancelled(m)
      BY <3>2, <3>8 DEF Cancelled, Statuses
    <3>9. CASE DownloadFails(m)
      BY <3>2, <3>9 DEF DownloadFails, Statuses
    <3>10. CASE StartDownload(m)
      <4>1. /\ handle' = [handle EXCEPT ![m] = [status |-> "downloading", cancel |-> FALSE]]
            /\ installed' = installed
        BY <3>10 DEF StartDownload
      <4> QED
        BY <2>1, <2>2, <4>1
    <3>11. CASE CancelDownload(m)
      <4>1. handle' = [handle EXCEPT ![m].cancel = TRUE] /\ installed' = installed
        BY <3>11 DEF CancelDownload
      <4> QED
        BY <2>1, <2>2, <4>1
    <3> QED
      BY <2>4, <3>1, <3>3, <3>4, <3>6, <3>7, <3>8, <3>9, <3>10, <3>11 DEF ModelStep, TaskStep
  <2> QED
    BY <2>3, <2>4, PageUsesGateway
<1> QED
  BY <1>1, DownloadsInvariant, PTL DEF PageSpec, CancelHonoured

(* No handler of the page forgets the poll: a card that downloads on a       *)
(* visible page is watched, but for a failure with nothing swapped since.    *)
THEOREM PollingStaysAlive == PageSpec => []PollingAlive
<1>1. PageInit => PollingAlive
  <2> SUFFICES ASSUME PageInit PROVE PollingAlive
    OBVIOUS
  <2>1. /\ poll \in [Polls -> [cards : SUBSET Models, answer : {Idle, Sent} \cup Answers]]
        /\ list \in [Lists -> {Idle, Sent} \cup Answers]
    <3>1. NoPoll \in [cards : SUBSET Models, answer : {Idle, Sent} \cup Answers]
      BY DEF NoPoll
    <3> QED
      BY <3>1 DEF PageInit
  <2>2. shown = NoList /\ visible = TRUE /\ armed = FALSE /\ lapsed = FALSE
    BY DEF PageInit
  <2>3. PageTypeOK
    BY <2>1, <2>2 DEF PageTypeOK
  <2> QED
    BY <2>2, <2>3 DEF PollingAlive, Cards
<1> QED
  BY <1>1, PageKeeps, PTL DEF PageSpec
=============================================================================
