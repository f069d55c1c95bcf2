----------------------------- MODULE ModelsPage -----------------------------
(***************************************************************************)
(* The list of models in the page (src/app/webui/app.js) over the          *)
(* downloads of the gateway: cards that show a state, a timer that polls   *)
(* while one of them downloads and the page is visible, and the swaps that *)
(* replace the list.                                                       *)
(*                                                                         *)
(* A request is sent, served and answered in three steps, so answers come  *)
(* in any order and may be older than what the page shows.  scheduleModel- *)
(* Poll() clears the timer but not the requests in flight.                 *)
(***************************************************************************)
EXTENDS ModelDownloads

CONSTANTS Polls,   \* status requests in flight at once (bound)
          Lists,   \* requests for a new list in flight at once (bound)
          NoList,  \* another tab of the page is open
          Sent, Idle

States == {"available", "downloading", "installed"}
Answers == [Models -> States]

ASSUME PageAssumption == Idle # Sent /\ {Idle, Sent} \cap Answers = {}

VARIABLES shown,    \* the state each card of the list was rendered with, or NoList
          visible,  \* document.visibilityState
          armed,    \* modelPollTimer
          poll,     \* per status request: the cards it was sent for, and its answer
          list,     \* per list request: its answer
          lapsed    \* history: polling ended with an answer that never came, or a 401

pageVars == <<shown, visible, armed, poll, list, lapsed>>
vars == <<serverVars, pageVars>>

Cards(s) == IF s = NoList THEN {} ELSE {m \in Models : s[m] = "downloading"}

Free(request)     == request = Idle
NoPoll == [cards |-> {}, answer |-> Idle]

PageInit ==
  /\ DownloadsInit
  /\ shown = NoList /\ visible = TRUE /\ armed = FALSE /\ lapsed = FALSE
  /\ poll = [p \in Polls |-> NoPoll] /\ list = [l \in Lists |-> Idle]

\* scheduleModelPoll(), after every swap, a poll, and a change of visibility: the timer
\* is set anew if a card downloads and the page is visible, and cleared otherwise.
ScheduleModelPoll == armed' = (visible' /\ Cards(shown') # {})

-----------------------------------------------------------------------------
(* The gateway.                                                            *)

\* The gateway serves a request: from here its answer is fixed.
ServePoll(p) ==
  /\ poll[p].answer = Sent /\ poll' = [poll EXCEPT ![p].answer = Entries]
  /\ UNCHANGED <<serverVars, shown, visible, armed, list, lapsed>>
ServeList(l) ==
  /\ list[l] = Sent /\ list' = [list EXCEPT ![l] = Entries]
  /\ UNCHANGED <<serverVars, shown, visible, armed, poll, lapsed>>

\* Downloads go on, other clients act, and the process may die.
ServerStep ==
  /\ \/ \E m \in Models : \/ TaskStep(m) \/ StartDownload(m) \/ CancelDownload(m)
                          \/ DeleteModel(m) \/ CrashInPromote(m)
     \/ Crash
  /\ UNCHANGED pageVars

-----------------------------------------------------------------------------
(* The page.                                                               *)

\* A button of a card: the list that answers it is rendered in the handler that acts.
Press(l) ==
  /\ shown # NoList /\ Free(list[l])
  /\ \E m \in Models : StartDownload(m) \/ CancelDownload(m) \/ DeleteModel(m)
  /\ list' = [list EXCEPT ![l] = Entries']
  /\ UNCHANGED <<shown, visible, armed, poll, lapsed>>

\* Refresh, a filter, or the Models tab itself is clicked.
AskList(l) ==
  /\ Free(list[l]) /\ list' = [list EXCEPT ![l] = Sent]
  /\ UNCHANGED <<serverVars, shown, visible, armed, poll, lapsed>>

\* The list is swapped in, over whatever is shown.
SwapList(l) ==
  /\ list[l] \notin {Idle, Sent}
  /\ shown' = list[l] /\ list' = [list EXCEPT ![l] = Idle]
  /\ UNCHANGED <<serverVars, visible, poll>>
  /\ ScheduleModelPoll /\ lapsed' = FALSE

\* An error answer, or none: a toast, and nothing is swapped.
ListFails(l) ==
  /\ ~Free(list[l]) /\ list' = [list EXCEPT ![l] = Idle] /\ lapsed' = TRUE
  /\ UNCHANGED <<serverVars, shown, visible, armed, poll>>

\* Another tab of the page replaces the panel.
LeaveModels ==
  /\ shown # NoList /\ shown' = NoList
  /\ UNCHANGED <<serverVars, visible, poll, list>>
  /\ ScheduleModelPoll /\ lapsed' = FALSE

\* Any other swap, such as the pills' every five seconds, schedules the poll again.
PillSwap ==
  /\ UNCHANGED <<serverVars, shown, visible, poll, list>>
  /\ ScheduleModelPoll /\ lapsed' = FALSE

\* A slip: the visibility handler forgotten when the page comes back.
VisibilityForgotten ==
  /\ visible' = ~visible /\ UNCHANGED <<serverVars, shown, poll, list, armed>> /\ lapsed' = FALSE

VisibilityChange ==
  /\ visible' = ~visible /\ UNCHANGED <<serverVars, shown, poll, list>>
  /\ ScheduleModelPoll /\ lapsed' = FALSE

\* pollModelProgress(): the timer fires.
SendPoll(p) ==
  /\ armed /\ poll[p].answer = Idle
  /\ armed' = FALSE
  /\ poll' = [poll EXCEPT ![p] = IF Cards(shown) = {} \/ ~visible THEN NoPoll
                                 ELSE [cards |-> Cards(shown), answer |-> Sent]]
  /\ UNCHANGED <<serverVars, shown, visible, list, lapsed>>

\* A slip: the list asked for only while a card still downloads.
PollNeverRefreshes(p, l) ==
  /\ poll[p].answer \notin {Idle, Sent}
  /\ poll' = [poll EXCEPT ![p] = NoPoll]
  /\ UNCHANGED <<serverVars, shown, visible, list>>
  /\ ScheduleModelPoll /\ lapsed' = FALSE

\* The answer: while every card it was sent for still downloads their bars move and the
\* poll is scheduled again; otherwise the list is asked for, if it is there, and the
\* poll is left to its swap.
PollAnswered(p, l) ==
  /\ poll[p].answer \notin {Idle, Sent}
  /\ poll' = [poll EXCEPT ![p] = NoPoll]
  /\ UNCHANGED <<serverVars, shown, visible>>
  /\ IF shown # NoList /\ \E m \in poll[p].cards : poll[p].answer[m] # "downloading"
     THEN /\ Free(list[l]) /\ list' = [list EXCEPT ![l] = Sent]
          /\ UNCHANGED <<armed, lapsed>>
     ELSE UNCHANGED list /\ ScheduleModelPoll /\ lapsed' = FALSE

\* Any failure but a 401 is tried again, later.
PollFails(p) ==
  /\ poll[p].answer # Idle /\ poll' = [poll EXCEPT ![p] = NoPoll]
  /\ UNCHANGED <<serverVars, shown, visible, list>>
  /\ ScheduleModelPoll /\ lapsed' = FALSE

\* A 401 ends the session: the token is dropped and asked for.
PollRejected(p) ==
  /\ poll[p].answer = Sent /\ poll' = [poll EXCEPT ![p] = NoPoll] /\ lapsed' = TRUE
  /\ UNCHANGED <<serverVars, shown, visible, armed, list>>

PageNext ==
  \/ ServerStep \/ LeaveModels \/ PillSwap \/ VisibilityChange
  \/ \E p \in Polls : ServePoll(p) \/ SendPoll(p) \/ PollFails(p) \/ PollRejected(p)
  \/ \E l \in Lists : ServeList(l) \/ Press(l) \/ AskList(l) \/ SwapList(l) \/ ListFails(l)
  \/ \E p \in Polls, l \in Lists : PollAnswered(p, l)

\* Timers fire; the gateway answers, and not always with an error; the pills are swapped.
\* Downloads need not end, and the user need not do anything.
PageFairness ==
  /\ WF_vars(PillSwap)
  /\ \A p \in Polls : /\ SF_vars(ServePoll(p)) /\ WF_vars(SendPoll(p))
                      /\ SF_vars(\E l \in Lists : PollAnswered(p, l))
  /\ \A l \in Lists : SF_vars(ServeList(l)) /\ SF_vars(SwapList(l))
PageSpec == PageInit /\ [][PageNext]_vars /\ PageFairness

-----------------------------------------------------------------------------
(* Properties.                                                             *)

PageTypeOK ==
  /\ shown \in Answers \cup {NoList}
  /\ {visible, armed, lapsed} \subseteq BOOLEAN
  /\ poll \in [Polls -> [cards : SUBSET Models, answer : {Idle, Sent} \cup Answers]]
  /\ list \in [Lists -> {Idle, Sent} \cup Answers]

\* A card that downloads on a visible page is being watched: the timer runs, a status
\* request is out or a new list is -- unless the last of these failed and nothing was
\* swapped since; and a page that is hidden or shows no download runs no timer.  One
\* handler that returns without scheduling breaks it.
PollingAlive ==
  /\ PageTypeOK
  /\ visible /\ Cards(shown) # {} /\ ~lapsed =>
       armed \/ (\E p \in Polls : poll[p].answer # Idle) \/ (\E l \in Lists : ~Free(list[l]))
  /\ armed => visible /\ Cards(shown) # {}

\* A card does not go on showing a download that is over, whatever was lost on the way:
\* it is replaced, its download is started again, or the user leaves or hides the page.
Stale(m) == m \in Cards(shown) /\ ~Downloading(m)
ProgressEnds ==
  \A m \in Models : (visible /\ Stale(m)) ~> (~visible \/ ~Stale(m))
=============================================================================
