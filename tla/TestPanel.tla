----------------------------- MODULE TestPanel -----------------------------
(***************************************************************************)
(* The recorder of the Pair & test tab (src/app/webui/app.js): the picker  *)
(* that is reconciled with the live gateway, the click that waits for two  *)
(* requests and a microphone before it records, the interval that stops a  *)
(* recording, and the answer that is painted when it comes.                *)
(*                                                                         *)
(* Every await is a step of its own.  Between two of them the user clicks, *)
(* picks and changes tabs, the gateway loads another model, and the swaps  *)
(* of the page start background requests of the same kind.  What is kept   *)
(* of a panel is the one that is shown: a panel that was swapped away is   *)
(* seen by nobody, and a click remembers only whether its panel is the     *)
(* shown one ("home").  A request may answer with any configuration that   *)
(* was live since it was sent, which covers every order of the answers.    *)
(***************************************************************************)
EXTENDS TranscriptDiff, SequencesExt

CONSTANTS Clips,      \* clicks that start a recording, ids reused (bound: how many at once)
          Syncs,      \* background reconciliations, ids reused (bound: how many at once)
          Options,    \* the language options in their order, Auto-detect the first
          AutoOption, \* the option that carries data-auto-language
          Gateways,   \* configurations /health and /v1/capabilities may report
          Hasty,      \* people may click while an earlier click waits or its clip stops
          Nobody      \* no recorder, no interval, no answer yet

ASSUME PanelAssumption ==
  /\ Options \in Seq(Range(Options)) /\ IsInjective(Options)
  /\ Options # <<>> /\ Options[1] = AutoOption
  /\ Hasty \in BOOLEAN
  /\ Nobody \notin Clips \cup Gateways
  /\ \A g \in Gateways :
       /\ g.explicit \in BOOLEAN /\ g.detects \in BOOLEAN /\ g.supported \in BOOLEAN
       /\ g.autoLanguage \in BOOLEAN
       /\ AutoOption \notin g.covers

VARIABLES gateway,     \* what the gateway would report now
          open,        \* the test panel is in the document
          picker,      \* its controls: the health applied, language, mode, warning
          view,        \* its button and result
          capability,  \* cleanupCapability: cleanup reported an auto language
          click,       \* one asynchronous click handler per clip
          sync,        \* one background syncTestLanguages + syncTestCleanup each
          recorder,    \* the global recorder
          chunks,      \* the global chunks: whose sound they hold
          timer,       \* recordingTimer: the interval set last
          ticking      \* intervals that still fire

vars == <<gateway, open, picker, view, capability, click, sync, recorder, chunks,
          timer, ticking>>

-----------------------------------------------------------------------------
(* The controls.                                                           *)

Languages == Range(Options)

\* An option is offered: nothing is known yet, or the model can serve it.
Offered(health, option) ==
  health # Nobody =>
    IF option = AutoOption THEN ~health.explicit
    ELSE health.covers = {} \/ health.detects \/ option \in health.covers

\* A selection that is now disabled falls back to the first option that is not, if any.
Fallback(health, option) ==
  LET left == {i \in DOMAIN Options : Offered(health, Options[i])}
  IN  IF Offered(health, option) \/ left = {} THEN option ELSE Options[Min(left)]

\* Cleanup is on, the language is left to detection, and the gateway has no default.
Stranded(p, auto) == p.cleanup /\ p.language = AutoOption /\ ~auto

FreshPicker == [health |-> Nobody, language |-> AutoOption, cleanup |-> FALSE,
                offersCleanup |-> FALSE, warned |-> FALSE]
FreshView   == [stops |-> FALSE, disabled |-> FALSE, result |-> FALSE]

\* A slip: the selection left where it is, on an option that was just disabled.
WithoutFallback(p, health) == [p EXCEPT !.health = health]

\* The answer of /health reaches the panel.  The fallback fires no change event, so the
\* warning is not redone.
WithLanguages(p, health) ==
  [p EXCEPT !.health = health, !.language = Fallback(health, @)]

\* The answer of /v1/capabilities: the field is the one looked up before the await
\* (home), the warning is looked up after it and is the shown one.
WithCapabilities(p, caps, home) ==
  [p EXCEPT !.offersCleanup = IF home THEN caps.supported ELSE @,
            !.warned = Stranded(p, caps.autoLanguage)]

-----------------------------------------------------------------------------
Idle == [at |-> "idle", home |-> FALSE, seen |-> {}, since |-> {}, calm |-> FALSE, blob |-> {}]
NoSync == [home |-> FALSE, health |-> {}, caps |-> {}]

PanelInit ==
  /\ gateway \in Gateways /\ open = FALSE
  /\ picker = FreshPicker /\ view = FreshView /\ capability = FALSE
  /\ click = [c \in Clips |-> Idle]
  /\ sync = [s \in Syncs |-> NoSync]
  /\ recorder = Nobody /\ chunks = {} /\ timer = Nobody /\ ticking = {}

recording == <<recorder, chunks, timer, ticking>>

Starting(c)  == click[c].at \in {"languages", "capabilities", "microphone"}
Recording(c) == click[c].at = "recording"

\* Whoever waits for an answer may now get the new configuration.
Noticing(reply, g) == IF reply = {} THEN {} ELSE reply \cup {g}

\* The handlers of D no longer reconcile the picker undisturbed.
Upset(calls, D) == [c \in Clips |-> IF c \in D THEN [calls[c] EXCEPT !.calm = FALSE, !.since = {}]
                                   ELSE calls[c]]

\* Another client selects a model or changes the cleanup settings.
ChangeGateway(g) ==
  /\ g # gateway /\ gateway' = g
  /\ click' = [c \in Clips |-> [click[c] EXCEPT !.seen  = Noticing(@, g),
                                                !.since = Noticing(@, g)]]
  /\ sync' = [s \in Syncs |-> [sync[s] EXCEPT !.health = Noticing(@, g),
                                              !.caps   = Noticing(@, g)]]
  /\ UNCHANGED <<open, picker, view, capability, recording>>

\* htmx:afterSwap while the panel is in the document asks for both again.
StartSync(s) == sync' = [sync EXCEPT ![s] = [home |-> TRUE, health |-> {gateway},
                                             caps |-> {gateway}]]
Free(s) == sync[s].health = {} /\ sync[s].caps = {}

\* What holds an element of the panel from now on holds a detached one.
Detached(calls) == [x \in DOMAIN calls |-> [calls[x] EXCEPT !.home = FALSE]]

\* The tab is opened: a new panel from the server, then a sync of it.
OpenPanel(s) ==
  /\ ~open /\ Free(s) /\ open' = TRUE
  /\ picker' = FreshPicker /\ view' = FreshView
  /\ StartSync(s)
  /\ UNCHANGED <<gateway, capability, click, recording>>

LeavePanel ==
  /\ open /\ open' = FALSE
  /\ picker' = FreshPicker /\ view' = FreshView
  /\ click' = Upset(Detached(click), Clips)
  /\ sync' = [s \in Syncs |-> [Detached(sync)[s] EXCEPT !.health = {}]]  \* changes nothing any more
  /\ UNCHANGED <<gateway, capability, recording>>

\* A pill or the banner is refreshed beside the panel.
OtherSwap(s) ==
  /\ open /\ Free(s) /\ StartSync(s)
  /\ UNCHANGED <<gateway, open, picker, view, capability, click, recording>>

\* The user picks; the change event redoes the warning.
Pick(p) ==
  /\ open /\ p # picker
  /\ picker' = [p EXCEPT !.warned = Stranded(p, capability)]
  /\ UNCHANGED <<gateway, open, view, capability, click, sync, recording>>
PickLanguage(o) == Offered(picker.health, o) /\ Pick([picker EXCEPT !.language = o])
PickCleanup(on) == picker.offersCleanup /\ Pick([picker EXCEPT !.cleanup = on])

-----------------------------------------------------------------------------
(* Answers of the background requests.  One that fails changes nothing.    *)

SyncLanguages(s, health) ==
  /\ health \in sync[s].health
  /\ sync' = [sync EXCEPT ![s].health = {}]
  /\ picker' = WithLanguages(picker, health) /\ click' = Upset(click, Clips)
  /\ UNCHANGED <<gateway, open, view, capability, recording>>

SyncCapabilities(s, caps) ==
  /\ caps \in sync[s].caps
  /\ sync' = [sync EXCEPT ![s].caps = {}]
  /\ capability' = caps.autoLanguage
  /\ picker' = IF open THEN WithCapabilities(picker, caps, sync[s].home) ELSE picker
  /\ click' = Upset(click, Clips)
  /\ UNCHANGED <<gateway, open, view, recording>>

SyncFails(s) ==
  /\ ~Free(s)
  /\ \/ sync[s].health # {} /\ sync' = [sync EXCEPT ![s].health = {}]
     \/ sync[s].caps # {}   /\ sync' = [sync EXCEPT ![s].caps = {}]
  /\ UNCHANGED <<gateway, open, picker, view, capability, click, recording>>

-----------------------------------------------------------------------------
(* The click on the record button, one step per await.                     *)

SomebodyRecords == recorder # Nobody /\ click[recorder].at = "recording"
Unsettled == \E c \in Clips : Starting(c) \/ click[c].at = "stopping"

PressStop ==
  /\ open /\ ~view.disabled /\ SomebodyRecords
  /\ click' = [click EXCEPT ![recorder].at = "stopping"]
  /\ UNCHANGED <<gateway, open, picker, view, capability, sync, recording>>

PressStart(c) ==
  /\ open /\ ~view.disabled /\ ~SomebodyRecords /\ click[c].at = "idle"
  /\ click' = [click EXCEPT ![c] = [at |-> "languages", home |-> TRUE, seen |-> {gateway},
                                    since |-> {gateway}, calm |-> TRUE, blob |-> {}]]
  /\ Hasty \/ ~Unsettled
  /\ UNCHANGED <<gateway, open, picker, view, capability, sync, recording>>

\* syncTestLanguages() returns: with an answer, or (health = Nobody) without one.
\* syncTestCleanup() then asks, or returns at once where no panel is shown.
GotLanguages(c, health) ==
  /\ click[c].at = "languages" /\ health \in click[c].seen \cup {Nobody}
  /\ click' = Upset([click EXCEPT ![c] = [@ EXCEPT !.at = IF open THEN "capabilities" ELSE "microphone",
                                                   !.seen = IF open THEN {gateway} ELSE {}]],
                    IF health = Nobody \/ ~open THEN {c} ELSE Clips \ {c})
  /\ picker' = IF health # Nobody /\ click[c].home THEN WithLanguages(picker, health) ELSE picker
  /\ UNCHANGED <<gateway, open, view, capability, sync, recording>>

GotCapabilities(c, caps) ==
  /\ click[c].at = "capabilities" /\ caps \in click[c].seen \cup {Nobody}
  /\ click' = Upset([click EXCEPT ![c] = [@ EXCEPT !.at = "microphone", !.seen = {}]],
                    IF caps = Nobody THEN {c} ELSE Clips \ {c})
  /\ IF caps = Nobody THEN UNCHANGED <<capability, picker>>
     ELSE /\ capability' = caps.autoLanguage
          /\ picker' = IF open THEN WithCapabilities(picker, caps, click[c].home) ELSE picker
  /\ UNCHANGED <<gateway, open, view, sync, recording>>

\* No recordable type, or no permission: the click ends with an error shown.
NoMicrophone(c) ==
  /\ click[c].at = "microphone"
  /\ click' = [click EXCEPT ![c] = Idle]
  /\ UNCHANGED <<gateway, open, picker, view, capability, sync, recording>>

\* A slip: the last result left.
StartKeepsResult(c) ==
  /\ click[c].at = "microphone"
  /\ chunks' = {} /\ recorder' = c /\ timer' = c /\ ticking' = ticking \cup {c}
  /\ click' = [click EXCEPT ![c] = [Idle EXCEPT !.at = "recording", !.home = click[c].home]]
  /\ view' = IF click[c].home THEN [view EXCEPT !.stops = TRUE] ELSE view
  /\ UNCHANGED <<gateway, open, picker, capability, sync>>

\* A slip: the chunks kept from the clip before.
StartKeepsChunks(c) ==
  /\ click[c].at = "microphone"
  /\ recorder' = c /\ timer' = c /\ ticking' = ticking \cup {c} /\ UNCHANGED chunks
  /\ click' = [click EXCEPT ![c] = [Idle EXCEPT !.at = "recording", !.home = click[c].home]]
  /\ view' = IF click[c].home THEN [view EXCEPT !.stops = TRUE, !.result = FALSE] ELSE view
  /\ UNCHANGED <<gateway, open, picker, capability, sync>>

\* A slip: no interval.
StartWithoutInterval(c) ==
  /\ click[c].at = "microphone"
  /\ chunks' = {} /\ recorder' = c /\ UNCHANGED <<timer, ticking>>
  /\ click' = [click EXCEPT ![c] = [Idle EXCEPT !.at = "recording", !.home = click[c].home]]
  /\ view' = IF click[c].home THEN [view EXCEPT !.stops = TRUE, !.result = FALSE] ELSE view
  /\ UNCHANGED <<gateway, open, picker, capability, sync>>

StartRecording(c) ==
  /\ click[c].at = "microphone"
  /\ chunks' = {} /\ recorder' = c /\ timer' = c /\ ticking' = ticking \cup {c}
  /\ click' = [click EXCEPT ![c] = [Idle EXCEPT !.at = "recording", !.home = click[c].home]]
  /\ view' = IF click[c].home THEN [view EXCEPT !.stops = TRUE, !.result = FALSE] ELSE view
  /\ UNCHANGED <<gateway, open, picker, capability, sync>>

\* Any interval, at the maximum duration, stops whatever the global recorder is.
TimeUp ==
  /\ ticking # {} /\ SomebodyRecords
  /\ click' = [click EXCEPT ![recorder].at = "stopping"]
  /\ UNCHANGED <<gateway, open, picker, view, capability, sync, recording>>

\* The microphone is unplugged: the recorder stops by itself.
TrackEnds(c) ==
  /\ Recording(c)
  /\ click' = [click EXCEPT ![c].at = "stopping"]
  /\ UNCHANGED <<gateway, open, picker, view, capability, sync, recording>>

\* The last data and the stop event.  The controls are looked up now: with no panel
\* in the document that throws, inside the try, and nothing is posted.
OnStop(c) ==
  /\ click[c].at = "stopping"
  /\ chunks' = chunks \cup {c}
  /\ timer' = Nobody /\ ticking' = ticking \ {timer}
  /\ click' = [click EXCEPT ![c] = IF open THEN [@ EXCEPT !.at = "posting", !.blob = chunks']
                                   ELSE Idle]
  /\ view' = IF click[c].home THEN [view EXCEPT !.stops = FALSE, !.disabled = TRUE] ELSE view
  /\ UNCHANGED <<gateway, open, picker, capability, sync, recorder>>

\* The transcript is painted, or (shown FALSE) the request or the painting fails.
Answer(c, shown) ==
  /\ click[c].at = "posting" /\ (shown => open)
  /\ click' = [click EXCEPT ![c] = Idle]
  /\ view' = IF click[c].home THEN [view EXCEPT !.disabled = FALSE, !.result = @ \/ shown]
             ELSE view
  /\ UNCHANGED <<gateway, open, picker, capability, sync, recording>>

PanelNext ==
  \/ \E g \in Gateways : ChangeGateway(g)
  \/ LeavePanel
  \/ \E s \in Syncs : OpenPanel(s) \/ OtherSwap(s) \/ SyncFails(s)
  \/ \E s \in Syncs, g \in Gateways : SyncLanguages(s, g) \/ SyncCapabilities(s, g)
  \/ \E o \in Languages : PickLanguage(o)
  \/ \E on \in BOOLEAN : PickCleanup(on)
  \/ PressStop \/ TimeUp
  \/ \E c \in Clips : PressStart(c) \/ NoMicrophone(c) \/ StartRecording(c) \/ TrackEnds(c)
  \/ \E c \in Clips, g \in Gateways \cup {Nobody} : GotLanguages(c, g) \/ GotCapabilities(c, g)
  \/ \E c \in Clips : OnStop(c) \/ (\E shown \in BOOLEAN : Answer(c, shown))

\* Intervals fire and stop events are delivered; people, the microphone and the network
\* need not do anything.
PanelFairness == WF_vars(TimeUp) /\ \A c \in Clips : WF_vars(OnStop(c))
PanelSpec == PanelInit /\ [][PanelNext]_vars /\ PanelFairness

-----------------------------------------------------------------------------
(* Properties.  The handlers keep no guard against a second click while a  *)
(* first one waits for its answers, or its stop event; what a hasty user   *)
(* breaks is stated for the others.                                        *)

\* Types, and a language that is always one of the options.
TestTypeOK ==
  /\ gateway \in Gateways /\ open \in BOOLEAN /\ capability \in BOOLEAN
  /\ picker \in [health : Gateways \cup {Nobody}, language : Languages, cleanup : BOOLEAN,
                 offersCleanup : BOOLEAN, warned : BOOLEAN]
  /\ view \in [stops : BOOLEAN, disabled : BOOLEAN, result : BOOLEAN]
  /\ click \in [Clips -> [at : {"idle", "languages", "capabilities", "microphone", "recording",
                                "stopping", "posting"},
                          home : BOOLEAN, seen : SUBSET Gateways, since : SUBSET Gateways,
                          calm : BOOLEAN, blob : SUBSET Clips]]
  /\ sync \in [Syncs -> [home : BOOLEAN, health : SUBSET Gateways, caps : SUBSET Gateways]]
  /\ {recorder, timer} \subseteq Clips \cup {Nobody}
  /\ chunks \subseteq Clips /\ ticking \subseteq Clips

\* A microphone that is open can be closed: the recorder that records is the one the
\* button and the interval stop, and its own interval is the only one that fires.  And
\* although all clicks share the chunks, what is posted is the sound of its own recorder,
\* whatever was recorded, left or answered before.
OneRecorder ==
  ~Hasty => \A c \in Clips :
    /\ Recording(c) => recorder = c /\ timer = c /\ ticking = {c}
    /\ click[c].at = "posting" => click[c].blob = {c}

\* The panel that recorded tells the truth: its button says what a click on it would do
\* (stop while it records, nothing while its clip is being answered), and no earlier
\* result stands beside the clip that replaces it, from its first second to its answer.
PanelHonest ==
  /\ TestTypeOK
  /\ open /\ ~Hasty =>
       LET mine(phases) == \E c \in Clips : click[c].home /\ click[c].at \in phases
       IN  /\ view.stops = mine({"recording", "stopping"})
           /\ view.disabled = mine({"posting"})
           /\ view.result => ~mine({"recording", "stopping", "posting"})

\* What a result shows is a smallest difference and its number is true, and the try-it box
\* of the cleanup settings, which is on another panel, marks what the model changed.
ComparisonsHonest ==
  /\ view.result => MarksTheDifference
  /\ ~open => PreviewMarksTheModel

\* The engine can change without a swap, so a click reconciles the picker before it
\* records: with both answers in, no other answer between them and the same panel, the
\* picker shows a configuration that was live after the click and offers what is
\* selected, and the warning about a cleanup that cannot run is right.
StartsReconciled ==
  [][\A c \in Clips :
       (click[c].at = "microphone" /\ click'[c].at = "recording" /\ click[c].home /\ click[c].calm)
       => /\ picker.health \in click[c].since
          /\ picker.language = Fallback(picker.health, picker.language)
          /\ picker.warned = Stranded(picker, capability)]_vars

\* A recording ends at the maximum duration at the latest, also when its panel is gone.
RecordingEnds ==
  \A c \in Clips : (Recording(c) /\ ~Hasty) ~> (click[c].at \in {"idle", "posting"})
=============================================================================
