# VocaGateway: models, checks and proofs

VocaGateway is a local speech-to-text gateway: a FastAPI application in one
process, on one asyncio event loop, with an administration page (`app/webui/app.js`)
that talks to it. This directory holds TLA+ modules translated
from its source, TLC configurations that check them on small instances, and
TLAPS proofs of what matters most for every value of the constants. Source paths
are relative to the repository (`src/` in `PROJECT.json`).

    tlc -workers 2 -config DecodeLimiter.cfg MCDecodeLimiter    # a run
    tlapm AdmissionProofs.tla                                   # the proofs

`PROJECT.json` lists the runs, the map from definitions to source lines, the
hazards each property is aimed at, and for every property a mutant: a plausible
bug in a mapped definition under which TLC finds the property violated.

## 1. The system

Handlers are coroutines of one event loop, so *the code between two awaits is
atomic* and every await is a point where anything else may run: another request,
a cancellation (timeout, disconnect, shutdown), a settings change, the idle
monitor. That is the granularity of the modules: one action per stretch between
awaits. What really runs in parallel is the engine's work, in threads or child
processes. The process can die between any two steps; SQLite and files survive.
The page is the same on the other side: handlers of one JavaScript thread, atomic
between two awaits, over global variables and a document that swaps replace under
them, with answers in any order and other pages of the browser beside it.

| component | source | state | operations | hard because |
|---|---|---|---|---|
| Decode limiter | `app/service.py` `_DecodeLimiter` | slots out, deque of futures | `acquire`, `release`, `_wake` | cancellation between a grant and its resumption; the limit changes with the engine |
| Admission line | `app/service.py` `_Ticket`, `app/metrics.py` | queue depth, active and rejected counts, each ticket's place | arrival, FFmpeg, wait, confirm, decode | deadline, disconnect probe and watcher meet at every await |
| Sessions and jobs | `app/storage.py`, `app/routes/sessions.py`, `app/audio.py`, `app/service.py` | SQLite row, recording, shared temporary and normalized file | create, upload, finish, retry, delete, retention sweep | uploads and deletes under a running job; death between a commit and an unlink |
| Engine manager | `app/engines.py` | current engine, lease book, retired engines, offload state, config | lease, select, configure, idle offload, shutdown | replaced engines are still in use; `id()` is reused; the config write may fail |
| Readiness monitor | `app/readiness.py` | cached health, warm-up state | probe, warm-up, offload report | health read before an await describes a replaced engine |
| Live streaming | `app/routes/streaming.py` | one websocket session, listener thread | occupy slot, lease, packets, finalize | slot, lease and streaming lock held together |
| Cleanup runtime | `app/cleanup/{manager,host,worker}.py` | worker process, semaphore, leases | correct, configure, warm up, unload | admission timeout, background load, configure under a lease |
| Chunks and budgets | `app/cleanup/{chunks,base}.py` | none | packing of sentences, token budget | boundaries |
| Model downloads | `app/model_manager.py` | handles, tasks, partial and installed files | start, cancel, delete, replace | cancel past the last check; death or failure between remove and rename |
| whisper-server worker | `app/models/whisper_server.py` | child process, interrupted flag | start, transcribe, reclaim, stop | cancelled start; a server still busy with a timed-out clip |
| In-process engines | `app/models/sherpa_onnx.py` and others | resident recognizer | lazy build, unload, language change | build in a thread against unload |
| Device tokens | `app/tokens.py` | memory, file, plaintext cache | create, rotate, revoke, load | memory changed before a write that fails |
| Page: recorder | `app/webui/app.js` | global recorder, chunks, interval; controls of the panel | record, stop, answer, reconcile the picker | three awaits in one click; the panel is replaced while it records |
| Page: comparison | `app/webui/app.js`, `app/cleanup/service.py` | none | diff, count, explain | ties; styled and unstyled texts |
| Page: Models grid | `app/webui/app.js` | open families, where panels stand, rail, filters, chrome | click, expand, filter, swap, resize | panels moved by hand in a grid whose columns change |
| Page: download progress | `app/webui/app.js` | cards, timer, requests in flight | poll, swap, hide and show | a chain of timers and requests that must not break; stale lists |
| Page: sign-in | `app/webui/app.js`, `app/context.py` | token shared by all pages, one dialog each | save, forget, 401 | a 401 for a token that is no longer the stored one |
| Config, pairing, catalog, templates, CLI | see `PROJECT.json` | settings, constant data | parse, format, render | pure or read-only |

How they interact: a session job takes a ticket (`metrics.offer_queue`), runs
FFmpeg under the ticket's deadline, acquires a slot whose limit is read from the
engine the manager has loaded, probes its client again, leases the engine,
decodes, corrects the text through the cleanup runtime, and commits the result
to SQLite. A stream takes a free slot or is refused, then leases. Settings
handlers swap the engine without touching the limiter: it only sees another limit
the next time it looks. The page sends every request with the token stored at that
moment; a 401 to any of them drops it. Its swaps restart the poll of downloads and the
reconciliation of the picker, whatever they swapped.

What makes each component correct:

- limiter: no slot leaks or is returned twice, no lost wake-up, first come first
  served, no grant above the limit, nobody starves;
- line: every place is given back once on every way out, the published counters
  are true, the configured bound holds, nothing is decoded for a client that left;
- sessions: one job per claim, no stale or foreign result, nothing stuck in
  `transcribing`, every row finds its recording, no recording outlives its row;
- engines: nothing is unloaded under a lease, every replaced engine is closed,
  what was saved is what is loaded;
- readiness: health shown belongs to the engine shown;
- cleanup: one server that counts, none leaked, none taken from a request, admission
  exact, every load ends;
- downloads: one task writes a model, what is called completed is installed, an accepted
  cancel is honoured, an installed model is not lost;
- whisper-server: one process, none leaked, a clip never talks to a busy server;
- tokens: what was revoked or rotated away stays ended, what was handed out works, before
  and after a restart, whichever writes failed;
- recorder: an open microphone can be closed and closes by itself, what is posted is its
  own sound, the panel says what is so;
- comparison: the marks are a smallest difference, and the model's;
- grid: open panels stand under their row, the chrome agrees with the list;
- progress: a download that is shown is watched, and never shown for ever;
- sign-in: who has no working token is asked for one, who has one keeps it.

## 2. Modules

**`SlotPool`** is the abstract promise of the limiter's docstring: slots, holders
and one line, as the set of those that wait and the order they stand in. **`DecodeLimiter`** is the code: `_active`, the deque, one future per
queued caller (`pending`, `granted`, `cancelled`), where each caller is suspended,
and the cancellations requested but not yet delivered. `Task.cancel()` (`GiveUp`)
and the resumption of the cancelled caller (`ResumeCancelled`, `LeaveLine`) are
separate actions, as in asyncio: a cancelled seat stays in the deque until its
owner runs and `_wake()` may meet it there. `_wake()`'s loop is the relation
`WakePops(count, n)` (started with `count` slots out it stops after `n` seats)
rather than a recursion, so that it can be proved about. A step that pops several
seats still grants them in one action, as the code does. `Swap` changes the limit
at any moment, between 1 (`max(1, ...)` in `parallel_limit`) and `MaxLimit`.

**`TicketQueue`** extends it with `_Ticket` and the counters. A job's `phase` is the
await it is suspended in; every action of the limiter is taken together with what
the ticket does in the same stretch of code. A client may hang up at any moment;
the probe, the watcher and the second probe find it gone at their own times, and
the watcher outranks a timeout of the same tick (`GoneWins`). Streams ask with a
budget of zero and take no place in line. A job's whole life is modelled once:
jobs do not come back, which bounds the counters.

**`SessionJobs`** is one session (sessions share no state): its row, the stored
recording, the temporary file all its uploads write to and the normalized file all
its jobs share, upload requests, finish and retry requests, and the death of the
process also in the middle of the three steps that commit and then touch a file.
What a file or transcript holds is the set of uploads it came from, so "stale" and
"mixed" are visible. `claimant` is a history variable. `OrderlyUploads` and
`OrderlyJobs` say what clients do: no second upload beside a running one, or
requests strictly in turn; the runs say which promise needs which client.

**`EngineLeases`** is the engine manager and its lease book. Engines are the values of
`id()`: one is free for a new engine as soon as nothing refers to the old one, so
that a stale count or a stale retirement would hit the wrong engine. `resident` is
what `model_is_resident` reports; a load happens under a lease only. `_swap()`,
`configure()`, the plain save of other settings and the failing write are the
settings handlers. Which engine a configuration resolves to is its signature
(`Configs`). Shutdown comes after the last lease: the server is run without a
graceful timeout, so lifespan shutdown starts when its requests are over.

**`CleanupRuntime`** is the optional correction of transcripts, in the deployment where
the gateway launches `llama-server`: the manager's semaphore and lease count, the host's
one worker with the model it was built for, and the worker objects, which outlive their
place in the host: a detached worker's load task must still be told of its
cancellation (`LoadCancelled`) and a thread must still stop its process (`Reaped`). An
operation of `_runtime()` ends in one of four ways (`NothingToRun`, `Resident`,
`StartsLoad`, `Replaces`); there is no await between a grant and the end of that, so
`Admit` and `Granted` include it. A process is `spawned` before it is `ready`, a
difference that only the load task sees. `selected` joins the saved choice with what is
installed, so a download, a deletion and the implicit choice of a sole model all change it.

**`ModelDownloads`** is `ModelManager` for downloads: per model a handle (status and cancel
flag), the await its task is at, and how many tasks write its partial path. The kinds
differ in what comes after the last look at the flag: a file is renamed, a directory is
removed and replaced (`Replacing`, where a death or a failed rename costs the old model), a
Moonshine directory is verified in a thread first. **`ModelsPage`** composes it with the
page: `shown` is the state each card was rendered with, a status request and a list
request are sent, served and answered in three steps, and `ScheduleModelPoll` is part of
every action whose handler calls it. A button answers with the list rendered in the
handler that acts (`Press`). `lapsed` is history: the chain ended with an answer that never
came, or a 401.

**`TokenStore`** has the three places of a token and one action per operation, each either
`Saved` or `SaveRaises`; a digest stands for its secret, and neither ids nor secrets are
drawn twice. `good`, `ended` and `torn` are history: what callers were told.
**`WebSession`** composes it with pages of one browser: `localStorage` is one variable,
each page has its dialog and a request that carries the token of the moment it was sent.

**`TestPanel`** is the recorder. A click is a process with one step per await (`languages`,
`capabilities`, `microphone`, then `recording`, `stopping`, `posting`), over the shared
`recorder`, `chunks` and `timer`. The handler keeps some elements of the panel it started in
and looks others up later; `home` says whether its panel is still the shown one. What
`/health` or `/v1/capabilities` may answer is any configuration live since the request.
`Hasty` says whether people click while a click waits.
**`TranscriptDiff`**, which it extends, is the comparison as functions of two word
sequences: the table and the walk of `commonTokens` (recursive functions of the pair of places
reached), marks, count, the line beneath, and which texts `CleanupService.finalize()` leaves to
compare. The reference definition it is compared with is the set of all `Alignments` of the two
texts.

**`FamilyGrid`** is the grid as its tiles in document order and the panels between them:
`at` is the tile a panel stands behind, `ahead` the pairs of panels behind one tile of which
the first comes first; `After` is the DOM's `after()`. Families are numbered in the order the
server renders them, so a list is an increasing sequence (`Renderings`). The loops over tiles
are a recursive function (`PlaceAll`). `unsettled` is the resize timer or
the animation frame that will lay the panels out. The search box inside a filter and the
dialogs are left out.

At its end `DecodeLimiter` has the refinement mapping to `SlotPool`: holders are those that
were granted a slot, run or not; the line is who waits in the deque, without its cancelled
seats, and who stands before whom there. **`MC*`** modules only give constants. **`*Proofs`**
modules hold the theorems.

Definitions introduced as `Mutant of ...` or as a slip are never part of a specification; they are
the bugs the properties are shown to catch.

## 3. Runs

| run | instance | shows |
|---|---|---|
| `limiter` | 4 callers, limits 1 and 2 | slot count and line, wake-ups, work conservation, implementation of `SlotPool` (order and limit), no starvation |
| `tickets` | 3 batch jobs and a stream, limits 1 and 2, the fail-fast line of 0 the setting allows | places and slots, counters and refusals, the bound of the line, the second look at the client; every ticket leaves the line although FFmpeg and decodes may hang |
| `session_races` | 1 handler, 3 uploads one after the other, deletes, 2 deaths | a superseded job stores nothing and changes nobody's state, rows that name a recording find it, claims end if nothing died |
| `session_orderly` | 3 handlers, 3 uploads, requests in turn, 1 death | results stay, no recording outlives its row |
| `session_stale` | 2 handlers, 2 uploads | a superseded job completes the next job's claim (finding) |
| `leases` | 2 users, 4 ids, 2 signatures, 1 failing write | book and notice, no model leaked, none unloaded under a request, retired engines closed |
| `engine_save_fails` | 1 user, 2 ids | after a failed write the same choice is saved and not loaded (finding) |
| `cleanup` | 2 requests that come again and again, 2 models, 2 workers | admission and honest status, no leaked server, servers kept under a lease, loads and stops end |
| `test_panel` | 2 clips, 1 background reconciliation, 3 languages, 2 configurations, texts of up to 4 words of 3 | one recorder, an honest panel, true comparisons, starts on a reconciled picker, recordings end |
| `families` | 4 families, 1 to 3 columns, 1 filter beside the quick views | panels once and in the grid, rows intact, chrome in step, panels in the order of their tiles |
| `models_page` | 1 model of each kind in turn, 1 status and 2 list requests in flight, restarts | one writer, cancel honoured, polling alive, progress ends |
| `web_session` | 2 pages, 2 ids, 2 secrets, the gateway's own token and a wrong one | sign-in and tokens consistent, working tokens stay, who has none is asked |

Several properties are conjunctions of named parts that speak of the same variables
(`LimiterConsistent`, `TicketsConsistent`, `SessionConsistent`, `LeasesConsistent`,
`CleanupConsistent`, `OneWriter`, `SignInConsistent`); the parts are commented one by one.

Why these bounds are enough to meet the cases: with 4 callers and 2 slots two may
hold, one be granted but not yet resumed or cancelled in that state, and one stand
behind it or come new; `_wake()` pops a dead seat between live ones. Three
batch jobs exceed the largest limit with `MaxQueued = 0`, so refusals happen and an
admission that forgets either counter goes over the bound; jobs still wait in line
whenever the limit falls after they were let in or the stream, which takes its slot from
outside the line, is ahead of them. A session needs two jobs for a stale result and a
third upload for a claim after a supersession; two deaths give a death while
recovering from the first. Two users and four ids let one engine be leased by both
after it was replaced, while a second is current, a third replaces it and the id of
a closed one is given out again. Admission has one slot, so two requests meet every order
of grant, timeout and cancellation. Two workers are one current and one being
stopped; with both in use `Replaces` waits for the old one, which the code would not, so a
third server at a time is outside the run (not outside the proofs, which are for any
`Workers`).

Two clips are one that is answered and one that is recorded, and their ids come again. Two
configurations differ in everything the picker reads; a background reconciliation beside the
click's own gives every order of two answers. Pairs of texts of up to 4 words with a
limit of 3 contain every tie of the walk over a 3 x 3 table and both sides of the limit; one
word that styling changes and one it leaves tell the model's work from the style's. Four
families in two or three columns have a full and a broken row; rows are independent, so a
second full one would add nothing. In the page of downloads models meet only in "some card
downloads", so one model of each kind in turn is the interesting instance; two lists in
flight let the older arrive last. A status request is one at a time but outlives its timer.
Two pages are one whose request is rejected late and one where the token was replaced; two
secrets are an old and a new one, and since none is drawn twice a run ends its changes there.
Bounds that are part of a module: `MaxFailures`, `MaxCrashes`, `Secrets`, `Polls`, `Lists`,
`Clips`, `Syncs`; jobs and uploads happen once.

No run uses symmetry. `CHECK_DEADLOCK FALSE` stands only where the system may stop: the gateway
shuts down (`EngineLeases`, `CleanupRuntime` and the finding of the former), or the page waits for
its user (`TestPanel`, `FamilyGrid`, `ModelsPage`, `WebSession`). Elsewhere there is always
a step: a session that has used up its uploads can be deleted and created again, and
an engine can be swapped.

**Fairness.** `Fairness` of the limiter: the event loop runs whatever is ready (a
granted or cancelled caller) and decodes end, since every engine call is under its
own timeout. Nobody is made to ask, give up or swap. `TimerFairness` of the tickets
assumes less: timers fire and ready callbacks run, decodes and FFmpeg may hang.
`JobFairness`: a started job goes on, because FFmpeg and the wait are under the
queue deadline and the decode and the correction under theirs. `LeaseFairness`:
leases are context managers around decodes that end. `CleanupFairness`:
the event loop runs the load task, whose start has a budget (300 s),
and the thread pool runs the stops; no server needs to become ready. These are weak: each
action named stays enabled until it happens.

`PanelFairness`: the interval fires and a stopped `MediaRecorder` delivers its stop event;
people, microphones and networks need not do anything. `PageFairness`: the pills, which poll
every five seconds, are swapped; timers fire; and requests that are asked again and again are
served and answered some time, which needs strong fairness because each of them may also fail.
Downloads need not end. `WebFairness`: pages go on asking (the pills poll behind the dialog
too) and a request that is sent again and again is some time served, and its rejection heard;
strong for the same reason.

## 4. Findings

- `session_stale`: `complete()` (`storage.py:266-269`) promises that no stale result is
  stored; it tests the state, not whose claim it is, so a job superseded by an upload
  completes the claim of the job after it.
- `engine_save_fails`: `configure()` changes the config in memory before the write; when
  the write fails, the same choice made again has an equal signature and is saved
  without the engine being built.

Known from the models, without a run of their own:

*Limiter.* `service.py:150-151` says a model swap "takes effect for waiters ... at once";
`_swap()` wakes nobody, so after a swap to a roomier engine waiters stay until the next
acquire or release.

*Cleanup.* `host.runtime()` promises a runtime "if it is resident" (`host.py:67`), and the
README that a dictation during a load takes the plain result; `_resident()` asks only whether
the process runs, so a second dictation during the load is leased a server that cannot answer
yet, and runs into its deadline instead of reporting `model_loading`.

An in-flight request "keeps the runtime it was
admitted against" (`manager.py:418-419`) only until a warm-up follows the change of the
model, since a warm-up takes no lease; `KeepsItsServer` therefore speaks of a selection
that stays. And nothing happens when the lease drains: the new model comes with the next
request, a server switched off under a lease goes with the idle monitor.
Only the end of a lease renews the idle clock, so a model loaded by a warm-up long after the
last lease is unloaded at the monitor's next tick.

*Sessions.* Three relatives of `session_stale`: the *failure* of a superseded job fails its successor's session (`ClaimHolds` with two
handlers), an upload that began before a result was stored takes it away
(`CompletedIsFinal` without `OrderlyJobs`), and a delete during an upload leaves a
recording that no row names (`NoOrphanRecording` likewise). A death of the process
leaves its session in `transcribing`; only a new upload or a delete frees it.

*Downloads.* A Moonshine download is verified after its last look at the cancel flag, so a
cancel accepted then is answered and not honoured. A rename that fails, like a death, costs the
model that was being replaced (`PromoteFails`, `CrashInPromote`).

*Tokens.* After a rotate whose write failed the old secret stays in the plaintext cache and in
the file: the QR code is shown and rejected until a restart, which accepts it again, unless
another token's save persists the secret that nobody was told. A token whose revocation
failed to be written is back after a restart.

*Recorder.* Nothing disables the button while a click waits for its two requests or the
microphone: with `Hasty` a second click gives a second recorder, and the first one's microphone
stays open, stopped by neither button nor interval (`OneRecorder`). The answer of a clip whose
panel was left writes its text into the panel shown now, whose result stays hidden. A cleanup
control that is hidden because cleanup went away keeps "On", and the clip is sent with it.

*Comparison.* The recorder's panel compares with the transcript before styling, so what styling
did is marked as the model's; the try-it box does not (`PreviewMarksTheModel`). The number of
changed words counts words that are new: a text that only lost words, or one longer than
`DIFF_TOKEN_LIMIT`, is "changed 0 words".

*Models tab.* The comment at `app.js:752` says the rail is "default open on wide layouts"; without
a stored choice it is collapsed. A quick view or a clear whose list fails to come leaves the
pressed view with the controls' old state until the next swap (`outdated`).

*Sign-in.* A late 401 drops a newer token that works (the cases in `WorkingTokenStays`), and a second
401 of the same moment finds no token and wipes the first one's message from the dialog.

## 5. Proofs

Every theorem is about the whole specification of its module, for every value of the constants
that the module's named `ASSUME`s allow, and is the non-temporal induction `Init => Inv`,
`Inv /\ [Next]_vars => Inv'`, `Inv => Property`. Every safety invariant and every action property
that a run expects to hold is a theorem. The invariants below were checked by TLC on the
instances of the runs before they were proved.

**`AdmissionProofs`**, the limiter (any finite set of callers, any `MaxLimit >= 1`): `TypeCorrect`,
`SlotsNeverLeak`, `WaitersNeverLost` (together `LimiterIsConsistent`), `WakeUpNeverLost`, for every step
`GrantsRespectLimit`, `FirstComeFirstServed` and `SlotsNeverIdle`, and `LimiterIsAPool`: the limiter
implements `SlotPool`. The inductive invariant is

    IndInv == TypeOK /\ SeatMatchesTask /\ LineInv /\ SlotsAccounted /\ LineHeld

`SlotsAccounted` alone is not inductive: `release()` lowers `_active` by one, which is
right only if its caller is a holder, and a grant adds as many as the seats popped,
which is right only if the deque names nobody twice and no holder (`LineInv`) and a seat
belongs to a suspended caller (`SeatMatchesTask`). `LineHeld` (a line implies a slot out)
is what makes wake-ups impossible to lose, and needs that `_wake()` never stops at
`_active = 0`. Each action has a lemma; `NextInv` joins them. For the action properties,
`StepKinds` says that a step of the limiter is the fast path, moves no slot, or is one
`_wake()` of some count, and `StepProperties` treats these three cases.

The refinement rests on the same invariant. What `_wake()` pops is a front of the line and the
rest keeps its order (`WakeTakesFront`, `WakeKeepsOrder`); a seat is appended behind everybody
who still waits (`SeatIsLast`); taking a dead seat out moves nobody (`WithoutKeepsOrder`). So the
three outcomes of `acquire()` are `Enter`, a release is `GiveBack`, whoever gives up while it
waits is `Leave`, and the resumptions are unseen (`PoolStep`).

**`AdmissionProofs`**, the line (any finite set of jobs, any streams among them, any limits and any line):
`LineImplementsLimiter` (the tickets are one client of the limiter, so everything above holds
under them, `LineImplementsPool` included), `TicketsHold`, `CountersAreExact`,
`OccupancyIsBounded`, `GoneAreNotDecoded`, from

    TicketInv == IndInv /\ PhaseInv /\ CountInv

`PhaseInv` ties a ticket's phase to where its task is suspended in `acquire()` and to the place
it holds; without it nothing says that the slot handed back at the end of a phase was taken in
it. `CountInv` is the counters with the occupancy: admission compares with their sum, so the
bound needs that they are exact, and exactness needs the phases. Each half is kept by lemmas of
its own (`PhaseStep`, `CountStep`), which use `TaskMoves` for the limiter's part of a step.

**`SessionProofs`** (any finish requests, uploads and number of deaths). `RecordingKept` needs
types only. The other theorems have hypotheses, and the findings below show that the properties
are false without them:

- `ClaimsHold` (`SessionConsistent`) assumes `Serial`: one handler, or clients that wait for
  their answers. `ClaimInv` adds `OneOwner` (one job works, and a claim that nothing replaced is
  its own), `ClaimOwned` (a session in `transcribing` is the claim of the job that works) and
  `Orderly`.
- `ResultsAreFresh` (`NoStaleResult`) assumes `Serial` and one upload at a time. `FreshInv` adds
  that only its upload is in the temporary file and that what is on disk, what the claimant has
  heard and the normalized file are the recording the row names, stage by stage.
- `NoRecordingOutlivesItsRow` (`NoOrphanRecording`) and `ResultsStay` (`CompletedIsFinal`)
  assume orderly clients, whatever the number of handlers.

**`EngineLeasesProofs`** (any ids, any finite set of users): `LeaseTypeCorrect`, `BookIsExact`,
`ModelsNeverLeak`, `OffloadNotice` (with the first two, `LeasesAreConsistent`) and, for every step, `NeverUnloadedUnderARequest`, from

    LeaseInv == LeaseTypeOK /\ BookExact /\ LeasesKnown /\ NoModelLeak /\ OffloadNoticeHonest

`LeasesKnown` (a leased engine is the current one or a retired one) is what the reuse of
ids hangs on: an id given out again is no one's lease, so its count is 0.

**`CleanupProofs`** (any finite set of requests, any models and workers): `CleanupTypes`,
`CleanupAdmission`, `CleanupNoLeak`, `CleanupStatus` (without the leak, `CleanupIsConsistent`) and, for every step, `CleanupKeepsServer`, from

    CleanupInv == AdmissionInv /\ HostInv /\ stopped \in BOOLEAN

The two halves meet only in `TakesLease` and in the guards on `leases`, so each is preserved
by lemmas of its own. `HostInv` adds `LoadsOwned` to the checked invariants: only the current
worker's load can still spawn, or a cancelled start could leave a server nobody knows.
`AdmissionInv` adds `ServedLeased`: a runtime is held under a lease only, which is what turns
"no lease is counted" into "nobody is served".

**`ModelsPageProofs`** (any models and states they start in, any number of requests in flight):
`OneWriterPerModel`, `CancelIsHonoured`, `PollingStaysAlive`. The page touches the manager only
through the manager's own steps (`PageUsesGateway`), so the first two are proved of
`ModelDownloads` from

    DownloadsInv == DownloadsTypeOK /\ writers \in [Models -> Nat] /\ OneTask

where `OneTask` ties the handle, the await the task is at and the count of writers of each
model: a second start is refused only because the handle still says `downloading` whenever a
task is at work. `PollingAlive` is inductive with the types alone, step by step, because every
handler that could break the chain calls `ScheduleModelPoll`.

**`WebSessionProofs`** (any pages, ids, secrets): `SignInHolds` and, for every step,
`WorkingTokensStay`, from

    WebInv == StoreInv /\ SignInConsistent /\ OnlyKnown /\ RejectedForGood

`SecretsApart` (two tokens never share a secret, in memory, file or cache) is what makes "ended" a
fact about a secret: a digest that one token dropped is not another's. `RejectedForGood` is the
argument of the action property: a token that was rejected by a gateway that had written all its
changes has ended, and what has ended stays so.

**`TestPanelProofs`** (any clicks, background requests, options and configurations):
`OneRecorderOnly`, `PanelIsHonest`, `StartsAreReconciled`, from

    PanelInv == TestTypeOK /\ WorkInv /\ Reconciled

`WorkInv` says, for people who wait, that one click at a time is on its way to a recording or
back and owns recorder, interval and chunks (`OneInMotion`), and that at most one click is at home
in the shown panel, which says how far it has come (`HomeIsShown`): the button is enabled only if
that click has no answer to wait for, and that is why no second one starts. `Reconciled` holds
for hasty people too: it records, await by await, what a click whose answers nobody overtook
knows of the picker, and needs that a fallback does not move twice (`FallbackSettles`).

`ComparisonsAreHonest`, in the same module, is about texts of any length and any table of styled
words. It needs no invariant but two inductions from the ends of the texts (`FromTheEnd`). First
the recursive definitions have solutions at all (`RecursionSolves`, `TableExists`, `WalkExists`),
so that the `CHOOSE` behind a recursive function denotes one. Then, at every pair of places, no
alignment of what follows is longer than the table says (`TableBounds`: with two equal words an
alignment has one pair more than what lies behind both; with two different ones it uses one of
the words at most), and the walk finds one of that length (`WalkAligns`). An alignment uses a
place once (`AlignedPlaces`), so the count is 0 just when some alignment uses every new word.

**`FamilyGridProofs`** (any number of families, filters and widths with any positive number of
columns): `GridHolds`, `RowsStayIntact`, `ChromeStaysInStep` and, for every step,
`PanelsKeepOrder`. `GridTypeOK` with `ahead` a strict order of the panels behind one tile is
inductive, because `after()` keeps a line a line (`AfterKeepsLine`). The others rest on what one
run of the placement loop does: from any start, once the families `k..n` of the list are placed,
each stands behind the last tile of its row and they precede one another as their tiles do
(`LaidOut`), by induction on the rounds of the loop (`PlaceAllPlaces`), which go from the last
tile to the first. A family placed later lands in front of its row's panels (`AfterMovesOne`) or
in an earlier row (`RowsInOrder`). Hence the order is right even when it was wrong before.

Assumptions: the named `ASSUME`s on the constants, which TLC evaluates in the runs, and the
hypotheses above. Some say only that tags differ from data (`Junk \notin Secrets`, `Idle` and
`Sent` are no lists); `Pages # {}` says that there is a browser to ask for a token.

Only model-checked:

- Liveness (`EveryWaiterLeaves`, `TimeoutBoundsWait`, `ClaimEnds`, `RetiredCloses`, `LoadsEnd`,
  `RecordingEnds`, `ProgressEnds`, `AsksForToken`): it needs fairness and `ENABLED`, which the
  prover has no rules for.

Induction over data is done without an induction theorem that takes an operator: a nonempty set of
numbers has a least element (`NatLessThanWellFounded` with `WFMin`, here `Least`), and what is to
be shown is a set of numbers or of places (`UpTo`, `FromTheEnd`, `Rounds`).

## 6. Not modelled, and why

Status and reason of every part are in `PROJECT.json`. Within the modelled parts: the file
suffix of a recording (a re-upload in another container format leaves the first file
behind), the retention query (its delete is `Delete`), latency history, the resolver,
the residency of engines in child processes that die by themselves; in the page, dialogs,
theme, banner, copy buttons, the search inside filters, scroll positions and every number
on a bar or tile. Text heuristics, formatting, templates and constant data are out of scope.
Which of several requests htmx drops or queues is the library's; the modules let answers come
in any order.

## 7. Plan

In order of weight:

1. `DecodePipeline`: tickets over leases. A slot granted under one engine's limit may lease
   the engine that replaced it; does a single-decode engine then see two clips? Waiters hold
   no lease (`service.py:629-630`), streams lease before they ask for a slot.
2. `WhisperWorker` (`models/whisper_server.py`): start lock, cancelled start, reclaim.
3. `Readiness` (`readiness.py`) over `EngineLeases`.
4. `ChunkPacking` (`cleanup/chunks.py`, against a reference definition), `ResidentModel`,
   `Streaming`.

Theorems to add: the lemmas about counts, least elements and recursive functions that
`FamilyGridProofs` and `TestPanelProofs` both state, in one place.
