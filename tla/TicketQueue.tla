---------------------------- MODULE TicketQueue ----------------------------
(***************************************************************************)
(* The line in front of the engine: _Ticket of app/service.py on top of    *)
(* the decode limiter and the counters of app/metrics.py.                  *)
(*                                                                         *)
(* A batch job (a session's finish, a one-shot upload) takes a ticket on   *)
(* arrival, runs FFmpeg under the ticket's deadline, asks the limiter for  *)
(* a slot, checks once more that its client is there, and decodes.  A live *)
(* stream asks for a free slot or is refused.  The deadline may pass and   *)
(* the client may hang up at any moment; both reach a suspended job as a   *)
(* cancellation, delivered when the event loop next runs it.               *)
(***************************************************************************)
EXTENDS DecodeLimiter

CONSTANTS Streams,   (* the jobs that are live streams: occupy_slot(wait=False) *)
          Leavers,   (* bound: the batch jobs whose clients may hang up         *)
          MaxQueued  (* maximum_queued_transcriptions                           *)

ASSUME StreamsAssumption == Streams \subseteq Jobs
ASSUME LeaversAssumption == Leavers \subseteq Jobs \ Streams
ASSUME MaxQueuedAssumption == MaxQueued \in Nat

VARIABLES
  phase,      (* how far each job has come                          *)
  inLine,     (* _in_line of its ticket                             *)
  gone,       (* jobs whose client has hung up                      *)
  end,        (* how the job ends, known from when it is decided on *)
  queueDepth, (* _queue_depth                                       *)
  running,    (* _active_transcriptions                             *)
  rejected    (* _rejected_transcriptions                           *)

counters == <<queueDepth, running, rejected>>
ticketVars == <<phase, inLine, gone, end, counters>>
allVars == <<vars, ticketVars>>

Batch == Jobs \ Streams

Phases == {"new", "normalizing", "probing", "acquiring", "confirming", "decoding", "done"}
Ends == {"none", "refused", "gone", "cancelled", "failed", "decoded"}

TicketTypeOK ==
  /\ TypeOK
  /\ phase \in [Jobs -> Phases]
  /\ inLine \in [Jobs -> BOOLEAN]
  /\ gone \in SUBSET Batch
  /\ end \in [Jobs -> Ends]
  /\ queueDepth \in Nat /\ running \in Nat /\ rejected \in Nat

TicketInit ==
  /\ Init
  /\ phase = [j \in Jobs |-> "new"]
  /\ inLine = [j \in Jobs |-> FALSE]
  /\ gone = {}
  /\ end = [j \in Jobs |-> "none"]
  /\ queueDepth = 0 /\ running = 0 /\ rejected = 0

Goto(j, p) == phase' = [phase EXCEPT ![j] = p]
EndAs(j, e) == end' = [end EXCEPT ![j] = e]

-----------------------------------------------------------------------------
(* The counters of RuntimeMetrics. *)

(* Mutant of OfferQueue: the jobs that decode are not counted. *)
OfferIgnoresRunning == queueDepth < limit + MaxQueued

OfferQueue == queueDepth + running < limit + MaxQueued

Lowered(n) == IF n > 0 THEN n - 1 ELSE 0

(* _leave(): a ticket in line gives its place back; the refusal is counted   *)
(* either way.                                                               *)
LeaveTicket(j, refused) ==
  /\ inLine' = [inLine EXCEPT ![j] = FALSE]
  /\ queueDepth' = IF inLine[j] THEN Lowered(queueDepth) ELSE queueDepth
  /\ rejected' = IF refused THEN rejected + 1 ELSE rejected

(* The ticket is left with its verdict and the job is over. *)
Finish(j, e) ==
  /\ Goto(j, "done")
  /\ EndAs(j, e)
  /\ LeaveTicket(j, e = "refused")

(* Mutant of StartDecode: started() without its `queued' argument. *)
StartStaysQueued(j) ==
  /\ Goto(j, "decoding")
  /\ inLine' = [inLine EXCEPT ![j] = FALSE]
  /\ running' = running + 1
  /\ UNCHANGED <<queueDepth, rejected>>

(* metrics.started(queued=self._in_line), the last step of take_slot(). *)
StartDecode(j) ==
  /\ Goto(j, "decoding")
  /\ inLine' = [inLine EXCEPT ![j] = FALSE]
  /\ queueDepth' = IF inLine[j] THEN Lowered(queueDepth) ELSE queueDepth
  /\ running' = running + 1
  /\ UNCHANGED rejected

-----------------------------------------------------------------------------
(* Arrival. *)

TakeTicket(j) ==
  /\ phase[j] = "new" /\ j \in Batch
  /\ IF OfferQueue
     THEN /\ Goto(j, "normalizing")
          /\ inLine' = [inLine EXCEPT ![j] = TRUE]
          /\ queueDepth' = queueDepth + 1
          /\ UNCHANGED <<end, rejected>>
     ELSE /\ Goto(j, "done")
          /\ EndAs(j, "refused")
          /\ rejected' = rejected + 1
          /\ UNCHANGED <<inLine, queueDepth>>
  /\ UNCHANGED <<vars, gone, running>>

(* The client of a batch job drops its connection. *)
HangUp(j) ==
  /\ j \in Leavers \ gone
  /\ phase[j] \notin {"new", "done"}
  /\ gone' = gone \cup {j}
  /\ UNCHANGED <<vars, phase, inLine, end, counters>>

-----------------------------------------------------------------------------
(* before_decode(): FFmpeg, bounded by the deadline and the client.         *)

Normalized(j) ==
  /\ phase[j] = "normalizing" /\ j \notin gone
  /\ Goto(j, "probing")
  /\ UNCHANGED <<vars, inLine, gone, end, counters>>

(* FFmpeg fails, the deadline passes, the client is found gone, or the       *)
(* handler is cancelled by a shutdown.                                       *)
NormalizeEnds(j, e) ==
  /\ phase[j] = "normalizing"
  /\ e = "gone" => j \in gone
  /\ Finish(j, e)
  /\ UNCHANGED <<vars, gone, running>>

-----------------------------------------------------------------------------
(* take_slot(). *)

ProbeGone(j) ==
  /\ phase[j] = "probing"
  /\ \/ j \in gone /\ Finish(j, "gone")
     \/ Finish(j, "cancelled")
  /\ UNCHANGED <<vars, gone, running>>

(* acquire() is entered when the probe has answered; a stream takes no place  *)
(* in line and has no client to probe.                                       *)
Asking(j) ==
  \/ phase[j] = "probing" /\ j \notin gone
  \/ phase[j] = "new" /\ j \in Streams

TicketAcquires(j) ==
  /\ Asking(j)
  /\ AcquireNow(j) \/ (j \in Batch /\ TakeSeat(j))
  /\ Goto(j, "acquiring")
  /\ UNCHANGED <<inLine, gone, end, counters>>

(* No room and no budget left: TimeoutError, counted as a refusal. *)
TicketRefused(j) ==
  /\ Asking(j)
  /\ AcquireRefused(j)
  /\ Finish(j, "refused")
  /\ UNCHANGED <<gone, running>>

(* Mutant of StopWaiting: acquire() waits without a timeout. *)
WaitsForEver(j, e) ==
  /\ phase[j] = "acquiring"
  /\ e = "cancelled" \/ (e = "gone" /\ j \in gone)
  /\ GiveUp(j)
  /\ EndAs(j, e)
  /\ UNCHANGED <<phase, inLine, gone, counters>>

(* The timeout, the disconnect watcher or a shutdown cancels the waiter.     *)
(* The watcher outranks a timeout that fired in the same tick.               *)
StopWaiting(j, e) ==
  /\ phase[j] = "acquiring"
  /\ e = "refused" => task[j] = "seated"
  /\ e = "gone" => j \in gone
  /\ GiveUp(j)
  /\ EndAs(j, e)
  /\ UNCHANGED <<phase, inLine, gone, counters>>

GoneWins(j) ==
  /\ phase[j] = "acquiring" /\ j \in gone \cap stopping
  /\ end[j] # "gone"
  /\ EndAs(j, "gone")
  /\ UNCHANGED <<vars, phase, inLine, gone, counters>>

(* The waiter runs with its cancellation: the limiter takes the slot or the  *)
(* seat back and the ticket is left.                                         *)
Stopped(j) ==
  /\ phase[j] = "acquiring"
  /\ ResumeCancelled(j) \/ LeaveLine(j)
  /\ Finish(j, end[j])
  /\ UNCHANGED <<gone, running>>

(* With its slot the job probes its client again; a stream starts at once.   *)
Granted(j) ==
  /\ phase[j] = "acquiring"
  /\ Resume(j)
  /\ IF j \in Streams
     THEN StartDecode(j)
     ELSE Goto(j, "confirming") /\ UNCHANGED <<inLine, counters>>
  /\ UNCHANGED <<gone, end>>

(* Mutant of Confirm: no second look at the client after the wait. *)
ConfirmBlindly(j) ==
  /\ phase[j] = "confirming"
  /\ StartDecode(j)
  /\ UNCHANGED <<vars, gone, end>>

Confirm(j) ==
  /\ phase[j] = "confirming" /\ j \notin gone
  /\ StartDecode(j)
  /\ UNCHANGED <<vars, gone, end>>

(* Mutant of ConfirmGone: held=False, so that the slot is not released. *)
ConfirmKeepsSlot(j) ==
  /\ phase[j] = "confirming" /\ j \in gone
  /\ Finish(j, "gone")
  /\ UNCHANGED <<vars, gone, running>>

(* _abandon_if_gone(held=True): the grant of a job that will not decode, or  *)
(* whose probe was cancelled, is given back before its ticket.               *)
ConfirmGone(j) ==
  /\ phase[j] = "confirming"
  /\ Release(j)
  /\ \/ j \in gone /\ Finish(j, "gone")
     \/ Finish(j, "cancelled")
  /\ UNCHANGED <<gone, running>>

(* The decode returns, fails or is cancelled: decode_slot() releases.        *)
DecodeEnds(j, e) ==
  /\ phase[j] = "decoding"
  /\ Release(j)
  /\ Finish(j, e)
  /\ running' = Lowered(running)
  /\ UNCHANGED gone

SwapEngine == Swap /\ UNCHANGED ticketVars

TicketStep(j) ==
  \/ TakeTicket(j) \/ Normalized(j) \/ ProbeGone(j)
  \/ \E e \in {"failed", "refused", "gone", "cancelled"} : NormalizeEnds(j, e)
  \/ TicketAcquires(j) \/ TicketRefused(j)
  \/ \E e \in {"refused", "gone", "cancelled"} : StopWaiting(j, e)
  \/ GoneWins(j) \/ Stopped(j) \/ Granted(j) \/ Confirm(j) \/ ConfirmGone(j)
  \/ \E e \in {"decoded", "failed", "cancelled"} : DecodeEnds(j, e)
  \/ HangUp(j)

TicketNext == SwapEngine \/ \E j \in Jobs : TicketStep(j)

TicketSpec == TicketInit /\ [][TicketNext]_allVars

(* The deadline of every ticket passes and the event loop runs what is ready *)
(* (asyncio timers and callbacks).  FFmpeg and decodes may take for ever.    *)
TimerFairness ==
  \A j \in Jobs :
    /\ WF_allVars(NormalizeEnds(j, "refused"))
    /\ WF_allVars(ProbeGone(j) \/ TicketAcquires(j) \/ TicketRefused(j))
    /\ WF_allVars(StopWaiting(j, "refused"))
    /\ WF_allVars(Stopped(j) \/ Granted(j))
    /\ WF_allVars(Confirm(j) \/ ConfirmGone(j))

TimedSpec == TicketSpec /\ TimerFairness

-----------------------------------------------------------------------------
(* Properties.                                                              *)

In(phases) == {j \in Jobs : phase[j] \in phases}

(* The status page's numbers are the truth in every state: the queue depth   *)
(* counts the tickets in line, the active count the jobs that decode, and a  *)
(* refusal is counted once, however it came about.                           *)
CountersExact ==
  /\ queueDepth = Cardinality({j \in Jobs : inLine[j]})
  /\ running = Cardinality(In({"decoding"}))
  /\ rejected = Cardinality({j \in In({"done"}) : end[j] = "refused"})

(* A place in line is held from arrival to the start of the decode and given *)
(* back on every way out: refusal, timeout, hang-up, failure, shutdown.      *)
PlaceMatchesPhase ==
  \A j \in Jobs :
    inLine[j] <=>
      j \in Batch /\ phase[j] \in {"normalizing", "probing", "acquiring", "confirming"}

(* The slots out are those of the jobs that decode, that confirm their       *)
(* client, or that have been granted one and not yet run: leaving the ticket *)
(* by any way returns the slot once.                                         *)
SlotsOwned ==
  active = Cardinality(In({"confirming", "decoding"}))
             + Cardinality({j \in In({"acquiring"}) : task[j] = "checkpoint" \/ seat[j] = "granted"})

(* Types, places and slots of all tickets together.                          *)
TicketsConsistent == TicketTypeOK /\ PlaceMatchesPhase /\ SlotsOwned

(* In-flight work and waiters of the batch endpoints never exceed the slots  *)
(* of the roomiest engine plus the configured line.                          *)
OccupancyBound ==
  queueDepth + Cardinality(In({"decoding"}) \cap Batch) <= MaxLimit + MaxQueued

(* A client that hung up before the decode began is never decoded for.       *)
NeverDecodesForTheGone ==
  [][\A j \in Batch : phase'[j] = "decoding" /\ phase[j] # "decoding" => j \notin gone]_allVars

(* The queue timeout bounds the wait: whoever is in line leaves it, even if  *)
(* FFmpeg hangs or no decode ever ends.                                      *)
TimeoutBoundsWait == \A j \in Jobs : inLine[j] ~> ~inLine[j]

=============================================================================
