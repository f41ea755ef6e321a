----------------------------- MODULE SignSession -----------------------------
(***************************************************************************)
(* Signing sessions: the main-thread bus (sign-session-bus.ts) and the     *)
(* worker behind it (sign-session.worker.ts), one pair per member of       *)
(* Sessions, joined by two FIFO message channels.                          *)
(*                                                                         *)
(* The main thread is one event loop: a settled promise is consumed by its *)
(* awaiter before the next message or timer is handled (Quiet).  Workers   *)
(* run in parallel with it and with each other.  Timers may fire whenever  *)
(* they are armed; their durations are not modelled.                       *)
(***************************************************************************)
EXTENDS Naturals, Sequences, FiniteSets

CONSTANTS
  Sessions,     \* sessions openSignSession may create
  MaxRequests   \* bound on the signNext requests posted

ASSUME SessionAssumption == IsFiniteSet(Sessions) /\ MaxRequests \in Nat

VARIABLES
  \* the bus
  phase,     \* "none", "opening", "open", "wiping" (closed, awaiting the ack),
             \* "aborting" (open timed out, awaiting the ack), "failed" (never
             \* opened, worker terminated), "dead" (closed, worker terminated)
  inFlight,  \* request the signNext in flight waits for, 0 if none
  failure,   \* workerFailure recorded
  report,    \* SessionWipeOutcome of the teardown of an opened session
  call,      \* promise of openSignSession or signNext, as its caller sees it
  closing,   \* promise of closeAndWipe
  requests,  \* nextRequestId counter
  \* the worker
  alive, task, queue, key,
  \* the channels
  inbox, outbox

busVars     == <<phase, inFlight, failure, report, call, closing, requests>>
workerVars  == <<alive, task, queue, key, inbox>>
sessionBusVars == <<busVars, workerVars, outbox>>

Phases == {"none", "opening", "open", "wiping", "aborting", "failed", "dead"}

\* How a call can settle; "idle" and "pending" are the unsettled states.
Settlements == {"opened", "open_failed", "signed", "error", "review",
                "timeout", "worker_failed", "session_closed", "post_failed"}
FatalSettlements == {"timeout", "worker_failed", "session_closed", "post_failed"}

Msg(kind, req) == [kind |-> kind, req |-> req]
Requests == 0..MaxRequests
Messages == [kind : {"openSession", "signNext", "closeSession", "sessionOpened",
                     "sessionOpenError", "signResult", "signError",
                     "signNeedsReview", "sessionClosed", "errorEvent"},
             req : Requests]
Idle == Msg("idle", 0)

Settlement == [signResult |-> "signed", signError |-> "error",
               signNeedsReview |-> "review"]

SessionInit ==
  /\ phase    = [s \in Sessions |-> "none"]
  /\ inFlight = [s \in Sessions |-> 0]
  /\ failure  = [s \in Sessions |-> FALSE]
  /\ report   = [s \in Sessions |-> "none"]
  /\ call     = [s \in Sessions |-> "idle"]
  /\ closing  = [s \in Sessions |-> "idle"]
  /\ requests = 0
  /\ alive    = [s \in Sessions |-> FALSE]
  /\ task     = [s \in Sessions |-> Idle]
  /\ queue    = [s \in Sessions |-> <<>>]
  /\ key      = [s \in Sessions |-> "none"]
  /\ inbox    = [s \in Sessions |-> <<>>]
  /\ outbox   = [s \in Sessions |-> <<>>]

\* No promise is settled and unconsumed: the event loop may take a new event.
Quiet == \A s \in Sessions : call[s] \in {"idle", "pending"} /\ closing[s] # "done"

IsClosedLate(s) == phase[s] = "dead" \* mutant: `closed` is set after the teardown
IsClosed(s) == phase[s] \in {"wiping", "dead"}

IsUsableDeaf(s) == phase[s] = "open" \* mutant: workerFailure is not consulted
IsUsable(s) == phase[s] = "open" /\ ~failure[s]

SettleUncleaned(s, code) == \* mutant: cleanup() forgets inFlight
  /\ call' = IF inFlight[s] # 0 THEN [call EXCEPT ![s] = code] ELSE call
  /\ UNCHANGED inFlight

\* Settle the signature in flight, if any.
Settle(s, code) ==
  /\ inFlight' = [inFlight EXCEPT ![s] = 0]
  /\ call' = IF inFlight[s] # 0 THEN [call EXCEPT ![s] = code] ELSE call

-----------------------------------------------------------------------------
(* Calls of the client.                                                    *)

Post(s, m) == inbox' = [inbox EXCEPT ![s] = Append(@, m)]

OpenSignSession(s) ==
  /\ phase[s] = "none"
  /\ phase' = [phase EXCEPT ![s] = "opening"]
  /\ alive' = [alive EXCEPT ![s] = TRUE]
  /\ Post(s, Msg("openSession", 0))
  /\ call' = [call EXCEPT ![s] = "pending"]
  /\ UNCHANGED <<inFlight, failure, report, closing, requests, task, queue, key,
                 outbox>>

\* Every guard of signNext passes; postMessage may throw (post_failed).
SignNext(s) ==
  /\ call[s] = "idle" /\ inFlight[s] = 0 /\ IsUsable(s)
  /\ requests < MaxRequests
  /\ requests' = requests + 1
  /\ \/ /\ Post(s, Msg("signNext", requests'))
        /\ inFlight' = [inFlight EXCEPT ![s] = requests']
        /\ call' = [call EXCEPT ![s] = "pending"]
     \/ /\ call' = [call EXCEPT ![s] = "post_failed"]
        /\ UNCHANGED <<inbox, inFlight>>
  /\ UNCHANGED <<phase, failure, report, closing, alive, task, queue, key, outbox>>

\* signNext on a closed session, or on one whose worker failed, is rejected
\* with the cause and nothing is posted.
SignNextRejected(s) ==
  /\ call[s] = "idle"
  /\ \/ IsClosed(s) /\ call' = [call EXCEPT ![s] = "session_closed"]
     \/ /\ phase[s] = "open" /\ failure[s]
        /\ call' = [call EXCEPT ![s] = "worker_failed"]
  /\ UNCHANGED <<phase, inFlight, failure, report, closing, requests, workerVars,
                 outbox>>

\* worker.terminate(): its tasks and both channels are discarded.
Terminate(s, end) ==
  /\ phase'  = [phase EXCEPT ![s] = end]
  /\ alive'  = [alive EXCEPT ![s] = FALSE]
  /\ task'   = [task EXCEPT ![s] = Idle]
  /\ queue'  = [queue EXCEPT ![s] = <<>>]
  /\ inbox'  = [inbox EXCEPT ![s] = <<>>]
  /\ outbox' = [outbox EXCEPT ![s] = <<>>]
  /\ UNCHANGED <<key, failure, requests>>

\* close(): synchronous, so the posted closeSession dies with the worker.
Close(s) ==
  /\ phase[s] = "open"
  /\ Settle(s, "session_closed")
  /\ Terminate(s, "dead")
  /\ UNCHANGED <<report, closing>>

CloseAndWipe(s) ==
  /\ phase[s] = "open"
  /\ phase' = [phase EXCEPT ![s] = "wiping"]
  /\ Settle(s, "session_closed")
  /\ Post(s, Msg("closeSession", 0))
  /\ closing' = [closing EXCEPT ![s] = "pending"]
  /\ UNCHANGED <<failure, report, requests, alive, task, queue, key, outbox>>

-----------------------------------------------------------------------------
(* The bus: events of the main thread.                                     *)

\* finish of postCloseAndTerminate: whoever awaited the teardown goes on, a
\* closeAndWipe or a timed-out signNext not settled in the meantime.
Finish(s, outcome) ==
  /\ phase[s] = "wiping"
  /\ Terminate(s, "dead")
  /\ report' = [report EXCEPT ![s] = outcome]
  /\ closing' = IF closing[s] = "pending" THEN [closing EXCEPT ![s] = "done"]
                ELSE closing
  /\ Settle(s, "timeout")

\* openSignSession fails with the worker terminated on the spot.
OpenFailsNow(s) ==
  /\ phase[s] = "opening"
  /\ Terminate(s, "failed")
  /\ call' = [call EXCEPT ![s] = "open_failed"]
  /\ UNCHANGED <<inFlight, report, closing>>

\* The teardown that follows an open timeout; its promise is long settled.
FinishAborted(s) ==
  /\ phase[s] = "aborting"
  /\ Terminate(s, "failed")
  /\ UNCHANGED <<inFlight, report, call, closing>>

Take(s) == outbox' = [outbox EXCEPT ![s] = Tail(@)]

OnSessionOpened(s) ==
  /\ Head(outbox[s]).kind = "sessionOpened"
  /\ phase[s] = "opening"
  /\ phase' = [phase EXCEPT ![s] = "open"]
  /\ call' = [call EXCEPT ![s] = "opened"]
  /\ Take(s)
  /\ UNCHANGED <<inFlight, failure, report, closing, requests, workerVars>>

OnOpenError(s) == Head(outbox[s]).kind = "sessionOpenError" /\ OpenFailsNow(s)

OnClosedAck(s) == /\ Head(outbox[s]).kind = "sessionClosed"
                  /\ Finish(s, "wiped") \/ FinishAborted(s)

\* The per-call message listener: it stays installed until the call settles,
\* also while a timed-out call awaits the wipe.
OnAnswer(s) ==
  LET m == Head(outbox[s])
  IN  /\ m.kind \in DOMAIN Settlement
      /\ m.req = inFlight[s]
      /\ Settle(s, Settlement[m.kind])
      /\ Take(s)
      /\ UNCHANGED <<phase, failure, report, closing, requests, workerVars>>

\* An "error" event, or a "messageerror" in the place of any message.
OnWorkerFailure(s) ==
  \/ OpenFailsNow(s)
  \/ /\ phase[s] \in {"open", "wiping"}
     /\ failure' = [failure EXCEPT ![s] = TRUE]
     /\ Settle(s, "worker_failed")
     /\ Take(s)
     /\ UNCHANGED <<phase, report, closing, requests, workerVars>>

\* Nobody listens for it any more.
Ignored(s) ==
  LET m == Head(outbox[s])
  IN  /\ \/ m.kind \in DOMAIN Settlement /\ m.req # inFlight[s]
         \/ phase[s] = "aborting"
      /\ Take(s)
      /\ UNCHANGED <<busVars, workerVars>>

Deliver(s) ==
  /\ Quiet
  /\ outbox[s] # <<>>
  /\ \/ OnSessionOpened(s) \/ OnOpenError(s) \/ OnClosedAck(s) \/ OnAnswer(s)
     \/ OnWorkerFailure(s) \/ Ignored(s)

OpenTimer(s) ==
  /\ Quiet
  /\ phase[s] = "opening"
  /\ phase' = [phase EXCEPT ![s] = "aborting"]
  /\ call' = [call EXCEPT ![s] = "open_failed"]
  /\ Post(s, Msg("closeSession", 0))
  /\ UNCHANGED <<inFlight, failure, report, closing, requests, alive, task, queue,
                 key, outbox>>

\* The timer of the signature in flight: destroy() marks the session closed and
\* posts closeSession; the rejection waits for the teardown.
SignTimer(s) ==
  /\ Quiet
  /\ phase[s] = "open" /\ inFlight[s] # 0
  /\ phase' = [phase EXCEPT ![s] = "wiping"]
  /\ Post(s, Msg("closeSession", 0))
  /\ UNCHANGED <<inFlight, failure, report, call, closing, requests, alive, task,
                 queue, key, outbox>>

WipeTimerMissing(s) == FALSE \* mutant: the teardown waits for the ack alone

\* WIPE_ACK_TIMEOUT_MS without the ack, or a post that throws.
WipeTimer(s) == Quiet /\ (Finish(s, "unconfirmed") \/ FinishAborted(s))

-----------------------------------------------------------------------------
(* The worker.                                                             *)

Emit(s, m) == outbox' = [outbox EXCEPT ![s] = Append(@, m)]

WipedUnfilled(k) == IF k = "held" THEN "none" ELSE k \* mutant: dropped, not zeroed

\* wipeSession: the retained container is zeroed and dropped.
Wiped(k) == IF k = "held" THEN "wiped" ELSE k

\* The message listener: openSession and signNext are queued, closeSession is
\* handled on the spot, between two awaits of the running task.
Receive(s) ==
  /\ alive[s] /\ inbox[s] # <<>>
  /\ inbox' = [inbox EXCEPT ![s] = Tail(@)]
  /\ LET m == Head(inbox[s])
     IN  IF m.kind = "closeSession"
         THEN /\ key' = [key EXCEPT ![s] = Wiped(@)]
              /\ Emit(s, Msg("sessionClosed", 0))
              /\ UNCHANGED queue
         ELSE /\ queue' = [queue EXCEPT ![s] = Append(@, m)]
              /\ UNCHANGED <<key, outbox>>
  /\ UNCHANGED <<busVars, alive, task>>

\* The serial queue starts its next task; without a session, signNext is
\* answered at once.
StartTask(s) ==
  /\ alive[s] /\ task[s] = Idle /\ queue[s] # <<>>
  /\ queue' = [queue EXCEPT ![s] = Tail(@)]
  /\ LET m == Head(queue[s])
     IN  IF m.kind = "signNext" /\ key[s] # "held"
         THEN Emit(s, Msg("signError", m.req)) /\ UNCHANGED task
         ELSE task' = [task EXCEPT ![s] = m] /\ UNCHANGED outbox
  /\ UNCHANGED <<busVars, alive, key, inbox>>

\* parsePfx settles.
ParseEnds(s) ==
  /\ alive[s] /\ task[s].kind = "openSession"
  /\ task' = [task EXCEPT ![s] = Idle]
  /\ \/ key' = [key EXCEPT ![s] = "held"] /\ Emit(s, Msg("sessionOpened", 0))
     \/ Emit(s, Msg("sessionOpenError", 0)) /\ UNCHANGED key
  /\ UNCHANGED <<busVars, alive, queue, inbox>>

\* The signature ends, signed or not.  It captured the parsed container when it
\* began, so a wipe in the middle decides nothing by itself.
SignEnds(s) ==
  /\ alive[s] /\ task[s].kind = "signNext"
  /\ task' = [task EXCEPT ![s] = Idle]
  /\ \E kind \in DOMAIN Settlement : Emit(s, Msg(kind, task[s].req))
  /\ UNCHANGED <<busVars, alive, queue, key, inbox>>

\* An uncaught error: the event is dispatched, the thread goes on.  (Bound: one
\* undelivered error event per worker.)
Crash(s) ==
  /\ alive[s]
  /\ \A n \in DOMAIN outbox[s] : outbox[s][n].kind # "errorEvent"
  /\ Emit(s, Msg("errorEvent", 0))
  /\ UNCHANGED <<busVars, workerVars>>

Worker(s) == Receive(s) \/ StartTask(s) \/ ParseEnds(s) \/ SignEnds(s) \/ Crash(s)
Timer(s)  == OpenTimer(s) \/ SignTimer(s) \/ WipeTimer(s)
=============================================================================
