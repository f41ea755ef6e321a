---------------------------- MODULE BatchSigning ----------------------------
(***************************************************************************)
(* The batch signer as it runs: runBatchSign (BatchQueue) awaiting the     *)
(* calls of real sessions (SignSession), each with its own worker.         *)
(*                                                                         *)
(* The queue and every bus share the main thread.  What the code does in   *)
(* one turn of the event loop - a promise settles, its awaiter runs up to  *)
(* its next await - is a few steps here during which the main thread takes *)
(* no other event (Free), while the workers go on.                         *)
(***************************************************************************)
EXTENDS BatchQueue, SignSession

ASSUME CompositionAssumption ==
  /\ Sessions = SessionIds
  /\ MaxRequests >= N * MaxAttempts

vars == <<queueVars, sessionBusVars>>

Init == QueueInit /\ SessionInit

Opening == reopensUsed + 1   \* the session openSignSession is called for

MustOpen  == pc \in {"opening", "reopening"} /\ phase[Opening] = "none"
MustClose == pc \in {"closing", "unwinding"} /\ phase[session] = "open"

Free == Quiet /\ pc # "loop" /\ ~MustOpen /\ ~MustClose

-----------------------------------------------------------------------------
(* The queue calls a session.                                              *)

StartOpen  == MustOpen /\ OpenSignSession(Opening) /\ UNCHANGED queueVars
StartClose == MustClose /\ CloseAndWipe(session) /\ UNCHANGED queueVars

\* The file has been read: signNext.
CallSession ==
  /\ pc = "read" /\ Free
  /\ \/ SignNext(session)
     \/ SignNextRejected(session)
  /\ IF call'[session] = "pending" THEN CallSignNext ELSE UNCHANGED queueVars

-----------------------------------------------------------------------------
(* A promise of a session settled and the queue goes on.                   *)

Consumed(s) ==
  /\ call' = [call EXCEPT ![s] = "idle"]
  /\ UNCHANGED <<phase, inFlight, failure, report, closing, requests,
                 workerVars, outbox>>

OnOpened ==
  /\ pc \in {"opening", "reopening"}
  /\ call[Opening] = "opened"
  /\ OpenSucceeds \/ ReopenSucceeds
  /\ Consumed(Opening)

OnOpenFailed ==
  /\ pc \in {"opening", "reopening"}
  /\ call[Opening] = "open_failed"
  /\ OpenFails \/ ReopenFails
  /\ Consumed(Opening)

OnSigned ==
  /\ pc = "signing"
  /\ call[session] = "signed"
  /\ \E r \in ResultsNow : ResolvedRetry(r) \/ ResolvedFinal(r)
  /\ Consumed(session)

OnRejected ==
  /\ pc = "signing"
  /\ \/ call[session] = "error" /\ RejectedDocument("failed")
     \/ call[session] = "review" /\ RejectedDocument("needs_review")
  /\ Consumed(session)

OnFatal ==
  /\ pc \in {"read", "signing"}
  /\ call[session] \in FatalSettlements
  /\ RejectedFatal(IsClosed(session))
  /\ Consumed(session)

OnWiped ==
  /\ pc \in {"closing", "unwinding"}
  /\ closing[session] = "done"
  /\ PreviousClosed \/ SessionClosedOnExit
  /\ closing' = [closing EXCEPT ![session] = "idle"]
  /\ UNCHANGED <<phase, inFlight, failure, report, call, requests, workerVars,
                 outbox>>

Continue == OnOpened \/ OnOpenFailed \/ OnSigned \/ OnRejected \/ OnFatal \/ OnWiped

-----------------------------------------------------------------------------
(* Steps of the queue that no session takes part in.                       *)

Loop ==
  /\ \/ Cancel \/ SkipUndelivered \/ SkipSessionless \/ Begin
     \/ pc = "loop" /\ LoopEnds(IsClosed(session))
  /\ UNCHANGED sessionBusVars

Event ==
  /\ Free
  /\ \/ ReadFails \/ BackoffEnds \/ Delivered
     \/ \E full \in BOOLEAN : DeliveryFails(full)
  /\ UNCHANGED sessionBusVars

Stop == Abort /\ Free /\ UNCHANGED sessionBusVars

CallbackThrows ==
  /\ pc \in {"read", "loop"} /\ Quiet
  /\ UpdateThrows(IsClosed(session))
  /\ UNCHANGED sessionBusVars

Queue == StartOpen \/ StartClose \/ CallSession \/ Continue \/ Loop \/ Event

Bus(s) == pc # "loop" /\ ~MustOpen /\ ~MustClose /\ Timer(s)
Message(s) == Free /\ Deliver(s)

Next ==
  \/ Queue \/ Stop \/ CallbackThrows
  \/ \E s \in Sessions :
       (Bus(s) \/ Message(s) \/ Worker(s)) /\ UNCHANGED queueVars

Spec == /\ Init /\ [][Next]_vars
        /\ WF_vars(Queue)
        /\ \A s \in Sessions : WF_vars(Bus(s) /\ UNCHANGED queueVars)

-----------------------------------------------------------------------------
\* What the queue may assume of each session, read off the bus.
SessionState(s) ==
  CASE phase[s] \in {"none", "opening"} -> "unopened"
    [] phase[s] = "open" -> IF s = session /\ MustClose THEN "closing"
                            ELSE IF failure[s] THEN "broken" ELSE "live"
    [] phase[s] \in {"wiping", "aborting"} -> "closing"
    [] phase[s] \in {"failed", "dead"} -> "closed"

Contract == INSTANCE SignQueue WITH sess <- [s \in SessionIds |-> SessionState(s)]

\* The bus and the worker keep the contract the queue is verified against, so
\* every safety property shown of SignQueue holds of the real thing.
KeepsContract == Contract!Safety

\* The document in hand is signed by the session the queue holds, and by no
\* other: the call it awaits is pending there and nowhere else.
OneSignatureInFlight ==
  \A s \in Sessions :
    inFlight[s] # 0 => s = session /\ pc = "signing" /\ call[s] = "pending"

\* Two workers are alive together only while the older one is being torn down,
\* a wait its own timer bounds (D2, sign-queue.ts:776-796).
OnlyTeardownsOverlap ==
  \A s \in Sessions :
    alive[s] => s = Opening \/ s = session \/ phase[s] \in {"wiping", "aborting"}

\* One worker signs, and the queue knows which.
OneWorkerSigns == OneSignatureInFlight /\ OnlyTeardownsOverlap

-----------------------------------------------------------------------------
(* What the queue may conclude about the sessions it does not see.         *)

InOpen == pc \in {"opening", "reopening"}
InHand == pc \in {"read", "signing", "backoff", "delivering"}

\* What a promise that has settled says of its session until its awaiter goes on.
SettledInv(s) ==
  /\ call[s] = "opened" => phase[s] = "open"
  /\ call[s] = "open_failed" => phase[s] \in {"aborting", "failed"}
  /\ call[s] \in {"signed", "error", "review"} =>
       phase[s] \in {"open", "wiping"} /\ ~failure[s]
  /\ call[s] = "worker_failed" => failure[s]
  /\ call[s] = "session_closed" => phase[s] \in {"wiping", "dead"}
  /\ closing[s] = "done" => phase[s] = "dead"
  /\ failure[s] => inFlight[s] = 0 /\ phase[s] \notin {"none", "opening"}

\* Which promise the queue awaits, of which session.
AwaitInv(s) ==
  /\ call[s] # "idle" =>
       \/ InOpen /\ s = Opening /\ call[s] \in {"pending", "opened", "open_failed"}
       \/ pc = "read" /\ s = session /\ call[s] \in FatalSettlements
       \/ /\ pc = "signing" /\ s = session
          /\ call[s] \in {"pending", "signed", "error", "review", "timeout", "worker_failed"}
  /\ closing[s] # "idle" => pc \in {"closing", "unwinding"} /\ s = session

\* How far each session of the batch has come.
ProgressInv(s) ==
  /\ s > Opening \/ (s = Opening /\ pc = "closing") => phase[s] = "none"
  /\ phase[s] = "opening" => InOpen /\ s = Opening
  /\ phase[s] = "open" => s = session \/ (InOpen /\ s = Opening /\ call[s] = "opened")
  /\ s = session => phase[s] \in {"open", "wiping", "dead"}
  /\ s = session /\ pc = "reopening" => phase[s] \in {"wiping", "dead"}

\* Which session `session` is.
CursorInv ==
  /\ reopensUsed \in 0..MaxReopens
  /\ session \in 0..Opening
  /\ pc = "opening" => session = 0 /\ reopensUsed = 0
  /\ session = 0 => pc \in {"opening", "exited"}
  /\ pc \in {"closing", "reopening"} => session < Opening
  /\ InHand => ~sessionDead
  /\ (InHand \/ pc = "loop") /\ ~sessionDead => session = Opening

\* The queue and its sessions: one worker signs, and why.
SigningInv ==
  /\ OneWorkerSigns /\ CursorInv
  /\ \A s \in Sessions : SettledInv(s) /\ AwaitInv(s) /\ ProgressInv(s)

-----------------------------------------------------------------------------
\* Said of the code but not kept by it (README, section 5).

\* "the batch queue must not start the next document while the old worker is
\* still alive" (sign-session-bus.ts:546-548).
NextWaitsForOldWorker ==
  (pc = "read" /\ attempt = 0) =>
    \A s \in Sessions : alive[s] => s = session /\ phase[s] = "open"
=============================================================================
