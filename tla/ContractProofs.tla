---------------------------- MODULE ContractProofs ----------------------------
(***************************************************************************)
(* The batch signer over real sessions implements the queue over the       *)
(* contract it was verified against (KeepsContract), for any number of     *)
(* documents and reopenings: every step of a bus or of a worker is a step  *)
(* the contract allows a session, or none.                                 *)
(***************************************************************************)
EXTENDS BatchSigning, SessionProofs

USE BatchAssumption, CompositionAssumption, SessionAssumption DEF Phases, Settlements

-----------------------------------------------------------------------------
(* What the steps of a session look like from outside.                     *)

\* Session t is the only one whose bus changes.
OnlyAt(t) ==
  \A s \in Sessions \ {t} :
    /\ phase'[s] = phase[s] /\ inFlight'[s] = inFlight[s] /\ failure'[s] = failure[s]
    /\ call'[s] = call[s] /\ closing'[s] = closing[s]

\* The sign timer fired: the wipe is under way, the call still pending.
BeginsWipe(t) ==
  /\ phase[t] = "open" /\ inFlight[t] # 0 /\ phase'[t] = "wiping"
  /\ inFlight'[t] = inFlight[t] /\ failure'[t] = failure[t]
  /\ call'[t] = call[t] /\ closing'[t] = closing[t]

\* The worker of a closed session is terminated.
EndsWipe(t) ==
  /\ phase[t] = "wiping" /\ phase'[t] = "dead" /\ failure'[t] = failure[t]
  /\ inFlight'[t] = 0
  /\ call'[t] = IF inFlight[t] # 0 THEN "timeout" ELSE call[t]
  /\ closing'[t] = IF closing[t] = "pending" THEN "done" ELSE closing[t]

\* The worker of a session that never opened is terminated.
EndsAbort(t) ==
  /\ phase[t] = "aborting" /\ phase'[t] = "failed"
  /\ inFlight'[t] = inFlight[t] /\ failure'[t] = failure[t]
  /\ call'[t] = call[t] /\ closing'[t] = closing[t]

\* openSignSession settles.
EndsOpening(t) ==
  /\ phase[t] = "opening"
  /\ \/ phase'[t] = "open" /\ call'[t] = "opened"
     \/ phase'[t] \in {"aborting", "failed"} /\ call'[t] = "open_failed"
  /\ inFlight'[t] = inFlight[t] /\ failure'[t] = failure[t] /\ closing'[t] = closing[t]

\* The worker answers: the call in flight, if it is the one, settles.
Answers(t) ==
  /\ inFlight'[t] = 0 /\ phase'[t] = phase[t] /\ failure'[t] = failure[t]
  /\ closing'[t] = closing[t]
  /\ \/ inFlight[t] # 0 /\ call'[t] \in {"signed", "error", "review"}
     \/ inFlight[t] = 0 /\ call'[t] = call[t]

\* The failure of the worker is recorded, and ends the call in flight.
Fails(t) ==
  /\ phase[t] \in {"open", "wiping"} /\ phase'[t] = phase[t]
  /\ failure'[t] = TRUE /\ inFlight'[t] = 0 /\ closing'[t] = closing[t]
  /\ call'[t] = IF inFlight[t] # 0 THEN "worker_failed" ELSE call[t]

\* Nothing the callers of the session could notice.
Silent == UNCHANGED <<phase, inFlight, failure, call, closing>>

LEMMA TerminateMoves ==
  ASSUME BusInd, NEW t \in Sessions, NEW end \in Phases, Terminate(t, end)
  PROVE  /\ phase'[t] = end /\ failure' = failure
         /\ \A s \in Sessions \ {t} : phase'[s] = phase[s]
  BY DEF BusInd, SessionTypeOK, Terminate

LEMMA FinishMoves ==
  ASSUME BusInd, NEW t \in Sessions, NEW result, Finish(t, result)
  PROVE  OnlyAt(t) /\ EndsWipe(t)
  <1>1. Settled(t, "timeout")
    BY Settling DEF Finish
  <1>2. /\ phase'[t] = "dead" /\ failure' = failure
        /\ \A s \in Sessions \ {t} : phase'[s] = phase[s]
    BY TerminateMoves DEF Finish
  <1>3. /\ closing'[t] = IF closing[t] = "pending" THEN "done" ELSE closing[t]
        /\ \A s \in Sessions \ {t} : closing'[s] = closing[s]
    BY DEF Finish, BusInd, SessionTypeOK
  <1> QED
    BY <1>1, <1>2, <1>3 DEF OnlyAt, EndsWipe, Settled, Finish

LEMMA FinishAbortedMoves ==
  ASSUME BusInd, NEW t \in Sessions, FinishAborted(t)
  PROVE  OnlyAt(t) /\ EndsAbort(t)
  BY TerminateMoves DEF FinishAborted, OnlyAt, EndsAbort

LEMMA OpenFailsMoves ==
  ASSUME BusInd, NEW t \in Sessions, OpenFailsNow(t)
  PROVE  OnlyAt(t) /\ EndsOpening(t)
  BY TerminateMoves DEF OpenFailsNow, OnlyAt, EndsOpening, BusInd, SessionTypeOK

\* A timer of the bus.
LEMMA TimerMoves ==
  ASSUME BusInd, NEW t \in Sessions, Timer(t)
  PROVE  OnlyAt(t) /\ (EndsOpening(t) \/ BeginsWipe(t) \/ EndsWipe(t) \/ EndsAbort(t))
  <1>1. CASE WipeTimer(t)
    BY <1>1, FinishMoves, FinishAbortedMoves DEF WipeTimer
  <1>2. CASE OpenTimer(t)
    BY <1>2 DEF OpenTimer, OnlyAt, EndsOpening, BusInd, SessionTypeOK
  <1>3. CASE SignTimer(t)
    BY <1>3 DEF SignTimer, OnlyAt, BeginsWipe, BusInd, SessionTypeOK
  <1> QED
    BY <1>1, <1>2, <1>3 DEF Timer

\* A message of the worker, or an event in its place.
LEMMA DeliverMoves ==
  ASSUME BusInd, NEW t \in Sessions, Deliver(t)
  PROVE  OnlyAt(t) /\ \/ EndsOpening(t) \/ EndsWipe(t) \/ EndsAbort(t)
                      \/ Answers(t) \/ Fails(t) \/ Silent
  <1>1. CASE OnSessionOpened(t)
    BY <1>1 DEF OnSessionOpened, OnlyAt, EndsOpening, BusInd, SessionTypeOK
  <1>2. CASE OnOpenError(t)
    BY <1>2, OpenFailsMoves DEF OnOpenError
  <1>3. CASE OnClosedAck(t)
    BY <1>3, FinishMoves, FinishAbortedMoves DEF OnClosedAck
  <1>4. CASE OnAnswer(t)
    <2> DEFINE code == Settlement[Head(outbox[t]).kind]
    <2>1. code \in {"signed", "error", "review"} /\ Settle(t, code)
      BY <1>4, AnswersOnly DEF OnAnswer
    <2>2. Settled(t, code)
      BY <2>1, Settling
    <2> QED
      BY <1>4, <2>1, <2>2 DEF OnAnswer, OnlyAt, Answers, Settled
  <1>5. CASE OnWorkerFailure(t)
    <2>1. CASE OpenFailsNow(t)
      BY <2>1, OpenFailsMoves
    <2>2. CASE ~OpenFailsNow(t)
      <3>1. Settled(t, "worker_failed")
        BY <1>5, <2>2, Settling DEF OnWorkerFailure
      <3> QED
        BY <1>5, <2>2, <3>1 DEF OnWorkerFailure, OnlyAt, Fails, Settled, BusInd, SessionTypeOK
    <2> QED
      BY <2>1, <2>2
  <1>6. CASE Ignored(t)
    BY <1>6 DEF Ignored, busVars, OnlyAt, Silent
  <1> QED
    BY <1>1, <1>2, <1>3, <1>4, <1>5, <1>6 DEF Deliver

\* The worker changes nothing of the bus.
LEMMA WorkerMoves ==
  ASSUME NEW t \in Sessions, Worker(t) PROVE Silent
  BY DEF Worker, Receive, StartTask, ParseEnds, SignEnds, Crash, busVars, Silent

\* The calls of the queue.
LEMMA ClientMoves ==
  ASSUME BusInd, NEW t \in Sessions
  PROVE  /\ OpenSignSession(t) =>
              /\ OnlyAt(t) /\ phase[t] = "none" /\ phase'[t] = "opening" /\ call'[t] = "pending"
              /\ inFlight'[t] = inFlight[t] /\ failure'[t] = failure[t]
              /\ closing'[t] = closing[t]
         /\ CloseAndWipe(t) /\ inFlight[t] = 0 =>
              /\ OnlyAt(t) /\ phase[t] = "open" /\ phase'[t] = "wiping"
              /\ closing'[t] = "pending" /\ call'[t] = call[t]
              /\ inFlight'[t] = inFlight[t] /\ failure'[t] = failure[t]
         /\ SignNext(t) \/ SignNextRejected(t) =>
              /\ OnlyAt(t) /\ call[t] = "idle"
              /\ phase' = phase /\ failure' = failure /\ closing' = closing
              /\ \/ /\ phase[t] = "open" /\ ~failure[t] /\ inFlight'[t] # 0
                    /\ call'[t] = "pending"
                 \/ /\ inFlight'[t] = inFlight[t]
                    /\ \/ phase[t] = "open" /\ call'[t] = "post_failed"
                       \/ IsClosed(t) /\ call'[t] = "session_closed"
                       \/ phase[t] = "open" /\ failure[t] /\ call'[t] = "worker_failed"
  <1> USE DEF BusInd, SessionTypeOK, OnlyAt
  <1>1. ASSUME OpenSignSession(t)
        PROVE  /\ OnlyAt(t) /\ phase[t] = "none" /\ phase'[t] = "opening" /\ call'[t] = "pending"
               /\ inFlight'[t] = inFlight[t] /\ failure'[t] = failure[t]
               /\ closing'[t] = closing[t]
    BY <1>1 DEF OpenSignSession
  <1>2. ASSUME CloseAndWipe(t), inFlight[t] = 0
        PROVE  /\ OnlyAt(t) /\ phase[t] = "open" /\ phase'[t] = "wiping"
               /\ closing'[t] = "pending" /\ call'[t] = call[t]
               /\ inFlight'[t] = inFlight[t] /\ failure'[t] = failure[t]
    BY <1>2 DEF CloseAndWipe, Settle
  <1>3. ASSUME SignNext(t)
        PROVE  /\ OnlyAt(t) /\ call[t] = "idle"
               /\ phase' = phase /\ failure' = failure /\ closing' = closing
               /\ phase[t] = "open" /\ ~failure[t]
               /\ \/ inFlight'[t] # 0 /\ call'[t] = "pending"
                  \/ inFlight'[t] = inFlight[t] /\ call'[t] = "post_failed"
    <2>1. requests' # 0
      BY <1>3 DEF SignNext, Requests
    <2> QED
      BY <1>3, <2>1 DEF SignNext, IsUsable
  <1>4. ASSUME SignNextRejected(t)
        PROVE  /\ OnlyAt(t) /\ call[t] = "idle"
               /\ phase' = phase /\ failure' = failure /\ closing' = closing
               /\ inFlight'[t] = inFlight[t]
               /\ \/ IsClosed(t) /\ call'[t] = "session_closed"
                  \/ phase[t] = "open" /\ failure[t] /\ call'[t] = "worker_failed"
    BY <1>4 DEF SignNextRejected
  <1> QED
    BY <1>1, <1>2, <1>3, <1>4

\* A settled promise is consumed.
LEMMA ConsumedMoves ==
  ASSUME BusInd, NEW t \in Sessions, Consumed(t)
  PROVE  /\ OnlyAt(t) /\ call'[t] = "idle"
         /\ phase' = phase /\ inFlight' = inFlight /\ failure' = failure /\ closing' = closing
         /\ call[t] \in Settlements => BusInd'
  <1>1. /\ OnlyAt(t) /\ call'[t] = "idle"
        /\ phase' = phase /\ inFlight' = inFlight /\ failure' = failure /\ closing' = closing
    BY DEF Consumed, OnlyAt, BusInd, SessionTypeOK
  <1>2. call[t] \in Settlements => Consume(t)
    BY DEF Consumed, Consume, workerVars
  <1> QED
    BY <1>1, <1>2, BusStep

-----------------------------------------------------------------------------
(* The inductive invariant.                                                *)

InFlightInv(s) == inFlight[s] # 0 => s = session /\ pc = "signing" /\ call[s] = "pending"

LinkInv(s) == SettledInv(s) /\ AwaitInv(s) /\ ProgressInv(s) /\ InFlightInv(s)

Link == BusInd /\ CursorInv /\ \A s \in Sessions : LinkInv(s)

Consumable(s) == call[s] \in {"idle", "pending"} /\ closing[s] # "done"

\* A session takes a step of its own while the queue waits.
LEMMA MoveKeepsLink ==
  ASSUME Link, BusInd', UNCHANGED queueVars, NEW t \in Sessions, OnlyAt(t),
         Consumable(t),
         \/ EndsOpening(t) \/ BeginsWipe(t) \/ EndsWipe(t) \/ EndsAbort(t)
         \/ Answers(t) \/ Fails(t)
  PROVE  Link'
  <1>0. CursorInv'
    BY DEF Link, CursorInv, queueVars, sessionVars, Opening, InHand
  <1>1. ASSUME NEW s \in Sessions \ {t} PROVE LinkInv(s)'
    BY <1>1 DEF Link, LinkInv, SettledInv, AwaitInv, ProgressInv, InFlightInv, OnlyAt,
                queueVars, sessionVars, Opening, InOpen
  <1> DEFINE Q == UNCHANGED <<pc, session, reopensUsed>>
  <1>2. Q /\ LinkInv(t)
    BY DEF Link, queueVars, sessionVars
  <1>3. inFlight[t] # 0 => phase[t] \in {"open", "wiping"}
    BY DEF Link, BusInd, LocalInv, RequestsInv
  <1> USE DEF LinkInv, SettledInv, AwaitInv, ProgressInv, InFlightInv, Opening, InOpen, Consumable
  <1>4. CASE EndsOpening(t)
    BY <1>0, <1>1, <1>2, <1>3, <1>4 DEF EndsOpening, Link
  <1>5. CASE BeginsWipe(t)
    BY <1>0, <1>1, <1>2, <1>3, <1>5 DEF BeginsWipe, Link
  <1>6. CASE EndsWipe(t)
    BY <1>0, <1>1, <1>2, <1>3, <1>6 DEF EndsWipe, Link
  <1>7. CASE EndsAbort(t)
    BY <1>0, <1>1, <1>2, <1>3, <1>7 DEF EndsAbort, Link
  <1>8. CASE Answers(t)
    BY <1>0, <1>1, <1>2, <1>3, <1>8 DEF Answers, Link
  <1>9. CASE Fails(t)
    BY <1>0, <1>1, <1>2, <1>3, <1>9 DEF Fails, Link
  <1> QED
    BY <1>4, <1>5, <1>6, <1>7, <1>8, <1>9

LEMMA SilentKeepsLink == Link /\ BusInd' /\ UNCHANGED queueVars /\ Silent => Link'
  BY DEF Link, LinkInv, SettledInv, AwaitInv, ProgressInv, InFlightInv, CursorInv, Silent,
         queueVars, sessionVars, Opening, InOpen, InHand

\* The sessions the queue calls are sessions.
LEMMA CursorTypes ==
  ASSUME Link
  PROVE  /\ Opening \in Sessions
         /\ session # 0 => session \in Sessions
         /\ pc \in {"read", "signing", "backoff", "delivering", "loop", "closing", "reopening",
                   "unwinding"} => session # 0
         /\ reopensUsed < MaxReopens => Opening + 1 \in Sessions
  BY DEF Link, CursorInv, Opening, SessionIds

LEMMA StartOpenLink == ASSUME Link, StartOpen PROVE Link'
  <1>1. Opening \in Sessions /\ OpenSignSession(Opening)
    BY CursorTypes DEF StartOpen
  <1>2. BusInd'
    BY <1>1, BusStep DEF Link
  <1>3. /\ OnlyAt(Opening) /\ phase[Opening] = "none" /\ phase'[Opening] = "opening"
        /\ call'[Opening] = "pending" /\ inFlight'[Opening] = inFlight[Opening]
        /\ failure'[Opening] = failure[Opening] /\ closing'[Opening] = closing[Opening]
    BY <1>1, ClientMoves DEF Link
  <1>4. pc \in {"opening", "reopening"} /\ UNCHANGED <<pc, session, reopensUsed, sessionDead>>
    BY DEF StartOpen, MustOpen, queueVars, sessionVars
  <1>5. CursorInv'
    BY <1>4 DEF Link, CursorInv, Opening, InHand
  <1>6. LinkInv(Opening) /\ session # Opening
    BY <1>1, <1>4 DEF Link, CursorInv, Opening
  <1>7. ASSUME NEW s \in Sessions PROVE LinkInv(s)'
    <2>1. CASE s = Opening
      <3>1. SettledInv(s)'
        BY <1>3, <1>6, <2>1 DEF LinkInv, SettledInv
      <3>2. AwaitInv(s)' /\ InFlightInv(s)'
        BY <1>3, <1>4, <1>6, <2>1 DEF LinkInv, AwaitInv, InFlightInv, Opening, InOpen
      <3>3. ProgressInv(s)'
        BY <1>3, <1>4, <1>6, <2>1 DEF Link, CursorInv, LinkInv, ProgressInv, Opening, InOpen
      <3> QED
        BY <3>1, <3>2, <3>3 DEF LinkInv
    <2>2. CASE s # Opening
      BY <1>3, <1>4, <2>2
         DEF Link, LinkInv, SettledInv, AwaitInv, ProgressInv, InFlightInv, OnlyAt, Opening, InOpen
    <2> QED
      BY <2>1, <2>2
  <1> QED
    BY <1>2, <1>5, <1>7 DEF Link

LEMMA StartCloseLink == ASSUME Link, StartClose PROVE Link'
  <1>1. session \in Sessions /\ CloseAndWipe(session) /\ pc \in {"closing", "unwinding"}
        /\ UNCHANGED <<pc, session, reopensUsed, sessionDead>>
    BY CursorTypes DEF StartClose, MustClose, queueVars, sessionVars
  <1>2. BusInd'
    BY <1>1, BusStep DEF Link
  <1>3. LinkInv(session)
    BY <1>1 DEF Link
  <1>4. inFlight[session] = 0
    BY <1>1, <1>3 DEF LinkInv, InFlightInv
  <1>5. /\ OnlyAt(session) /\ phase[session] = "open" /\ phase'[session] = "wiping"
        /\ closing'[session] = "pending" /\ call'[session] = call[session]
        /\ inFlight'[session] = inFlight[session] /\ failure'[session] = failure[session]
    BY <1>1, <1>4, ClientMoves DEF Link
  <1>6. CursorInv'
    BY <1>1 DEF Link, CursorInv, Opening, InHand
  <1>7. ASSUME NEW s \in Sessions PROVE LinkInv(s)'
    <2>1. CASE s = session
      BY <1>1, <1>3, <1>5, <2>1
         DEF Link, CursorInv, LinkInv, SettledInv, AwaitInv, ProgressInv, InFlightInv, Opening, InOpen
    <2>2. CASE s # session
      BY <1>1, <1>5, <2>2
         DEF Link, LinkInv, SettledInv, AwaitInv, ProgressInv, InFlightInv, OnlyAt, Opening, InOpen
    <2> QED
      BY <2>1, <2>2
  <1> QED
    BY <1>2, <1>6, <1>7 DEF Link

LEMMA CallSessionLink == ASSUME Link, CallSession PROVE Link'
  <1>1. session \in Sessions /\ pc = "read" /\ (SignNext(session) \/ SignNextRejected(session))
        /\ UNCHANGED <<session, reopensUsed, sessionDead>>
        /\ pc' = IF call'[session] = "pending" THEN "signing" ELSE "read"
    BY CursorTypes DEF CallSession, CallSignNext, queueVars, sessionVars
  <1>2. BusInd'
    BY <1>1, BusStep DEF Link
  <1>3. LinkInv(session) /\ InHand /\ InHand'
    BY <1>1 DEF Link, InHand
  <1>4. /\ OnlyAt(session) /\ call[session] = "idle"
        /\ phase' = phase /\ failure' = failure /\ closing' = closing
        /\ \/ /\ phase[session] = "open" /\ ~failure[session] /\ inFlight'[session] # 0
              /\ call'[session] = "pending"
           \/ /\ inFlight'[session] = inFlight[session]
              /\ \/ phase[session] = "open" /\ call'[session] = "post_failed"
                 \/ IsClosed(session) /\ call'[session] = "session_closed"
                 \/ phase[session] = "open" /\ failure[session] /\ call'[session] = "worker_failed"
    BY <1>1, ClientMoves DEF Link
  <1>5. CursorInv'
    BY <1>1, <1>3 DEF Link, CursorInv, Opening, InHand
  <1>6. ASSUME NEW s \in Sessions PROVE LinkInv(s)'
    <2>1. CASE s = session
      BY <1>1, <1>3, <1>4, <2>1
         DEF LinkInv, SettledInv, AwaitInv, ProgressInv, InFlightInv, Opening, InOpen, IsClosed,
             FatalSettlements
    <2>2. CASE s # session
      BY <1>1, <1>4, <2>2
         DEF Link, LinkInv, SettledInv, AwaitInv, ProgressInv, InFlightInv, OnlyAt, Opening, InOpen
    <2> QED
      BY <2>1, <2>2
  <1> QED
    BY <1>2, <1>5, <1>6 DEF Link

\* openSignSession has settled, and its awaiter goes on.
LEMMA OpeningEndsLink == ASSUME Link, OnOpened \/ OnOpenFailed PROVE Link'
  <1> DEFINE t == Opening
  <1>1. t \in Sessions /\ Consumed(t) /\ call[t] \in {"opened", "open_failed"} /\ InOpen
    BY CursorTypes DEF OnOpened, OnOpenFailed, InOpen
  <1>2. /\ OnlyAt(t) /\ call'[t] = "idle" /\ BusInd'
        /\ phase' = phase /\ inFlight' = inFlight /\ failure' = failure /\ closing' = closing
    BY <1>1, ConsumedMoves DEF Link
  <1>3. \/ /\ call[t] = "opened" /\ session' = t /\ pc' = "loop"
           /\ UNCHANGED <<reopensUsed, sessionDead>>
        \/ /\ call[t] = "open_failed" /\ UNCHANGED <<session, reopensUsed>>
           /\ \/ pc = "opening" /\ pc' = "exited"
              \/ pc = "reopening" /\ pc' = "loop" /\ sessionDead'
    BY DEF OnOpened, OnOpenFailed, OpenSucceeds, ReopenSucceeds, OpenFails, ReopenFails,
           sessionVars, Opening, Link, CursorInv
  <1>4. CursorInv'
    BY <1>1, <1>3 DEF Link, CursorInv, Opening, InHand, InOpen
  <1>5. ASSUME NEW s \in Sessions PROVE LinkInv(s)'
    <2>1. LinkInv(s) /\ LinkInv(t) /\ CursorInv /\ s \in Nat \ {0}
      BY <1>1 DEF Link, SessionIds
    <2>2. /\ call'[s] = IF s = t THEN "idle" ELSE call[s]
          /\ UNCHANGED <<phase, inFlight, failure, closing>>
      BY <1>2 DEF OnlyAt
    <2>3. SettledInv(s)'
      BY <2>1, <2>2 DEF LinkInv, SettledInv
    <2>4. AwaitInv(s)' /\ InFlightInv(s)'
      BY <1>1, <1>3, <2>1, <2>2 DEF LinkInv, AwaitInv, InFlightInv, InOpen
    <2>5. ProgressInv(s)'
      <3>1. CASE call[t] = "opened"
        BY <1>1, <1>3, <2>1, <2>2, <3>1
           DEF LinkInv, SettledInv, ProgressInv, CursorInv, Opening, InOpen
      <3>2. CASE call[t] = "open_failed"
        BY <1>1, <1>3, <2>1, <2>2, <3>2
           DEF LinkInv, SettledInv, ProgressInv, CursorInv, Opening, InOpen
      <3> QED
        BY <1>1, <3>1, <3>2
    <2> QED
      BY <2>3, <2>4, <2>5 DEF LinkInv
  <1> QED
    BY <1>2, <1>4, <1>5 DEF Link

\* signNext has settled, with an answer of the worker.
LEMMA AnsweredLink == ASSUME Link, OnSigned \/ OnRejected PROVE Link'
  <1>1. session \in Sessions /\ Consumed(session) /\ pc = "signing"
        /\ call[session] \in {"signed", "error", "review"}
    BY CursorTypes DEF OnSigned, OnRejected
  <1>2. /\ OnlyAt(session) /\ call'[session] = "idle" /\ BusInd'
        /\ phase' = phase /\ inFlight' = inFlight /\ failure' = failure /\ closing' = closing
    BY <1>1, ConsumedMoves DEF Link
  <1>3. /\ pc' \in {"backoff", "delivering", "loop"}
        /\ UNCHANGED <<session, reopensUsed, sessionDead>>
    BY DEF OnSigned, OnRejected, ResolvedRetry, ResolvedFinal, RejectedDocument, sessionVars
  <1>4. CursorInv'
    BY <1>1, <1>3 DEF Link, CursorInv, Opening, InHand
  <1>5. ASSUME NEW s \in Sessions PROVE LinkInv(s)'
    BY <1>1, <1>2, <1>3, <1>5
       DEF Link, LinkInv, SettledInv, AwaitInv, ProgressInv, InFlightInv, OnlyAt,
           Opening, InOpen
  <1> QED
    BY <1>2, <1>4, <1>5 DEF Link

\* signNext has settled, and the session cannot go on.
LEMMA FatalLink == ASSUME Link, OnFatal PROVE Link'
  <1>1. session \in Sessions /\ Consumed(session) /\ pc \in {"read", "signing"}
        /\ call[session] \in FatalSettlements /\ RejectedFatal(IsClosed(session))
    BY CursorTypes DEF OnFatal
  <1>2. /\ OnlyAt(session) /\ call'[session] = "idle" /\ BusInd'
        /\ phase' = phase /\ inFlight' = inFlight /\ failure' = failure /\ closing' = closing
    BY <1>1, ConsumedMoves DEF Link, FatalSettlements
  <1>3. /\ session' = session /\ sessionDead' = (reopensUsed >= MaxReopens)
        /\ \/ /\ reopensUsed >= MaxReopens /\ reopensUsed' = reopensUsed /\ pc' = "loop"
           \/ /\ ~(reopensUsed >= MaxReopens) /\ reopensUsed' = reopensUsed + 1
              /\ pc' = IF IsClosed(session) THEN "reopening" ELSE "closing"
    BY <1>1 DEF RejectedFatal, AfterFatal, SessionDies
  <1>4. session = Opening /\ reopensUsed \in 0..MaxReopens
    BY <1>1 DEF Link, CursorInv, InHand
  <1>5. CursorInv'
    BY <1>1, <1>3, <1>4 DEF Link, CursorInv, Opening, InHand
  <1>6. ASSUME NEW s \in Sessions PROVE LinkInv(s)'
    <2>1. s \in Nat
      BY DEF SessionIds
    <2>2. LinkInv(s) /\ LinkInv(session)
      BY <1>1 DEF Link
    <2>3. SettledInv(s)'
      BY <1>2, <2>2 DEF LinkInv, SettledInv, OnlyAt
    <2>4. AwaitInv(s)' /\ InFlightInv(s)'
      BY <1>1, <1>2, <1>3, <2>2 DEF LinkInv, AwaitInv, InFlightInv, OnlyAt, InOpen, FatalSettlements
    <2>5. ProgressInv(s)'
      BY <1>1, <1>2, <1>3, <1>4, <2>1, <2>2 DEF LinkInv, ProgressInv, Opening, InOpen, IsClosed
    <2> QED
      BY <2>3, <2>4, <2>5 DEF LinkInv
  <1> QED
    BY <1>2, <1>5, <1>6 DEF Link

\* The awaiter of closeAndWipe goes on.
LEMMA WipedLink == ASSUME Link, OnWiped PROVE Link'
  <1>1. session \in Sessions /\ pc \in {"closing", "unwinding"} /\ closing[session] = "done"
    BY CursorTypes DEF OnWiped
  <1>2. BusInd'
    <2>1. Consume(session)
      BY <1>1 DEF OnWiped, Consume
    <2> QED
      BY <1>1, <2>1, BusStep DEF Link
  <1>3. /\ \A s \in Sessions \ {session} : closing'[s] = closing[s]
        /\ closing'[session] = "idle"
        /\ UNCHANGED <<phase, inFlight, failure, call>>
    BY <1>1 DEF OnWiped, Link, BusInd, SessionTypeOK
  <1>4. /\ UNCHANGED <<session, reopensUsed, sessionDead>>
        /\ \/ pc = "closing" /\ pc' = "reopening"
           \/ pc = "unwinding" /\ pc' = "exited"
    BY DEF OnWiped, PreviousClosed, SessionClosedOnExit, sessionVars
  <1>5. CursorInv'
    BY <1>4 DEF Link, CursorInv, Opening, InHand
  <1>6. ASSUME NEW s \in Sessions PROVE LinkInv(s)'
    BY <1>1, <1>3, <1>4, <1>6
       DEF Link, LinkInv, SettledInv, AwaitInv, ProgressInv, InFlightInv, Opening, InOpen
  <1> QED
    BY <1>2, <1>5, <1>6 DEF Link

\* The queue goes on by itself, and no promise is waiting to be consumed.
LEMMA QueueAloneLink ==
  ASSUME Link, UNCHANGED sessionBusVars,
         \/ Loop \/ Stop
         \/ ReadFails /\ Free
         \/ BackoffEnds \/ Delivered \/ \E full \in BOOLEAN : DeliveryFails(full)
         \/ CallbackThrows
  PROVE  Link'
  <1>1. BusInd' /\ Silent
    BY StutterBus DEF Link, sessionBusVars, busVars, Silent
  <1>2. /\ UNCHANGED <<session, reopensUsed, sessionDead>>
        /\ \/ pc' = pc
           \/ pc = "loop" /\ pc' = "read" /\ ~sessionDead
           \/ pc = "loop" /\ pc' \in {"unwinding", "exited"}
           \/ pc = "read" /\ Quiet /\ pc' \in {"loop", "unwinding", "exited"}
           \/ pc = "backoff" /\ pc' = "read"
           \/ pc = "delivering" /\ pc' = "loop"
    BY DEF Loop, Stop, CallbackThrows, Cancel, SkipUndelivered, SkipSessionless, Skip, Begin,
           MayBegin, LoopEnds, Unwind, ExitVia, ReadFails, BackoffEnds, Delivered, DeliveryFails,
           UpdateThrows, Abort, Free, sessionVars
  <1>3. CursorInv'
    BY <1>2 DEF Link, CursorInv, Opening, InHand
  <1>4. ASSUME NEW s \in Sessions PROVE LinkInv(s)'
    BY <1>1, <1>2, <1>4
       DEF Link, LinkInv, SettledInv, AwaitInv, ProgressInv, InFlightInv, Opening, InOpen, Silent,
           Quiet, FatalSettlements
  <1> QED
    BY <1>1, <1>3, <1>4 DEF Link

LEMMA LinkInit == Init => Link
  <1> SUFFICES ASSUME Init PROVE Link
    OBVIOUS
  <1>1. BusInd
    BY InitBus DEF Init
  <1>2. CursorInv /\ pc = "opening" /\ session = 0
    BY DEF Init, QueueInit, CursorInv, InHand, Opening
  <1>3. ASSUME NEW s \in Sessions PROVE LinkInv(s)
    BY <1>2 DEF Init, SessionInit, LinkInv, SettledInv, AwaitInv, ProgressInv, InFlightInv,
                SessionIds
  <1> QED
    BY <1>1, <1>2, <1>3 DEF Link

LEMMA LinkStep == ASSUME Link, [Next]_vars PROVE Link'
  <1>1. CASE StartOpen \/ StartClose \/ CallSession \/ Continue
    BY <1>1, StartOpenLink, StartCloseLink, CallSessionLink, OpeningEndsLink, AnsweredLink,
       FatalLink, WipedLink DEF Continue
  <1>2. CASE Loop \/ Event \/ Stop \/ CallbackThrows
    BY <1>2, QueueAloneLink DEF Loop, Event, Stop, CallbackThrows
  <1>3. ASSUME NEW t \in Sessions, Bus(t) \/ Message(t), UNCHANGED queueVars PROVE Link'
    <2>1. BusInd' /\ Consumable(t)
      BY <1>3, BusStep DEF Link, Bus, Message, Timer, OpenTimer, SignTimer, WipeTimer, Free, Quiet,
                           Consumable
    <2>2. CASE Silent
      BY <1>3, <2>1, <2>2, SilentKeepsLink
    <2>3. CASE ~Silent
      BY <1>3, <2>1, <2>3, TimerMoves, DeliverMoves, MoveKeepsLink DEF Link, Bus, Message
    <2> QED
      BY <2>2, <2>3
  <1>4. ASSUME NEW t \in Sessions, Worker(t), UNCHANGED queueVars PROVE Link'
    BY <1>4, BusStep, WorkerMoves, SilentKeepsLink DEF Link
  <1>5. CASE UNCHANGED vars
    BY <1>5, StutterBus, SilentKeepsLink DEF Link, vars, sessionBusVars, busVars, Silent
  <1> QED
    BY <1>1, <1>2, <1>3, <1>4, <1>5 DEF Next, Queue

LEMMA LinkMeans == Link => SigningInv
  <1> SUFFICES ASSUME Link PROVE SigningInv
    OBVIOUS
  <1>1. OneSignatureInFlight
    BY DEF Link, LinkInv, InFlightInv, OneSignatureInFlight
  <1>2. OnlyTeardownsOverlap
    BY DEF Link, LinkInv, ProgressInv, BusInd, LocalInv, AliveHere, OnlyTeardownsOverlap, InOpen
  <1> QED
    BY <1>1, <1>2 DEF SigningInv, OneWorkerSigns, Link, LinkInv

\* At most one session signs, at most its reopening and teardowns live beside it,
\* and the queue's own variables tell which: the real batch, for any number of
\* documents and reopenings (sign-queue.ts:776-796, sign-session-bus.ts:396-863).
THEOREM OneWorkerSignsAlways == Spec => []SigningInv
  <1>1. Spec => Init /\ [][Next]_vars
    BY PTL DEF Spec
  <1>2. Init /\ [][Next]_vars => []Link
    BY LinkInit, LinkStep, PTL
  <1> QED
    BY <1>1, <1>2, LinkMeans, PTL

-----------------------------------------------------------------------------
(* The refinement.                                                         *)

Mapped == [s \in SessionIds |-> SessionState(s)]

\* The queue under the contract is this queue: its actions are the same formulas.
LEMMA SameQueue ==
  /\ QueueInit <=> Contract!QueueInit
  /\ OpenSucceeds <=> Contract!OpenSucceeds
  /\ ReopenSucceeds <=> Contract!ReopenSucceeds
  /\ OpenFails <=> Contract!OpenFails
  /\ ReopenFails <=> Contract!ReopenFails
  /\ CallSignNext <=> Contract!CallSignNext
  /\ ResultsNow = Contract!ResultsNow
  /\ \A r : ResolvedRetry(r) <=> Contract!ResolvedRetry(r)
  /\ \A r : ResolvedFinal(r) <=> Contract!ResolvedFinal(r)
  /\ \A st : RejectedDocument(st) <=> Contract!RejectedDocument(st)
  /\ \A c : RejectedFatal(c) <=> Contract!RejectedFatal(c)
  /\ PreviousClosed <=> Contract!PreviousClosed
  /\ SessionClosedOnExit <=> Contract!SessionClosedOnExit
  /\ \A c : LoopEnds(c) <=> Contract!LoopEnds(c)
  /\ \A c : UpdateThrows(c) <=> Contract!UpdateThrows(c)
  /\ Cancel \/ SkipUndelivered \/ SkipSessionless \/ Begin
       <=> Contract!Cancel \/ Contract!SkipUndelivered \/ Contract!SkipSessionless \/ Contract!Begin
  /\ ReadFails <=> Contract!ReadFails
  /\ BackoffEnds <=> Contract!BackoffEnds
  /\ Delivered <=> Contract!Delivered
  /\ \A full : DeliveryFails(full) <=> Contract!DeliveryFails(full)
  /\ Abort <=> Contract!Abort
  /\ queueVars = Contract!queueVars
  <1> USE DEF NextItem, Contract!NextItem, Items, Contract!Items,
         itemVars, historyVars, sessionVars, networkVars, deliveryVars,
         Contract!itemVars, Contract!historyVars, Contract!sessionVars, Contract!networkVars,
         Contract!deliveryVars
  <1>1. /\ QueueInit <=> Contract!QueueInit
        /\ queueVars = Contract!queueVars
        /\ ResultsNow = Contract!ResultsNow
    BY DEF QueueInit, Contract!QueueInit, NoOutcome, Contract!NoOutcome, queueVars,
       Contract!queueVars, ResultsNow, Contract!ResultsNow, Results, Contract!Results, LtvAsked,
       Contract!LtvAsked
  <1>2. /\ OpenSucceeds <=> Contract!OpenSucceeds
        /\ ReopenSucceeds <=> Contract!ReopenSucceeds
        /\ OpenFails <=> Contract!OpenFails
        /\ ReopenFails <=> Contract!ReopenFails
        /\ CallSignNext <=> Contract!CallSignNext
        /\ PreviousClosed <=> Contract!PreviousClosed
        /\ SessionClosedOnExit <=> Contract!SessionClosedOnExit
        /\ BackoffEnds <=> Contract!BackoffEnds
        /\ Abort <=> Contract!Abort
    BY DEF OpenSucceeds, Contract!OpenSucceeds, ReopenSucceeds, Contract!ReopenSucceeds,
       OpenFails, Contract!OpenFails, ReopenFails, Contract!ReopenFails, CallSignNext,
       Contract!CallSignNext, PreviousClosed, Contract!PreviousClosed, SessionClosedOnExit,
       Contract!SessionClosedOnExit, BackoffEnds, Contract!BackoffEnds, Abort, Contract!Abort
  <1>3. /\ \A r : ResolvedRetry(r) <=> Contract!ResolvedRetry(r)
        /\ \A r : ResolvedFinal(r) <=> Contract!ResolvedFinal(r)
    BY DEF ResolvedRetry, Contract!ResolvedRetry, ResolvedFinal, Contract!ResolvedFinal,
       RetryableTsaFailure, Contract!RetryableTsaFailure, AttemptCap, Contract!AttemptCap, Outcome,
       Contract!Outcome
  <1>4. /\ \A st : RejectedDocument(st) <=> Contract!RejectedDocument(st)
        /\ \A c : RejectedFatal(c) <=> Contract!RejectedFatal(c)
        /\ ReadFails <=> Contract!ReadFails
    BY DEF RejectedDocument, Contract!RejectedDocument, RejectedFatal, Contract!RejectedFatal,
       ReadFails, Contract!ReadFails, Unsigned, Contract!Unsigned, SessionDies,
       Contract!SessionDies, AfterFatal, Contract!AfterFatal
  <1>5. /\ \A c : LoopEnds(c) <=> Contract!LoopEnds(c)
        /\ \A c : UpdateThrows(c) <=> Contract!UpdateThrows(c)
    BY DEF LoopEnds, Contract!LoopEnds, UpdateThrows, Contract!UpdateThrows, Unwind,
       Contract!Unwind, ExitVia, Contract!ExitVia
  <1>6. Cancel \/ SkipUndelivered \/ SkipSessionless \/ Begin
       <=> Contract!Cancel \/ Contract!SkipUndelivered \/ Contract!SkipSessionless \/ Contract!Begin
    BY DEF Cancel, Contract!Cancel, SkipUndelivered, Contract!SkipUndelivered, SkipSessionless,
       Contract!SkipSessionless, Skip, Contract!Skip, Begin, Contract!Begin, MayBegin,
       Contract!MayBegin
  <1>7. /\ Delivered <=> Contract!Delivered
        /\ \A full : DeliveryFails(full) <=> Contract!DeliveryFails(full)
    BY DEF Delivered, Contract!Delivered, DeliveryFails, Contract!DeliveryFails, HandOver,
       Contract!HandOver, DeliveryTrips, Contract!DeliveryTrips
  <1> QED
    BY <1>1, <1>2, <1>3, <1>4, <1>5, <1>6, <1>7

\* What the queue may assume of a session, by where its bus stands.
SeenAs(s, st) ==
  /\ phase[s] \in {"none", "opening"} => st = "unopened"
  /\ phase[s] \in {"wiping", "aborting"} => st = "closing"
  /\ phase[s] \in {"failed", "dead"} => st = "closed"
  /\ phase[s] = "open" =>
       st = IF s = session /\ pc \in {"closing", "unwinding"} THEN "closing"
            ELSE IF failure[s] THEN "broken" ELSE "live"

LEMMA StateOf == \A s : SeenAs(s, SessionState(s)) /\ SeenAs(s, SessionState(s))'
  <1> USE DEF SeenAs, SessionState, MustClose
  <1>1. ASSUME NEW s PROVE SeenAs(s, SessionState(s))
    <2>1. CASE phase[s] \in {"none", "opening"}
      BY <2>1
    <2>2. CASE phase[s] = "open"
      BY <2>2
    <2>3. CASE phase[s] \in {"wiping", "aborting"}
      BY <2>3
    <2>4. CASE phase[s] \in {"failed", "dead"}
      BY <2>4
    <2> QED
      BY <2>1, <2>2, <2>3, <2>4
  <1>2. ASSUME NEW s PROVE SeenAs(s, SessionState(s))'
    <2>1. CASE phase'[s] \in {"none", "opening"}
      BY <2>1
    <2>2. CASE phase'[s] = "open"
      BY <2>2
    <2>3. CASE phase'[s] \in {"wiping", "aborting"}
      BY <2>3
    <2>4. CASE phase'[s] \in {"failed", "dead"}
      BY <2>4
    <2> QED
      BY <2>1, <2>2, <2>3, <2>4
  <1> QED
    BY <1>1, <1>2

LEMMA Unseen ==
  ASSUME \A s \in Sessions : SessionState(s)' = SessionState(s)
  PROVE  Mapped' = Mapped
  BY DEF Mapped

LEMMA SeenAt ==
  ASSUME NEW t \in Sessions, \A s \in Sessions \ {t} : SessionState(s)' = SessionState(s)
  PROVE  Mapped' = [Mapped EXCEPT ![t] = SessionState(t)'] /\ Mapped[t] = SessionState(t)
  BY DEF Mapped

ContractStep == Contract!Next \/ UNCHANGED <<queueVars, Mapped>>

\* A session takes a step of its own while the queue waits.
LEMMA MoveRefines ==
  ASSUME Link, UNCHANGED queueVars, NEW t \in Sessions, OnlyAt(t), Consumable(t),
         pc # "loop", ~MustClose,
         \/ EndsOpening(t) \/ BeginsWipe(t) \/ EndsWipe(t) \/ EndsAbort(t)
         \/ Answers(t) \/ Fails(t)
  PROVE  ContractStep
  <1>1. /\ UNCHANGED <<pc, session, reopensUsed>>
        /\ queueVars' = queueVars /\ Contract!queueVars' = Contract!queueVars
    BY SameQueue DEF queueVars, sessionVars, Contract!queueVars, Contract!sessionVars,
                     itemVars, historyVars, networkVars, deliveryVars,
                     Contract!itemVars, Contract!historyVars, Contract!networkVars,
                     Contract!deliveryVars
  <1>2. \A s \in Sessions \ {t} : SessionState(s)' = SessionState(s)
    BY <1>1 DEF OnlyAt, SessionState, MustClose
  <1>3. Mapped' = [Mapped EXCEPT ![t] = SessionState(t)'] /\ Mapped[t] = SessionState(t)
    BY <1>2, SeenAt
  <1>4. SeenAs(t, SessionState(t)) /\ SeenAs(t, SessionState(t))'
    BY StateOf
  <1>5. LinkInv(t) /\ t # 0 /\ t \in SessionIds
    BY DEF Link, SessionIds
  <1>6. CASE EndsOpening(t)
    <2>1. SessionState(t) = "unopened" /\ SessionState(t)' \in {"live", "closing", "closed"}
      BY <1>1, <1>4, <1>5, <1>6
         DEF EndsOpening, SeenAs, LinkInv, ProgressInv, SettledInv, InOpen
    <2>2. t = reopensUsed + 1 /\ pc \in {"opening", "reopening"}
      BY <1>5, <1>6 DEF EndsOpening, LinkInv, ProgressInv, InOpen, Opening
    <2>3. Contract!OpenEnds
      BY <1>1, <1>3, <2>1, <2>2 DEF Contract!OpenEnds, Mapped
    <2> QED
      BY <2>3 DEF ContractStep, Contract!Next, Contract!Work
  <1>7. CASE BeginsWipe(t)
    <2>1. t = session /\ pc = "signing" /\ ~failure[t]
      BY <1>5, <1>7 DEF BeginsWipe, LinkInv, InFlightInv, SettledInv
    <2>2. SessionState(t) = "live" /\ SessionState(t)' = "closing"
      BY <1>4, <1>7, <2>1 DEF BeginsWipe, SeenAs
    <2>3. Contract!TimerFires
      BY <1>1, <1>3, <2>1, <2>2 DEF Contract!TimerFires, Contract!Usable, Mapped
    <2> QED
      BY <2>3 DEF ContractStep, Contract!Next, Contract!World
  <1>8. CASE EndsWipe(t) \/ EndsAbort(t)
    <2>1. SessionState(t) = "closing" /\ SessionState(t)' = "closed"
      BY <1>4, <1>8 DEF EndsWipe, EndsAbort, SeenAs
    <2>2. Contract!TeardownEnds
      BY <1>1, <1>3, <1>5, <2>1 DEF Contract!TeardownEnds, Contract!SessionIds, SessionIds, Mapped
    <2> QED
      BY <2>2 DEF ContractStep, Contract!Next, Contract!Work
  <1>9. CASE Answers(t)
    <2>1. SessionState(t)' = SessionState(t)
      BY <1>1, <1>9 DEF Answers, SessionState, MustClose, Link, BusInd, SessionTypeOK, OnlyAt
    <2> QED
      BY <1>1, <1>2, <2>1, Unseen DEF ContractStep
  <1>10. CASE Fails(t)
    <2>1. CASE phase[t] = "open" /\ ~failure[t]
      <3>1. t = session /\ pc \notin {"closing", "unwinding"}
        BY <1>5, <2>1 DEF LinkInv, ProgressInv, Consumable, MustClose
      <3>2. SessionState(t) = "live" /\ SessionState(t)' = "broken"
        BY <1>1, <1>4, <1>10, <2>1, <3>1 DEF Fails, SeenAs
      <3>3. Contract!WorkerFails
        BY <1>1, <1>3, <1>5, <3>1, <3>2 DEF Contract!WorkerFails, Contract!Usable, Mapped
      <3> QED
        BY <3>3 DEF ContractStep, Contract!Next, Contract!World
    <2>2. CASE ~(phase[t] = "open" /\ ~failure[t])
      <3>1. SessionState(t)' = SessionState(t)
        BY <1>1, <1>4, <1>10, <2>2 DEF Fails, SeenAs
      <3> QED
        BY <1>1, <1>2, <3>1, Unseen DEF ContractStep
    <2> QED
      BY <2>1, <2>2
  <1> QED
    BY <1>6, <1>7, <1>8, <1>9, <1>10

Waits(c) == c \in {"closing", "unwinding"}

\* The queue goes on and closes nothing.
LEMMA Calm ==
  ASSUME UNCHANGED <<phase, failure>>, ~Waits(pc), ~Waits(pc')
  PROVE  Mapped' = Mapped
  <1>1. \A s : SessionState(s)' = SessionState(s)
    BY DEF SessionState, MustClose, Waits
  <1> QED
    BY <1>1, Unseen

\* The queue goes on by closing its session.
LEMMA Closes ==
  ASSUME Link, UNCHANGED <<phase, failure, session>>, ~Waits(pc), Waits(pc'),
         session \in Sessions, phase[session] = "open"
  PROVE  Mapped' = [Mapped EXCEPT ![session] = "closing"]
  <1>1. \A s \in Sessions \ {session} : SessionState(s)' = SessionState(s)
    BY DEF SessionState, MustClose, Waits
  <1>2. SessionState(session)' = "closing"
    BY StateOf DEF SeenAs, Waits
  <1> QED
    BY <1>1, <1>2, SeenAt

\* `closed`, as the queue reads it, is what the contract says.
LEMMA ClosedAlike ==
  ASSUME Link, session # 0, ~Waits(pc)
  PROVE  /\ session \in Sessions /\ Mapped[session] = SessionState(session)
         /\ Contract!IsClosed <=> IsClosed(session)
         /\ ~IsClosed(session) => phase[session] = "open"
  <1>1. session \in Sessions /\ session \in SessionIds
    BY CursorTypes
  <1>2. phase[session] \in {"open", "wiping", "dead"} /\ SeenAs(session, SessionState(session))
    BY <1>1, StateOf DEF Link, LinkInv, ProgressInv
  <1>3. Mapped[session] = SessionState(session)
    BY <1>1 DEF Mapped
  <1>4. Contract!IsClosed <=> Mapped[session] \in {"closing", "closed"}
    BY DEF Contract!IsClosed, Mapped
  <1>5. SessionState(session) \in {"closing", "closed"} <=> IsClosed(session)
    BY <1>2 DEF SeenAs, IsClosed, Waits
  <1>6. ~IsClosed(session) => phase[session] = "open"
    BY <1>2 DEF IsClosed
  <1> QED
    BY <1>1, <1>3, <1>4, <1>5, <1>6

LEMMA StartRefines == ASSUME Link, StartOpen \/ StartClose PROVE ContractStep
  <1>0. UNCHANGED <<queueVars, pc, session>>
    BY DEF StartOpen, StartClose, queueVars, sessionVars
  <1>1. CASE StartOpen
    <2>1. PICK t \in Sessions : t = Opening
      BY CursorTypes
    <2>2. OnlyAt(t) /\ phase[t] = "none" /\ phase'[t] = "opening"
      BY <1>1, <2>1, ClientMoves DEF Link, StartOpen
    <2>3. \A s \in Sessions \ {t} : SessionState(s)' = SessionState(s)
      BY <1>0, <1>1, <2>2 DEF OnlyAt, SessionState, MustClose, StartOpen, MustOpen
    <2>4. SeenAs(t, SessionState(t)) /\ SeenAs(t, SessionState(t))'
      BY StateOf
    <2>5. SessionState(t)' = SessionState(t)
      BY <2>2, <2>4 DEF SeenAs
    <2> QED
      BY <1>0, <2>3, <2>5, Unseen DEF ContractStep
  <1>2. CASE StartClose
    <2>1. PICK t \in Sessions : t = session
      BY <1>2, CursorTypes DEF StartClose, MustClose
    <2>2. inFlight[t] = 0 /\ Waits(pc) /\ CloseAndWipe(t)
      BY <1>2, <2>1 DEF StartClose, MustClose, Link, LinkInv, InFlightInv, Waits
    <2>3. OnlyAt(t) /\ phase[t] = "open" /\ phase'[t] = "wiping"
      BY <2>2, ClientMoves DEF Link
    <2>4. \A s \in Sessions \ {t} : SessionState(s)' = SessionState(s)
      BY <1>0, <2>1, <2>3 DEF OnlyAt, SessionState, MustClose
    <2>5. SeenAs(t, SessionState(t)) /\ SeenAs(t, SessionState(t))'
      BY StateOf
    <2>6. SessionState(t)' = SessionState(t)
      BY <2>1, <2>2, <2>3, <2>5 DEF SeenAs, Waits
    <2> QED
      BY <1>0, <2>4, <2>6, Unseen DEF ContractStep
  <1> QED
    BY <1>1, <1>2

LEMMA CallRefines == ASSUME Link, CallSession PROVE ContractStep
  <1>1. session \in Sessions /\ session # 0 /\ pc = "read"
        /\ (SignNext(session) \/ SignNextRejected(session))
    BY CursorTypes DEF CallSession
  <1>2. phase' = phase /\ failure' = failure
    BY <1>1, ClientMoves DEF Link
  <1>3. pc' \in {"read", "signing"}
    BY <1>1 DEF CallSession, CallSignNext, queueVars
  <1>4. Mapped' = Mapped
    BY <1>1, <1>2, <1>3, Calm DEF Waits
  <1>5. CASE call'[session] = "pending"
    <2>1. phase[session] = "open" /\ ~failure[session]
      BY <1>1, <1>5, ClientMoves DEF Link
    <2>2. Mapped[session] = "live"
      BY <1>1, <2>1, StateOf DEF SeenAs, Mapped
    <2>3. Contract!CallSession
      BY <1>1, <1>4, <1>5, <2>2, SameQueue
         DEF CallSession, Contract!CallSession, Contract!Usable, Mapped
    <2> QED
      BY <2>3 DEF ContractStep, Contract!Next, Contract!Work
  <1>6. CASE call'[session] # "pending"
    BY <1>4, <1>6 DEF CallSession, ContractStep
  <1> QED
    BY <1>5, <1>6

LEMMA OpeningEndsRefines == ASSUME Link, OnOpened \/ OnOpenFailed PROVE ContractStep
  <1>1. Opening \in Sessions /\ pc \in {"opening", "reopening"} /\ pc' \in {"loop", "exited"}
    BY CursorTypes DEF OnOpened, OnOpenFailed, OpenSucceeds, ReopenSucceeds, OpenFails,
                       ReopenFails
  <1>2. phase' = phase /\ failure' = failure
    BY <1>1, ConsumedMoves DEF Link, OnOpened, OnOpenFailed
  <1>3. Mapped' = Mapped
    BY <1>1, <1>2, Calm DEF Waits
  <1>4. /\ SettledInv(Opening) /\ SeenAs(Opening, SessionState(Opening))
        /\ Mapped[reopensUsed + 1] = SessionState(Opening)
    BY <1>1, StateOf DEF Link, LinkInv, Mapped, Opening
  <1>5. CASE OnOpened
    <2>1. Mapped[reopensUsed + 1] \in {"live", "broken"}
      BY <1>1, <1>4, <1>5 DEF OnOpened, SettledInv, SeenAs
    <2>2. Contract!Opened
      BY <1>3, <1>5, <2>1, SameQueue DEF OnOpened, Contract!Opened, Mapped
    <2> QED
      BY <2>2 DEF ContractStep, Contract!Next, Contract!Work
  <1>6. CASE OnOpenFailed
    <2>1. Mapped[reopensUsed + 1] \in {"closing", "closed"}
      BY <1>4, <1>6 DEF OnOpenFailed, SettledInv, SeenAs
    <2>2. Contract!NotOpened
      BY <1>3, <1>6, <2>1, SameQueue DEF OnOpenFailed, Contract!NotOpened, Mapped
    <2> QED
      BY <2>2 DEF ContractStep, Contract!Next, Contract!Work
  <1> QED
    BY <1>5, <1>6

LEMMA AnsweredRefines == ASSUME Link, OnSigned \/ OnRejected PROVE ContractStep
  <1>1. /\ session \in Sessions /\ pc = "signing" /\ Consumed(session)
        /\ call[session] \in {"signed", "error", "review"}
        /\ pc' \in {"backoff", "delivering", "loop"}
    BY CursorTypes DEF OnSigned, OnRejected, ResolvedRetry, ResolvedFinal, RejectedDocument
  <1>2. phase' = phase /\ failure' = failure
    BY <1>1, ConsumedMoves DEF Link
  <1>3. Mapped' = Mapped
    BY <1>1, <1>2, Calm DEF Waits
  <1>4. Mapped[session] \in {"live", "closing"}
    BY <1>1, StateOf DEF Link, LinkInv, SettledInv, SeenAs, Mapped
  <1>5. \/ \E r \in Contract!ResultsNow : Contract!ResolvedRetry(r) \/ Contract!ResolvedFinal(r)
        \/ \E st \in {"failed", "needs_review"} : Contract!RejectedDocument(st)
    BY SameQueue DEF OnSigned, OnRejected
  <1>6. Contract!Answer
    BY <1>1, <1>3, <1>4, <1>5 DEF Contract!Answer, Mapped
  <1> QED
    BY <1>6 DEF ContractStep, Contract!Next, Contract!Work

LEMMA FatalRefines == ASSUME Link, OnFatal PROVE ContractStep
  <1>1. /\ session \in Sessions /\ session # 0 /\ pc \in {"read", "signing"} /\ Consumed(session)
        /\ call[session] \in FatalSettlements /\ RejectedFatal(IsClosed(session))
    BY CursorTypes DEF OnFatal
  <1>2. phase' = phase /\ failure' = failure
    BY <1>1, ConsumedMoves DEF Link
  <1>3. /\ Mapped[session] = SessionState(session)
        /\ Contract!IsClosed <=> IsClosed(session)
        /\ ~IsClosed(session) => phase[session] = "open"
    BY <1>1, ClosedAlike DEF Waits
  <1>4. session' = session /\ pc' \in {"loop", "reopening", "closing"}
        /\ (pc' = "closing" => ~IsClosed(session))
    BY <1>1 DEF RejectedFatal, AfterFatal
  <1>5. Mapped' = IF pc' = "closing" THEN [Mapped EXCEPT ![session] = "closing"] ELSE Mapped
    BY <1>1, <1>2, <1>3, <1>4, Calm, Closes DEF Waits
  <1>6. Contract!RejectedFatal(Contract!IsClosed) /\ Contract!CloseIf(pc' = "closing")
    <2>1. Contract!CloseIf(pc' = "closing")
      BY <1>5 DEF Contract!CloseIf, Mapped
    <2>2. Contract!RejectedFatal(IsClosed(session))
      BY <1>1, SameQueue
    <2> QED
      BY <1>3, <2>1, <2>2 DEF Contract!RejectedFatal, Contract!AfterFatal
  <1>7. CASE pc = "read"
    BY <1>6, <1>7 DEF Contract!RejectedAtOnce, ContractStep, Contract!Next, Contract!Work
  <1>8. CASE pc = "signing"
    <2>1. SettledInv(session) /\ AwaitInv(session) /\ SeenAs(session, SessionState(session))
      BY <1>1, StateOf DEF Link, LinkInv
    <2>2. call[session] \in {"timeout", "worker_failed"}
      BY <1>1, <1>8, <2>1 DEF AwaitInv, FatalSettlements, InOpen
    <2>3. phase[session] = "dead" \/ failure[session]
      BY <1>1, <2>1, <2>2 DEF SettledInv, Link, BusInd, LocalInv, RequestsInv
    <2>4. phase[session] \in {"open", "wiping", "dead"}
      BY <1>1 DEF Link, LinkInv, ProgressInv
    <2>5. Mapped[session] # "live"
      BY <1>3, <1>8, <2>1, <2>3, <2>4 DEF SeenAs
    <2>6. Contract!SessionRejects
      BY <1>6, <1>8, <2>5 DEF Contract!SessionRejects, Contract!Usable, Mapped
    <2> QED
      BY <2>6 DEF ContractStep, Contract!Next, Contract!Work
  <1> QED
    BY <1>1, <1>7, <1>8

LEMMA WipedRefines == ASSUME Link, OnWiped PROVE ContractStep
  <1>1. /\ session \in Sessions /\ session # 0 /\ session' = session
        /\ phase' = phase /\ failure' = failure /\ phase[session] = "dead"
    BY CursorTypes DEF OnWiped, Link, LinkInv, SettledInv, PreviousClosed, SessionClosedOnExit,
                       sessionVars
  <1>2. Mapped' = Mapped
    <2>1. \A s : SessionState(s)' = SessionState(s)
      BY <1>1 DEF SessionState, MustClose
    <2> QED
      BY <2>1, Unseen
  <1>3. Mapped[session] = "closed"
    BY <1>1, StateOf DEF SeenAs, Mapped
  <1>4. Contract!Closed
    BY <1>1, <1>2, <1>3, SameQueue DEF OnWiped, Contract!Closed, Mapped
  <1> QED
    BY <1>4 DEF ContractStep, Contract!Next, Contract!Work

\* The loop ends, or a callback throws: the session still open is closed.
LEMMA LeaveRefines ==
  ASSUME Link, UNCHANGED sessionBusVars,
         \/ pc = "loop" /\ LoopEnds(IsClosed(session))
         \/ CallbackThrows
  PROVE  ContractStep
  <1>1. /\ pc \in {"loop", "read"} /\ session' = session /\ pc' \in {"exited", "unwinding"}
        /\ (pc' = "unwinding" => ~IsClosed(session))
    BY DEF CallbackThrows, LoopEnds, UpdateThrows, Unwind, ExitVia, sessionVars
  <1>2. session # 0 /\ phase' = phase /\ failure' = failure
    BY <1>1, CursorTypes DEF sessionBusVars, busVars
  <1>3. /\ session \in Sessions
        /\ Contract!IsClosed <=> IsClosed(session)
        /\ ~IsClosed(session) => phase[session] = "open"
    BY <1>1, <1>2, ClosedAlike DEF Waits
  <1>4. Mapped' = IF pc' = "unwinding" THEN [Mapped EXCEPT ![session] = "closing"] ELSE Mapped
    BY <1>1, <1>2, <1>3, Calm, Closes DEF Waits
  <1>5. Contract!CloseIf(pc' = "unwinding")
    BY <1>4 DEF Contract!CloseIf, Mapped
  <1>6. CASE pc = "loop" /\ LoopEnds(IsClosed(session))
    <2>1. Contract!LoopEnds(Contract!IsClosed)
      BY <1>3, <1>6, SameQueue DEF Contract!LoopEnds, Contract!Unwind, Contract!ExitVia
    <2> QED
      BY <1>5, <1>6, <2>1 DEF Contract!Leave, ContractStep, Contract!Next, Contract!Work
  <1>7. CASE CallbackThrows
    <2>1. Contract!UpdateThrows(Contract!IsClosed)
      BY <1>3, <1>7, SameQueue
         DEF CallbackThrows, Contract!UpdateThrows, Contract!Unwind, Contract!ExitVia
    <2> QED
      BY <1>5, <1>7, <2>1
         DEF CallbackThrows, Contract!CallbackThrows, ContractStep, Contract!Next, Contract!World
  <1> QED
    BY <1>6, <1>7

\* The queue goes on by itself.
LEMMA TurnRefines ==
  ASSUME Link, UNCHANGED sessionBusVars,
         \/ Cancel \/ SkipUndelivered \/ SkipSessionless \/ Begin
         \/ ReadFails \/ BackoffEnds \/ Delivered \/ \E full \in BOOLEAN : DeliveryFails(full)
         \/ Abort
  PROVE  ContractStep
  <1>1. phase' = phase /\ failure' = failure
    BY DEF sessionBusVars, busVars
  <1>2. CASE Abort
    <2>1. \A s : SessionState(s)' = SessionState(s)
      BY <1>1, <1>2 DEF Abort, SessionState, MustClose, sessionVars
    <2>2. Mapped' = Mapped
      BY <2>1, Unseen
    <2> QED
      BY <1>2, <2>2, SameQueue DEF ContractStep, Contract!Next, Contract!World, Mapped
  <1>3. CASE ~Abort
    <2>1. ~Waits(pc) /\ ~Waits(pc')
      BY <1>3 DEF Waits, Cancel, SkipUndelivered, SkipSessionless, Skip, Begin, ReadFails,
                  BackoffEnds, Delivered, DeliveryFails
    <2>2. Mapped' = Mapped
      BY <1>1, <2>1, Calm
    <2>3. Contract!Turn
      BY <1>3, <2>2, SameQueue DEF Contract!Turn, Mapped
    <2> QED
      BY <2>3 DEF ContractStep, Contract!Next, Contract!Work
  <1> QED
    BY <1>2, <1>3

LEMMA NextRefines == ASSUME Link, [Next]_vars PROVE ContractStep
  <1>1. CASE StartOpen \/ StartClose \/ CallSession \/ Continue
    BY <1>1, StartRefines, CallRefines, OpeningEndsRefines, AnsweredRefines, FatalRefines,
       WipedRefines DEF Continue
  <1>2. CASE Loop \/ Event \/ Stop \/ CallbackThrows
    BY <1>2, LeaveRefines, TurnRefines DEF Loop, Event, Stop, CallbackThrows
  <1>3. ASSUME NEW t \in Sessions, Bus(t) \/ Message(t), UNCHANGED queueVars PROVE ContractStep
    <2>1. Consumable(t) /\ pc # "loop" /\ ~MustClose
      BY <1>3 DEF Bus, Message, Timer, OpenTimer, SignTimer, WipeTimer, Free, Quiet, Consumable,
                  Deliver
    <2>2. CASE Silent
      <3>1. \A s : SessionState(s)' = SessionState(s)
        BY <1>3, <2>2 DEF Silent, SessionState, MustClose, queueVars, sessionVars
      <3> QED
        BY <1>3, <3>1, Unseen DEF ContractStep
    <2>3. CASE ~Silent
      BY <1>3, <2>1, <2>3, TimerMoves, DeliverMoves, MoveRefines DEF Link, Bus, Message
    <2> QED
      BY <2>2, <2>3
  <1>4. ASSUME UNCHANGED queueVars, Silent PROVE ContractStep
    <2>1. \A s : SessionState(s)' = SessionState(s)
      BY <1>4 DEF Silent, SessionState, MustClose, queueVars, sessionVars
    <2> QED
      BY <1>4, <2>1, Unseen DEF ContractStep
  <1>5. ASSUME NEW t \in Sessions, Worker(t), UNCHANGED queueVars PROVE ContractStep
    BY <1>4, <1>5, WorkerMoves
  <1>6. CASE UNCHANGED vars
    BY <1>4, <1>6 DEF vars, sessionBusVars, busVars, Silent
  <1> QED
    BY <1>1, <1>2, <1>3, <1>5, <1>6 DEF Next, Queue

LEMMA InitRefines == Init => Contract!Init
  <1> SUFFICES ASSUME Init PROVE Contract!Init
    OBVIOUS
  <1>1. \A s \in SessionIds : SessionState(s) = "unopened"
    BY StateOf DEF Init, SessionInit, SeenAs
  <1>2. [s \in SessionIds |-> SessionState(s)] = [s \in Contract!SessionIds |-> "unopened"]
    BY <1>1 DEF SessionIds, Contract!SessionIds
  <1> QED
    BY <1>2, SameQueue DEF Init, Contract!Init

\* The bus and the worker keep the contract the queue is verified against, for
\* any number of documents, attempts and reopenings, whatever the interleaving
\* of the main thread and the workers (sign-queue.ts:717-998,
\* sign-session-bus.ts:396-863): what SignQueueProofs shows of the queue over the
\* contract holds of the batch signer as it runs.
THEOREM BatchKeepsContract == Spec => KeepsContract
  <1>1. Spec => Init /\ [][Next]_vars
    BY PTL DEF Spec
  <1>2. Init /\ [][Next]_vars => []Link
    BY LinkInit, LinkStep, PTL
  <1>3. ASSUME Link, [Next]_vars PROVE [Contract!Next]_(Contract!vars)
    <2>1. ASSUME UNCHANGED <<queueVars, Mapped>> PROVE UNCHANGED Contract!vars
      <3>1. UNCHANGED Contract!queueVars
        BY <2>1
           DEF queueVars, itemVars, historyVars, sessionVars, networkVars, deliveryVars,
               Contract!queueVars, Contract!itemVars, Contract!historyVars,
               Contract!sessionVars, Contract!networkVars, Contract!deliveryVars
      <3> QED
        BY <2>1, <3>1 DEF Contract!vars, Mapped
    <2> QED
      BY <1>3, <2>1, NextRefines DEF ContractStep
  <1>4. Init /\ [][Next]_vars /\ []Link => Contract!Init /\ [][Contract!Next]_(Contract!vars)
    BY <1>3, InitRefines, PTL
  <1> QED
    BY <1>1, <1>2, <1>4, PTL DEF KeepsContract, Contract!Safety
=============================================================================
