--------------------------- MODULE SignQueueProofs ---------------------------
(***************************************************************************)
(* Theorems about SignQueue, for every batch size and every value of the   *)
(* budgets and thresholds.  The lemmas show that Inv (SignQueueInv) is     *)
(* inductive, one group of actions at a time; the theorems follow from it. *)
(* Then what the counters and flags of a batch remember: the number of     *)
(* deaths of the session, and the three circuit breakers. Each of them     *)
(* follows from how its counter relates to a set of documents (DeathInv,   *)
(* LtvFlag, TsaStreak, DeliveryStreak), given Inv.                         *)
(***************************************************************************)
EXTENDS SignQueueInv, FiniteSetTheorems, TLAPS

USE BatchAssumption
    DEF Items, SessionIds, PCs, Terminal, Statuses, NotAttempted, Errors,
        Deliveries, SessionStates, InHand, Asking, ShutDown, Idle,
        Finished, NextItem, itemVars, historyVars, sessionVars, networkVars,
        deliveryVars, queueVars

-----------------------------------------------------------------------------
\* The invariant holds when runBatchSign is called.
LEMMA InitInv == Init => Inv
  <1> SUFFICES ASSUME Init PROVE Inv
    OBVIOUS
  <1>0. NoOutcome \in Outcomes
    BY DEF NoOutcome, Outcomes
  <1>1. TypeOK
    <2>1. i \in 1..(N + 1) /\ session \in 0..(MaxReopens + 1) /\ reopensUsed \in 0..MaxReopens
      BY DEF Init, QueueInit
    <2>2. attempt \in 0..MaxAttempts /\ attempts \in [Items -> 0..MaxAttempts]
      BY DEF Init, QueueInit
    <2>3. outcome \in [Items -> Outcomes]
      BY <1>0 DEF Init, QueueInit
    <2> QED
      BY <2>1, <2>2, <2>3 DEF Init, QueueInit, TypeOK
  <1>2. CursorInv
    BY DEF Init, QueueInit, CursorInv, InOrder
  <1>3. AttemptInv
    BY DEF Init, QueueInit, AttemptInv
  <1>4. GiveUpInv
    BY DEF Init, QueueInit, GiveUpInv, GivenUpForGood
  <1>5. HandOverInv
    BY DEF Init, QueueInit, HandOverInv, SignedBytesAreHeld
  <1>6. SessionInv
    BY DEF Init, QueueInit, SessionInv
  <1> QED
    BY <1>1, <1>2, <1>3, <1>4, <1>5, <1>6 DEF Inv

-----------------------------------------------------------------------------
\* A step of a session alone: it opens, breaks, times out or is terminated.
LEMMA SessionSteps ==
  ASSUME Inv, OpenEnds \/ WorkerFails \/ TimerFires \/ TeardownEnds
  PROVE  Inv'
  <1>1. UNCHANGED queueVars
    BY DEF OpenEnds, WorkerFails, TimerFires, TeardownEnds
  <1>2. CursorInv' /\ AttemptInv' /\ GiveUpInv' /\ HandOverInv'
    BY <1>1 DEF Inv, CursorInv, AttemptInv, GiveUpInv, HandOverInv, InOrder,
               AttemptCap, Attempted, GivenUpForGood, SignedBytesAreHeld
  <1>3. TypeOK' /\ SessionInv'
    <2> USE <1>1 DEF Inv, TypeOK, CursorInv, SessionInv
    <2>1. CASE OpenEnds
      BY <2>1 DEF OpenEnds
    <2>2. CASE WorkerFails
      BY <2>2 DEF WorkerFails, Usable
    <2>3. CASE TimerFires
      BY <2>3 DEF TimerFires, Usable
    <2>4. CASE TeardownEnds
      BY <2>4 DEF TeardownEnds
    <2> QED
      BY <2>1, <2>2, <2>3, <2>4
  <1> QED
    BY <1>2, <1>3 DEF Inv

\* A session was opened, first or again.
LEMMA OpenedStep == ASSUME Inv, Opened PROVE Inv'
  <1>1. CASE OpenSucceeds
    BY <1>1 DEF Inv, TypeOK, CursorInv, AttemptInv, GiveUpInv, HandOverInv, SessionInv, InOrder,
               AttemptCap, Attempted, GivenUpForGood, SignedBytesAreHeld,
               Opened, OpenSucceeds
  <1>2. CASE ReopenSucceeds
    BY <1>2 DEF Inv, TypeOK, CursorInv, AttemptInv, GiveUpInv, HandOverInv, SessionInv, InOrder,
               AttemptCap, Attempted, GivenUpForGood, SignedBytesAreHeld,
               Opened, ReopenSucceeds
  <1> QED
    BY <1>1, <1>2 DEF Opened

\* An opening failed: the first one ends the run, a later one kills the tail.
LEMMA NotOpenedStep == ASSUME Inv, NotOpened PROVE Inv'
  <1>1. CASE OpenFails
    <2>1. TypeOK' /\ CursorInv' /\ AttemptInv' /\ GiveUpInv' /\ HandOverInv'
      BY <1>1 DEF Inv, TypeOK, CursorInv, AttemptInv, GiveUpInv, HandOverInv, InOrder,
                 AttemptCap, Attempted, GivenUpForGood, SignedBytesAreHeld,
                 NotOpened, OpenFails
    <2>2. SessionInv'
      BY <1>1 DEF Inv, TypeOK, SessionInv, NotOpened, OpenFails
    <2> QED
      BY <2>1, <2>2 DEF Inv
  <1>2. CASE ReopenFails
    BY <1>2 DEF Inv, TypeOK, CursorInv, AttemptInv, GiveUpInv, HandOverInv, SessionInv, InOrder,
               AttemptCap, Attempted, GivenUpForGood, SignedBytesAreHeld,
               NotOpened, ReopenFails
  <1> QED
    BY <1>1, <1>2 DEF NotOpened

-----------------------------------------------------------------------------
\* The request is posted to the worker.
LEMMA CallSessionStep == ASSUME Inv, CallSession PROVE Inv'
  BY DEF Inv, TypeOK, CursorInv, AttemptInv, GiveUpInv, HandOverInv, SessionInv, InOrder,
         AttemptCap, Attempted, GivenUpForGood, SignedBytesAreHeld,
         CallSession, CallSignNext, Usable

\* The worker's answer: retried, accepted, or a failure of the document only.
LEMMA AnswerStep == ASSUME Inv, Answer PROVE Inv'
  <1>1. ASSUME NEW r \in ResultsNow, ResolvedRetry(r) PROVE Inv'
    BY <1>1 DEF Inv, TypeOK, CursorInv, AttemptInv, GiveUpInv, HandOverInv, SessionInv, InOrder,
               AttemptCap, Attempted, GivenUpForGood, SignedBytesAreHeld,
               Answer, ResolvedRetry
  <1>2. ASSUME NEW r \in ResultsNow, ResolvedFinal(r) PROVE Inv'
    <2>1. Outcome(r) \in Outcomes
      BY DEF Inv, TypeOK, Outcome, Outcomes, ResultsNow, Results, RetryableTsaFailure
    <2>2. TypeOK'
      BY <1>2, <2>1 DEF Inv, TypeOK, CursorInv, Answer, ResolvedFinal
    <2>3. CursorInv'
      BY <1>2 DEF Inv, TypeOK, CursorInv, InOrder, ResolvedFinal
    <2>4. AttemptInv'
      BY <1>2 DEF Inv, TypeOK, CursorInv, AttemptInv, ResolvedFinal
    <2>5. GiveUpInv'
      BY <1>2 DEF Inv, TypeOK, CursorInv, GiveUpInv, Attempted, GivenUpForGood, ResolvedFinal
    <2>6. HandOverInv'
      BY <1>2 DEF Inv, TypeOK, CursorInv, HandOverInv, SignedBytesAreHeld, ResolvedFinal
    <2>7. SessionInv'
      BY <1>2 DEF Inv, CursorInv, SessionInv, Answer, ResolvedFinal
    <2> QED
      BY <2>2, <2>3, <2>4, <2>5, <2>6, <2>7 DEF Inv
  <1>3. ASSUME NEW st \in {"failed", "needs_review"}, RejectedDocument(st) PROVE Inv'
    BY <1>3 DEF Inv, TypeOK, CursorInv, AttemptInv, GiveUpInv, HandOverInv, SessionInv, InOrder,
               AttemptCap, Attempted, GivenUpForGood, SignedBytesAreHeld,
               Answer, RejectedDocument, Unsigned
  <1> QED
    BY <1>1, <1>2, <1>3 DEF Answer

\* A session-fatal rejection, of a pending call or of one rejected at once:
\* the tail dies, or the previous session is closed and a new one is opened.
LEMMA FatalStep ==
  ASSUME Inv, RejectedAtOnce \/ SessionRejects
  PROVE  Inv'
  <1> USE DEF RejectedFatal, Unsigned, SessionDies, AfterFatal, CloseIf, IsClosed
  <1>0. pc \in {"read", "signing"} /\ RejectedFatal(IsClosed) /\ CloseIf(pc' = "closing")
    BY DEF RejectedAtOnce, SessionRejects
  <1>1. TypeOK'
    <2>1. CASE reopensUsed >= MaxReopens
      BY <1>0, <2>1 DEF Inv, TypeOK, CursorInv
    <2>2. CASE ~(reopensUsed >= MaxReopens)
      BY <1>0, <2>2 DEF Inv, TypeOK, CursorInv, SessionInv
    <2> QED
      BY <2>1, <2>2
  <1>2. CursorInv'
    BY <1>0 DEF Inv, TypeOK, CursorInv, InOrder
  <1>3. AttemptInv'
    BY <1>0 DEF Inv, TypeOK, CursorInv, AttemptInv, AttemptCap
  <1>4. GiveUpInv'
    BY <1>0 DEF Inv, TypeOK, CursorInv, GiveUpInv, InOrder, Attempted, GivenUpForGood
  <1>5. HandOverInv'
    BY <1>0 DEF Inv, TypeOK, CursorInv, HandOverInv, SignedBytesAreHeld
  <1>6. SessionInv'
    <2>1. CASE reopensUsed >= MaxReopens
      BY <1>0, <2>1 DEF Inv, TypeOK, CursorInv, SessionInv
    <2>2. CASE ~(reopensUsed >= MaxReopens) /\ IsClosed
      BY <1>0, <2>2 DEF Inv, TypeOK, CursorInv, SessionInv
    <2>3. CASE ~(reopensUsed >= MaxReopens) /\ ~IsClosed
      BY <1>0, <2>3 DEF Inv, TypeOK, CursorInv, SessionInv
    <2> QED
      BY <2>1, <2>2, <2>3
  <1> QED
    BY <1>1, <1>2, <1>3, <1>4, <1>5, <1>6 DEF Inv

\* The session the queue waits for has been terminated.
LEMMA ClosedStep == ASSUME Inv, Closed PROVE Inv'
  <1>1. CASE PreviousClosed
    BY <1>1 DEF Inv, TypeOK, CursorInv, AttemptInv, GiveUpInv, HandOverInv, SessionInv, InOrder,
               AttemptCap, Attempted, GivenUpForGood, SignedBytesAreHeld,
               Closed, PreviousClosed
  <1>2. CASE SessionClosedOnExit
    BY <1>2 DEF Inv, TypeOK, CursorInv, AttemptInv, GiveUpInv, HandOverInv, SessionInv, InOrder,
               AttemptCap, Attempted, GivenUpForGood, SignedBytesAreHeld,
               Closed, SessionClosedOnExit
  <1> QED
    BY <1>1, <1>2 DEF Closed

-----------------------------------------------------------------------------
\* The run leaves the loop, at its end or by an exception of the callback.
LEMMA ExitStep ==
  ASSUME Inv, Leave \/ CallbackThrows
  PROVE  Inv'
  <1> USE DEF Unwind, ExitVia, CloseIf, IsClosed
  <1>1. /\ pc \in {"read", "loop"}
        /\ \E how \in {"returned", "threw"} :
             Unwind(how, IsClosed) /\ (how = "returned" => i > N)
        /\ CloseIf(pc' = "unwinding")
    BY DEF Leave, LoopEnds, CallbackThrows, UpdateThrows
  <1>2. TypeOK' /\ CursorInv' /\ AttemptInv' /\ GiveUpInv' /\ HandOverInv'
    BY <1>1 DEF Inv, TypeOK, CursorInv, AttemptInv, GiveUpInv, HandOverInv, SessionInv, InOrder,
               AttemptCap, Attempted, GivenUpForGood, SignedBytesAreHeld
  <1>3. SessionInv'
    <2>1. CASE IsClosed
      BY <1>1, <2>1 DEF Inv, TypeOK, SessionInv
    <2>2. CASE ~IsClosed
      BY <1>1, <2>2 DEF Inv, TypeOK, SessionInv
    <2> QED
      BY <2>1, <2>2
  <1> QED
    BY <1>2, <1>3 DEF Inv

\* One turn of the loop, or a step of the document in hand, with no session.
LEMMA TurnStep == ASSUME Inv, Turn PROVE Inv'
  <1> USE DEF Inv, TypeOK, CursorInv, AttemptInv, GiveUpInv, HandOverInv, SessionInv, InOrder,
              AttemptCap, Attempted, GivenUpForGood, SignedBytesAreHeld, Turn
  <1>1. CASE Cancel
    BY <1>1 DEF Cancel, Skip
  <1>2. CASE SkipUndelivered
    BY <1>2 DEF SkipUndelivered, Skip
  <1>3. CASE SkipSessionless
    BY <1>3 DEF SkipSessionless, Skip
  <1>4. CASE Begin
    BY <1>4 DEF Begin, MayBegin
  <1>5. CASE ReadFails
    BY <1>5 DEF ReadFails, Unsigned
  <1>6. CASE BackoffEnds
    BY <1>6 DEF BackoffEnds
  <1>7. CASE Delivered
    BY <1>7 DEF Delivered, HandOver
  <1>8. ASSUME NEW full \in BOOLEAN, DeliveryFails(full) PROVE Inv'
    BY <1>8 DEF DeliveryFails, HandOver, DeliveryTrips
  <1> QED
    BY <1>1, <1>2, <1>3, <1>4, <1>5, <1>6, <1>7, <1>8

\* Every step of the specification preserves the invariant.
LEMMA StepInv == Inv /\ [Next]_vars => Inv'
  <1> SUFFICES ASSUME Inv, [Next]_vars PROVE Inv'
    OBVIOUS
  <1>1. CASE Work
    BY <1>1, SessionSteps, OpenedStep, NotOpenedStep, CallSessionStep, AnswerStep,
       FatalStep, ClosedStep, ExitStep, TurnStep DEF Work
  <1>2. CASE Abort /\ UNCHANGED sess
    BY <1>2 DEF Inv, TypeOK, CursorInv, AttemptInv, GiveUpInv, HandOverInv, SessionInv, InOrder,
               AttemptCap, Attempted, GivenUpForGood, SignedBytesAreHeld, Abort
  <1>3. CASE WorkerFails \/ TimerFires \/ CallbackThrows
    BY <1>3, SessionSteps, ExitStep
  <1>4. CASE UNCHANGED vars
    BY <1>4 DEF vars, Inv, TypeOK, CursorInv, AttemptInv, GiveUpInv, HandOverInv, SessionInv, InOrder,
               AttemptCap, Attempted, GivenUpForGood, SignedBytesAreHeld
  <1> QED
    BY <1>1, <1>2, <1>3, <1>4 DEF Next, World

\* Inv is an invariant of the queue over the contract; fairness is not needed.
THEOREM Invariance == Safety => []Inv
  BY InitInv, StepInv, PTL DEF Safety

-----------------------------------------------------------------------------
\* Type correctness, for every batch and every bound.
THEOREM TypeCorrect == Safety => []TypeOK
  BY Invariance, PTL DEF Inv

\* The documents are handled in order (sign-queue.ts:819).
THEOREM DocumentsInOrder == Safety => []InOrder
  BY Invariance, PTL DEF Inv, CursorInv

\* Nothing is attempted after a document that was given up (823-861).
THEOREM NeverResumed == Safety => []GivenUpForGood
  BY Invariance, PTL DEF Inv, GiveUpInv

\* The run ends with the container zeroed and no session open (970-988).
THEOREM NothingRetained == Safety => []NothingRetainedOnExit
  <1>1. Inv => NothingRetainedOnExit
    BY DEF Inv, TypeOK, SessionInv, NothingRetainedOnExit
  <1> QED
    BY <1>1, Invariance, PTL

\* A returned batch has a verdict on every document (990-997).
THEOREM TalliesAddUp == Safety => []ReturnedIsComplete
  <1>1. Inv => ReturnedIsComplete
    BY DEF Inv, TypeOK, CursorInv, InOrder, ReturnedIsComplete
  <1> QED
    BY <1>1, Invariance, PTL

\* A session is opened only once every earlier one was told to close (783-796).
THEOREM OneOpenSessionAlways == Safety => []OneOpenSession
  <1>1. Inv => OneOpenSession
    <2> SUFFICES ASSUME Inv, NEW s \in SessionIds, NEW t \in SessionIds,
                        s < t, sess[t] # "unopened"
                 PROVE  sess[s] \in Idle
      BY DEF OneOpenSession, Idle, ShutDown
    <2>1. s <= reopensUsed
      BY DEF Inv, TypeOK, SessionInv
    <2>2. CASE s = session
      BY <2>1, <2>2 DEF Inv, SessionInv, Idle
    <2>3. CASE s # session
      BY <2>1, <2>3 DEF Inv, TypeOK, SessionInv
    <2> QED
      BY <2>2, <2>3
  <1> QED
    BY <1>1, Invariance, PTL

-----------------------------------------------------------------------------

\* The signed bytes of a document are handed over or kept (919-967).
THEOREM BytesHeld == Safety => []SignedBytesAreHeld
  BY Invariance, PTL DEF Inv, HandOverInv

-----------------------------------------------------------------------------
\* What any step may change about the documents: nothing but document i, and
\* of that one nothing once it has its verdict, except where its bytes are.
LEMMA OnlyInHand ==
  ASSUME Inv, Next, NEW k \in Items, Finished(k)
  PROVE  /\ status'[k] = status[k] /\ error'[k] = error[k]
         /\ outcome'[k] = outcome[k]
         /\ (delivery[k] # "none" => delivery'[k] = delivery[k])
  <1> USE DEF Inv, TypeOK, CursorInv, HandOverInv, InOrder
  <1>1. CASE UNCHANGED itemVars
    BY <1>1
  <1>2. CASE Cancel \/ SkipUndelivered \/ SkipSessionless
    BY <1>2 DEF Cancel, SkipUndelivered, SkipSessionless, Skip
  <1>3. CASE Begin
    BY <1>3 DEF Begin
  <1>4. CASE ReadFails \/ RejectedAtOnce \/ SessionRejects
    BY <1>4 DEF ReadFails, RejectedAtOnce, SessionRejects, RejectedFatal, Unsigned
  <1>5. CASE Answer
    <2>1. ASSUME NEW r \in ResultsNow, ResolvedRetry(r) \/ ResolvedFinal(r)
          PROVE  \A j \in Items \ {i} : /\ status'[j] = status[j] /\ error'[j] = error[j]
                                        /\ outcome'[j] = outcome[j] /\ delivery'[j] = delivery[j]
      BY <2>1 DEF ResolvedRetry, ResolvedFinal
    <2>2. ASSUME NEW st \in {"failed", "needs_review"}, RejectedDocument(st)
          PROVE  \A j \in Items \ {i} : /\ status'[j] = status[j] /\ error'[j] = error[j]
                                        /\ outcome'[j] = outcome[j] /\ delivery'[j] = delivery[j]
      BY <2>2 DEF RejectedDocument, Unsigned
    <2> QED
      BY <1>5, <2>1, <2>2 DEF Answer
  <1>6. CASE Delivered \/ \E full \in BOOLEAN : DeliveryFails(full)
    BY <1>6 DEF Delivered, DeliveryFails, HandOver
  <1>7. \/ UNCHANGED itemVars
        \/ Cancel \/ SkipUndelivered \/ SkipSessionless \/ Begin \/ ReadFails
        \/ RejectedAtOnce \/ SessionRejects \/ Answer
        \/ Delivered \/ \E full \in BOOLEAN : DeliveryFails(full)
    BY DEF Next, Work, World, Abort, OpenEnds, TeardownEnds, WorkerFails, TimerFires,
           Opened, OpenSucceeds, ReopenSucceeds, NotOpened, OpenFails, ReopenFails,
           CallSession, CallSignNext, Closed, PreviousClosed, SessionClosedOnExit,
           Leave, LoopEnds, CallbackThrows, UpdateThrows, Unwind, Turn, BackoffEnds
  <1> QED
    BY <1>1, <1>2, <1>3, <1>4, <1>5, <1>6, <1>7

\* A verdict, and what was reported with it, never changes (819-967).
THEOREM VerdictsFinal == Safety => VerdictsAreFinal
  <1>1. Inv /\ [Next]_vars =>
          [\A k \in Items : Finished(k) =>
             /\ status'[k] = status[k] /\ error'[k] = error[k]
             /\ outcome'[k] = outcome[k]
             /\ (delivery[k] # "none" => delivery'[k] = delivery[k])]_vars
    BY OnlyInHand
  <1>2. Safety => [][Next]_vars
    BY PTL DEF Safety
  <1> QED
    BY <1>1, <1>2, Invariance, PTL DEF VerdictsAreFinal

-----------------------------------------------------------------------------
\* The refinement of Batch.  A document was given up when it has a verdict that
\* no attempt gave it.
GivenUp    == \E k \in Items : Finished(k) /\ ~Attempted(k)

USE DEF Promise!Items, Promise!Verdict

\* A step that shows the caller nothing is a stutter of the promise.
LEMMA Hidden ==
  ASSUME Inv, Inv', UNCHANGED <<status, error>>, pc # "exited", pc' # "exited"
  PROVE  UNCHANGED Promise!vars
  BY DEF Promise!vars, Attempted

\* Skipping a document is giving it up.
LEMMA SkipGivesUp ==
  ASSUME Inv, Cancel \/ SkipUndelivered \/ SkipSessionless
  PROVE  Promise!Next
  <1> USE DEF Inv, TypeOK, CursorInv, InOrder
  <1>1. PICK v \in {"failed", "cancelled"} :
          /\ pc = "loop" /\ i \in Items
          /\ status' = [status EXCEPT ![i] = v]
          /\ v = "cancelled" \/ error'[i] \in NotAttempted
          /\ UNCHANGED <<pc, exit>>
    BY DEF Cancel, SkipUndelivered, SkipSessionless, Skip
  <1>2. Promise!Turn(i)
    BY <1>1 DEF Promise!Turn
  <1>3. GivenUp'
    BY <1>1 DEF GivenUp, Attempted
  <1>4. Promise!GiveUp(i, v)
    BY <1>1, <1>2, <1>3 DEF Promise!GiveUp, GivenUp
  <1> QED
    BY <1>1, <1>4 DEF Promise!Next, Promise!Advance

\* A document begins only when none was given up.
LEMMA BeginBegins == ASSUME Inv, Begin PROVE Promise!Next
  <1> USE DEF Inv, TypeOK, CursorInv, InOrder
  <1>1. pc = "loop" /\ i \in Items /\ pc' = "read" /\ UNCHANGED <<error, exit>>
        /\ status' = [status EXCEPT ![i] = "signing"]
    BY DEF Begin
  <1>2. ~GivenUp
    BY DEF Begin, MayBegin, GiveUpInv, GivenUp
  <1>3. ~GivenUp'
    BY <1>1, <1>2 DEF GivenUp, Attempted
  <1>4. Promise!Turn(i)
    BY <1>1 DEF Promise!Turn
  <1>5. Promise!Begin(i)
    BY <1>1, <1>2, <1>3, <1>4 DEF Promise!Begin, GivenUp
  <1> QED
    BY <1>1, <1>5 DEF Promise!Next, Promise!Advance

\* The verdict of the document in hand, whichever way it is reached.
LEMMA VerdictDecides ==
  ASSUME Inv, pc \in {"read", "signing"}, pc' # "exited",
         NEW v \in {"done", "failed", "needs_review"},
         NEW e \in {"none", "document", "session_fatal"},
         status' = [status EXCEPT ![i] = v],
         error' = [error EXCEPT ![i] = e]
  PROVE  Promise!Next
  <1> USE DEF Inv, TypeOK, CursorInv
  <1>1. \A k \in Items : (Finished(k) /\ ~Attempted(k))' <=> (Finished(k) /\ ~Attempted(k))
    <2> TAKE k \in Items
    <2>1. CASE k = i
      BY <2>1 DEF Attempted
    <2>2. CASE k # i
      BY <2>2 DEF Attempted
    <2> QED
      BY <2>1, <2>2
  <1>2. Promise!Decide(i, v)
    BY <1>1 DEF Promise!Decide
  <1> QED
    BY <1>2 DEF Promise!Next, Promise!Advance

\* The end of the run is a Return with every verdict, or a Throw.
LEMMA ExitShows ==
  ASSUME Inv, Inv', UNCHANGED <<status, error>>, pc # "exited", pc' = "exited"
  PROVE  Promise!Next
  <1>1. UNCHANGED GivenUp
    BY DEF GivenUp, Attempted
  <1>2. CASE exit' = "returned"
    <2>1. \A k \in Items : status[k] \in Terminal
      BY <1>2 DEF Inv, TypeOK, CursorInv, InOrder
    <2> QED
      BY <1>1, <1>2, <2>1 DEF Promise!Next, Promise!Advance, Promise!Return, GivenUp
  <1>3. CASE exit' = "threw"
    BY <1>1, <1>3 DEF Promise!Next, Promise!Throw, GivenUp
  <1> QED
    BY <1>2, <1>3 DEF Inv, TypeOK, CursorInv

\* Every step of the queue is a step of the promise, or shows nothing.
LEMMA StepRefines == Inv /\ Inv' /\ [Next]_vars => [Promise!Next]_(Promise!vars)
  <1> SUFFICES ASSUME Inv, Inv', [Next]_vars PROVE [Promise!Next]_(Promise!vars)
    OBVIOUS
  <1>1. CASE UNCHANGED <<pc, status, error, exit>>
    BY <1>1 DEF Promise!vars, Attempted
  <1>2. CASE Opened \/ CallSession \/ PreviousClosed \/ BackoffEnds \/ ReopenFails
    BY <1>2, Hidden DEF Opened, OpenSucceeds, ReopenSucceeds, CallSession, CallSignNext,
                        PreviousClosed, BackoffEnds, ReopenFails
  <1>3. CASE OpenFails \/ SessionClosedOnExit
    BY <1>3, ExitShows DEF OpenFails, SessionClosedOnExit
  <1>4. CASE Leave \/ CallbackThrows
    BY <1>4, ExitShows, Hidden DEF Leave, LoopEnds, CallbackThrows, UpdateThrows, Unwind, ExitVia
  <1>5. CASE Cancel \/ SkipUndelivered \/ SkipSessionless
    BY <1>5, SkipGivesUp
  <1>6. CASE Begin
    BY <1>6, BeginBegins
  <1>7. CASE ReadFails
    BY <1>7, VerdictDecides DEF ReadFails, Unsigned
  <1>8. CASE RejectedAtOnce \/ SessionRejects
    <2>1. /\ pc \in {"read", "signing"} /\ pc' # "exited"
          /\ Unsigned("failed", "session_fatal")
      BY <1>8 DEF RejectedAtOnce, SessionRejects, RejectedFatal, AfterFatal
    <2> QED
      BY <2>1, VerdictDecides DEF Unsigned
  <1>9. CASE Answer
    <2>1. ASSUME NEW r \in ResultsNow, ResolvedRetry(r) PROVE UNCHANGED Promise!vars
      BY <2>1, Hidden DEF ResolvedRetry
    <2>2. ASSUME NEW r \in ResultsNow, ResolvedFinal(r) PROVE Promise!Next
      <3>1. error' = [error EXCEPT ![i] = "none"]
        BY <2>2 DEF ResolvedFinal, Inv, TypeOK, CursorInv, GiveUpInv
      <3> QED
        BY <2>2, <3>1, VerdictDecides DEF ResolvedFinal
    <2>3. ASSUME NEW st \in {"failed", "needs_review"}, RejectedDocument(st)
          PROVE  Promise!Next
      BY <2>3, VerdictDecides DEF RejectedDocument, Unsigned
    <2> QED
      BY <1>9, <2>1, <2>2, <2>3 DEF Answer
  <1>10. CASE Delivered \/ \E full \in BOOLEAN : DeliveryFails(full)
    BY <1>10, Hidden DEF Delivered, DeliveryFails
  <1> QED
    BY <1>1, <1>2, <1>3, <1>4, <1>5, <1>6, <1>7, <1>8, <1>9, <1>10
       DEF vars, Next, Work, World, Abort, OpenEnds, TeardownEnds, WorkerFails,
           TimerFires, NotOpened, Closed, Turn

\* The queue implements the promise of Batch: every behaviour its callers see
\* is one that Batch allows (the whole of runBatchSign, 717-998).
THEOREM ImplementsBatch == Safety => Promise!Safety
  <1>1. Init => Promise!Init
    BY DEF Init, QueueInit, Promise!Init
  <1> QED
    BY <1>1, InitInv, StepInv, StepRefines, PTL DEF Safety, Promise!Safety

-----------------------------------------------------------------------------
(* The counters and the circuit breakers.                                 *)

\* What is proved inductive for each breaker.
LtvInv      == LtvFlag /\ LtvBreakerIsReported
TsaInv      == TsaStreak /\ TsaBreakerCapsAttempts
DeliveryInv == DeliveryStreak /\ DeliveryBreakerStops
FullInv     == Inv /\ DeathInv /\ LtvInv /\ TsaInv /\ DeliveryInv

-----------------------------------------------------------------------------
\* Any set of documents is finite, and adding document k adds at most one.
LEMMA SetsOfItems ==
  /\ \A S \in SUBSET Items : IsFiniteSet(S) /\ Cardinality(S) \in Nat
  /\ \A S, T \in SUBSET Items : S \subseteq T => Cardinality(S) <= Cardinality(T)
  /\ \A S, T \in SUBSET Items, k \in Items :
       T \subseteq S \cup {k} => Cardinality(T) <= Cardinality(S) + 1
  <1>1. IsFiniteSet(Items)
    BY FS_Interval
  <1>2. ASSUME NEW S \in SUBSET Items PROVE IsFiniteSet(S) /\ Cardinality(S) \in Nat
    BY <1>1, FS_Subset, FS_CardinalityType
  <1>3. ASSUME NEW S \in SUBSET Items, NEW T \in SUBSET Items, S \subseteq T
        PROVE  Cardinality(S) <= Cardinality(T)
    BY <1>2, <1>3, FS_Subset
  <1>4. ASSUME NEW S \in SUBSET Items, NEW T \in SUBSET Items, NEW k \in Items,
               T \subseteq S \cup {k}
        PROVE  Cardinality(T) <= Cardinality(S) + 1
    <2>1. /\ IsFiniteSet(S \cup {k})
          /\ \/ Cardinality(S \cup {k}) = Cardinality(S)
             \/ Cardinality(S \cup {k}) = Cardinality(S) + 1
      BY <1>2, FS_AddElement
    <2>2. Cardinality(T) <= Cardinality(S \cup {k})
      BY <1>4, <2>1, FS_Subset
    <2>3. Cardinality(S) \in Nat /\ Cardinality(T) \in Nat
      BY <1>2
    <2> QED
      BY <2>1, <2>2, <2>3
  <1> QED
    BY <1>2, <1>3, <1>4

-----------------------------------------------------------------------------
Deaths == {k \in Items : error[k] = "session_fatal"}

\* One death of the session costs one document and one reopening.
LEMMA DeathStep == Inv /\ DeathInv /\ [Next]_vars => DeathInv'
  <1> SUFFICES ASSUME Inv, DeathInv, [Next]_vars PROVE DeathInv'
    OBVIOUS
  <1> USE DEF Inv, TypeOK, CursorInv, GiveUpInv
  <1>1. CASE RejectedAtOnce \/ SessionRejects
    <2>1. RejectedFatal(IsClosed)
      BY <1>1 DEF RejectedAtOnce, SessionRejects
    <2>2. Deaths' \subseteq Deaths \cup {i}
      BY <2>1 DEF RejectedFatal, Unsigned, Deaths
    <2>3. Cardinality(Deaths') <= Cardinality(Deaths) + 1
      BY <2>1, <2>2, SetsOfItems DEF Deaths, RejectedFatal
    <2>4. ~sessionDead
      BY <2>1 DEF RejectedFatal
    <2>5. Cardinality(Deaths) <= reopensUsed
      BY <2>4 DEF DeathInv, Deaths
    <2>6. Cardinality(Deaths) \in Nat /\ Cardinality(Deaths') \in Nat
      BY SetsOfItems DEF Deaths
    <2>7. Cardinality(Deaths') <= reopensUsed' + (IF sessionDead' THEN 1 ELSE 0)
      <3>1. CASE reopensUsed >= MaxReopens
        <4>1. sessionDead' /\ reopensUsed' = reopensUsed
          BY <2>1, <3>1 DEF RejectedFatal, SessionDies
        <4>2. Cardinality(Deaths') <= reopensUsed + 1
          BY <2>3, <2>5, <2>6
        <4> QED
          BY <4>1, <4>2
      <3>2. CASE ~(reopensUsed >= MaxReopens)
        BY <2>1, <2>3, <2>5, <2>6, <3>2 DEF RejectedFatal, SessionDies
      <3> QED
        BY <3>1, <3>2
    <2> QED
      BY <2>7 DEF DeathInv, Deaths
  <1>2. CASE ~(RejectedAtOnce \/ SessionRejects)
    <2>1. /\ Deaths' \subseteq Deaths
          /\ reopensUsed' = reopensUsed
          /\ sessionDead => sessionDead'
      <3>1. CASE Turn
        BY <3>1 DEF Deaths, Turn, Cancel, SkipUndelivered, SkipSessionless, Skip, Begin,
               ReadFails, Unsigned, BackoffEnds, Delivered, DeliveryFails
      <3>2. CASE Answer
        <4>1. ASSUME NEW r \in ResultsNow, ResolvedRetry(r) \/ ResolvedFinal(r)
              PROVE  UNCHANGED <<error, reopensUsed, sessionDead>>
          BY <4>1 DEF ResolvedRetry, ResolvedFinal
        <4>2. ASSUME NEW st \in {"failed", "needs_review"}, RejectedDocument(st)
              PROVE  /\ Deaths' \subseteq Deaths
                     /\ UNCHANGED <<reopensUsed, sessionDead>>
          BY <4>2 DEF Deaths, RejectedDocument, Unsigned
        <4> QED
          BY <3>2, <4>1, <4>2 DEF Answer, Deaths
      <3>3. CASE ~Turn /\ ~Answer
        BY <1>2, <3>3 DEF Deaths, vars, Next, Work, World, Abort, OpenEnds, TeardownEnds,
               WorkerFails, TimerFires, Opened, OpenSucceeds, ReopenSucceeds, NotOpened,
               OpenFails, ReopenFails, CallSession, CallSignNext, Closed, PreviousClosed,
               SessionClosedOnExit, Leave, LoopEnds, CallbackThrows, UpdateThrows, Unwind
      <3> QED
        BY <3>1, <3>2, <3>3
    <2>2. Cardinality(Deaths') <= Cardinality(Deaths)
      BY <2>1, SetsOfItems DEF Deaths
    <2>3. Cardinality(Deaths) \in Nat /\ Cardinality(Deaths') \in Nat
      BY SetsOfItems DEF Deaths
    <2>4. Cardinality(Deaths) <= reopensUsed + (IF sessionDead THEN 1 ELSE 0)
      BY DEF DeathInv, Deaths
    <2>5. Cardinality(Deaths') <= reopensUsed' + (IF sessionDead' THEN 1 ELSE 0)
      <3> DEFINE before == IF sessionDead THEN 1 ELSE 0
                 after  == IF sessionDead' THEN 1 ELSE 0
      <3>1. before \in {0, 1} /\ after \in {0, 1} /\ before <= after
        BY <2>1
      <3> QED
        BY <2>1, <2>2, <2>3, <2>4, <3>1
    <2> QED
      BY <2>5 DEF DeathInv, Deaths
  <1> QED
    BY <1>1, <1>2

-----------------------------------------------------------------------------
\* What the steps that neither sign nor deliver leave of the breakers: no
\* document becomes signed, and what is known of the signed ones stays.
Unsigning ==
  /\ \A k \in Items : status'[k] = "done" <=> status[k] = "done"
  /\ \A k \in Items : outcome'[k] = outcome[k] /\ delivery'[k] = delivery[k]
  /\ UNCHANGED <<networkVars, deliveryVars>>

LEMMA NothingSigned ==
  ASSUME Inv, [Next]_vars,
         ~\E r \in ResultsNow : pc = "signing" /\ ResolvedFinal(r),
         ~Delivered, ~\E full \in BOOLEAN : DeliveryFails(full)
  PROVE  Unsigning
  <1> USE DEF Inv, TypeOK, CursorInv, InOrder, Unsigning
  <1>1. CASE Turn
    BY <1>1 DEF Turn, Cancel, SkipUndelivered, SkipSessionless, Skip, Begin,
           ReadFails, Unsigned, BackoffEnds
  <1>2. CASE Answer
    BY <1>2 DEF Answer, ResolvedRetry, RejectedDocument, Unsigned
  <1>3. CASE RejectedAtOnce \/ SessionRejects
    BY <1>3 DEF RejectedAtOnce, SessionRejects, RejectedFatal, Unsigned
  <1>4. UNCHANGED <<itemVars, networkVars, deliveryVars>> \/ Turn \/ Answer
          \/ RejectedAtOnce \/ SessionRejects
    BY DEF vars, Next, Work, World, Abort, OpenEnds, TeardownEnds,
           WorkerFails, TimerFires, Opened, OpenSucceeds, ReopenSucceeds, NotOpened,
           OpenFails, ReopenFails, CallSession, CallSignNext, Closed, PreviousClosed,
           SessionClosedOnExit, Leave, LoopEnds, CallbackThrows, UpdateThrows, Unwind
  <1>5. CASE UNCHANGED <<itemVars, networkVars, deliveryVars>>
    BY <1>5
  <1> QED
    BY <1>1, <1>2, <1>3, <1>4, <1>5
-----------------------------------------------------------------------------
\* The document in hand is signed for good by result r: it is the only one
\* that becomes signed, and no later one is.
LEMMA SignedNow ==
  ASSUME Inv, NEW r \in ResultsNow, ResolvedFinal(r)
  PROVE  /\ i \in Items /\ status[i] = "signing"
         /\ \A k \in Items : status'[k] = "done" <=> (status[k] = "done" \/ k = i)
         /\ \A k \in Items : status[k] = "done" => k < i
         /\ \A k \in Items \ {i} : outcome'[k] = outcome[k]
         /\ outcome'[i] = Outcome(r)
         /\ \A k \in Items : k > i => attempts[k] = 0
         /\ UNCHANGED <<attempts, error, deliveryVars>>
  BY DEF Inv, TypeOK, CursorInv, InOrder, AttemptInv, ResolvedFinal

\* The LTV breaker opens at the first stall, and the later documents say so.
LEMMA LtvStep == Inv /\ LtvInv /\ [Next]_vars => LtvInv'
  <1> SUFFICES ASSUME Inv, LtvInv, [Next]_vars PROVE LtvInv'
    OBVIOUS
  <1>1. ASSUME NEW r \in ResultsNow, ResolvedFinal(r) PROVE LtvInv'
    <2>1. /\ outcome'[i].stalled = r.stalled
          /\ outcome'[i].ltvSkipped = ltvBreakerOpen
          /\ ltvBreakerOpen /\ LtRequested => outcome'[i].degraded
      <3>1. outcome'[i] = Outcome(r)
        BY <1>1, SignedNow
      <3>2. ltvBreakerOpen /\ LtRequested => ~r.complete
        BY DEF ResultsNow, LtvAsked
      <3>3. ltvBreakerOpen /\ LtRequested => Outcome(r).degraded
        BY <3>2 DEF Outcome
      <3>4. Outcome(r).stalled = r.stalled /\ Outcome(r).ltvSkipped = ltvBreakerOpen
        BY DEF Outcome
      <3> QED
        BY <3>1, <3>3, <3>4
    <2>2. ltvBreakerOpen' <=> (ltvBreakerOpen \/ r.stalled)
      BY <1>1 DEF ResolvedFinal
    <2>3. \A k \in Items : status'[k] = "done" /\ outcome'[k].stalled => ltvBreakerOpen'
      BY <1>1, <2>1, <2>2, SignedNow DEF LtvInv, LtvFlag
    <2>4. ASSUME NEW j \in Items, NEW k \in Items, j < k,
                 status'[j] = "done", outcome'[j].stalled, status'[k] = "done"
          PROVE  outcome'[k].ltvSkipped /\ (LtRequested => outcome'[k].degraded)
      <3>1. j # i /\ status[j] = "done" /\ outcome[j].stalled /\ ltvBreakerOpen
        BY <1>1, <2>4, SignedNow DEF LtvInv, LtvFlag, Inv, TypeOK
      <3>2. CASE k = i
        BY <2>1, <3>1, <3>2
      <3>3. CASE k # i
        BY <1>1, <2>4, <3>1, <3>3, SignedNow DEF LtvInv, LtvFlag, LtvBreakerIsReported
      <3> QED
        BY <3>2, <3>3
    <2> QED
      BY <2>3, <2>4 DEF LtvInv, LtvFlag, LtvBreakerIsReported
  <1>2. CASE Unsigning
    BY <1>2 DEF Unsigning, LtvInv, LtvFlag, LtvBreakerIsReported
  <1>3. CASE Delivered \/ \E full \in BOOLEAN : DeliveryFails(full)
    BY <1>3 DEF Delivered, DeliveryFails, LtvInv, LtvFlag, LtvBreakerIsReported
  <1> QED
    BY <1>1, <1>2, <1>3, NothingSigned

-----------------------------------------------------------------------------
\* Only a call of signNext is an attempt.
LEMMA OnlyCallsCount == [Next]_vars /\ ~CallSession => UNCHANGED attempts
  <1> SUFFICES ASSUME [Next]_vars, ~CallSession PROVE UNCHANGED attempts
    OBVIOUS
  <1>1. CASE Turn
    BY <1>1 DEF Turn, Cancel, SkipUndelivered, SkipSessionless, Skip, Begin, ReadFails,
           BackoffEnds, Delivered, DeliveryFails
  <1>2. CASE Answer
    BY <1>2 DEF Answer, ResolvedRetry, ResolvedFinal, RejectedDocument
  <1>3. CASE ~Turn /\ ~Answer
    BY <1>3 DEF vars, Next, Work, World, Abort, OpenEnds, TeardownEnds, RejectedAtOnce,
           SessionRejects, RejectedFatal, WorkerFails, TimerFires, Opened, OpenSucceeds,
           ReopenSucceeds, NotOpened, OpenFails, ReopenFails, Closed, PreviousClosed,
           SessionClosedOnExit, Leave, LoopEnds, CallbackThrows, UpdateThrows, Unwind
  <1> QED
    BY <1>1, <1>2, <1>3

\* The TSA breaker: the streak, the breaker, and the attempts it allows.
LEMMA TsaStep == Inv /\ TsaInv /\ [Next]_vars => TsaInv'
  <1> SUFFICES ASSUME Inv, TsaInv, [Next]_vars PROVE TsaInv'
    OBVIOUS
  <1> DEFINE Signed(j, k) == {m \in j..k : status[m] = "done"}
  <1>0. \A j \in Items : SignedFrom(j) \in SUBSET Items /\ SignedFrom(j)' \in SUBSET Items
    BY DEF SignedFrom
  <1>1. ASSUME NEW r \in ResultsNow, ResolvedFinal(r) PROVE TsaInv'
    <2> USE DEF Inv, TypeOK
    <2>1. /\ outcome'[i].exhausted <=> RetryableTsaFailure(r)
          /\ RetryableTsaFailure(r) => tsaStreak' = tsaStreak + 1
          /\ tsaBreakerOpen' <=> (tsaBreakerOpen \/ tsaStreak' >= TsaBreakerAt)
          /\ UNCHANGED attempts
      <3>1. outcome'[i] = Outcome(r)
        BY <1>1, SignedNow
      <3>2. Outcome(r).exhausted = RetryableTsaFailure(r)
        BY DEF Outcome
      <3> QED
        BY <1>1, <3>1, <3>2 DEF ResolvedFinal
    <2>2. ASSUME NEW j \in Items, \A m \in SignedFrom(j)' : outcome'[m].exhausted
          PROVE  Cardinality(SignedFrom(j)') <= tsaStreak'
      <3>1. CASE j <= i
        <4>1. RetryableTsaFailure(r)
          BY <1>1, <2>1, <2>2, <3>1, SignedNow DEF SignedFrom
        <4>2. SignedFrom(j)' \subseteq SignedFrom(j) \cup {i}
          BY <1>1, SignedNow DEF SignedFrom
        <4>3. \A m \in SignedFrom(j) : outcome[m].exhausted
          BY <1>1, <2>2, SignedNow DEF SignedFrom
        <4>4. Cardinality(SignedFrom(j)) <= tsaStreak
          BY <4>3 DEF TsaInv, TsaStreak
        <4>5. Cardinality(SignedFrom(j)') <= Cardinality(SignedFrom(j)) + 1
          BY <1>0, <1>1, <4>2, SignedNow, SetsOfItems
        <4>6. Cardinality(SignedFrom(j)) \in Nat /\ Cardinality(SignedFrom(j)') \in Nat
          BY <1>0, SetsOfItems
        <4> QED
          BY <2>1, <4>1, <4>4, <4>5, <4>6
      <3>2. CASE ~(j <= i)
        <4>1. SignedFrom(j)' = {}
          BY <1>1, <3>2, SignedNow DEF SignedFrom
        <4>2. tsaStreak' \in Nat
          BY <1>1 DEF ResolvedFinal
        <4> QED
          BY <4>1, <4>2, FS_EmptySet
      <3> QED
        BY <3>1, <3>2
    <2>3. ASSUME NEW j \in Items, NEW k \in Items, j <= k, ExhaustedRun(j, k)'
          PROVE  tsaBreakerOpen'
      <3>1. status'[k] = "done" /\ k <= i
        BY <1>1, <2>3, SignedNow DEF ExhaustedRun
      <3>2. CASE k = i
        <4>1. SignedFrom(j)' = Signed(j, k)'
          <5>1. SignedFrom(j)' = {m \in Items : j <= m /\ status'[m] = "done"}
            BY DEF SignedFrom
          <5>2. \A m \in Items : status'[m] = "done" => m <= k
            BY <1>1, <3>2, SignedNow
          <5>3. \A m : m \in j..k <=> m \in Items /\ j <= m /\ m <= k
            OBVIOUS
          <5> QED
            BY <5>1, <5>2, <5>3
        <4>2. Cardinality(SignedFrom(j)') <= tsaStreak'
          BY <2>2, <2>3, <4>1 DEF ExhaustedRun
        <4>3. Cardinality(SignedFrom(j)') >= TsaBreakerAt
          BY <2>3, <4>1 DEF ExhaustedRun
        <4>4. Cardinality(SignedFrom(j)') \in Nat /\ tsaStreak' \in Nat
          BY <1>0, <1>1, SetsOfItems DEF ResolvedFinal
        <4> QED
          BY <2>1, <4>2, <4>3, <4>4
      <3>3. CASE k # i
        <4>1. \A n \in j..k : /\ status'[n] = "done" <=> status[n] = "done"
                              /\ outcome'[n] = outcome[n]
          <5> SUFFICES ASSUME NEW n \in j..k
                       PROVE  /\ status'[n] = "done" <=> status[n] = "done"
                              /\ outcome'[n] = outcome[n]
            OBVIOUS
          <5>1. n \in Items \ {i}
            BY <1>1, <3>1, <3>3, SignedNow
          <5> QED
            BY <1>1, <5>1, SignedNow
        <4>2. Signed(j, k)' = Signed(j, k)
          BY <4>1
        <4>3. j \in j..k /\ k \in j..k
          BY <2>3
        <4>4. status[j] = "done" /\ status[k] = "done"
          BY <2>3, <4>1, <4>3 DEF ExhaustedRun
        <4>5. ExhaustedRun(j, k)
          BY <2>3, <4>1, <4>2, <4>4 DEF ExhaustedRun
        <4> QED
          BY <2>1, <2>3, <4>5 DEF TsaInv, TsaStreak
      <3> QED
        BY <3>2, <3>3
    <2>4. ASSUME NEW j \in Items, NEW k \in Items, NEW m \in Items,
                 j <= k, k < m, ExhaustedRun(j, k)'
          PROVE  attempts'[m] <= 1
      <3>1. status'[k] = "done" /\ k <= i
        BY <1>1, <2>4, SignedNow DEF ExhaustedRun
      <3>2. CASE k = i
        BY <1>1, <2>1, <2>4, <3>2, SignedNow
      <3>3. CASE k # i
        <4>1. \A n \in j..k : /\ status'[n] = "done" <=> status[n] = "done"
                              /\ outcome'[n] = outcome[n]
          <5> SUFFICES ASSUME NEW n \in j..k
                       PROVE  /\ status'[n] = "done" <=> status[n] = "done"
                              /\ outcome'[n] = outcome[n]
            OBVIOUS
          <5>1. n \in Items \ {i}
            BY <1>1, <3>1, <3>3, SignedNow
          <5> QED
            BY <1>1, <5>1, SignedNow
        <4>2. Signed(j, k)' = Signed(j, k)
          BY <4>1
        <4>3. j \in j..k /\ k \in j..k
          BY <2>4
        <4>4. status[j] = "done" /\ status[k] = "done"
          BY <2>4, <4>1, <4>3 DEF ExhaustedRun
        <4>5. ExhaustedRun(j, k)
          BY <2>4, <4>1, <4>2, <4>4 DEF ExhaustedRun
        <4> QED
          BY <2>1, <2>4, <4>5 DEF TsaInv, TsaStreak, TsaBreakerCapsAttempts
      <3> QED
        BY <3>2, <3>3
    <2> QED
      BY <2>2, <2>3, <2>4 DEF TsaInv, TsaStreak, TsaBreakerCapsAttempts
  <1>2. ASSUME Unsigning \/ Delivered \/ \E full \in BOOLEAN : DeliveryFails(full)
        PROVE  TsaInv'
    <2>1. /\ \A k \in Items : status'[k] = "done" <=> status[k] = "done"
          /\ \A k \in Items : outcome'[k] = outcome[k]
          /\ UNCHANGED networkVars
      BY <1>2 DEF Unsigning, Delivered, DeliveryFails
    <2>2. \A j, k \in Items : Signed(j, k)' = Signed(j, k)
      BY <2>1
    <2>3. \A j, k \in Items : ExhaustedRun(j, k)' <=> ExhaustedRun(j, k)
      <3> TAKE j, k \in Items
      <3>1. \A m \in Signed(j, k) : outcome'[m] = outcome[m]
        BY <2>1
      <3> QED
        BY <2>1, <2>2, <3>1 DEF ExhaustedRun
    <2>4. \A j \in Items : SignedFrom(j)' = SignedFrom(j)
      BY <2>1 DEF SignedFrom
    <2>5. \A j \in Items : (\A m \in SignedFrom(j)' : outcome'[m].exhausted)
                            => Cardinality(SignedFrom(j)') <= tsaStreak'
      BY <2>1, <2>4 DEF TsaInv, TsaStreak, SignedFrom
    <2>6. ASSUME NEW j \in Items, NEW k \in Items, NEW m \in Items,
                 j <= k, k < m, ExhaustedRun(j, k)'
          PROVE  attempts'[m] <= 1
      <3>1. ExhaustedRun(j, k) /\ attempts[m] <= 1 /\ tsaBreakerOpen
        BY <2>3, <2>6 DEF TsaInv, TsaStreak, TsaBreakerCapsAttempts
      <3>2. CASE CallSession
        BY <2>6, <3>1, <3>2 DEF CallSession, CallSignNext, Inv, TypeOK, CursorInv,
               AttemptInv, AttemptCap
      <3>3. CASE ~CallSession
        <4>1. UNCHANGED attempts
          BY <3>3, OnlyCallsCount
        <4> QED
          BY <3>1, <4>1
      <3> QED
        BY <3>2, <3>3
    <2> QED
      BY <2>1, <2>3, <2>5, <2>6 DEF TsaInv, TsaStreak, TsaBreakerCapsAttempts
  <1> QED
    BY <1>1, <1>2, NothingSigned

-----------------------------------------------------------------------------
\* A document is attempted, or its verdict given, only while it is in hand.
LEMMA OnlyInHandIsAttempted ==
  ASSUME Inv, [Next]_vars, NEW m \in Items, ~Attempted(m), Attempted(m)'
  PROVE  m = i /\ pc = "loop" /\ ~deliveryDead /\ status[m] = "pending"
  <1> USE DEF Inv, TypeOK, CursorInv, InOrder
  <1>1. CASE Turn
    <2>1. CASE Cancel \/ SkipUndelivered \/ SkipSessionless
      BY <2>1 DEF Cancel, SkipUndelivered, SkipSessionless, Skip, Attempted
    <2>2. CASE Begin
      BY <2>2 DEF Begin, MayBegin, Attempted
    <2>3. CASE ReadFails
      BY <2>3 DEF ReadFails, Unsigned, Attempted, GiveUpInv
    <2>4. CASE BackoffEnds \/ Delivered \/ \E full \in BOOLEAN : DeliveryFails(full)
      BY <2>4 DEF BackoffEnds, Delivered, DeliveryFails, Attempted
    <2> QED
      BY <1>1, <2>1, <2>2, <2>3, <2>4 DEF Turn
  <1>2. CASE Answer
    <2>1. ASSUME NEW r \in ResultsNow, ResolvedRetry(r) PROVE FALSE
      BY <2>1 DEF ResolvedRetry, Attempted
    <2>2. ASSUME NEW r \in ResultsNow, ResolvedFinal(r) PROVE FALSE
      BY <2>2 DEF ResolvedFinal, Attempted, GiveUpInv
    <2>3. ASSUME NEW st \in {"failed", "needs_review"}, RejectedDocument(st) PROVE FALSE
      BY <2>3 DEF RejectedDocument, Unsigned, Attempted, GiveUpInv
    <2> QED
      BY <1>2, <2>1, <2>2, <2>3 DEF Answer
  <1>3. CASE RejectedAtOnce \/ SessionRejects
    BY <1>3 DEF RejectedAtOnce, SessionRejects, RejectedFatal, Unsigned, Attempted, GiveUpInv
  <1>4. UNCHANGED <<status, error>> \/ Turn \/ Answer \/ RejectedAtOnce \/ SessionRejects
    BY DEF vars, Next, Work, World, Abort, OpenEnds, TeardownEnds,
           WorkerFails, TimerFires, Opened, OpenSucceeds, ReopenSucceeds, NotOpened,
           OpenFails, ReopenFails, CallSession, CallSignNext, Closed, PreviousClosed,
           SessionClosedOnExit, Leave, LoopEnds, CallbackThrows, UpdateThrows, Unwind
  <1>5. CASE UNCHANGED <<status, error>>
    BY <1>5 DEF Attempted
  <1> QED
    BY <1>1, <1>2, <1>3, <1>4, <1>5

\* Document i, the last one signed, is handed over or kept, and the streak and
\* the breaker learn how that went.
HandsOver(d) ==
  /\ i \in Items /\ delivery[i] = "none" /\ status'[i] = "done" /\ ~deliveryDead
  /\ delivery' = [delivery EXCEPT ![i] = d]
  /\ \A k \in Items \ {i} : status'[k] = status[k]
  /\ \A k \in Items : status[k] = "done" => k <= i
  /\ \/ d = "kept" /\ UNCHANGED deliveryVars
     \/ d = "delivered" /\ deliveryStreak' = 0 /\ UNCHANGED deliveryDead
     \/ /\ d = "lifeline" /\ deliveryStreak' = deliveryStreak + 1
        /\ deliveryStreak' >= DeliveryBreakerAt => deliveryDead'

LEMMA HandOverCases ==
  ASSUME Inv, [Next]_vars
  PROVE  \/ UNCHANGED <<delivery, deliveryVars>>
         \/ \E d \in Deliveries : HandsOver(d)
  <1> USE DEF Inv, TypeOK, CursorInv, InOrder, HandOverInv, HandsOver
  <1>1. ASSUME NEW r \in ResultsNow, ResolvedFinal(r)
        PROVE  UNCHANGED <<delivery, deliveryVars>> \/ HandsOver("kept")
    BY <1>1 DEF ResolvedFinal, GiveUpInv
  <1>2. CASE Delivered
    <2>1. HandsOver("delivered")
      BY <1>2 DEF Delivered, HandOver, GiveUpInv
    <2> QED
      BY <2>1
  <1>3. ASSUME NEW full \in BOOLEAN, DeliveryFails(full) PROVE HandsOver("lifeline")
    <2>1. deliveryStreak' >= DeliveryBreakerAt => deliveryDead'
      BY <1>3 DEF DeliveryFails, DeliveryTrips
    <2> QED
      BY <1>3, <2>1 DEF DeliveryFails, HandOver, GiveUpInv
  <1>4. CASE Unsigning
    <2>1. UNCHANGED delivery
      BY <1>4, StepInv DEF Unsigning
    <2> QED
      BY <1>4, <2>1 DEF Unsigning
  <1> QED
    BY <1>1, <1>2, <1>3, <1>4, NothingSigned

\* What a step leaves of the documents that have left the program.
LEMMA HandedStays ==
  ASSUME Inv, [Next]_vars, UNCHANGED delivery
  PROVE  \A k \in Items : delivery[k] # "none" => status'[k] = "done" /\ status[k] = "done"
  BY OnlyInHand DEF Inv, HandOverInv, SignedBytesAreHeld, vars

\* The delivery breaker: the streak, the breaker, and what it stops.
LEMMA DeliveryStep == Inv /\ DeliveryInv /\ [Next]_vars => DeliveryInv'
  <1> SUFFICES ASSUME Inv, DeliveryInv, [Next]_vars PROVE DeliveryInv'
    OBVIOUS
  <1> DEFINE Signed(j, k) == {m \in j..k : status[m] = "done"}
  <1>0. \A j \in Items : Handed(j) \in SUBSET Items /\ Handed(j)' \in SUBSET Items
    BY DEF Handed, SignedFrom
  <1>00. delivery \in [Items -> Deliveries] /\ deliveryStreak \in Nat /\ deliveryStreak' \in Nat
    BY StepInv DEF Inv, TypeOK
  \* A run that is there afterwards was there before, or ends at document i.
  <1>1. ASSUME NEW j \in Items, NEW k \in Items, j <= k, UndeliveredRun(j, k)'
        PROVE  \/ UndeliveredRun(j, k) /\ deliveryDead
               \/ /\ k = i /\ HandsOver("lifeline")
                  /\ Handed(j)' = Signed(j, k)'
    <2>1. \A m \in Signed(j, k)' : m \in Items /\ status'[m] = "done" /\ delivery'[m] = "lifeline"
      BY <1>1 DEF UndeliveredRun
    <2>2. CASE UNCHANGED <<delivery, deliveryVars>>
      <3>1. Signed(j, k)' \subseteq Signed(j, k)
        BY <2>1, <2>2, HandedStays
      <3>2. Signed(j, k) \subseteq Signed(j, k)'
        BY OnlyInHand DEF vars
      <3>3. UndeliveredRun(j, k)
        BY <1>1, <2>1, <2>2, <3>1, <3>2 DEF UndeliveredRun
      <3> QED
        BY <1>1, <3>3 DEF DeliveryInv, DeliveryStreak
    <2>3. ASSUME NEW d \in Deliveries, HandsOver(d)
          PROVE  \/ UndeliveredRun(j, k) /\ deliveryDead
                 \/ k = i /\ d = "lifeline" /\ Handed(j)' = Signed(j, k)'
      <3>1. k \in Signed(j, k)' /\ k <= i
        BY <1>1, <2>1, <2>3 DEF UndeliveredRun, HandsOver
      <3>2. CASE k = i
        <4>1. d = "lifeline"
          BY <1>00, <2>1, <2>3, <3>1, <3>2 DEF HandsOver
        <4>2. Handed(j)' \subseteq Signed(j, k)'
          BY <2>3, <3>2 DEF Handed, SignedFrom, HandsOver
        <4>3. Signed(j, k)' \subseteq Handed(j)'
          BY <2>1 DEF Handed, SignedFrom
        <4> QED
          BY <3>2, <4>1, <4>2, <4>3
      <3>3. CASE k # i
        <4>1. Signed(j, k)' = Signed(j, k) /\ \A m \in Signed(j, k) : delivery'[m] = delivery[m]
          BY <1>00, <2>3, <3>1, <3>3 DEF HandsOver
        <4>2. UndeliveredRun(j, k)
          BY <1>1, <4>1 DEF UndeliveredRun
        <4> QED
          BY <1>1, <4>2 DEF DeliveryInv, DeliveryStreak
      <3> QED
        BY <3>2, <3>3
    <2> QED
      BY <2>2, <2>3, HandOverCases
  <1>2. ASSUME NEW j \in Items, \A m \in Handed(j)' : delivery'[m] = "lifeline"
        PROVE  Cardinality(Handed(j)') <= deliveryStreak'
    <2>0. Cardinality(Handed(j)) \in Nat /\ Cardinality(Handed(j)') \in Nat
      BY <1>0, SetsOfItems
    <2>1. CASE UNCHANGED <<delivery, deliveryVars>>
      <3>1. Handed(j)' = Handed(j)
        BY <2>1, HandedStays DEF Handed, SignedFrom
      <3> QED
        BY <1>2, <2>1, <3>1 DEF DeliveryInv, DeliveryStreak
    <2>2. ASSUME NEW d \in Deliveries, HandsOver(d), j <= i
          PROVE  Cardinality(Handed(j)') <= deliveryStreak'
      <3>1. d = "lifeline" \/ d = "none"
        BY <1>00, <1>2, <2>2 DEF Handed, SignedFrom, HandsOver
      <3>2. Handed(j)' \subseteq Handed(j) \cup {i}
        BY <1>00, <2>2 DEF Handed, SignedFrom, HandsOver
      <3>3. \A m \in Handed(j) : delivery[m] = "lifeline"
        <4> TAKE m \in Handed(j)
        <4>1. m \in Items /\ j <= m /\ m # i /\ status[m] = "done" /\ delivery[m] # "none"
          BY <2>2 DEF Handed, SignedFrom, HandsOver
        <4>2. status'[m] = "done" /\ delivery'[m] = delivery[m]
          BY <1>00, <2>2, <4>1 DEF HandsOver
        <4>3. m \in Handed(j)'
          BY <4>1, <4>2 DEF Handed, SignedFrom
        <4> QED
          BY <1>2, <4>2, <4>3
      <3>4. Cardinality(Handed(j)') <= Cardinality(Handed(j)) + 1
        BY <1>0, <2>2, <3>2, SetsOfItems DEF HandsOver
      <3>5. Cardinality(Handed(j)) <= deliveryStreak
        BY <3>3 DEF DeliveryInv, DeliveryStreak
      <3> QED
        BY <1>00, <2>0, <2>2, <3>1, <3>4, <3>5 DEF HandsOver
    <2>3. ASSUME NEW d \in Deliveries, HandsOver(d), ~(j <= i)
          PROVE  Cardinality(Handed(j)') <= deliveryStreak'
      <3>1. Handed(j)' = {}
        BY <2>3 DEF Handed, SignedFrom, HandsOver
      <3> QED
        BY <1>00, <3>1, FS_EmptySet
    <2> QED
      BY <2>1, <2>2, <2>3, HandOverCases
  <1>3. ASSUME NEW j \in Items, NEW k \in Items, j <= k, UndeliveredRun(j, k)'
        PROVE  deliveryDead'
    <2>1. CASE UndeliveredRun(j, k) /\ deliveryDead
      BY <2>1, HandOverCases DEF HandsOver
    <2>2. CASE HandsOver("lifeline") /\ Handed(j)' = Signed(j, k)'
      <3>1. Cardinality(Handed(j)') <= deliveryStreak'
        BY <1>2, <1>3, <2>2 DEF UndeliveredRun
      <3>2. Cardinality(Handed(j)') >= DeliveryBreakerAt
        BY <1>3, <2>2 DEF UndeliveredRun
      <3>3. Cardinality(Handed(j)') \in Nat
        BY <1>0, SetsOfItems
      <3> QED
        BY <1>00, <2>2, <3>1, <3>2, <3>3 DEF HandsOver
    <2> QED
      BY <1>1, <1>3, <2>1, <2>2
  <1>4. ASSUME NEW j \in Items, NEW k \in Items, NEW m \in Items,
               j <= k, k < m, UndeliveredRun(j, k)', Attempted(m)'
        PROVE  FALSE
    <2>1. CASE UndeliveredRun(j, k) /\ deliveryDead
      <3>1. ~Attempted(m)
        BY <1>4, <2>1 DEF DeliveryInv, DeliveryStreak, DeliveryBreakerStops
      <3> QED
        BY <1>4, <2>1, <3>1, OnlyInHandIsAttempted
    <2>2. CASE k = i /\ HandsOver("lifeline")
      <3>1. status[m] = "pending" /\ status'[m] = status[m]
        BY <1>4, <2>2 DEF HandsOver, Inv, CursorInv, InOrder
      <3> QED
        BY <1>4, <3>1 DEF Attempted
    <2> QED
      BY <1>1, <1>4, <2>1, <2>2
  <1> QED
    BY <1>2, <1>3, <1>4 DEF DeliveryInv, DeliveryStreak, DeliveryBreakerStops

-----------------------------------------------------------------------------
\* No document is signed, and no session dead, when runBatchSign is called.
LEMMA InitFull == Init => FullInv
  <1> SUFFICES ASSUME Init PROVE FullInv
    OBVIOUS
  <1>1. Inv
    BY InitInv
  <1>2. DeathInv
    <2>1. {k \in Items : error[k] = "session_fatal"} = {}
      BY DEF Init, QueueInit
    <2>2. Cardinality({k \in Items : error[k] = "session_fatal"}) = 0
      BY <2>1, FS_EmptySet
    <2>3. reopensUsed = 0 /\ sessionDead = FALSE
      BY DEF Init, QueueInit
    <2> QED
      BY <2>2, <2>3 DEF DeathInv
  <1>3. \A k \in Items : status[k] # "done"
    BY DEF Init, QueueInit
  <1>4. LtvInv
    BY <1>3 DEF LtvInv, LtvFlag, LtvBreakerIsReported
  <1>5. \A j \in Items : SignedFrom(j) = {} /\ Handed(j) = {}
    BY <1>3 DEF SignedFrom, Handed
  <1>6. Cardinality({}) = 0 /\ tsaStreak = 0 /\ deliveryStreak = 0
    BY FS_EmptySet DEF Init, QueueInit
  <1>7. \A j, k \in Items : ~ExhaustedRun(j, k) /\ ~UndeliveredRun(j, k)
    BY <1>3 DEF ExhaustedRun, UndeliveredRun
  <1>8. TsaInv
    BY <1>5, <1>6, <1>7 DEF TsaInv, TsaStreak, TsaBreakerCapsAttempts
  <1>9. DeliveryInv
    BY <1>5, <1>6, <1>7 DEF DeliveryInv, DeliveryStreak, DeliveryBreakerStops
  <1> QED
    BY <1>1, <1>2, <1>4, <1>8, <1>9 DEF FullInv

\* Inv with what the counters remember is an invariant of the queue (717-998).
THEOREM FullInvariance == Safety => []FullInv
  <1>1. FullInv /\ [Next]_vars => FullInv'
    BY StepInv, DeathStep, LtvStep, TsaStep, DeliveryStep DEF FullInv
  <1> QED
    BY <1>1, InitFull, PTL DEF Safety

\* The counters and flags of the loop remember what happened to the documents,
\* next to the invariant that ties every await to cursor, flags and sessions.
THEOREM CountersRemember == Safety => []CountersInv
  <1>1. FullInv => CountersInv
    BY DEF FullInv, LtvInv, TsaInv, DeliveryInv, CountersInv
  <1> QED
    BY <1>1, FullInvariance, PTL

\* A death of the session costs one document, and there are no more deaths
\* than reopenings allowed, plus one (209-215, 775).
THEOREM OneDocumentLostPerDeath == Safety => []OneDocumentPerDeath
  <1>1. FullInv => OneDocumentPerDeath
    <2> SUFFICES ASSUME FullInv PROVE OneDocumentPerDeath
      OBVIOUS
    <2>1. Cardinality(Deaths) <= reopensUsed + (IF sessionDead THEN 1 ELSE 0)
      BY DEF FullInv, DeathInv, Deaths
    <2>2. Cardinality(Deaths) \in Nat /\ reopensUsed \in 0..MaxReopens
      BY SetsOfItems DEF Deaths, FullInv, Inv, TypeOK
    <2>3. Cardinality(Deaths) <= MaxReopens + 1
      BY <2>1, <2>2
    <2> QED
      BY <2>3 DEF OneDocumentPerDeath, Deaths
  <1> QED
    BY <1>1, FullInvariance, PTL

\* None of the three breakers closes again within a batch (190-243, 897-961).
THEOREM BreakersHeld == Safety => []BreakersHold
  <1>1. FullInv => BreakersHold
    BY DEF FullInv, LtvInv, LtvFlag, TsaInv, TsaStreak, DeliveryInv, DeliveryStreak, BreakersHold
  <1> QED
    BY <1>1, FullInvariance, PTL
=============================================================================
