------------------------------ MODULE SignQueue ------------------------------
(***************************************************************************)
(* runBatchSign over the contract it expects of a SignSession:             *)
(*   - a signNext is answered at most once; its timer closes the session,  *)
(*     and from then on the worker is torn down ("closing") until it is    *)
(*     terminated ("closed"); the timeout is reported only then, but an    *)
(*     answer already on its way may still settle the call before;         *)
(*   - a worker failure leaves the session "broken": unusable, yet not     *)
(*     closed, its thread alive with the decrypted key;                    *)
(*   - a call on a closed or broken session is rejected without a post.    *)
(* BatchSigning shows that the bus and the worker honour this contract.    *)
(***************************************************************************)
EXTENDS BatchQueue

VARIABLE sess   \* state of every session this batch may open

vars == <<queueVars, sess>>

SessionStates == {"unopened", "live", "broken", "closing", "closed"}

Usable   == sess[session] = "live"
IsClosed == sess[session] \in {"closing", "closed"}

Init == QueueInit /\ sess = [s \in SessionIds |-> "unopened"]

-----------------------------------------------------------------------------
(* Steps of the sessions.                                                  *)

\* openSignSession ends for the session being opened: open, or torn down.
OpenEnds ==
  /\ pc \in {"opening", "reopening"}
  /\ sess[reopensUsed + 1] = "unopened"
  /\ \E st \in {"live", "closing", "closed"} :
       sess' = [sess EXCEPT ![reopensUsed + 1] = st]
  /\ UNCHANGED queueVars

\* The worker dies, or a message of its cannot be deserialised, during a
\* signature or in a gap between two (heard by the session-lifetime listeners).
WorkerFails ==
  /\ session # 0
  /\ Usable
  /\ sess' = [sess EXCEPT ![session] = "broken"]
  /\ UNCHANGED queueVars

\* The timer of the signature in hand: `await this.destroy()` begins.
TimerFires ==
  /\ pc = "signing"
  /\ Usable
  /\ sess' = [sess EXCEPT ![session] = "closing"]
  /\ UNCHANGED queueVars

\* The wipe was acknowledged, or its wait ran out: the worker is terminated.
TeardownEnds ==
  \E s \in SessionIds :
    /\ sess[s] = "closing"
    /\ sess' = [sess EXCEPT ![s] = "closed"]
    /\ UNCHANGED queueVars

-----------------------------------------------------------------------------
(* Steps of the queue.                                                     *)

Opened ==
  /\ sess[reopensUsed + 1] \in {"live", "broken"}
  /\ OpenSucceeds \/ ReopenSucceeds
  /\ UNCHANGED sess

NotOpened ==
  /\ sess[reopensUsed + 1] \in {"closing", "closed"}
  /\ OpenFails \/ ReopenFails
  /\ UNCHANGED sess

\* closeAndWipe on the current session, if the step waits for it.
CloseIf(waits) ==
  sess' = IF waits THEN [sess EXCEPT ![session] = "closing"] ELSE sess

CallSession == pc = "read" /\ Usable /\ CallSignNext /\ UNCHANGED sess

\* session_closed, the recorded worker failure, or post_failed.
RejectedAtOnce ==
  /\ pc = "read"
  /\ RejectedFatal(IsClosed)
  /\ CloseIf(pc' = "closing")

\* The worker's answer settles the call.
Answer ==
  /\ pc = "signing"
  /\ sess[session] \in {"live", "closing"}
  /\ \/ \E r \in ResultsNow : ResolvedRetry(r) \/ ResolvedFinal(r)
     \/ \E st \in {"failed", "needs_review"} : RejectedDocument(st)
  /\ UNCHANGED sess

\* timeout once the worker is terminated, worker_error or messageerror.
SessionRejects ==
  /\ pc = "signing"
  /\ ~Usable
  /\ RejectedFatal(IsClosed)
  /\ CloseIf(pc' = "closing")

Closed ==
  /\ session # 0
  /\ sess[session] = "closed"
  /\ PreviousClosed \/ SessionClosedOnExit
  /\ UNCHANGED sess

Leave ==
  /\ pc = "loop"
  /\ LoopEnds(IsClosed)
  /\ CloseIf(pc' = "unwinding")

CallbackThrows ==
  /\ pc \in {"read", "loop"}
  /\ UpdateThrows(IsClosed)
  /\ CloseIf(pc' = "unwinding")

Turn ==
  /\ \/ Cancel \/ SkipUndelivered \/ SkipSessionless \/ Begin
     \/ ReadFails \/ BackoffEnds
     \/ Delivered \/ \E full \in BOOLEAN : DeliveryFails(full)
  /\ UNCHANGED sess

-----------------------------------------------------------------------------
Work ==
  \/ OpenEnds \/ TeardownEnds
  \/ Opened \/ NotOpened \/ CallSession \/ RejectedAtOnce \/ Answer
  \/ SessionRejects \/ Closed \/ Leave \/ Turn

World ==
  \/ Abort /\ UNCHANGED sess
  \/ WorkerFails \/ TimerFires \/ CallbackThrows

Next == Work \/ World

(***************************************************************************)
(* Every await of the loop settles: openSignSession, signNext and the wipe *)
(* are bounded by timers of their own, the sleep by its delay; onItemSigned*)
(* and file.arrayBuffer are assumed to settle.                             *)
(***************************************************************************)
Safety == Init /\ [][Next]_vars
Spec   == Safety /\ WF_vars(Work)

-----------------------------------------------------------------------------
Finished(k) == status[k] \in Terminal
Attempted(k) == status[k] \notin {"pending", "cancelled"} /\ error[k] \notin NotAttempted

TypeOK ==
  /\ pc \in PCs
  /\ i \in 1..(N + 1)
  /\ attempt \in 0..MaxAttempts
  /\ status \in [Items -> Statuses]
  /\ error \in [Items -> Errors]
  /\ outcome \in [Items -> Outcomes]
  /\ delivery \in [Items -> Deliveries]
  /\ attempts \in [Items -> 0..MaxAttempts]
  /\ everSigned \subseteq Items
  /\ session \in 0..(MaxReopens + 1)
  /\ reopensUsed \in 0..MaxReopens
  /\ sessionDead \in BOOLEAN
  /\ tsaStreak \in Nat
  /\ tsaBreakerOpen \in BOOLEAN
  /\ ltvBreakerOpen \in BOOLEAN
  /\ deliveryStreak \in Nat
  /\ deliveryDead \in BOOLEAN
  /\ aborted \in BOOLEAN
  /\ p12Held \in BOOLEAN
  /\ exit \in {"none", "returned", "threw"}
  /\ sess \in [SessionIds -> SessionStates]

\* Documents are handled strictly in order: everything before the cursor has
\* its final status, everything after it is untouched (sign-queue.ts:819).
InOrder ==
  \A k \in Items :
    /\ k < i => Finished(k)
    /\ k > i => status[k] = "pending"

\* Once a document is given up without an attempt (stop signal, dead session,
\* dead destination) no later document is attempted: the batch never resumes
\* signing behind the back of a user who was told it stopped (823-861).
GivenUpForGood ==
  \A j, k \in Items :
    (j < k /\ Finished(j) /\ ~Attempted(j)) => ~Attempted(k)

\* A session is opened only once every earlier one was told to close, whichever
\* way it failed (783-796): at most one worker is not being torn down.  The
\* worker of an earlier session may still be ending, the key in its memory, when
\* the next one signs (NextWaitsForOldWorker in BatchSigning); that it ends is
\* WorkersEnd.
OneOpenSession ==
  \A s, t \in SessionIds :
    (s < t /\ sess[t] # "unopened") => sess[s] \notin {"live", "broken"}

\* However runBatchSign ends - normally, by a failed first open, or by an
\* exception of the caller's callback - every session it opened has been closed
\* and the copy of the container is zeroed (759, 970-988).
NothingRetainedOnExit ==
  pc = "exited" =>
    /\ ~p12Held
    /\ \A s \in SessionIds : sess[s] \in {"unopened", "closing", "closed"}

\* A returned batch has a verdict on every document, so the four tallies add
\* up to the batch ("succeeded + failed + needsReview + cancelled = total").
ReturnedIsComplete ==
  (pc = "exited" /\ exit = "returned") => \A k \in Items : Finished(k)

\* A signed document's bytes are never dropped: once its delivery phase is
\* over they were handed over or are still in item.result (919-967).
SignedBytesAreHeld ==
  \A k \in Items :
    /\ (status[k] = "done" /\ k < i) => delivery[k] # "none"
    /\ delivery[k] # "none" => status[k] = "done" /\ k \in everSigned

\* One death of the session costs one document, and deaths are bounded: a
\* batch of 200 must not become a retry storm (209-215, 775).
OneDocumentPerDeath ==
  Cardinality({k \in Items : error[k] = "session_fatal"}) <= MaxReopens + 1

\* The LTV breaker opens at the first stalled responder and stays open: every
\* later signed document carries the warning, and is reported as degraded when
\* revocation data was asked for (197-213, 897-905).
LtvBreakerIsReported ==
  \A j, k \in Items :
    (j < k /\ status[j] = "done" /\ outcome[j].stalled /\ status[k] = "done")
      => outcome[k].ltvSkipped /\ (LtRequested => outcome[k].degraded)

\* The signed documents from j to k all exhausted their TSA retries, and they
\* are TsaBreakerAt many.
ExhaustedRun(j, k) ==
  LET signed == {m \in j..k : status[m] = "done"}
  IN  /\ status[j] = "done" /\ status[k] = "done"
      /\ \A m \in signed : outcome[m].exhausted
      /\ Cardinality(signed) >= TsaBreakerAt

\* After such a run no later document costs more than one attempt (190-198).
TsaBreakerCapsAttempts ==
  \A j, k, m \in Items :
    (j <= k /\ k < m /\ ExhaustedRun(j, k)) => attempts[m] <= 1

\* DeliveryBreakerAt signed documents in a row could not be delivered.
UndeliveredRun(j, k) ==
  LET signed == {m \in j..k : status[m] = "done"}
  IN  /\ status[j] = "done" /\ status[k] = "done"
      /\ \A m \in signed : delivery[m] = "lifeline"
      /\ Cardinality(signed) >= DeliveryBreakerAt

\* After such a run no later document is signed: signing on would keep one more
\* signed PDF in memory per document (234-243, 936-961).
DeliveryBreakerStops ==
  \A j, k, m \in Items :
    (j <= k /\ k < m /\ UndeliveredRun(j, k)) => ~Attempted(m)

\* The three breakers: none closes again within a batch.
BreakersHold == LtvBreakerIsReported /\ TsaBreakerCapsAttempts /\ DeliveryBreakerStops

\* A verdict is final, and what was reported with it does not change.
VerdictsAreFinal ==
  [][\A k \in Items : Finished(k) =>
        /\ status'[k] = status[k] /\ error'[k] = error[k]
        /\ outcome'[k] = outcome[k]
        /\ (delivery[k] # "none" => delivery'[k] = delivery[k])]_vars

Promise == INSTANCE Batch WITH
  givenUp <- \E k \in Items : Finished(k) /\ ~Attempted(k),
  exit    <- IF pc = "exited" THEN exit ELSE "none"

\* Every worker a batch started is terminated in the end.
WorkersEnd == <>[](\A s \in SessionIds : sess[s] \in {"unopened", "closed"})

\* The queue implements the batch its callers are promised, step by step and
\* with its liveness, and leaves no worker behind (the whole of runBatchSign,
\* 717-998).
KeepsPromise == Promise!Spec /\ WorkersEnd

-----------------------------------------------------------------------------
\* Said of the code but not kept by it (README, section 5).

\* "We never fail the item purely because the free TSA is rate-limiting us":
\* a document some signNext of the run did sign is not reported as failed.
SignedIsNotFailed ==
  \A k \in Items : (k \in everSigned) => status[k] \notin {"failed", "needs_review"}

\* "succeeded + failed + needsReview = total intentado": a document counted as
\* failed was attempted.
FailedWasAttempted ==
  \A k \in Items : status[k] = "failed" => Attempted(k)
=============================================================================
