----------------------------- MODULE BatchQueue -----------------------------
(***************************************************************************)
(* The control of runBatchSign (apps/pwa/src/lib/workers/sign-queue.ts):   *)
(* N documents are signed strictly in order through one signing session,   *)
(* with a bounded number of session reopenings, TSA retries, two network   *)
(* circuit breakers (LTV and TSA) and a delivery circuit breaker.          *)
(*                                                                         *)
(* Nothing here says how a session behaves.  SignQueue adds the contract   *)
(* the queue expects of one; BatchSigning adds the real bus and worker.    *)
(***************************************************************************)
EXTENDS Integers, FiniteSets

CONSTANTS
  N,                  \* documents in the batch
  MaxReopens,         \* MAX_SESSION_REOPENS
  MaxAttempts,        \* opts.tsaMaxAttempts, DEFAULT_TSA_MAX_ATTEMPTS if absent
  TsaBreakerAt,       \* TSA_BREAKER_CONSECUTIVE_EXHAUSTIONS
  DeliveryBreakerAt,  \* DELIVERY_BREAKER_CONSECUTIVE_FAILURES
  HasCallback,        \* opts.onItemSigned was supplied
  TimestampRequested, \* opts.timestampEnabled !== false
  LtRequested         \* opts.ltvEnabled !== false

ASSUME BatchAssumption ==
  /\ N \in Nat \ {0}
  /\ MaxReopens \in Nat
  /\ MaxAttempts \in Nat \ {0}
  /\ TsaBreakerAt \in Nat \ {0}
  /\ DeliveryBreakerAt \in Nat \ {0}
  /\ HasCallback \in BOOLEAN
  /\ TimestampRequested \in BOOLEAN
  /\ LtRequested \in BOOLEAN

VARIABLES
  pc,             \* the await the function is suspended at
  i,              \* index of the document being handled
  attempt,        \* signNext calls made for it so far
  status, error, outcome, delivery,   \* BatchQueueItem, one entry per document
  attempts,       \* history: signatures the worker was asked for, per document
  everSigned,     \* history: documents some signNext resolved for
  session,        \* the session `session` refers to (0 before the first one)
  reopensUsed, sessionDead,
  tsaStreak, tsaBreakerOpen, ltvBreakerOpen,
  deliveryStreak, deliveryDead,
  aborted,        \* opts.signal.aborted
  p12Held,        \* p12Master still holds the container
  exit            \* how the function ended, "none" while it runs

itemVars     == <<status, error, outcome, delivery>>
historyVars  == <<attempts, everSigned>>
sessionVars  == <<session, reopensUsed, sessionDead>>
networkVars  == <<tsaStreak, tsaBreakerOpen, ltvBreakerOpen>>
deliveryVars == <<deliveryStreak, deliveryDead>>
queueVars == <<pc, i, attempt, itemVars, historyVars, sessionVars,
               networkVars, deliveryVars, aborted, p12Held, exit>>

Items      == 1..N
SessionIds == 1..(MaxReopens + 1)

PCs == {"opening", "loop", "read", "signing", "backoff", "closing",
        "reopening", "delivering", "unwinding", "exited"}

Terminal == {"done", "failed", "needs_review", "cancelled"}
Statuses == {"pending", "signing"} \cup Terminal

\* item.error: a document-level code, a session-fatal code, or one of the two
\* codes given to documents that were never attempted.
NotAttempted == {"session_aborted", "delivery_aborted"}
Errors       == {"none", "document", "session_fatal"} \cup NotAttempted

\* Where the signed bytes are: nowhere yet, handed to onItemSigned, kept in
\* item.result (no callback), or kept there because the hand-over failed.
Deliveries == {"none", "delivered", "kept", "lifeline"}

(***************************************************************************)
(* A RunSignResult, reduced to what the queue branches on: the timestamp   *)
(* obtained, refused, or failed for a retryable reason; whether an LTV     *)
(* warning says the revocation network stalled; whether everything asked   *)
(* of the revocation and chain legs was achieved.                          *)
(***************************************************************************)
Results == [tsa : {"ok", "retryable", "refused"},
            stalled : BOOLEAN, complete : BOOLEAN]

LtvAsked == LtRequested /\ ~ltvBreakerOpen

\* What a signNext of the current document may resolve to: the worker skips a
\* leg it was not asked for, so that leg can neither stall nor be achieved.
ResultsNow ==
  {r \in Results :
     /\ ~TimestampRequested => r.tsa = "refused"
     /\ ~LtvAsked => ~r.stalled
     /\ (LtRequested /\ ~LtvAsked) => ~r.complete}

RetryableTsaFailure(r) == TimestampRequested /\ r.tsa = "retryable"

AttemptCap == IF tsaBreakerOpen THEN 1 ELSE MaxAttempts

\* describeOutcome: what was achieved against what was requested, plus the
\* warnings of the breakers as they were when the document began.
Outcome(r) ==
  [degraded   |-> (TimestampRequested /\ r.tsa # "ok") \/ ~r.complete,
   exhausted  |-> RetryableTsaFailure(r),
   stalled    |-> r.stalled,
   ltvSkipped |-> ltvBreakerOpen,
   tsaCapped  |-> tsaBreakerOpen]

NoOutcome == [degraded |-> FALSE, exhausted |-> FALSE, stalled |-> FALSE,
              ltvSkipped |-> FALSE, tsaCapped |-> FALSE]
Outcomes == [degraded : BOOLEAN, exhausted : BOOLEAN, stalled : BOOLEAN,
             ltvSkipped : BOOLEAN, tsaCapped : BOOLEAN]

-----------------------------------------------------------------------------
QueueInit ==
  /\ pc = "opening"
  /\ i = 1
  /\ attempt = 0
  /\ status = [k \in Items |-> "pending"]
  /\ error = [k \in Items |-> "none"]
  /\ outcome = [k \in Items |-> NoOutcome]
  /\ delivery = [k \in Items |-> "none"]
  /\ attempts = [k \in Items |-> 0]
  /\ everSigned = {}
  /\ session = 0
  /\ reopensUsed = 0
  /\ sessionDead = FALSE
  /\ tsaStreak = 0
  /\ tsaBreakerOpen = FALSE
  /\ ltvBreakerOpen = FALSE
  /\ deliveryStreak = 0
  /\ deliveryDead = FALSE
  /\ aborted = FALSE
  /\ p12Held = TRUE
  /\ exit = "none"

-----------------------------------------------------------------------------
(* The first open: its failure zeroes the copy and rethrows.               *)

OpenSucceeds ==
  /\ pc = "opening"
  /\ pc' = "loop"
  /\ session' = 1
  /\ UNCHANGED <<i, attempt, itemVars, historyVars, reopensUsed, sessionDead,
                 networkVars, deliveryVars, aborted, p12Held, exit>>

OpenFails ==
  /\ pc = "opening"
  /\ pc' = "exited"
  /\ p12Held' = FALSE
  /\ exit' = "threw"
  /\ UNCHANGED <<i, attempt, itemVars, historyVars, sessionVars, networkVars,
                 deliveryVars, aborted>>

(* The user's stop signal, raised at any moment of the run.                *)
Abort ==
  /\ pc # "exited"
  /\ ~aborted
  /\ aborted' = TRUE
  /\ UNCHANGED <<pc, i, attempt, itemVars, historyVars, sessionVars,
                 networkVars, deliveryVars, p12Held, exit>>

-----------------------------------------------------------------------------
(* The top of the loop.                                                    *)

NextItem == i' = i + 1

MayBegin == ~aborted /\ ~deliveryDead /\ ~sessionDead

\* Give document i its final status without attempting it.
Skip(st, err) ==
  /\ pc = "loop"
  /\ i \in Items
  /\ status' = [status EXCEPT ![i] = st]
  /\ error' = [error EXCEPT ![i] = err]
  /\ NextItem
  /\ UNCHANGED <<pc, attempt, outcome, delivery, historyVars, sessionVars,
                 networkVars, deliveryVars, aborted, p12Held, exit>>

Cancel          == aborted /\ Skip("cancelled", "none")
SkipUndelivered == /\ ~aborted
                   /\ deliveryDead
                   /\ Skip("failed", "delivery_aborted")
SkipSessionless == /\ ~aborted
                   /\ ~deliveryDead
                   /\ sessionDead
                   /\ Skip("failed", "session_aborted")

Begin ==
  /\ pc = "loop"
  /\ i \in Items
  /\ MayBegin
  /\ status' = [status EXCEPT ![i] = "signing"]
  /\ attempt' = 0
  /\ pc' = "read"
  /\ UNCHANGED <<i, error, outcome, delivery, historyVars, sessionVars,
                 networkVars, deliveryVars, aborted, p12Held, exit>>

-----------------------------------------------------------------------------
(* signOneWithTsaRetry and the catch of the signing phase.                 *)

\* mutant: the verdict is reported, the status is not set
UnsignedNoStatus(st, err) ==
  /\ error' = [error EXCEPT ![i] = err]
  /\ UNCHANGED <<status, outcome, delivery>>

\* The document ends without a signature; the loop goes on with the next one.
Unsigned(st, err) ==
  /\ status' = [status EXCEPT ![i] = st]
  /\ error' = [error EXCEPT ![i] = err]
  /\ UNCHANGED <<outcome, delivery>>

\* file.arrayBuffer() rejects: never session-fatal (only SignSessionError is).
ReadFails ==
  /\ pc = "read"
  /\ Unsigned("failed", "document")
  /\ pc' = "loop"
  /\ NextItem
  /\ UNCHANGED <<attempt, historyVars, sessionVars, networkVars, deliveryVars,
                 aborted, p12Held, exit>>

\* The bytes are read and session.signNext posts the request.
CallSignNext ==
  /\ pc = "read"
  /\ pc' = "signing"
  /\ attempt' = attempt + 1
  /\ attempts' = [attempts EXCEPT ![i] = @ + 1]
  /\ UNCHANGED <<i, itemVars, everSigned, sessionVars, networkVars,
                 deliveryVars, aborted, p12Held, exit>>

\* Resolved, no token for a retryable reason, attempts left: back off.
ResolvedRetry(r) ==
  /\ pc = "signing"
  /\ RetryableTsaFailure(r)
  /\ attempt < AttemptCap
  /\ pc' = "backoff"
  /\ everSigned' = everSigned \cup {i}
  /\ UNCHANGED <<i, attempt, itemVars, attempts, sessionVars, networkVars,
                 deliveryVars, aborted, p12Held, exit>>

\* sleep(jitter(delay)) ends and the file is read again.
BackoffEnds ==
  /\ pc = "backoff"
  /\ pc' = "read"
  /\ UNCHANGED <<i, attempt, itemVars, historyVars, sessionVars, networkVars,
                 deliveryVars, aborted, p12Held, exit>>

\* Resolved for good: the breakers learn, the item is done, delivery begins.
ResolvedFinal(r) ==
  /\ pc = "signing"
  /\ ~(RetryableTsaFailure(r) /\ attempt < AttemptCap)
  /\ everSigned' = everSigned \cup {i}
  /\ ltvBreakerOpen' = (ltvBreakerOpen \/ r.stalled)
  /\ tsaStreak' = IF RetryableTsaFailure(r) THEN tsaStreak + 1 ELSE 0
  /\ tsaBreakerOpen' = (tsaBreakerOpen \/ tsaStreak' >= TsaBreakerAt)
  /\ status' = [status EXCEPT ![i] = "done"]
  /\ outcome' = [outcome EXCEPT ![i] = Outcome(r)]
  /\ IF HasCallback
       THEN /\ pc' = "delivering"
            /\ UNCHANGED <<i, delivery>>
       ELSE /\ pc' = "loop"
            /\ delivery' = [delivery EXCEPT ![i] = "kept"]
            /\ NextItem
  /\ UNCHANGED <<attempt, error, attempts, sessionVars, deliveryVars, aborted,
                 p12Held, exit>>

\* signNeedsReview, or an error that does not prove the session is gone.
RejectedDocument(st) ==
  /\ pc = "signing"
  /\ st \in {"failed", "needs_review"}
  /\ Unsigned(st, IF st = "failed" THEN "document" ELSE "none")
  /\ pc' = "loop"
  /\ NextItem
  /\ UNCHANGED <<attempt, historyVars, sessionVars, networkVars, deliveryVars,
                 aborted, p12Held, exit>>

SessionDiesNever == FALSE \* mutant: sessionDead is not set
SessionDies == reopensUsed >= MaxReopens

AfterFatalLeaky(closed) == "reopening" \* mutant: the old session is replaced
AfterFatal(closed) == IF closed THEN "reopening" ELSE "closing"

(***************************************************************************)
(* isSessionFatal(e), of a pending call or of one rejected at once: the     *)
(* document fails and reopenSession runs.  With the budget spent the tail  *)
(* of the batch is abandoned; otherwise the previous session is closed     *)
(* first unless `closed` says it already is.                               *)
(***************************************************************************)
RejectedFatal(closed) ==
  /\ pc \in {"read", "signing"}
  /\ Unsigned("failed", "session_fatal")
  /\ sessionDead' = SessionDies
  /\ IF reopensUsed >= MaxReopens
       THEN /\ pc' = "loop"
            /\ NextItem
            /\ UNCHANGED reopensUsed
       ELSE /\ reopensUsed' = reopensUsed + 1
            /\ pc' = AfterFatal(closed)
            /\ UNCHANGED i
  /\ UNCHANGED <<attempt, historyVars, session, networkVars, deliveryVars,
                 aborted, p12Held, exit>>

PreviousClosed ==
  /\ pc = "closing"
  /\ pc' = "reopening"
  /\ UNCHANGED <<i, attempt, itemVars, historyVars, sessionVars, networkVars,
                 deliveryVars, aborted, p12Held, exit>>

ReopenSucceeds ==
  /\ pc = "reopening"
  /\ session' = reopensUsed + 1
  /\ pc' = "loop"
  /\ NextItem
  /\ UNCHANGED <<attempt, itemVars, historyVars, reopensUsed, sessionDead,
                 networkVars, deliveryVars, aborted, p12Held, exit>>

ReopenFails ==
  /\ pc = "reopening"
  /\ sessionDead' = TRUE
  /\ pc' = "loop"
  /\ NextItem
  /\ UNCHANGED <<attempt, itemVars, historyVars, session, reopensUsed,
                 networkVars, deliveryVars, aborted, p12Held, exit>>

-----------------------------------------------------------------------------
(* The delivery phase: nothing here touches the session.                   *)

\* mutant: the bytes of a signed document are neither handed over nor kept
HandOverDropped(d) == UNCHANGED delivery

HandOver(d) == delivery' = [delivery EXCEPT ![i] = d]

DeliveryTripsLate(streak) == streak > DeliveryBreakerAt \* mutant: off by one
DeliveryTrips(streak) == streak >= DeliveryBreakerAt

Delivered ==
  /\ pc = "delivering"
  /\ HandOver("delivered")
  /\ deliveryStreak' = 0
  /\ pc' = "loop"
  /\ NextItem
  /\ UNCHANGED <<attempt, status, error, outcome, historyVars, sessionVars,
                 networkVars, deliveryDead, aborted, p12Held, exit>>

\* `full`: one of DELIVERY_FATAL_CODES, the destination admits no more.
DeliveryFails(full) ==
  /\ pc = "delivering"
  /\ HandOver("lifeline")
  /\ deliveryStreak' = deliveryStreak + 1
  /\ deliveryDead' = (full \/ DeliveryTrips(deliveryStreak'))
  /\ pc' = "loop"
  /\ NextItem
  /\ UNCHANGED <<attempt, status, error, outcome, historyVars, sessionVars,
                 networkVars, aborted, p12Held, exit>>

-----------------------------------------------------------------------------
(* The finally block and the two ways into it.                             *)

ExitAtOnce(closed) == "exited" \* mutant: the session is not closed on the way out
ExitVia(closed) == IF closed THEN "exited" ELSE "unwinding"

\* Leave the loop with `how`; a session still open is closed first.
Unwind(how, closed) ==
  /\ exit' = how
  /\ pc' = ExitVia(closed)
  /\ p12Held' = (pc' # "exited")
  /\ UNCHANGED <<i, attempt, itemVars, historyVars, sessionVars, networkVars,
                 deliveryVars, aborted>>

LoopEnds(closed) == pc = "loop" /\ i > N /\ Unwind("returned", closed)

\* onItemUpdate throws: after the "signing" update of a document, or after the
\* update that reports how one ended.
UpdateThrows(closed) ==
  /\ \/ pc = "read" /\ attempt = 0
     \/ pc = "loop" /\ i > 1
  /\ Unwind("threw", closed)

SessionClosedOnExit ==
  /\ pc = "unwinding"
  /\ pc' = "exited"
  /\ p12Held' = FALSE
  /\ UNCHANGED <<i, attempt, itemVars, historyVars, sessionVars, networkVars,
                 deliveryVars, aborted, exit>>
=============================================================================
