# A verification project for firmar-ec

firmar-ec signs and verifies Ecuadorian electronic signatures on PDF documents.
Signing happens in the browser (a PWA whose workers hold the private key),
verification in the browser and in a server API, and two small back ends keep a
WhatsApp inbox, certificate orders and usage counters.

This directory holds TLA+ modules that model the concurrent and stateful parts of
that program, TLC configurations that model-check them on small instances, and
theorems with proofs that TLAPS checks for every value of the constants. Every
definition is a translation of source code; the comments above definitions and the
`map` of `PROJECT.json` name the lines.

Paths below are relative to the repository. Abbreviations: `lib/` is
`apps/pwa/src/lib/`, `verify-api/` is `apps/verify-api/src/`, `inbox/` is
`apps/inbox-backend/src/`, `stats/` is `apps/stats-backend/src/`.

    tlc -workers 2 -config MCSignQueue.cfg MCSignQueue      # a run
    tlapm SignQueueProofs.tla                               # a module of proofs

## 1. Inventory

### 1.1 Components, their state and operations

| Component | State it keeps | Operations | What makes it correct |
|---|---|---|---|
| **Batch signing queue** `lib/workers/sign-queue.ts` | the cursor, per-document status/error/outcome/result, the current session, reopenings used, two network breakers (LTV, TSA), a delivery breaker, the container copy | `runBatchSign`, `signOneWithTsaRetry`, `reopenSession` | documents are decided in order and once; nothing is signed after the batch gave up or was stopped; nothing secret survives it; signed bytes are never dropped; it ends |
| **Signing session bus** `lib/workers/sign-session-bus.ts` | `closed`, `inFlight`, `workerFailure`, the wipe report, three kinds of timers, listeners per call and per session | `openSignSession`, `signNext`, `closeAndWipe`, `close` | a call settles exactly once; a timeout is reported only after the worker is terminated; every worker is terminated; a confirmed wipe is a real one |
| **Signing session worker** `lib/workers/sign-session.worker.ts` | the parsed container, the serial queue | `openSession`, `signNext`, `closeSession` | requests answered in order with their own id; the wipe is acknowledged after it happened |
| **Network budget** `lib/workers/sign-bus.ts:245-353`, `packages/signer/src/{chainIntermediates,cms,ltv,pades}.ts` | deadlines, what was collected, warnings | `deriveNetworkBudget`, `completeChain`, `collectLtvData`, the archive stamp | the network legs of a document fit in their share of its timeout; what is left out is said |
| **Single-document buses and workers** `lib/workers/*.ts` | one worker, two watchdogs and a boot fallback per call | sign, verify, certificate, p12 | one answer, from one engine, worker terminated on every path |
| **Batch review** `routes/FirmarLote.svelte`, `lib/batch/preflight*.ts`, `propagation.ts`, `manualPlacement.ts` | the selection, the list of rows, the current run of each kind, the placer, the step | pick, review, place by hand, propagate, go back, sign | a superseded run writes nothing; a placement by hand is not undone; nothing moves once the person signs; a review ends |
| **Single-document screen** `routes/Firmar.svelte` | the step, the document, the box, five calls in flight | pick, analyse, place, check the password, sign, start over | a late answer lands on the document it is about, and yields to the person |
| **Batch zip export** `lib/export/batchZip.ts` | bytes and entries accepted so far, names taken | `assertBatchFitsZip`, `addPdf`, `finish` | a batch is accepted only if its archive fits; no two entries share a name; everybody is accounted for |
| **Update, hand-off, storage** `lib/swUpdate.svelte.ts`, `handoff.ts` | holds on a reload, the pending update | update, hold, release, hand off a file | no reload under unsaved work, no hold without work |
| **verify-api worker runner** `verify-api/services/verifyRunner.ts` | the pool, the waiting queue, respawn timers, per-worker job and timer | `run`, `acquire`, `release`, `onDeath`, `retire`, `spawn`, `close` | one answer per request; exactly one replacement per lost worker; no waiter forgotten |
| **verify-api admission** `verify-api/services/quota.ts`, `idempotency.ts`, `routes/verify.ts` | counters per key and window, in-flight slots, stored answers | charge, reserve, replay, release | a retried request runs once and is charged once; slots are given back |
| **Certificate orders** `inbox/services/cert-orders.ts` | the order row | create, confirm payment, poll the provider | a paid order reaches the provider, at most once |
| **WhatsApp inbox/outbox** `inbox/routes/*`, `services/ttl-cleaner.ts` | message rows, stored objects, one-time codes | webhook, verify, list, send, clean | a message is readable by its recipient until it expires, and gone after |
| **Rate limiting** `*/services/rate-limit.ts` | a token bucket in Redis | consume | no more than capacity plus refill |
| **Placement of a stamp** `packages/signer/src/{autoPlacement,textBands,analyzePdf}.ts` | none: the pages, the text and the stamps of the file | `computeAutoPlacement`, `analyzeForPreflight` | a stamp is placed clear of text and stamps; a page said to be full is full |
| **Revisions of a PDF** `packages/signer/src/incrementalUpdate.ts`, `ltv.ts`, `documentTimestamp.ts` | the objects and the last revision of the file | placeholder, revocation data, archive stamp | what was signed stays in the document; an object number keeps its meaning |
| **Usage statistics** `*/services/usage-stats.ts`, `routes/stats.ts` | counters, a cache of them | increment, read | a reader sees an increment within the cache's lifetime |
| **Certificate providers** `packages/uanataca-client`, `signare-client` | the access token, its expiry, the login in flight | reading calls, a creation, get token, invalidate | a retry carries a new token; a refused one is not served again; a charge is never denied; nobody waits for ever |
| **Verifier** `packages/verifier/src/{index,ltv,ocsp,pathValidation}.ts` | the partial results of one signature, the worst of all | `verifyOneSignature`, `verifyLtv`, `checkOcsp`, `verifyAllSignatures` | the earliest proven revocation decides; `valid` was checked; appended bytes are accounted for |
| **Revocation, timestamps, crypto** `packages/*` | mostly none (OCSP/CRL caches) | fetch, parse, hash | out of scope: computation over bytes |
| **Shells, screens, site, tools** | configuration and wiring | — | out of scope: I/O and presentation |

`PROJECT.json` lists the same components with every source file, the ones left
out included, and says for each whether it is modelled.

### 1.2 How they interact

* `sign-queue.ts` awaits promises of `sign-session-bus.ts`: `openSignSession`,
  `signNext`, `closeAndWipe`. Both run on the main thread, whose event loop
  interleaves messages, timers and continuations.
* The bus and the worker exchange messages over two FIFO channels. A worker runs in
  parallel; `terminate()` discards both channels at once.
* The caller of the queue supplies `onItemSigned` (the export, a `BatchZipWriter`),
  `onItemUpdate` (the screen) and the stop signal, and each may act at any await.
* The screens (`Firmar.svelte`, `FirmarLote.svelte`) start analyses, propagations and
  signatures and go on while they run. Each call carries a number, and its answer is
  dropped when a later call of its kind has started.
* The worker of a document spends its time on network legs (chain, timestamp,
  revocation data, archive stamp), each of which is given a share of the time the
  bus grants the document.
* What a signature appends to the file is read back by the next one: by the search
  for a place, and by the code that finds the form, the annotations and the
  revocation data.
* `routes/verify.ts` passes a request through authentication, idempotency, quota and
  concurrency slots before it reaches the runner, whose worker threads answer by
  messages and die by exit events.
* The back ends share Postgres, Redis and an object store between processes; nothing
  holds a lock across two of their calls, and the clocks of two processes differ.

### 1.3 What is hard

Two event sources may settle the same promise (the worker's answer and the
timer); state is read before an await and used after it (breakers, sessions,
orders, the rows of a batch); a failure in the middle of a sequence must undo the rest
(reopening, delivery, admission); a worker may hang, die, or answer late; a file is
written by several programs that find each other's objects by convention.
`PROJECT.json` lists each hazard at its line with the properties that watch it.

## 2. Modules

Each component's module is parameterised by CONSTANTS with a named assumption. An `MC`
module adds what an instance needs: sets of values, symmetry, and, where several small
components share a run, a variable `topic` that says whose behaviour this is; the
variables of the others keep their initial value.

    Batch  <-- refinement --  SignQueue  --extends-->  BatchQueue
                                  |                        ^
                              SignQueueInv             BatchSigning --extends--> SignSession
                                                                                     ^
                                                                             SessionClient

| Run's module | Components | Theorems in |
|---|---|---|
| `MCSignQueue` | `SignQueueInv` (`SignQueue`, `BatchQueue`, `Batch`) | `SignQueueProofs` |
| `MCBuses` | `SessionClient` (`SignSession`), `VerifyBus`, `InboxLifecycle` | `SessionProofs`, `VerificationProofs` |
| `MCSigning` | `BatchSigning`, `AutoPlacement` (`MCAutoPlacement`) | `ContractProofs`, `SignerProofs` |
| `MCVerifyRunner` | `VerifyRunner` | `VerifyProofs` |
| `MCVerification` | `VerifyAdmission`, `SignatureVerdict`, `PdfRevisions` | `VerificationProofs`, `SignerProofs` |
| `MCServices` | `CertOrders`, `ProviderClient`, `TokenBucket`, `UsageStats` | `ServicesProofs` |
| `MCInboxLifecycle` | `InboxLifecycle` | `ServicesProofs` |
| `MCPwa` | `BatchReview`, `SignScreen`, `ReloadHold`, `SignerNetwork`, `BatchZip` | `ScreenProofs`, `SignerProofs` |

### 2.1 Batch signing

**BatchQueue** is the control of `runBatchSign` and `signOneWithTsaRetry`
(`lib/workers/sign-queue.ts:717-998` and `545-640`). `pc` names the await the
function is suspended at (`opening`, `read`, `signing`, `backoff`, `closing`,
`reopening`, `delivering`, `unwinding`) or `loop` for the top of the `for`. The
document in hand is `i`; `status`, `error`, `outcome`, `delivery` are the fields of
`BatchQueueItem`; `sessionDead`, `reopensUsed`, `tsaStreak`, `ltvBreakerOpen`,
`deliveryStreak` and the rest keep the names of the local variables. `attempts` and
`everSigned` are histories that only properties read. A `RunSignResult` is reduced to
what the queue branches on (`Results`). The module says nothing of how a session
behaves, so that two modules can supply that.

**SignQueue** adds the contract the queue expects of a session: `sess[s]` is
`unopened`, `live`, `broken` (the worker failed, the thread and its key are still
there), `closing`, `closed`. **BatchSigning** replaces the contract by the real thing:
it composes BatchQueue with **SignSession**, the bus and the worker with their two FIFO
channels, and the run `signing` checks that the composition implements
`SignQueue` under the mapping of its last section (`KeepsContract`). What is proved
of SignQueue therefore speaks of the batch as it runs.

**SignSession** has one action per listener, timer and worker step:
`Deliver` (a message reaches the bus), `OpenTimer`, `SignTimer`, `WipeTimer`,
`Receive`, `StartTask`, `ParseEnds`, `SignEnds`, `Crash`. A settled promise is consumed
before the next message or timer (`Quiet`): the main thread is one event loop.
**SessionClient** drives sessions by a client that does anything the API allows.

**Batch** is the abstract specification: verdicts are given one at a time, in order
and once; after a document is given up none is attempted; a batch ends, and returns
only when it is complete. `SignQueue` implements it (`KeepsPromise`, with liveness by
TLC; the safety part is theorem `ImplementsBatch`).

**SignerNetwork** is the time of one document: `deriveNetworkBudget` divides what the
person allowed among the legs, and each leg (`Hop` of the chain, the timestamp, the
collection of revocation data certificate by certificate, the archive stamp) takes at
most its limit and what is left of its deadline, or is skipped with a warning.

### 2.2 Screens and helpers

**BatchReview** is `FirmarLote.svelte`: the files chosen (`selection`), the rows, the
run of each kind that counts (`analysis`, `propagation`), placements by hand, and the
steps of the screen. A run that was superseded goes on; what it finds is dropped.
`Template` is the document placed by hand, whose position is propagated.
**SignScreen** is `Firmar.svelte`: five kinds of calls (load, engine, scan, password,
signature) whose answers arrive late, over one document and one box. Of pages it keeps
only whether the one shown is the box's (`hidden`): the standard placer is told of no box
on any other page (`ShowsNoBox`, `Firmar.svelte:1026-1033`), and what it puts there
becomes the stored box (`PlaceDefault`, `BoxPlacer.svelte:155-177`).
**ReloadHold** is `swUpdate.svelte.ts` with the places that hold and release a reload.
**BatchZip** is the archive of a batch: the check before signing, what each signed
document adds, the names and their variants, and the export by single files when the
archive fails.

### 2.3 Verification

**VerifyRunner** is `WorkerRunner`: the pool, the waiters, the timers, every listener
of a worker (`message`, `messageerror`, `error`, `exit`), and `close`. The exit callback
of a Node worker delivers what is left on its port and only then emits `exit`; that is
the runtime's behaviour, assumed here (`draining`), and it matters: a request may be
handed the worker between the two.

**VerifyAdmission** is the route around a run: the idempotency store with its
expiry and capacity rules, the minute and day windows of a key, the concurrency
slots, and `classifyEngineFailure`. All work up to the first await is one action.

**VerifyBus** is `verify-bus.ts` and the verdict on a document: the worker that may not
boot, the fallback on the main thread, two watchdogs, and what the worst of the
signatures and the bytes after the last one make of the answer.

**SignatureVerdict** is the order in which `verifyOneSignature` looks at the evidence:
the entries of the document's revocation data one by one (authentic or not, fresh or
not, of which certificate), the cut of the scan, and the live responder. Which entries are
read is not all of them: the VRI entry of the signature, written like the rest by whoever
wrote the document, may name some of each kind (`Scopes`, `ltv.ts:609-622`), and `scope` is
any choice it can make. What the properties say, they say of `scope`.

**PdfRevisions** is a file as a sequence of revisions, each a set of numbered objects
with a type. This program appends a signature, revocation data or an archive stamp;
another program appends signatures, fields, pages, or rewrites an object.

**AutoPlacement** is where a stamp goes: the bands of text, the columns of two signers,
the gap a document left over its block of signatures, the enumeration of free places,
and the order in which a declared field, a propagated position, the signed page and the
last page are tried. Lengths are whole units of some 7 points.

### 2.4 The back ends

**CertOrders** is `CertOrderService`: one order, its checkout, and any number of
overlapping `confirmPayment`s, one action per await. The database and the vault
survive a restart; a call does not.

**InboxLifecycle** follows a document sent by WhatsApp through the webhook
(`Arrive`, `Upload`, `Create`, `StoreCode`, `Notify`), the verification of the code, the
sending of the signed document (`FindRow`, `Deliver`, `MarkSent`, `EraseSent`) and the
cleaner (`StartSweep`, `NextRow`, `EraseExpired`, `MarkDeleted`, `DropTombstones`). One
tick is the cleaner's interval, five minutes.

**ProviderClient** is `UanatacaHttpClient` over `UanatacaTokenManager`. A token is the
number of the login that obtained it, so that "a newer token" is a larger number.
`GetToken` takes the cache as an earlier statement of the same continuation leaves
it, because `get` invalidates and asks again without an await in between.

**TokenBucket** is the script in Redis that limits a caller: a caller's instant is its
own replica's clock, up to `Lead` ahead of Redis's and `Lag` behind it; Redis forgets a
bucket by its own. **UsageStats** is the counters, the log, the cache of each replica
over one database, and the series read from the log page by page.

Every module's header says what it leaves out. A definition that translates no line
of the repository (the network, the clock, the provider, the customer) is marked
external in `map`. A definition whose comment says `mutant` is a plausible bug of the
definition after it, listed under `mutants`; no action refers to it. In each module one
invariant (`CountersInv`, `SessionInv`, `SigningInv`, `RunnerInv`, `AdmissionInv`, `OrderInv`, `InboxInv`,
`ClientInv`, `BucketInv`, `UsageInv`, `ReviewInv`, `SignInv`, `ReloadInv`, `NetworkInv`,
`ZipInv`, `BusInv`, `VerdictInv`, `RevisionsInv`, `PlacementInv`) is the conjunction of
its type invariant with the facts the component is about; the conjuncts are named and
commented one by one.

## 3. Runs

### 3.1 What they show

| Run | Instance | Shows |
|---|---|---|
| `batch_queue` | 3 documents, 1 reopening, 2 attempts, breakers at 2, a callback | the inductive invariant of the proofs (`CountersInv`: order, no resumption, bytes held, what the counters remember); a session is opened only after the earlier ones were told to close (`OneOpenSession`); nothing retained on exit; the three breakers; one document per death; `KeepsPromise`, SignQueue implements Batch, which ends |
| `buses` | a session with 3 requests; a document of up to 3 parts on the verification bus; an inbox with 1 delivery, 2 sends and 3 faults | `SessionInv`: one document in the worker, every pending promise has something that ends it, no worker without an owner, a confirmed wipe is a real one; `PendingEnds`: calls settle and teardowns end; `BusInv`: one engine answers, and `valid` accounts for every byte; `ExpiredIsErased`: what has expired is erased in the end |
| `signing` | 2 documents over 2 real sessions, a callback; some 230 documents of one or two pages, up to 3 stamps | `KeepsContract`: the bus and the worker keep the contract the queue is proved against; `SigningInv`: one worker at a time signs; `PlacementInv`: what the search places is clear of text and of stamps, earlier and later; `FullMeansFull`, `ReservedGapStandsOnTheBlock` |
| `verify_runner` | 3 requests, 2 workers, queue of 1, 1 fault | `RunnerInv`: one replacement per death, no waiter forgotten, bounded work, one request per worker; `OwnVerdict`; every request settles, whatever its thread does |
| `verification` | 3 requests, 1 per minute, 2 per day; 12 kinds of evidence; 5 revisions of 2 pages | `AdmissionInv`: slots match runs, one run per key, a retry is paid once, no reservation is stuck; `ReplayIsFresh`; `VerdictInv`: of the entries in scope the earliest proven revocation decides, `valid` was checked; `RevisionsInv`: object numbers keep their meaning, names differ, what was embedded is found; `SignaturesStay` |
| `services` | 3 overlapping confirmations; 2 reading calls and 1 creation; 2 callers under two clocks; 2 replicas with a cache | `OrderInv`: one emission, nothing unpaid, files until the request; `ClientInv`: the retry's token is new, a refused token is not cached, a charge is not denied; `SentBeforeExpiry`; `BucketInv`; `UsageInv`: an answer is no older than the cache allows, series agree with totals |
| `inbox` | 2 deliveries, 2 messages, 2 sends, slow sweeps, 1 fault | `InboxInv`: one row per message, a deleted row has no object, a pending row has one, a code leads to its row, SENT means delivered |
| `pwa` | 3 files, 2 reviews; 1 document at a time; 4 documents in an archive | `ReviewInv`, `NothingMovesUnderTheSigner`, `SettledStays`, `ReviewEnds`: superseded analyses write nothing and a review ends; `SignInv`: a late answer is about this document; `BoxesYield`: on its page only the person replaces a box, and while the engine decides nobody goes before it; `ReloadInv`; `NetworkInv`, `TimeoutIsNotTheNetworks`; `ZipInv` |
| `admission_failures`, `manual_rect`, `inline_form`, `second_stamp` | | **violations**, section 5 |

### 3.2 The bounds

* Batches: three documents are the least with a document before, in and after
  the one that trips a breaker of threshold two; one reopening gives both a successful
  recovery and a second death; two attempts give both a retry and an exhaustion. The
  real values (200, 1, 4, 3) differ in size, and the theorems hold for all of them.
* The composition: two documents and one reopening make both sessions appear, the old
  one dying while the next opens. Retries (`MaxAttempts = 1`) are left to `batch_queue`
  and to the requests of `buses`: to the bus a second attempt at a document is
  one more `signNext`.
* Sessions: three requests let a late answer of a timed-out request meet a later
  one. Channels are never longer than the requests allow.
* The runner: two workers let one die while the other is released; a queue of one
  is full when the third request comes. `MaxFaults` counts only faults nobody asked for.
* Admission: `MinutesPerDay = 3` makes a day boundary and the expiry of a stored
  answer reachable by a short clock; one key and one idempotency key are enough because
  entries of different keys share only the store's capacity, which this instance does
  not reach (`MaxEntries = 5`; section 5 says what happens when it is reached).
* Evidence: two entries per document meet in every order; the twelve kinds are one for
  each branch of the code that reads them, and of those embedded every choice a VRI entry
  can make is read. The time stamp is at 2 and the present is 4, so an answer may be of
  before, between and after. The responder answers with one of the few replies that
  `Usable` and the cutoff tell apart (`SomeReplies`); the theorem is about all of them.
* Revisions: five revisions on two pages; three field names, the least at which a name
  already taken is skipped twice.
* Placement: a unit is some 7 points, so a page is 48 by 72, whole or cropped, in four
  rotations; the box is 30 by 10. Five texts (none, a footer, a letter with a watermark
  and a block to sign over, a contract with two columns, a page written all over), three
  sets of earlier stamps, five anchors.
* Orders: orders share no state. The third confirmation is the retry after two that
  overlapped.
* Provider: a call logs in at most twice, so `Logins` restricts nothing. The clock
  reaches the tick at which the margin, and not the expiry, is what forbids the cached
  token; in this run a token that was refused early does not live to expire
  (`OneWayToEnd`).
* Limiter: a bucket of two with one token per instant; each clock differs from Redis's by
  one; six instants are three lives of a bucket.
* Statistics: one beacon for the totals, two for the series; a cache of two instants.
* Inbox: `LastTick` exceeds every life added up (row, retention, a failed sweep each).
  `BatchSize = 1` makes a sweep leave rows behind.
* Screens: three files make a document of the batch be kept, dropped and picked again
  by a second selection; two reviews and two propagations give a superseded run of each.
* Network: one unit is a second. The document has 30, the person allowed 8 per leg,
  two hops and a chain of one certificate; the work between the legs takes 6 at a time.
* Archive: four documents against a limit three of them reach, with names of which two
  clash.

Deadlock is not checked because every one of these systems stops: the batch
returns, requests are finite, the clock reaches its bound.

### 3.3 Fairness

* `SignQueue`, `WF(Work)`: every await of the loop settles. Opening, signing and the
  wipe have timers of their own, the back-off is a sleep. That `onItemSigned` and
  `file.arrayBuffer` settle is an assumption on the caller.
* `SessionClient` in `buses`, `SF(Timer)`, `WF(Consume)`: an event loop that keeps turning
  gets to an armed timer; strong, because other continuations may hold it back for a moment
  again and again. Nothing is asked of the worker.
* `BatchSigning` is checked for safety only; that the queue's awaits settle is what
  `PendingEnds` shows of the bus.
* `VerifyRunner`, `WF(Loop)`: the main thread's timers and continuations. A thread may
  hang for ever.
* `InboxLifecycle` in `buses`, `WF(Tick)`, `WF(Cleaner)`, `WF(StoreCode)`: the clock goes
  on, the cleaner is rescheduled after every sweep, failed ones included
  (`services/ttl-cleaner.ts:123-136`), and a call to Redis returns. Only this run
  assumes that a sweep lasts less than five minutes (`SlowSweeps = FALSE`); the run `inbox`
  lets it last as long as it likes. Everywhere one call to Redis is shorter than a tick.
* `BatchReview` in `pwa`, `WF(DocumentDone)` for each run: the analysis of a document
  answers, fails, or is given up by its own timer (`lib/batch/preflight-bus.ts`), and each
  of these takes the run to its next document or to its end.
* `ProviderClient`, `VerifyAdmission`, `CertOrders` and the rest are checked for safety
  only: `fetch`, the database and the vault have no time limit in the code that would make
  an end certain.

## 4. Proofs

The theorems hold for every value of the constants that satisfies the module's named
assumption, and for any number of documents, requests, threads, callers and so on: TLC
shows the same properties of one instance each. `tlapm` checks them to the last leaf.
No module of proofs changes the specification it is about; the inductive invariants that
a run checks are in the module of the component, and the strengthenings that only a
proof needs stand at the head of their section.

### 4.1 What is proved

| Module | Theorem | About |
|---|---|---|
| `SignQueueProofs` | `CountersRemember`, with `Invariance`, `TypeCorrect`, `DocumentsInOrder`, `NeverResumed`, `BytesHeld`, `TalliesAddUp` | the inductive invariant of the queue and what it says |
| | `OneOpenSessionAlways`, `NothingRetained`, `OneDocumentLostPerDeath`, `BreakersHeld`, `VerdictsFinal` | sessions, deaths, breakers, finality |
| | `ImplementsBatch` | every behaviour of the queue is one of Batch, safety part |
| `SessionProofs` | `SessionInvariance` | one session under any client: one document in the worker, no promise without something that ends it, no worker without an owner, a confirmed wipe is a real one |
| `ContractProofs` | `OneWorkerSignsAlways` | the batch over real sessions: one worker signs |
| | `BatchKeepsContract` | it implements `SignQueue`, safety part: with `ImplementsBatch`, it keeps the promise of `Batch` |
| `VerifyProofs` | `RunnerInvariance`, `VerdictsAreOwn` | the worker pool of verify-api |
| `VerificationProofs` | `AdmissionKeepsThePlan`, `AdmissionInvariance`, `ReplaysAreFresh` | the admission of requests |
| | `BusInvariance`, `VerdictInvariance` | the document on the bus, the verdict on a signature |
| `ServicesProofs` | `OrderInvariance`, `ClientInvariance`, `SentInTime`, `UsageInvariance`, `BucketInvariant`, `InboxInvariance` | orders, provider, statistics, limiter, inbox |
| `ScreenProofs` | `ReloadInvariance`, `SignInvariance`, `BoxesYieldAlways`, `SignerInvariance`, `SecretsInvariance` | the screens of the PWA |
| | `ReviewInvariance`, `SettledForGood` | the rows of the batch: each document once and in order, and what is settled stays |
| | `ZipInvariance` | the archive a batch is delivered in |
| `SignerProofs` | `BudgetFits`, `NetworkInvariant`, `TimeoutIsOurs` | the time of a document |
| | `RevisionsInvariance`, `SignaturesStayForGood` | the revisions of a file, whoever writes them |
| | `PlacementInvariance`, `FullForGood`, `GapStandsForGood` | the place of a stamp, and that the search for it misses none |

### 4.2 How

**The queue.** None of its safety properties is inductive alone. For instance "nothing
is attempted after a document was given up" does not say which flag prevents it:
`GiveUpInv` adds that such a document leaves `aborted`, `sessionDead` or `deliveryDead`
set, that the top of the loop reads them, and that at every other await nothing up to
the document in hand was given up. `SessionInv` ties each await to the sessions that may
be open there and keeps the earlier ones told to close, from which `OneOpenSession`
follows. It does not say that one worker at a time holds the key, which the code does not
keep (`NextWaitsForOldWorker`, section 5); `CursorInv` ties the await to the cursor, `AttemptInv` to the attempts, `HandOverInv` to the bytes. `Inv` is their
conjunction, shown inductive by one lemma per group of actions. `CountersInv` adds what
the counters remember of the documents: deaths are at most the reopenings used plus one
(a cardinality argument), and each streak counts the documents since its last reset.

**The session.** `BusInd` has a conjunct per channel and per promise: what is in a
channel was asked and not answered, identifiers grow, a key is in the worker from its
opening to its wipe. **The contract** (`Link`) relates the queue's await to the session's
state: `SettledInv` (what a settled promise may be), `AwaitInv` (which session the queue
waits for), `ProgressInv` (which one has a request). Each step of bus and worker is then a
step of the contract or a stutter. `CompositionAssumption` identifies the sessions of
the two.

**The runner.** Everything rests on three facts: a worker is retired exactly once, it is
in the pool exactly until then, and a thread has at most one document, the one of the
job in its slot. A replacement that is due has the death that caused it.

**The admission.** The buckets count the charges of their own window (`BucketsCount`), a
stored answer and a result are about the request's own document; this needs no
hypothesis. That requests of one key run one at a time does need one: the rule that keeps
the store within its capacity also drops reservations at work (section 5), so
`AdmissionInvariance` and `ReplaysAreFresh` assume `[]NotFull`, that the store is never
over its capacity. Freshness also needs that the entries expire in the order they were
written, which the sweep relies on when it looks at the oldest one alone; the oldest is
found by well-founded induction on a set of counterexamples.

**The services.** *Orders*: each overlapping call has its place in the sequence of reads and
writes of the row (`RowInv`), and what it read may be old but not wrong (`OldIsNotWrong`).
*Provider*: logins end in the order they began (`LoginsInOrder`) and the cache holds
the answer of one of them. *Statistics*: totals and series agree because both follow the
log (`CountsAgree`, `TotalsAgree`, `SeriesAgrees`). *Limiter*: `SpentAndLeft` relates what was
let through to what the bucket holds; a promise to a caller is kept under two clocks when
they differ by less than a bucket takes to refill (`BucketAssumption`, which the values in
the code satisfy). *Inbox*: twelve conjuncts relate row, object, code and call; the most
useful is `CodesEndFirst`, a code expires before its row does.

**The screens.** The screens' numbers say which call is current; what is proved first is that
at most one answer may land, and that it is for the document on screen
(`AnswerIsForThisDocument`). For the batch, every run in flight that is current is
announced, by `running` or `propagating`; the guard of the next step reads both. For its
rows (`RowsIInv`), each run that may still write keeps a relation between its own list, photo and
items and what is on screen. `ReviewRows`: a document the run has not reached is not on
screen; one it has reached and is still picked is there once, and its row is the run's own unless
it was written from the screen. `PropagationRows`: each row is the one the run began with or
its own result merged into that. Hence the end of a run shows what was on screen already:
rebuilding is only ordering (`Ordered`), and merging every result again changes nothing.
What keeps the two kinds of run and the person apart is that a row being propagated is
still to be placed, and that the row being placed by hand is not one of them. A settled
row is then only ever moved. What `Without` leaves of a list is known by well-founded
induction on a set of counterexamples, because the library's induction theorem takes an
operator.

**The archive.** The documents are reserved in order and signed in order, so the archive
holds at most one entry for each of the documents up to the one in hand, and the names and
bytes of the whole selection were reserved for those entries and the ones to come
(`ReservedUpTo`). A free variant of a name exists because there are more variants than
names taken. Reserved bytes are a sum over the documents: a recursive function, whose
values are found by looking at the least place where two candidates would differ.

**The revisions.** A file is a constant of the lemmas and what is read in it an operator
over it, so that a lemma applies before a step and after it. The invariant has three
parts. `Struct`: every number is below the size and has one type for good, and every
reference in a body is to a number known to have the type it should. `Faith`: the writer
searches the text, a viewer follows the index, and they may disagree where another
program packed an object; they agree as far as the next signature relies on it.
`Embeds`: some revision embeds the validation data, and no catalog since points
elsewhere. `Owing` says what is special while data and stamp are still due: only the
signer has written. Each kind of revision is shown to keep them from what it writes,
object by object. That signatures stay is a theorem under two hypotheses: the form is an
object of its own (without it the run `inline_form` has a counterexample), and no
program packs what an earlier revision has in plain text (`Clear`), for then the writer
would read the older body.

**The stamp.** `Good` says of an analysis what the search makes sure of: the place it
offers was compared with everything on the page it is on. The search works as the reader
sees the page and the file keeps the page as it is stored, so free for the reader is shown
to be apart in the file for each of the four rotations. The last page is searched against
its text alone; that is sound because a stamp is looked for there only when the document
has none, which follows from where the stamps of a document are.

That the search misses nothing (`FullForGood`) is a fact about its loops. It tries few
places: the margins and those next to an obstacle. But a place with room can be slid to
the left until it meets the margin or the gap of an obstacle, and then down, and stays free
(`SlidesLeft`, `SlidesDown`); where it ends is one the search tries. Of the free places
tried there is a foremost one (`ForemostIs`), it is found in the first turn and kept by
the later ones (`FoundKeeps`, over the recursive function of `Slots`; at least one slot
must be asked for, `MaxSlots`), and inside the margins nothing moves it any more
(`InsideStays`). `GapStandsForGood` follows from the bands being as wide as the page: a box
over one is separated from it only upwards. On a page turned to one side every band seems
to begin at the foot of the page, so no space is ever found there (`BlockTopReads`). Both
hold of what `AnalyzeForPreflight` returns, and the invariant `AnalysisIsCurrent` says that
what is offered is that, of the document as it is.

### 4.3 What is not proved

* Liveness under fairness and ENABLED: `PendingEnds`, `EveryRequestSettles`,
  `ExpiredIsErased`, `ReviewEnds`, and the part of `KeepsPromise` that says that the batch
  ends. TLC checks them.
* The runs that expect a violation.

## 5. Where the code and its documents disagree

Four disagreements have a run of their own and are listed as findings:

| Run | Said | Done |
|---|---|---|
| `admission_failures` | `idempotency.ts:79-80`: a failed attempt is not cached, a retry may run | an engine failure is stored before it is recognised, and replayed |
| `manual_rect` | `FirmarLote.svelte:691-694`: on a rotated page the row keeps no rectangle | the row keeps the one an earlier analysis gave it |
| `inline_form` | `incrementalUpdate.ts:23-25`: the prior form is preserved | a form written in the catalog itself is replaced by one with the new field only |
| `second_stamp` | `autoPlacement.ts:32-34`: never placed over an earlier signature | signing does not fill a declared field, so it is offered again: the second signature lies on the first |

The rest were met on the way. Where a definition is named, it stands at the end of its
module; as an INVARIANT of the run of that module it shows the behaviour within seconds.

**The batch and its sessions**

| Definition | Said | Done |
|---|---|---|
| `SignedIsNotFailed` (SignQueue) | `sign-queue.ts:603-604`: an item never fails because of the timestamp service | a retry made only for the timestamp that times out fails the item, already signed once |
| `FailedWasAttempted` (SignQueue) | `RunBatchSignResult`: the tallies are "total intentado" | documents that were never attempted are counted as failed |
| `AbandonedSignatureFails` (SessionClient) | `sign-session.worker.ts:492-496`: the running signature fails after closeSession | it may still answer with a result |
| `NextWaitsForOldWorker` (BatchSigning) | `sign-session-bus.ts:546-548`: the next document never starts while the old worker lives | a late answer settles the timed-out call during the teardown |
| — | `sign-bus.ts:241-242, 253-257`: one budget for both routes | a single document gets the settings' own timeouts and no budget for the chain's data (543-552) |
| — | | the deadline for revocation data starts with the document, so a slow signature leaves none |
| — | | a document is reported as B-LT when only an intermediate's or the stamp's data was obtained, and as asked when the timestamp failed |

**The screens**

| Definition | Said | Done |
|---|---|---|
| `PropagationOnlyAdds` (BatchReview) | | a propagation whose worker crashes overwrites a geometry that was known (`propagation.ts:176`) |
| — | | confirming a placement before the scan arrives commits over an earlier signature without a warning |
| — | | the default of `onPlacingSignaturesScanned` is never reached |
| — | | going back lets the propagation in flight write its document |
| `DeploySparesWork` (ReloadHold) | one hold, one release | two paths release twice (`Firmar.svelte:154`; `FirmarLote.svelte:842, 977`) |
| — | | an object URL made after the screen is gone is never revoked |
| `ConfirmHasPassword` (SignScreen) | | the confirmation may be reached with the password of a file no longer chosen (`Firmar.svelte:910`) |
| `TurningKeepsTheBox` (SignScreen) | `Firmar.svelte:1029`: a box of another page is hidden, "keep stored" | with the standard placer, the centred default of the page turned to becomes the stored box (`BoxPlacer.svelte:155-177`, `Firmar.svelte:1035-1038`); the person's is lost |
| `SignedIsOnScreen` (SignScreen) | | a late answer of the password check moves a screen that starts over to the last step, without a document |

**Verification**

| Definition | Said | Done |
|---|---|---|
| `NoRequestOnDeadWorker` (VerifyRunner) | `verifyRunner.ts:41-43`: a death rejects its request immediately | a waiter handed the worker between its last message and its exit waits for the deadline |
| `CloseReleasesAll` (VerifyRunner) | a test: close releases everything | a worker retired by `messageerror` is never terminated |
| `NoneIsOverlooked` (SignatureVerdict) | `ltv.ts:748-750`: the earliest authenticated revocation counts | only the entries the signature's VRI entry names are read (609-622), and whoever wrote the document wrote that entry: a proven revocation left out of it does not count |
| `OneRunPerKey` (VerifyAdmission), `MaxEntries = 1`, two idempotency keys | `idempotency.ts`: at most one run per key | the capacity rule evicts a reservation at work |
| — | | "revoked after signing, valid when it was sealed" is also said of a signature that is invalid |
| — | `index.ts:655-659`: a warning when nothing was authenticated about the signer | only an incomplete revocation warns |
| — | a later stamp's "coverage starts exactly where this sig ends" | any later stamp that reaches the end of the file is accepted |
| — | | without embedded data and with a responder that was not asked a signature is still valid (B-T) |

**PDF revisions and placement**

| Definition | Said | Done |
|---|---|---|
| `SignaturesStay` (PdfRevisions) with `Repacking = TRUE` | | an object rewritten inside a compressed object stream is read in its last plain form |
| — | | an archive stamp drops the earlier fields of a form whose `/Fields` is an object of its own, always names its field `doc-ts`, keeps no other key of the form, and takes the first kid of `/Kids` for a page |
| — | | a document with cross-reference streams gets no revocation data and no archive stamp |
| — | | when the preferred height is below the margin, two candidates share a place and a page with room is said to be full |
| — | | pages whose text could not be read are offered as if they were empty |
| — | a preferred position is honoured to 0.01 | it is then moved inside the margins |

**The back ends**

| Definition | Said | Done |
|---|---|---|
| `SentFilesArePurged` (CertOrders) | `cert-orders.ts:8-9`: files are purged after they are sent | a restart between the two leaves them until somebody confirms again |
| `ConfirmIsIdempotent` (CertOrders) | a test: confirming is idempotent | two overlapping confirmations answer differently |
| `FailedPaymentHasNoCert` (CertOrders) | a test: a rejected payment has no certificate | a late rejection overwrites SUBMITTED |
| `LinkWorksAsSaid` (InboxLifecycle) | the message: fifteen minutes | the code lives ten |
| `TokenIsSingleUse` (InboxLifecycle) | the design: the session token is single-use | a second send goes out |
| `OneLoginInFlight` (ProviderClient) | `token-manager.ts:27`: concurrent logins are one request | a login given up by an invalidation clears the one in flight |
| `NextGetRecomputes` (UsageStats) | `stats/routes/stats.ts:136`: the next read recomputes | a reader that read before the count fills the cache after it was cleared; an error after the count leaves it too |
| `NoMoreThanTheLimit` (TokenBucket) | a caller gets no more than its limit | two replicas whose clocks differ give more |

## 6. What is not modelled

Within the modelled components:

* queue: `validateBatch` (a precondition checked before any state exists), progress
  messages, wording, the empty batch;
* session: the stale-bundle protocol error (settles like a failed signature),
  `wiped: false`, the durations of timers, an open timeout that fires while the worker
  parses synchronously;
* screens: the verification, certificate and inbox screens, rendering and translation,
  the pool behind an analysis;
* runner: `online` and the length of a back-off, which only the health probe and the
  delay see, and `InProcessRunner`;
* admission: the shape checks, authentication, and the per-minute backstop;
* verifier: what is read from bytes (parsing, digests, certificate paths) is an outcome;
* PDF: bytes, cross-reference tables, nested page trees; a revision is its objects;
* placement: how text is read from content streams (`textBands.ts` before its bands),
  the labels of a text that would be an anchor (`anchorMatch`, `anchorPlacement`, which
  no caller asks for yet), `placementConfidence`;
* orders: prices, the validation of bodies, the direct route without an order, a
  database call that throws after it committed. The routes are not mounted in
  `server.ts` yet;
* inbox: read-only routes, signature checks, encryption, collisions of two live codes,
  and objects whose row was never written (the bucket's lifecycle rule covers those);
* providers: payloads, states, a success other than 201, and the Signare client;
* statistics: calendars: a period of the series is a number of ticks.

Not at all: the certificate and PKCS#12 buses (one request, one answer, one timer each),
the OCSP and CRL caches, cryptography, ASN.1 and PDF syntax, shells and sites.

## 7. Plan

Modelled, checked and proved, in this order: batch signing and its sessions; the
verification server; the back ends; the screens; the signer's time, revisions and
placement; the verifier's verdict. What would come next, in order of worth:

1. The single-document signature as a refinement of the step `SignSession` takes for it:
   the legs of `handleSignNext` under one deadline, composed with `SignerNetwork`.
2. The worker pool behind the analysis of a batch (`lib/batch/preflight.ts`), as a
   component of its own below `BatchReview`, with "a death costs one document".
3. An abstract server of bounded width that `VerifyRunner` implements, and an
   at-most-once executor that `VerifyAdmission` implements as long as its store is not
   full; `VerifyRunner` composed with `VerifyAdmission`.
4. The caches of OCSP answers and CRLs that a batch shares.
5. The reading of content streams below the bands of `AutoPlacement`.
