---------------------------- MODULE VerifyRunner ----------------------------
(***************************************************************************)
(* WorkerRunner (apps/verify-api/src/services/verifyRunner.ts): a pool of  *)
(* worker threads that verify one document at a time, the requests waiting *)
(* for one, and the replacement of the workers that die or are terminated. *)
(*                                                                         *)
(* The main thread is one event loop: a callback runs to its end, then the *)
(* continuations it made ready (Quiet), then the next callback.  The exit  *)
(* callback of a Worker is long: it first drains the messages and errors   *)
(* the thread left behind, and only then emits "exit" (draining).          *)
(***************************************************************************)
EXTENDS Naturals, Sequences, SequencesExt, FiniteSets

CONSTANTS
  Requests,   \* calls of run
  Size,       \* VERIFY_WORKERS
  MaxQueue,   \* opts.maxQueue
  MaxFaults   \* bound on the faults of threads that nobody asked to stop

ASSUME RunnerAssumption ==
  /\ IsFiniteSet(Requests)
  /\ Size \in Nat \ {0}
  /\ MaxQueue \in Nat
  /\ MaxFaults \in Nat

VARIABLES
  \* the runner
  pool,       \* entries in the pool
  busy, retired,            \* PooledWorker.busy, PooledWorker.retired
  waiting,    \* requests waiting for a worker
  respawning, \* backoff timers that will add a fresh worker
  closed,
  spawned,    \* entries ever spawned: they are 1..spawned
  \* the requests
  state,      \* how far run has got, or how its promise settled
  entry,      \* the PooledWorker run got from acquire, 0 if none or once run is over
  verdict,    \* the request whose document the answer is about
  \* the threads
  thread,     \* "unborn", "up", "crashed" (an uncaught error: it runs no more
              \* JavaScript and is about to exit), or "exited"
  dying,      \* terminate() was called
  work,       \* documents posted to the thread and not answered yet
  outbox,     \* its answers not yet delivered
  uncaught,   \* its error event not yet delivered
  reported,   \* the threads whose "exit" was emitted
  draining,   \* the thread whose exit callback is running, 0 if none
  faults

runnerVars  == <<pool, busy, retired, waiting, respawning, closed, spawned>>
requestVars == <<state, entry, verdict>>
threadVars  == <<thread, dying, work, outbox, uncaught, faults>>
vars == <<runnerVars, requestVars, threadVars, draining, reported>>

\* One replacement per death: faults, and one termination per request.
Workers == 1..(Size + MaxFaults + Cardinality(Requests))

\* "answered": by the worker, with a verdict or with an error.
Settled == {"answered", "verify_timeout", "worker_died", "service_busy", "refused"}
States  == {"new", "waiting", "granted", "running"} \cup Settled

None == "none"

Init ==
  /\ pool = 1..Size
  /\ busy = [w \in Workers |-> FALSE]
  /\ retired = [w \in Workers |-> FALSE]
  /\ waiting = <<>>
  /\ respawning = 0
  /\ closed = FALSE
  /\ spawned = Size
  /\ state = [r \in Requests |-> "new"]
  /\ entry = [r \in Requests |-> 0]
  /\ verdict = [r \in Requests |-> None]
  /\ thread = [w \in Workers |-> IF w <= Size THEN "up" ELSE "unborn"]
  /\ dying = [w \in Workers |-> FALSE]
  /\ work = [w \in Workers |-> {}]
  /\ outbox = [w \in Workers |-> <<>>]
  /\ uncaught = [w \in Workers |-> FALSE]
  /\ reported = {}
  /\ draining = 0
  /\ faults = 0

\* The event loop may take its next callback.
Quiet == draining = 0 /\ \A r \in Requests : state[r] # "granted"

\* entry.job, with its message listener: the request run has in hand on w.
Job(w) == {r \in Requests : state[r] = "running" /\ entry[r] = w}

Free == {w \in pool : ~busy[w] /\ ~retired[w]}

-----------------------------------------------------------------------------
(* Pieces of the handlers.                                                 *)

SettleNot(js, how) == UNCHANGED <<state, entry>> \* mutant: job.settled is set beforehand
\* The requests of js settle, and nothing is handed over.
Settle(js, how) ==
  /\ state' = [r \in Requests |-> IF r \in js THEN how ELSE state[r]]
  /\ entry' = [r \in Requests |-> IF r \in js THEN 0 ELSE entry[r]]

\* The requests of js settle; worker w is free for the first one waiting.
\* (Decides state, entry, waiting and busy.)
Serve(w, js, how) ==
  IF waiting = <<>>
  THEN /\ Settle(js, how)
       /\ busy' = [busy EXCEPT ![w] = FALSE]
       /\ UNCHANGED waiting
  ELSE /\ state' = [r \in Requests |-> IF r \in js THEN how
                                       ELSE IF r = Head(waiting) THEN "granted"
                                       ELSE state[r]]
       /\ entry' = [r \in Requests |-> IF r \in js THEN 0
                                       ELSE IF r = Head(waiting) THEN w
                                       ELSE entry[r]]
       /\ busy' = [busy EXCEPT ![w] = TRUE]
       /\ waiting' = Tail(waiting)

ReleaseForgotten(w, js, how) == \* mutant: an outcome that skips the bookkeeping
  Settle(js, how) /\ UNCHANGED <<busy, waiting>>
Release(w, js, how) ==
  IF retired[w] THEN Settle(js, how) /\ UNCHANGED <<busy, waiting>>
                ELSE Serve(w, js, how)

\* addFresh, in the place of the entries `lost` whose requests are js.
AddFresh(lost, js) ==
  LET w == spawned + 1
  IN  /\ spawned' = w
      /\ thread' = [thread EXCEPT ![w] = "up"]
      /\ pool' = (pool \ lost) \cup {w}
      /\ Serve(w, js, "worker_died")

NeedsNoReplacementLeaky(w) == closed \* mutant: retire is not idempotent
NeedsNoReplacement(w) == retired[w] \/ closed

\* onDeath: retire the entry, replace it once, now or after a backoff, and
\* reject the request it had in hand.
OnDeath(w) ==
  /\ retired' = [retired EXCEPT ![w] = TRUE]
  /\ \/ /\ NeedsNoReplacement(w)
        /\ Settle(Job(w), "worker_died")
        /\ UNCHANGED <<pool, busy, waiting, respawning, spawned, thread>>
     \/ /\ ~NeedsNoReplacement(w)
        /\ AddFresh({w}, Job(w))
        /\ UNCHANGED respawning
     \/ /\ ~NeedsNoReplacement(w)
        /\ pool' = pool \ {w}
        /\ respawning' = respawning + 1
        /\ Settle(Job(w), "worker_died")
        /\ UNCHANGED <<busy, waiting, spawned, thread>>
  /\ UNCHANGED <<closed, verdict, dying, work>>

-----------------------------------------------------------------------------
(* run and close, called by the server.                                    *)

QueueFull == Len(waiting) >= MaxQueue

Run(r) ==
  /\ Quiet
  /\ state[r] = "new"
  /\ \/ /\ closed
        /\ state' = [state EXCEPT ![r] = "refused"]
        /\ UNCHANGED <<busy, waiting, entry>>
     \/ \E w \in Free :
          /\ ~closed
          /\ state' = [state EXCEPT ![r] = "granted"]
          /\ entry' = [entry EXCEPT ![r] = w]
          /\ busy' = [busy EXCEPT ![w] = TRUE]
          /\ UNCHANGED waiting
     \/ /\ ~closed /\ Free = {}
        /\ IF QueueFull
             THEN /\ state' = [state EXCEPT ![r] = "service_busy"]
                  /\ UNCHANGED waiting
             ELSE /\ state' = [state EXCEPT ![r] = "waiting"]
                  /\ waiting' = Append(waiting, r)
        /\ UNCHANGED <<busy, entry>>
  /\ UNCHANGED <<pool, retired, respawning, closed, spawned, verdict, threadVars,
                 draining, reported>>

\* run goes on with the worker it was given: the job is installed and posted.
\* A thread that runs no more takes no message.
Start(r) ==
  /\ draining = 0
  /\ state[r] = "granted"
  /\ state' = [state EXCEPT ![r] = "running"]
  /\ LET w == entry[r]
     IN  work' = IF thread[w] = "up" THEN [work EXCEPT ![w] = @ \cup {r}] ELSE work
  /\ UNCHANGED <<runnerVars, entry, verdict, thread, dying, outbox, uncaught,
                 faults, draining, reported>>

\* close: everybody waiting is refused, every worker of the pool terminated.
Close ==
  /\ Quiet
  /\ ~closed
  /\ closed' = TRUE
  /\ state' = [r \in Requests |-> IF state[r] = "waiting" THEN "refused" ELSE state[r]]
  /\ waiting' = <<>>
  /\ dying' = [w \in Workers |-> dying[w] \/ w \in pool]
  /\ UNCHANGED <<pool, busy, retired, respawning, spawned, entry, verdict, thread,
                 work, outbox, uncaught, faults, draining, reported>>

\* Every terminate() of close has resolved: the pool is emptied.
Closed ==
  /\ Quiet
  /\ closed /\ pool # {}
  /\ pool \subseteq reported
  /\ pool' = {}
  /\ UNCHANGED <<busy, retired, waiting, respawning, closed, spawned, requestVars,
                 threadVars, draining, reported>>

-----------------------------------------------------------------------------
(* Timers.                                                                 *)

QueueTimer(r) ==
  /\ Quiet
  /\ \E k \in DOMAIN waiting : waiting[k] = r /\ waiting' = RemoveAt(waiting, k)
  /\ state' = [state EXCEPT ![r] = "service_busy"]
  /\ UNCHANGED <<pool, busy, retired, respawning, closed, spawned, entry, verdict,
                 threadVars, draining, reported>>

KillIdle(w) == \* mutant: the worker is released, not terminated
  /\ busy' = [busy EXCEPT ![w] = FALSE]
  /\ UNCHANGED dying
\* The entry stays busy until its exit event replaces it.
Kill(w) ==
  /\ dying' = [dying EXCEPT ![w] = TRUE]
  /\ UNCHANGED busy

VerifyTimer(r) ==
  /\ Quiet
  /\ state[r] = "running"
  /\ Settle({r}, "verify_timeout")
  /\ Kill(entry[r])
  /\ UNCHANGED <<pool, retired, waiting, respawning, closed, spawned,
                 verdict, thread, work, outbox, uncaught, faults, draining,
                 reported>>

RespawnTimer ==
  /\ Quiet
  /\ respawning > 0
  /\ respawning' = respawning - 1
  /\ IF closed THEN UNCHANGED <<pool, spawned, thread, state, entry, waiting, busy>>
               ELSE AddFresh({}, {})
  /\ UNCHANGED <<retired, closed, verdict, dying, work, outbox, uncaught, faults,
                 draining, reported>>

-----------------------------------------------------------------------------
(* Events of the workers.                                                  *)

\* A callback of its own, or a part of w's exit callback.
InCallback(w) == Quiet \/ draining = w

\* onMessage: the answer settles the request in hand on that worker.
OnMessage(w) ==
  /\ InCallback(w)
  /\ outbox[w] # <<>>
  /\ outbox' = [outbox EXCEPT ![w] = Tail(@)]
  /\ verdict' = [r \in Requests |-> IF r \in Job(w) THEN Head(outbox[w]) ELSE verdict[r]]
  /\ IF Job(w) = {} THEN UNCHANGED <<state, busy, waiting, entry>>
                     ELSE Release(w, Job(w), "answered")
  /\ UNCHANGED <<pool, retired, respawning, closed, spawned, thread, dying, work,
                 uncaught, faults, draining, reported>>

\* A message that cannot be deserialised.  (Bound: a fault.)
OnMessageError(w) ==
  /\ InCallback(w)
  /\ outbox[w] # <<>>
  /\ faults < MaxFaults
  /\ outbox' = [outbox EXCEPT ![w] = Tail(@)]
  /\ faults' = faults + 1
  /\ OnDeath(w)
  /\ UNCHANGED <<uncaught, draining, reported>>

OnError(w) ==
  /\ InCallback(w)
  /\ uncaught[w]
  /\ draining = w => outbox[w] = <<>>
  /\ uncaught' = [uncaught EXCEPT ![w] = FALSE]
  /\ OnDeath(w)
  /\ UNCHANGED <<outbox, faults, draining, reported>>

\* The exit callback begins: what the thread left behind is drained first.
ExitBegins(w) ==
  /\ Quiet
  /\ thread[w] = "exited" /\ w \notin reported
  /\ draining' = w
  /\ UNCHANGED <<runnerVars, requestVars, threadVars, reported>>

OnExit(w) ==
  /\ draining = w
  /\ outbox[w] = <<>> /\ ~uncaught[w]
  /\ draining' = 0
  /\ reported' = reported \cup {w}
  /\ OnDeath(w)
  /\ UNCHANGED <<outbox, uncaught, faults>>

-----------------------------------------------------------------------------
(* The threads.                                                            *)

\* One message in, one message out.
Answer(w) ==
  /\ thread[w] = "up"
  /\ \E r \in work[w] :
       /\ work' = [work EXCEPT ![w] = @ \ {r}]
       /\ outbox' = [outbox EXCEPT ![w] = Append(@, r)]
  /\ UNCHANGED <<runnerVars, requestVars, thread, dying, uncaught, faults, draining,
                 reported>>

\* An uncaught exception, also while booting.
Crash(w) ==
  /\ thread[w] = "up"
  /\ faults < MaxFaults
  /\ faults' = faults + 1
  /\ thread' = [thread EXCEPT ![w] = "crashed"]
  /\ uncaught' = [uncaught EXCEPT ![w] = TRUE]
  /\ work' = [work EXCEPT ![w] = {}]
  /\ UNCHANGED <<runnerVars, requestVars, dying, outbox, draining, reported>>

\* The thread ends: asked to, crashed, or on its own (process.exit).
Exit(w) ==
  /\ \/ /\ thread[w] = "crashed" \/ (thread[w] = "up" /\ dying[w])
        /\ UNCHANGED faults
     \/ /\ thread[w] = "up" /\ ~dying[w]
        /\ faults < MaxFaults
        /\ faults' = faults + 1
  /\ thread' = [thread EXCEPT ![w] = "exited"]
  /\ work' = [work EXCEPT ![w] = {}]
  /\ UNCHANGED <<runnerVars, requestVars, dying, outbox, uncaught, draining, reported>>

-----------------------------------------------------------------------------
Loop ==
  \/ \E r \in Requests : Start(r) \/ QueueTimer(r) \/ VerifyTimer(r)
  \/ \E w \in 1..spawned : draining = w /\ (OnMessage(w) \/ OnError(w) \/ OnExit(w))

Next ==
  \/ Loop
  \/ \E r \in Requests : Run(r)
  \/ Close \/ Closed \/ RespawnTimer
  \/ \E w \in 1..spawned :
       \/ OnMessage(w) \/ OnMessageError(w) \/ OnError(w) \/ ExitBegins(w)
       \/ Answer(w) \/ Crash(w) \/ Exit(w)

(***************************************************************************)
(* Fairness is asked of the main thread's own timers and continuations:    *)
(* a thread may hang for ever, and need not end when it is asked to.       *)
(***************************************************************************)
Spec == Init /\ [][Next]_vars /\ WF_vars(Loop)

-----------------------------------------------------------------------------
TypeOK ==
  /\ pool \subseteq Workers
  /\ busy \in [Workers -> BOOLEAN]
  /\ retired \in [Workers -> BOOLEAN]
  /\ waiting \in Seq(Requests) /\ Len(waiting) <= MaxQueue
  /\ respawning \in 0..Size
  /\ closed \in BOOLEAN
  /\ spawned \in Workers
  /\ state \in [Requests -> States]
  /\ entry \in [Requests -> Workers \cup {0}]
  /\ verdict \in [Requests -> Requests \cup {None}]
  /\ thread \in [Workers -> {"unborn", "up", "crashed", "exited"}]
  /\ dying \in [Workers -> BOOLEAN]
  /\ work \in [Workers -> SUBSET Requests]
  /\ outbox \in [Workers -> Seq(Requests)]
  /\ uncaught \in [Workers -> BOOLEAN]
  /\ reported \subseteq Workers
  /\ draining \in Workers \cup {0}
  /\ faults \in 0..MaxFaults

\* VERIFY_WORKERS bounds the verifications that run at the same time, the ones
\* whose requests have long timed out included.
WorkIsBounded == Cardinality(UNION {work[w] : w \in Workers}) <= Size

\* A worker of the pool that is marked busy has a request in hand, or is on its
\* way out: none is lost to the pool by a path that forgets to release it.
NoWorkerIsLost ==
  \A w \in pool :
    busy[w] => \/ \E r \in Requests : entry[r] = w /\ state[r] \in {"granted", "running"}
               \/ dying[w] \/ thread[w] # "up"

\* A worker serves one request at a time.
OneRequestPerWorker ==
  \A q, r \in Requests :
    (q # r /\ {state[q], state[r]} \subseteq {"granted", "running"}) => entry[q] # entry[r]

\* Nobody waits while a worker of the pool is free.
NoForgottenWaiter == waiting # <<>> => Free = {} /\ ~closed

\* Exactly one replacement per death: whatever dies, crashes, times out or
\* answers late, the pool and the replacements on their way are Size together.
OneReplacementPerDeath == ~closed => Cardinality(pool) + respawning = Size

(***************************************************************************)
(* Why they hold: what the code relies on between two callbacks.           *)
(***************************************************************************)
InHand(r) == state[r] \in {"granted", "running"}

\* The requests waiting are the ones in the queue, once each.
WaitersWait ==
  /\ \A k \in DOMAIN waiting : state[waiting[k]] = "waiting"
  /\ \A r \in Requests : state[r] = "waiting" => \E k \in DOMAIN waiting : waiting[k] = r
  /\ \A j, k \in DOMAIN waiting : waiting[j] = waiting[k] => j = k

\* The entry a request holds is marked busy, and it is still in the pool while
\* its thread runs.
EntriesAreHeld ==
  \A r \in Requests : InHand(r) =>
    /\ entry[r] \in 1..spawned /\ busy[entry[r]]
    /\ thread[entry[r]] = "up" => entry[r] \in pool

\* An entry not yet spawned has no past.
UnbornAreBlank ==
  \A w \in Workers : w > spawned =>
    /\ thread[w] = "unborn" /\ ~busy[w] /\ ~retired[w] /\ ~dying[w]
    /\ work[w] = {} /\ outbox[w] = <<>>

\* The pool is what was spawned and not retired; close terminates all of it.
PoolIsAlive ==
  /\ pool \subseteq 1..spawned
  /\ ~closed => \A w \in 1..spawned : (w \in pool <=> ~retired[w])
  /\ closed => \A w \in pool : dying[w]
  /\ Cardinality(pool) <= Size

\* Only a thread of the pool that runs has work; the rest is on its way out.
ThreadsInv ==
  \A w \in Workers :
    /\ uncaught[w] => thread[w] \in {"crashed", "exited"}
    /\ w \in reported \/ draining = w => thread[w] = "exited"
    /\ work[w] # {} => thread[w] = "up" /\ w \in pool /\ busy[w]

\* A thread has one document, or one answer on its way, and both are of the
\* request that runs on it.
OneDocumentPerThread ==
  /\ \A w \in Workers :
       /\ \A q, r \in work[w] : q = r
       /\ Len(outbox[w]) <= 1
       /\ outbox[w] # <<>> => work[w] = {} /\ busy[w]
  /\ \A r \in Requests :
       /\ state[r] = "granted" => work[entry[r]] = {} /\ outbox[entry[r]] = <<>>
       /\ state[r] = "running" =>
            /\ work[entry[r]] \subseteq {r}
            /\ outbox[entry[r]] # <<>> => Head(outbox[entry[r]]) = r

\* Whatever was replaced died of a fault, or was terminated for a request that
\* timed out: so many entries are spawned and no more.
Retired == {w \in Workers : retired[w]}
Terminated == {w \in Workers : dying[w]}
TimedOut == {r \in Requests : state[r] = "verify_timeout"}
Faulty == {w \in Workers : ~dying[w] /\ (retired[w] \/ thread[w] \in {"crashed", "exited"})}
DeathsHaveCauses ==
  /\ ~closed => /\ spawned + respawning = Size + Cardinality(Retired)
                /\ Cardinality(Terminated) <= Cardinality(TimedOut)
  /\ Cardinality(Faulty) <= faults

\* What every state of the runner satisfies.
RunnerInv ==
  /\ TypeOK /\ WorkIsBounded /\ NoWorkerIsLost /\ OneRequestPerWorker /\ NoForgottenWaiter
  /\ OneReplacementPerDeath
  /\ WaitersWait /\ EntriesAreHeld /\ UnbornAreBlank /\ PoolIsAlive /\ ThreadsInv
  /\ OneDocumentPerThread /\ DeathsHaveCauses

\* A request is answered with the verdict on its own document: a worker is not
\* given another one while it may still answer the last.
OwnVerdict == \A r \in Requests : verdict[r] \in {r, None}

\* Every request is answered: by a verdict, by the death of its worker, or by
\* one of the two deadlines, even if every thread hangs.
EveryRequestSettles ==
  \A r \in Requests : (state[r] \notin Settled \cup {"new"}) ~> (state[r] \in Settled)

-----------------------------------------------------------------------------
\* Said of the code but not kept by it (README, section 5).

\* "a death during a request rejects THAT request immediately (rather than
\* letting it wait out a 60s deadline and report a misleading timeout)": no
\* request runs on a worker whose exit was reported.
NoRequestOnDeadWorker ==
  \A r \in Requests : state[r] = "running" => entry[r] \notin reported

\* "close() releases everything": once it is over no thread is left that nobody
\* asked to stop.
CloseReleasesAll ==
  (closed /\ pool = {}) => \A w \in Workers : thread[w] = "up" => dying[w]
=============================================================================
