---------------------------- MODULE SessionClient ----------------------------
(***************************************************************************)
(* Signing sessions used by any client that respects the API: it opens     *)
(* sessions, signs, and closes them, at any moment and in any order.       *)
(***************************************************************************)
EXTENDS SignSession

\* The awaiter of a settled promise goes on.
Consume(s) ==
  /\ \/ /\ call[s] \in Settlements
        /\ call' = [call EXCEPT ![s] = "idle"]
        /\ UNCHANGED closing
     \/ /\ closing[s] = "done"
        /\ closing' = [closing EXCEPT ![s] = "idle"]
        /\ UNCHANGED call
  /\ UNCHANGED <<phase, inFlight, failure, report, requests, workerVars, outbox>>

Client(s) ==
  /\ Quiet
  /\ \/ OpenSignSession(s) \/ SignNext(s) \/ SignNextRejected(s)
     \/ CloseAndWipe(s) \/ Close(s)

SessionNext ==
  \E s \in Sessions :
    Client(s) \/ Consume(s) \/ Deliver(s) \/ Timer(s) \/ Worker(s)

(***************************************************************************)
(* Fairness is asked of the main thread only: a worker may hang at any     *)
(* point.  An armed timer is strongly fair because other continuations     *)
(* (Quiet) may hold it back for a moment, again and again, but an event    *)
(* loop that keeps turning gets to it.                                     *)
(***************************************************************************)
SessionSpec ==
  /\ SessionInit /\ [][SessionNext]_sessionBusVars
  /\ \A s \in Sessions : SF_sessionBusVars(Timer(s)) /\ WF_sessionBusVars(Consume(s))

-----------------------------------------------------------------------------
SessionTypeOK ==
  /\ phase \in [Sessions -> Phases]
  /\ inFlight \in [Sessions -> Requests]
  /\ failure \in [Sessions -> BOOLEAN]
  /\ report \in [Sessions -> {"none", "wiped", "unconfirmed"}]
  /\ call \in [Sessions -> {"idle", "pending"} \cup Settlements]
  /\ closing \in [Sessions -> {"idle", "pending", "done"}]
  /\ requests \in Requests
  /\ alive \in [Sessions -> BOOLEAN]
  /\ task \in [Sessions -> Messages \cup {Idle}]
  /\ queue \in [Sessions -> Seq(Messages)]
  /\ key \in [Sessions -> {"none", "held", "wiped"}]
  /\ inbox \in [Sessions -> Seq(Messages)]
  /\ outbox \in [Sessions -> Seq(Messages)]

Documents(q) == {n \in DOMAIN q : q[n].kind = "signNext"}

\* "One live buffer": a worker never holds two documents, posted, queued or
\* being signed, although a timeout or an error event settles the call of a
\* document it is still signing (sign-session-bus.ts:531-538).
OneDocumentInWorker ==
  \A s \in Sessions :
    Cardinality(Documents(inbox[s])) + Cardinality(Documents(queue[s]))
      + Cardinality(Documents(<<task[s]>>)) <= 1

\* A pending call always has a timer, or a teardown already under way, that
\* will settle it: no caller hangs (530-555, 606-650, 833).
PendingHasAnEnd ==
  \A s \in Sessions :
    call[s] = "pending" =>
      \/ phase[s] = "opening"
      \/ phase[s] \in {"open", "wiping"} /\ inFlight[s] # 0

\* No worker outlives the session that owned it.
NoOrphan ==
  \A s \in Sessions : alive[s] <=> phase[s] \in {"opening", "open", "wiping", "aborting"}

\* A timeout is reported only once the worker is terminated: the caller may
\* start another one (540-548).
TimeoutMeansStopped ==
  \A s \in Sessions : call[s] = "timeout" => ~alive[s]

\* A teardown that reports the key wiped is right, whatever signature, parse or
\* crash it interleaved with (642-650, wipeSession).
ConfirmedMeansWiped ==
  \A s \in Sessions : report[s] = "wiped" => key[s] = "wiped"

-----------------------------------------------------------------------------
(* What the bus may conclude from its own state about the messages on the  *)
(* way and the work of the worker.                                         *)

Has(q, kinds)  == \E n \in DOMAIN q : q[n].kind \in kinds
Once(q, kinds) == \A m, n \in DOMAIN q : (q[m].kind \in kinds /\ q[n].kind \in kinds) => m = n

SignAnswers == {"signResult", "signError", "signNeedsReview"}
OpenAnswers == {"sessionOpened", "sessionOpenError"}

AtMostOne(a, b, c, d) == /\ ~(a /\ b) /\ ~(a /\ c) /\ ~(a /\ d)
                         /\ ~(b /\ c) /\ ~(b /\ d) /\ ~(c /\ d)

\* One request of this kind at most is posted, queued, worked on or answered.
OneAtATime(s, asked, answers) ==
  /\ Once(inbox[s], asked) /\ Once(queue[s], asked) /\ Once(outbox[s], answers)
  /\ AtMostOne(Has(inbox[s], asked), Has(queue[s], asked), task[s].kind \in asked,
               Has(outbox[s], answers))

NothingAsked(s, asked, answers) ==
  ~Has(inbox[s], asked) /\ ~Has(queue[s], asked) /\ task[s].kind \notin asked
    /\ ~Has(outbox[s], answers)

\* What `inFlight`, `phase` and `workerFailure` say of the requests: the bus may
\* post a document exactly when the worker has none and owes no answer.
RequestsInv(s) ==
  /\ OneAtATime(s, {"signNext"}, SignAnswers)
  /\ OneAtATime(s, {"openSession"}, OpenAnswers)
  /\ \/ phase[s] \notin {"open", "wiping"}
     \/ phase[s] = "open" /\ ~failure[s] /\ inFlight[s] = 0
     => NothingAsked(s, {"signNext"}, SignAnswers)
  /\ phase[s] \in {"none", "open", "wiping"} => NothingAsked(s, {"openSession"}, OpenAnswers)
  /\ inFlight[s] # 0 => phase[s] \in {"open", "wiping"}
  /\ call[s] = "timeout" => phase[s] = "dead"

\* What the acknowledgements say of the retained container.
KeyInv(s) ==
  /\ Has(outbox[s], {"sessionOpened"}) => key[s] \in {"held", "wiped"}
  /\ phase[s] \in {"open", "wiping"} => key[s] \in {"held", "wiped"}
  /\ phase[s] \in {"none", "opening", "open"} =>
       ~Has(inbox[s], {"closeSession"}) /\ ~Has(outbox[s], {"sessionClosed"})
  /\ phase[s] = "wiping" /\ Has(outbox[s], {"sessionClosed"}) => key[s] = "wiped"
  /\ report[s] = "wiped" => phase[s] = "dead" /\ key[s] = "wiped"

\* What every state of a session satisfies, and why.
SessionInv ==
  /\ SessionTypeOK /\ OneDocumentInWorker /\ PendingHasAnEnd /\ NoOrphan
  /\ TimeoutMeansStopped /\ ConfirmedMeansWiped
  /\ \A s \in Sessions : RequestsInv(s) /\ KeyInv(s)

\* Every call settles, with no help from the worker.
CallsSettle == \A s \in Sessions : (call[s] = "pending") ~> (call[s] # "pending")

\* A session closed, or given up while opening, ends with its worker killed.
TeardownsEnd ==
  \A s \in Sessions : (phase[s] \in {"wiping", "aborting"}) ~> ~alive[s]

\* Nothing that is pending hangs, whatever the worker does or leaves undone.
PendingEnds == CallsSettle /\ TeardownsEnd

-----------------------------------------------------------------------------
\* Said of the code but not kept by it (README, section 5).

\* "that signature will fail with `session_not_open`": a signature running when
\* closeSession is handled does not end in a signResult.
AbandonedSignatureFails ==
  \A s \in Sessions : \A m, n \in DOMAIN outbox[s] :
    (m < n /\ outbox[s][m].kind = "sessionClosed") => outbox[s][n].kind # "signResult"
=============================================================================
