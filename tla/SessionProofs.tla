---------------------------- MODULE SessionProofs ----------------------------
(***************************************************************************)
(* The signing session, for any number of sessions and requests: what the  *)
(* bus concludes from its own few variables about the messages on the way  *)
(* and the work of a worker it cannot see (RequestsInv, KeyInv), and what  *)
(* follows for its callers (SessionInv).                                   *)
(***************************************************************************)
EXTENDS SessionClient, FiniteSetTheorems, SequenceTheorems, TLAPS

USE SessionAssumption DEF Requests, Phases, Settlements

-----------------------------------------------------------------------------
(* Sequences of messages: what posting and taking one does to them.        *)

\* Posting m to a channel.
LEMMA AppendHas ==
  ASSUME NEW q \in Seq(Messages), NEW m \in Messages, NEW K
  PROVE  /\ Append(q, m) \in Seq(Messages)
         /\ Has(Append(q, m), K) <=> Has(q, K) \/ m.kind \in K
         /\ Once(q, K) /\ (m.kind \in K => ~Has(q, K)) => Once(Append(q, m), K)
  <1>1. /\ Append(q, m) \in Seq(Messages)
        /\ DOMAIN q = 1..Len(q) /\ Len(q) \in Nat
        /\ DOMAIN Append(q, m) = 1..(Len(q) + 1)
        /\ \A n \in 1..Len(q) : Append(q, m)[n] = q[n]
        /\ Append(q, m)[Len(q) + 1] = m
    OBVIOUS
  <1>2. \A n \in 1..(Len(q) + 1) : n \in 1..Len(q) \/ n = Len(q) + 1
    BY <1>1
  <1>3. Has(Append(q, m), K) <=> Has(q, K) \/ m.kind \in K
    BY <1>1, <1>2 DEF Has
  <1>4. ASSUME Once(q, K), m.kind \in K => ~Has(q, K) PROVE Once(Append(q, m), K)
    BY <1>1, <1>2, <1>4 DEF Has, Once
  <1> QED
    BY <1>1, <1>3, <1>4

\* Taking the first message of a channel.
LEMMA TailHas ==
  ASSUME NEW q \in Seq(Messages), q # <<>>, NEW K
  PROVE  /\ Head(q) \in Messages /\ Tail(q) \in Seq(Messages)
         /\ Has(q, K) <=> Head(q).kind \in K \/ Has(Tail(q), K)
         /\ Once(q, K) => Once(Tail(q), K)
         /\ Once(q, K) /\ Head(q).kind \in K => ~Has(Tail(q), K)
  <1>1. /\ Head(q) \in Messages /\ Tail(q) \in Seq(Messages) /\ Head(q) = q[1]
        /\ Len(q) \in Nat \ {0}
        /\ DOMAIN q = 1..Len(q) /\ DOMAIN Tail(q) = 1..(Len(q) - 1)
        /\ \A n \in 1..(Len(q) - 1) : Tail(q)[n] = q[n + 1]
    <2>1. Len(q) \in Nat \ {0}
      BY EmptySeq
    <2>2. Head(q) \in Messages /\ Tail(q) \in Seq(Messages) /\ Len(Tail(q)) = Len(q) - 1
          /\ \A n \in 1..Len(Tail(q)) : Tail(q)[n] = q[n + 1]
      BY HeadTailProperties
    <2>3. Head(q) = q[1] /\ DOMAIN q = 1..Len(q) /\ DOMAIN Tail(q) = 1..Len(Tail(q))
      BY <2>2, LenProperties
    <2> QED
      BY <2>1, <2>2, <2>3
  <1>2. \A n \in 1..Len(q) : n = 1 \/ (n - 1 \in 1..(Len(q) - 1) /\ q[n] = Tail(q)[n - 1])
    BY <1>1
  <1>3. \A n \in 1..(Len(q) - 1) : n + 1 \in 1..Len(q) /\ n + 1 # 1 /\ Tail(q)[n] = q[n + 1]
    BY <1>1
  <1>4. 1 \in 1..Len(q)
    BY <1>1
  <1>5. Has(q, K) <=> Head(q).kind \in K \/ Has(Tail(q), K)
    BY <1>1, <1>2, <1>3, <1>4 DEF Has
  <1>6. ASSUME Once(q, K) PROVE Once(Tail(q), K)
    <2> SUFFICES ASSUME NEW m \in DOMAIN Tail(q), NEW n \in DOMAIN Tail(q),
                        Tail(q)[m].kind \in K, Tail(q)[n].kind \in K
                 PROVE  m = n
      BY DEF Once
    <2>1. m + 1 = n + 1
      BY <1>1, <1>3, <1>6 DEF Once
    <2> QED
      BY <1>1, <2>1
  <1>7. ASSUME Once(q, K), Head(q).kind \in K,
               NEW n \in DOMAIN Tail(q), Tail(q)[n].kind \in K
        PROVE  FALSE
    BY <1>1, <1>3, <1>4, <1>7 DEF Once
  <1> QED
    BY <1>1, <1>5, <1>6, <1>7 DEF Has

\* A terminated worker's channels.
LEMMA EmptyHas ==
  ASSUME NEW K
  PROVE  <<>> \in Seq(Messages) /\ ~Has(<<>>, K) /\ Once(<<>>, K)
  BY DEF Has, Once

\* What the messages of the protocol are.
LEMMA MessageTypes ==
  /\ \A k \in {"openSession", "signNext", "closeSession", "sessionOpened", "sessionOpenError",
              "sessionClosed", "errorEvent"} \cup SignAnswers :
       \A r \in Requests : Msg(k, r) \in Messages /\ Msg(k, r).kind = k /\ Msg(k, r).req = r
  /\ \A m \in Messages \cup {Idle} : m.req \in Requests
  /\ Idle.kind = "idle"
  BY DEF Msg, Messages, Idle, SignAnswers

LEMMA AnswersOnly ==
  /\ DOMAIN Settlement = SignAnswers
  /\ \A k \in SignAnswers : Settlement[k] \in {"signed", "error", "review"}
  BY DEF Settlement, SignAnswers
-----------------------------------------------------------------------------
(* The invariant, session by session.                                      *)

PendingEndsHere(s) ==
  call[s] = "pending" =>
    \/ phase[s] = "opening"
    \/ phase[s] \in {"open", "wiping"} /\ inFlight[s] # 0

AliveHere(s) == alive[s] <=> phase[s] \in {"opening", "open", "wiping", "aborting"}

LocalInv(s) == RequestsInv(s) /\ KeyInv(s) /\ PendingEndsHere(s) /\ AliveHere(s)

BusInd == SessionTypeOK /\ \A s \in Sessions : LocalInv(s)

\* A step that leaves session s alone.
Elsewhere(s) ==
  /\ phase'[s] = phase[s] /\ inFlight'[s] = inFlight[s] /\ failure'[s] = failure[s]
  /\ report'[s] = report[s] /\ call'[s] = call[s] /\ alive'[s] = alive[s]
  /\ task'[s] = task[s] /\ queue'[s] = queue[s] /\ key'[s] = key[s]
  /\ inbox'[s] = inbox[s] /\ outbox'[s] = outbox[s]

LEMMA ElsewhereKeeps ==
  ASSUME NEW s \in Sessions, LocalInv(s), Elsewhere(s)
  PROVE  LocalInv(s)'
  BY DEF LocalInv, RequestsInv, KeyInv, PendingEndsHere, AliveHere, OneAtATime, NothingAsked,
         Elsewhere

\* What one step of session t has to show.
Keeps(t) == SessionTypeOK' /\ LocalInv(t)' /\ \A s \in Sessions \ {t} : Elsewhere(s)

LEMMA KeepsAll == ASSUME BusInd, NEW t \in Sessions, Keeps(t) PROVE BusInd'
  BY ElsewhereKeeps DEF BusInd, Keeps

-----------------------------------------------------------------------------
(* Calls of the client.                                                    *)

\* What posting m to the worker of session t does to its inbox.
Posts(t, kind) ==
  /\ inbox' \in [Sessions -> Seq(Messages)]
  /\ \A s \in Sessions \ {t} : inbox'[s] = inbox[s]
  /\ \A K : Has(inbox'[t], K) <=> Has(inbox[t], K) \/ kind \in K
  /\ \A K : Once(inbox[t], K) /\ (kind \in K => ~Has(inbox[t], K)) => Once(inbox'[t], K)

LEMMA Posting ==
  ASSUME BusInd, NEW t \in Sessions, NEW m \in Messages, Post(t, m)
  PROVE  Posts(t, m.kind)
  <1>1. /\ inbox[t] \in Seq(Messages) /\ inbox'[t] = Append(inbox[t], m)
        /\ \A s \in Sessions \ {t} : inbox'[s] = inbox[s]
    BY DEF BusInd, SessionTypeOK, Post
  <1> QED
    BY <1>1, AppendHas DEF BusInd, SessionTypeOK, Posts, Post

\* The same of an event of the worker, and of taking the next one.
Emits(t, kind) ==
  /\ outbox' \in [Sessions -> Seq(Messages)]
  /\ \A s \in Sessions \ {t} : outbox'[s] = outbox[s]
  /\ \A K : Has(outbox'[t], K) <=> Has(outbox[t], K) \/ kind \in K
  /\ \A K : Once(outbox[t], K) /\ (kind \in K => ~Has(outbox[t], K)) => Once(outbox'[t], K)

LEMMA Emitting ==
  ASSUME BusInd, NEW t \in Sessions, NEW m \in Messages, Emit(t, m)
  PROVE  Emits(t, m.kind)
  <1>1. /\ outbox[t] \in Seq(Messages) /\ outbox'[t] = Append(outbox[t], m)
        /\ \A s \in Sessions \ {t} : outbox'[s] = outbox[s]
    BY DEF BusInd, SessionTypeOK, Emit
  <1> QED
    BY <1>1, AppendHas DEF BusInd, SessionTypeOK, Emits, Emit

\* q has become its tail, and its first message was of this kind.
Taken(q, rest, kind) ==
  /\ rest \in Seq(Messages)
  /\ \A K : Has(q, K) <=> kind \in K \/ Has(rest, K)
  /\ \A K : Once(q, K) => Once(rest, K)
  /\ \A K : Once(q, K) /\ kind \in K => ~Has(rest, K)

LEMMA Taking ==
  ASSUME NEW q \in Seq(Messages), q # <<>>
  PROVE  Head(q) \in Messages /\ Taken(q, Tail(q), Head(q).kind)
  BY TailHas DEF Taken

\* worker.terminate() leaves nothing of the session but the key it may hold.
Terminated(t, end) ==
  /\ \A s \in Sessions \ {t} :
       /\ phase'[s] = phase[s] /\ alive'[s] = alive[s] /\ task'[s] = task[s]
       /\ queue'[s] = queue[s] /\ inbox'[s] = inbox[s] /\ outbox'[s] = outbox[s]
  /\ phase'[t] = end /\ ~alive'[t] /\ task'[t].kind = "idle"
  /\ UNCHANGED <<key, failure, requests>>
  /\ \A K : /\ ~Has(inbox'[t], K) /\ ~Has(queue'[t], K) /\ ~Has(outbox'[t], K)
            /\ Once(inbox'[t], K) /\ Once(queue'[t], K) /\ Once(outbox'[t], K)
  /\ phase' \in [Sessions -> Phases] /\ alive' \in [Sessions -> BOOLEAN]
  /\ task' \in [Sessions -> Messages \cup {Idle}]
  /\ inbox' \in [Sessions -> Seq(Messages)] /\ queue' \in [Sessions -> Seq(Messages)]
  /\ outbox' \in [Sessions -> Seq(Messages)]

LEMMA Terminating ==
  ASSUME BusInd, NEW t \in Sessions, NEW end \in Phases, Terminate(t, end)
  PROVE  Terminated(t, end)
  <1> USE DEF BusInd, SessionTypeOK, Terminate
  <1>1. inbox'[t] = <<>> /\ queue'[t] = <<>> /\ outbox'[t] = <<>>
    OBVIOUS
  <1>2. /\ inbox' \in [Sessions -> Seq(Messages)] /\ queue' \in [Sessions -> Seq(Messages)]
        /\ outbox' \in [Sessions -> Seq(Messages)]
    BY EmptyHas
  <1>3. /\ phase' \in [Sessions -> Phases] /\ alive' \in [Sessions -> BOOLEAN]
        /\ task' \in [Sessions -> Messages \cup {Idle}]
    OBVIOUS
  <1>4. phase'[t] = end /\ ~alive'[t] /\ task'[t].kind = "idle"
    BY MessageTypes
  <1>5. \A s \in Sessions \ {t} :
          /\ phase'[s] = phase[s] /\ alive'[s] = alive[s] /\ task'[s] = task[s]
          /\ queue'[s] = queue[s] /\ inbox'[s] = inbox[s] /\ outbox'[s] = outbox[s]
    OBVIOUS
  <1> QED
    BY <1>1, <1>2, <1>3, <1>4, <1>5, EmptyHas DEF Terminated

\* Settling the call in flight.
Settled(t, code) ==
  /\ \A s \in Sessions \ {t} : inFlight'[s] = inFlight[s] /\ call'[s] = call[s]
  /\ inFlight'[t] = 0
  /\ call'[t] = IF inFlight[t] # 0 THEN code ELSE call[t]
  /\ inFlight' \in [Sessions -> Requests]
  /\ call' \in [Sessions -> {"idle", "pending"} \cup Settlements]

LEMMA Settling ==
  ASSUME BusInd, NEW t \in Sessions, NEW code \in Settlements, Settle(t, code)
  PROVE  Settled(t, code)
  <1> USE DEF BusInd, SessionTypeOK, Settle
  <1>1. inFlight' \in [Sessions -> Requests] /\ inFlight'[t] = 0
    OBVIOUS
  <1>2. CASE inFlight[t] # 0
    BY <1>1, <1>2 DEF Settled
  <1>3. CASE inFlight[t] = 0
    BY <1>1, <1>3 DEF Settled
  <1> QED
    BY <1>2, <1>3

LEMMA OpenSignSessionStep ==
  ASSUME BusInd, NEW t \in Sessions, OpenSignSession(t) PROVE Keeps(t)
  <1> USE DEF BusInd, SessionTypeOK, OpenSignSession
  <1>0. Msg("openSession", 0) \in Messages /\ Msg("openSession", 0).kind = "openSession"
    BY MessageTypes
  <1>p. Posts(t, "openSession")
    BY <1>0, Posting
  <1>1. SessionTypeOK'
    BY <1>p DEF Posts
  <1>2. \A s \in Sessions \ {t} : Elsewhere(s)
    BY <1>p DEF Elsewhere, Posts
  <1>3. RequestsInv(t)'
    BY <1>p DEF LocalInv, RequestsInv, OneAtATime, NothingAsked, AtMostOne, Posts
  <1>4. KeyInv(t)' /\ PendingEndsHere(t)' /\ AliveHere(t)'
    BY <1>p DEF LocalInv, KeyInv, PendingEndsHere, AliveHere, Posts
  <1> QED
    BY <1>1, <1>2, <1>3, <1>4 DEF Keeps, LocalInv

LEMMA SignNextStep ==
  ASSUME BusInd, NEW t \in Sessions, SignNext(t) PROVE Keeps(t)
  <1> USE DEF BusInd, SessionTypeOK, SignNext, IsUsable
  <1>0. /\ requests' \in Requests /\ requests' # 0
        /\ Msg("signNext", requests') \in Messages
        /\ Msg("signNext", requests').kind = "signNext"
    BY MessageTypes
  <1>1. CASE Post(t, Msg("signNext", requests'))
    <2>p. Posts(t, "signNext")
      BY <1>0, <1>1, Posting
    <2>c. inFlight' \in [Sessions -> Requests]
          /\ call' \in [Sessions -> {"idle", "pending"} \cup Settlements]
      BY <1>0, <1>1
    <2>1. SessionTypeOK'
      BY <1>0, <2>p, <2>c DEF Posts
    <2>2. \A s \in Sessions \ {t} : Elsewhere(s)
      BY <2>p DEF Elsewhere, Posts
    <2>3. RequestsInv(t)'
      BY <2>p DEF LocalInv, RequestsInv, OneAtATime, NothingAsked, AtMostOne, Posts
    <2>4. KeyInv(t)' /\ PendingEndsHere(t)' /\ AliveHere(t)'
      BY <2>p DEF LocalInv, KeyInv, PendingEndsHere, AliveHere, Posts
    <2> QED
      BY <2>1, <2>2, <2>3, <2>4 DEF Keeps, LocalInv
  <1>2. CASE UNCHANGED <<inbox, inFlight>>
    <2>1. SessionTypeOK'
      BY <1>0, <1>2
    <2>2. \A s \in Sessions \ {t} : Elsewhere(s)
      BY <1>2 DEF Elsewhere
    <2>3. LocalInv(t)'
      BY <1>2 DEF LocalInv, RequestsInv, OneAtATime, NothingAsked, KeyInv, PendingEndsHere, AliveHere
    <2> QED
      BY <2>1, <2>2, <2>3 DEF Keeps
  <1> QED
    BY <1>1, <1>2

LEMMA SignNextRejectedStep ==
  ASSUME BusInd, NEW t \in Sessions, SignNextRejected(t) PROVE Keeps(t)
  <1> USE DEF BusInd, SessionTypeOK, SignNextRejected, workerVars
  <1>1. SessionTypeOK' /\ \A s \in Sessions \ {t} : Elsewhere(s)
    BY DEF Elsewhere
  <1>2. LocalInv(t)'
    BY DEF LocalInv, RequestsInv, OneAtATime, NothingAsked, KeyInv, PendingEndsHere, AliveHere
  <1> QED
    BY <1>1, <1>2 DEF Keeps

LEMMA CloseStep ==
  ASSUME BusInd, NEW t \in Sessions, Close(t) PROVE Keeps(t)
  <1> USE DEF BusInd, SessionTypeOK, Close
  <1>0. Terminated(t, "dead")
    BY Terminating
  <1>s. Settled(t, "session_closed")
    BY Settling
  <1>1. SessionTypeOK'
    BY <1>0, <1>s DEF Terminated, Settled
  <1>2. \A s \in Sessions \ {t} : Elsewhere(s)
    BY <1>0, <1>s DEF Elsewhere, Terminated, Settled
  <1>3. RequestsInv(t)'
    BY <1>0, <1>s DEF LocalInv, RequestsInv, OneAtATime, NothingAsked, AtMostOne, PendingEndsHere, Terminated, Settled
  <1>4. KeyInv(t)' /\ PendingEndsHere(t)' /\ AliveHere(t)'
    BY <1>0, <1>s DEF LocalInv, KeyInv, PendingEndsHere, AliveHere, Terminated, Settled
  <1> QED
    BY <1>1, <1>2, <1>3, <1>4 DEF Keeps, LocalInv

LEMMA CloseAndWipeStep ==
  ASSUME BusInd, NEW t \in Sessions, CloseAndWipe(t) PROVE Keeps(t)
  <1> USE DEF BusInd, SessionTypeOK, CloseAndWipe
  <1>0. Msg("closeSession", 0) \in Messages /\ Msg("closeSession", 0).kind = "closeSession"
    BY MessageTypes
  <1>p. Posts(t, "closeSession")
    BY <1>0, Posting
  <1>s. Settled(t, "session_closed")
    BY Settling
  <1>1. SessionTypeOK'
    BY <1>p, <1>s DEF Posts, Settled
  <1>2. \A s \in Sessions \ {t} : Elsewhere(s)
    BY <1>p, <1>s DEF Elsewhere, Posts, Settled
  <1>3. RequestsInv(t)'
    BY <1>p, <1>s DEF LocalInv, RequestsInv, OneAtATime, NothingAsked, AtMostOne, Posts, Settled
  <1>4. KeyInv(t)' /\ PendingEndsHere(t)' /\ AliveHere(t)'
    BY <1>p, <1>s DEF LocalInv, KeyInv, PendingEndsHere, AliveHere, Posts, Settled
  <1> QED
    BY <1>1, <1>2, <1>3, <1>4 DEF Keeps, LocalInv

\* An awaiter goes on: nothing but its promise changes.
LEMMA ConsumeStep ==
  ASSUME BusInd, NEW t \in Sessions, Consume(t) PROVE Keeps(t)
  <1> USE DEF BusInd, SessionTypeOK, Consume, workerVars
  <1>1. SessionTypeOK' /\ \A s \in Sessions \ {t} : Elsewhere(s)
    BY DEF Elsewhere
  <1>2. LocalInv(t)'
    BY DEF LocalInv, RequestsInv, OneAtATime, NothingAsked, KeyInv, PendingEndsHere, AliveHere
  <1> QED
    BY <1>1, <1>2 DEF Keeps

-----------------------------------------------------------------------------
(* Events of the main thread.                                              *)

LEMMA OpenFailsNowStep ==
  ASSUME BusInd, NEW t \in Sessions, OpenFailsNow(t) PROVE Keeps(t)
  <1> USE DEF BusInd, SessionTypeOK, OpenFailsNow
  <1>0. Terminated(t, "failed")
    BY Terminating
  <1>1. SessionTypeOK'
    BY <1>0 DEF Terminated
  <1>2. \A s \in Sessions \ {t} : Elsewhere(s)
    BY <1>0 DEF Elsewhere, Terminated
  <1>3. RequestsInv(t)'
    BY <1>0 DEF LocalInv, RequestsInv, OneAtATime, NothingAsked, AtMostOne, PendingEndsHere, Terminated
  <1>4. KeyInv(t)' /\ PendingEndsHere(t)' /\ AliveHere(t)'
    BY <1>0 DEF LocalInv, KeyInv, PendingEndsHere, AliveHere, Terminated
  <1> QED
    BY <1>1, <1>2, <1>3, <1>4 DEF Keeps, LocalInv

LEMMA FinishAbortedStep ==
  ASSUME BusInd, NEW t \in Sessions, FinishAborted(t) PROVE Keeps(t)
  <1> USE DEF BusInd, SessionTypeOK, FinishAborted
  <1>0. Terminated(t, "failed")
    BY Terminating
  <1>1. SessionTypeOK'
    BY <1>0 DEF Terminated
  <1>2. \A s \in Sessions \ {t} : Elsewhere(s)
    BY <1>0 DEF Elsewhere, Terminated
  <1>3. RequestsInv(t)'
    BY <1>0 DEF LocalInv, RequestsInv, OneAtATime, NothingAsked, AtMostOne, PendingEndsHere, Terminated
  <1>4. KeyInv(t)' /\ PendingEndsHere(t)' /\ AliveHere(t)'
    BY <1>0 DEF LocalInv, KeyInv, PendingEndsHere, AliveHere, Terminated
  <1> QED
    BY <1>1, <1>2, <1>3, <1>4 DEF Keeps, LocalInv

LEMMA FinishStep ==
  ASSUME BusInd, NEW t \in Sessions,
         \/ Finish(t, "wiped") /\ Has(outbox[t], {"sessionClosed"})
         \/ Finish(t, "unconfirmed")
  PROVE  Keeps(t)
  <1> USE DEF BusInd, SessionTypeOK, Finish
  <1>0. Terminated(t, "dead")
    BY Terminating
  <1>s. Settled(t, "timeout")
    BY Settling
  <1>r. report' \in [Sessions -> {"none", "wiped", "unconfirmed"}]
    OBVIOUS
  <1>f. closing' = IF closing[t] = "pending" THEN [closing EXCEPT ![t] = "done"] ELSE closing
    OBVIOUS
  <1>c. closing' \in [Sessions -> {"idle", "pending", "done"}]
    <2>1. CASE closing[t] = "pending"
      BY <1>f, <2>1
    <2>2. CASE closing[t] # "pending"
      BY <1>f, <2>2
    <2> QED
      BY <2>1, <2>2
  <1>1. SessionTypeOK'
    BY <1>0, <1>s, <1>r, <1>c DEF Terminated, Settled
  <1>2. \A s \in Sessions \ {t} : Elsewhere(s)
    BY <1>0, <1>s DEF Elsewhere, Terminated, Settled
  <1>3. RequestsInv(t)'
    BY <1>0, <1>s DEF LocalInv, RequestsInv, OneAtATime, NothingAsked, AtMostOne, PendingEndsHere, Terminated, Settled
  <1>4. KeyInv(t)' /\ PendingEndsHere(t)' /\ AliveHere(t)'
    BY <1>0, <1>s DEF LocalInv, KeyInv, PendingEndsHere, AliveHere, Terminated, Settled
  <1> QED
    BY <1>1, <1>2, <1>3, <1>4 DEF Keeps, LocalInv

\* The timers of an opening and of a signature post a closeSession.
LEMMA TimerStep ==
  ASSUME BusInd, NEW t \in Sessions, Timer(t) PROVE Keeps(t)
  <1>1. CASE WipeTimer(t)
    BY <1>1, FinishStep, FinishAbortedStep DEF WipeTimer
  <1>2. ASSUME OpenTimer(t) \/ SignTimer(t) PROVE Keeps(t)
    <2> USE DEF BusInd, SessionTypeOK, OpenTimer, SignTimer
    <2>0. Msg("closeSession", 0) \in Messages /\ Msg("closeSession", 0).kind = "closeSession"
      BY MessageTypes
    <2>p. Posts(t, "closeSession")
      BY <1>2, <2>0, Posting
    <2>1. SessionTypeOK'
      BY <1>2, <2>p DEF Posts
    <2>2. \A s \in Sessions \ {t} : Elsewhere(s)
      BY <1>2, <2>p DEF Elsewhere, Posts
    <2>3. RequestsInv(t)'
      BY <1>2, <2>p DEF LocalInv, RequestsInv, OneAtATime, NothingAsked, AtMostOne, Posts
    <2>4. KeyInv(t)' /\ PendingEndsHere(t)' /\ AliveHere(t)'
      BY <1>2, <2>p DEF LocalInv, KeyInv, PendingEndsHere, AliveHere, Posts
    <2> QED
      BY <2>1, <2>2, <2>3, <2>4 DEF Keeps, LocalInv
  <1> QED
    BY <1>1, <1>2 DEF Timer

\* The next message of the worker is heard, or nobody listens for it.
LEMMA DeliverStep ==
  ASSUME BusInd, NEW t \in Sessions, Deliver(t) PROVE Keeps(t)
  <1> DEFINE kind == Head(outbox[t]).kind
  <1> USE DEF BusInd, SessionTypeOK, workerVars, busVars
  <1>0. Head(outbox[t]) \in Messages /\ Taken(outbox[t], Tail(outbox[t]), kind)
    BY Taking DEF Deliver
  <1>1. ASSUME Take(t)
        PROVE  /\ Taken(outbox[t], outbox'[t], kind) /\ outbox' \in [Sessions -> Seq(Messages)]
               /\ \A s \in Sessions \ {t} : outbox'[s] = outbox[s]
    BY <1>0, <1>1 DEF Take, Taken
  <1>w. RequestsInv(t) /\ KeyInv(t) /\ PendingEndsHere(t) /\ AliveHere(t)
    BY DEF LocalInv
  <1>2. CASE OnSessionOpened(t)
    <2> USE <1>2 DEF OnSessionOpened
    <2>1. SessionTypeOK' /\ \A s \in Sessions \ {t} : Elsewhere(s)
      BY <1>1 DEF Elsewhere
    <2>2. RequestsInv(t)'
      BY <1>0, <1>1 DEF LocalInv, RequestsInv, OneAtATime, NothingAsked, AtMostOne, OpenAnswers, Taken
    <2>3. KeyInv(t)' /\ PendingEndsHere(t)' /\ AliveHere(t)'
      BY <1>0, <1>1 DEF LocalInv, KeyInv, PendingEndsHere, AliveHere, Taken
    <2> QED
      BY <2>1, <2>2, <2>3 DEF Keeps, LocalInv
  <1>3. CASE OnOpenError(t)
    BY <1>3, OpenFailsNowStep DEF OnOpenError
  <1>4. CASE OnClosedAck(t)
    <2>1. Has(outbox[t], {"sessionClosed"})
      BY <1>0, <1>4 DEF OnClosedAck, Taken
    <2> QED
      BY <1>4, <2>1, FinishStep, FinishAbortedStep DEF OnClosedAck
  <1>5. CASE OnAnswer(t)
    <2>1. kind \in SignAnswers /\ Has(outbox[t], SignAnswers)
      BY <1>0, <1>5, AnswersOnly DEF Taken, OnAnswer
    <2>2. Settled(t, Settlement[kind]) /\ Settlement[kind] \in {"signed", "error", "review"}
      BY <1>5, <2>1, AnswersOnly, Settling DEF OnAnswer
    <2>3. phase[t] \in {"open", "wiping"}
      BY <1>w, <2>1 DEF RequestsInv, NothingAsked
    <2>4. Take(t) /\ UNCHANGED <<phase, failure, report, closing, requests, workerVars>>
      BY <1>5 DEF OnAnswer
    <2>5. SessionTypeOK' /\ \A s \in Sessions \ {t} : Elsewhere(s)
      BY <1>1, <2>2, <2>4 DEF Elsewhere, Settled
    <2>6. ~Has(outbox'[t], SignAnswers) /\ ~Has(inbox[t], {"signNext"})
          /\ ~Has(queue[t], {"signNext"}) /\ task[t].kind # "signNext"
      BY <1>1, <1>w, <2>1, <2>4 DEF RequestsInv, OneAtATime, AtMostOne, Taken
    <2>7. RequestsInv(t)'
      BY <1>1, <1>w, <2>1, <2>2, <2>3, <2>4, <2>6
         DEF RequestsInv, OneAtATime, NothingAsked, AtMostOne, Taken, Settled
    <2>8. KeyInv(t)' /\ PendingEndsHere(t)' /\ AliveHere(t)'
      BY <1>1, <1>w, <2>2, <2>3, <2>4 DEF KeyInv, PendingEndsHere, AliveHere, Taken, Settled
    <2> QED
      BY <2>5, <2>7, <2>8 DEF Keeps, LocalInv
  <1>6. CASE OnWorkerFailure(t) /\ ~OpenFailsNow(t)
    <2>1. /\ phase[t] \in {"open", "wiping"} /\ Take(t)
          /\ failure' = [failure EXCEPT ![t] = TRUE]
          /\ UNCHANGED <<phase, report, closing, requests, workerVars>>
      BY <1>6 DEF OnWorkerFailure
    <2>2. Settled(t, "worker_failed")
      BY <1>6, Settling DEF OnWorkerFailure
    <2>3. SessionTypeOK' /\ \A s \in Sessions \ {t} : Elsewhere(s)
      BY <1>1, <2>1, <2>2 DEF Elsewhere, Settled
    <2>4. RequestsInv(t)'
      BY <1>1, <1>w, <2>1, <2>2
         DEF RequestsInv, OneAtATime, NothingAsked, AtMostOne, Taken, Settled
    <2>5. KeyInv(t)' /\ PendingEndsHere(t)' /\ AliveHere(t)'
      BY <1>1, <1>w, <2>1, <2>2 DEF KeyInv, PendingEndsHere, AliveHere, Taken, Settled
    <2> QED
      BY <2>3, <2>4, <2>5 DEF Keeps, LocalInv
  <1>7. CASE Ignored(t)
    <2> USE <1>7 DEF Ignored
    <2>1. SessionTypeOK' /\ \A s \in Sessions \ {t} : Elsewhere(s)
      BY <1>1 DEF Elsewhere
    <2>2. RequestsInv(t)'
      BY <1>0, <1>1 DEF LocalInv, RequestsInv, OneAtATime, NothingAsked, AtMostOne, Taken
    <2>3. KeyInv(t)' /\ PendingEndsHere(t)' /\ AliveHere(t)'
      BY <1>0, <1>1 DEF LocalInv, KeyInv, PendingEndsHere, AliveHere, Taken
    <2> QED
      BY <2>1, <2>2, <2>3 DEF Keeps, LocalInv
  <1> QED
    BY <1>2, <1>3, <1>4, <1>5, <1>6, <1>7, OpenFailsNowStep DEF Deliver, OnWorkerFailure

-----------------------------------------------------------------------------
(* The worker.                                                             *)

\* A request that moves from the inbox to the serial queue is the same request.
LEMMA Queued ==
  ASSUME NEW t, NEW kind, NEW A, NEW R, OneAtATime(t, A, R),
         Taken(inbox[t], inbox'[t], kind), task' = task, outbox' = outbox,
         \A K : Has(queue'[t], K) <=> Has(queue[t], K) \/ kind \in K,
         \A K : Once(queue[t], K) /\ (kind \in K => ~Has(queue[t], K)) => Once(queue'[t], K)
  PROVE  OneAtATime(t, A, R)' /\ (NothingAsked(t, A, R) => NothingAsked(t, A, R)')
  <1>1. /\ Has(inbox[t], A) <=> kind \in A \/ Has(inbox'[t], A)
        /\ Once(inbox[t], A) => Once(inbox'[t], A)
        /\ Once(inbox[t], A) /\ kind \in A => ~Has(inbox'[t], A)
    BY DEF Taken
  <1>2. /\ Once(inbox[t], A) /\ Once(queue[t], A) /\ Once(outbox[t], R)
        /\ AtMostOne(Has(inbox[t], A), Has(queue[t], A), task[t].kind \in A, Has(outbox[t], R))
    BY DEF OneAtATime
  <1>3. kind \in A => ~Has(queue[t], A)
    BY <1>1, <1>2 DEF AtMostOne
  <1>4. Has(queue'[t], A) <=> Has(queue[t], A) \/ kind \in A
    OBVIOUS
  <1>4a. Once(queue'[t], A)
    BY <1>2, <1>3
  <1>5. AtMostOne(Has(inbox'[t], A), Has(queue'[t], A), task'[t].kind \in A, Has(outbox'[t], R))
    BY <1>1, <1>2, <1>4 DEF AtMostOne
  <1>6. OneAtATime(t, A, R)'
    BY <1>1, <1>2, <1>4a, <1>5 DEF OneAtATime
  <1>7. NothingAsked(t, A, R) => NothingAsked(t, A, R)'
    BY <1>1, <1>4 DEF NothingAsked
  <1> QED
    BY <1>6, <1>7

\* Neither the request nor its answer is concerned.
LEMMA Unconcerned ==
  ASSUME NEW t, NEW A, NEW R, OneAtATime(t, A, R), task' = task, queue' = queue,
         Has(inbox'[t], A) => Has(inbox[t], A), Once(inbox[t], A) => Once(inbox'[t], A),
         Has(outbox'[t], R) => Has(outbox[t], R), Once(outbox[t], R) => Once(outbox'[t], R)
  PROVE  OneAtATime(t, A, R)' /\ (NothingAsked(t, A, R) => NothingAsked(t, A, R)')
  BY DEF OneAtATime, NothingAsked, AtMostOne

\* A message is received: queued, or the session is wiped on the spot.
LEMMA ReceiveStep ==
  ASSUME BusInd, NEW t \in Sessions, Receive(t) PROVE Keeps(t)
  <1> DEFINE m == Head(inbox[t])
  <1> USE DEF BusInd, SessionTypeOK, busVars, Receive
  <1>0. m \in Messages /\ Taken(inbox[t], Tail(inbox[t]), m.kind)
    BY Taking
  <1>1. /\ inbox'[t] = Tail(inbox[t]) /\ inbox' \in [Sessions -> Seq(Messages)]
        /\ \A s \in Sessions \ {t} : inbox'[s] = inbox[s]
    BY <1>0 DEF Taken
  <1>w. RequestsInv(t) /\ KeyInv(t) /\ PendingEndsHere(t) /\ AliveHere(t)
    BY DEF LocalInv
  <1>2. CASE m.kind = "closeSession"
    <2>e. Msg("sessionClosed", 0) \in Messages /\ Msg("sessionClosed", 0).kind = "sessionClosed"
      BY MessageTypes
    <2>1. Emits(t, "sessionClosed")
      BY <1>2, <2>e, Emitting
    <2>2. key' = [key EXCEPT ![t] = Wiped(key[t])] /\ Wiped(key[t]) \in {"none", "wiped"}
      BY <1>2 DEF Wiped
    <2>3. SessionTypeOK' /\ \A s \in Sessions \ {t} : Elsewhere(s)
      BY <1>1, <1>2, <2>1, <2>2 DEF Elsewhere, Emits
    <2>u. task' = task /\ queue' = queue /\ UNCHANGED busVars
      BY <1>2
    <2>3a. ASSUME NEW A, NEW R, OneAtATime(t, A, R), "sessionClosed" \notin R
           PROVE  OneAtATime(t, A, R)' /\ (NothingAsked(t, A, R) => NothingAsked(t, A, R)')
      <3>1. Has(inbox'[t], A) => Has(inbox[t], A)
        BY <1>0, <1>1 DEF Taken
      <3>2. Once(inbox[t], A) => Once(inbox'[t], A)
        BY <1>0, <1>1 DEF Taken
      <3>3. Has(outbox'[t], R) => Has(outbox[t], R)
        BY <2>1, <2>3a DEF Emits
      <3>4. Once(outbox[t], R) => Once(outbox'[t], R)
        BY <2>1, <2>3a DEF Emits
      <3> HIDE DEF Receive, BusInd, SessionTypeOK, m
      <3> QED
        BY <2>u, <2>3a, <3>1, <3>2, <3>3, <3>4, Unconcerned
    <2>4. RequestsInv(t)'
      <3>1. "sessionClosed" \notin SignAnswers /\ "sessionClosed" \notin OpenAnswers
        BY DEF SignAnswers, OpenAnswers
      <3> HIDE DEF Receive, BusInd, SessionTypeOK, m
      <3> QED
        BY <1>w, <2>u, <2>3a, <3>1 DEF RequestsInv, busVars
    <2>5. KeyInv(t)' /\ PendingEndsHere(t)' /\ AliveHere(t)'
      BY <1>0, <1>1, <1>2, <2>1, <2>2
         DEF LocalInv, KeyInv, PendingEndsHere, AliveHere, Taken, Emits, Wiped
    <2> QED
      BY <2>3, <2>4, <2>5 DEF Keeps, LocalInv
  <1>3. CASE m.kind # "closeSession"
    <2>0. queue' = [queue EXCEPT ![t] = Append(queue[t], m)] /\ UNCHANGED <<key, outbox>>
      BY <1>3
    <2>1. /\ queue'[t] = Append(queue[t], m) /\ queue' \in [Sessions -> Seq(Messages)]
          /\ \A s \in Sessions \ {t} : queue'[s] = queue[s]
      BY <1>0, <2>0, AppendHas
    <2>2. /\ \A K : Has(queue'[t], K) <=> Has(queue[t], K) \/ m.kind \in K
          /\ \A K : Once(queue[t], K) /\ (m.kind \in K => ~Has(queue[t], K)) => Once(queue'[t], K)
      BY <1>0, <2>0, <2>1, AppendHas
    <2>3. SessionTypeOK' /\ \A s \in Sessions \ {t} : Elsewhere(s)
      BY <1>1, <2>0, <2>1 DEF Elsewhere
    <2>u. task' = task /\ outbox' = outbox
      BY <2>0
    <2>3a. ASSUME NEW A, NEW R, OneAtATime(t, A, R)
           PROVE  OneAtATime(t, A, R)' /\ (NothingAsked(t, A, R) => NothingAsked(t, A, R)')
      <3> HIDE DEF Receive, BusInd, SessionTypeOK, m
      <3>1. Taken(inbox[t], inbox'[t], m.kind)
        BY <1>0, <1>1
      <3> QED
        BY <2>2, <2>u, <2>3a, <3>1, Queued, Zenon
    <2>4. RequestsInv(t)'
      BY <1>w, <2>3a DEF RequestsInv
    <2>5. KeyInv(t)' /\ PendingEndsHere(t)' /\ AliveHere(t)'
      BY <1>0, <1>1, <2>0, <2>1 DEF LocalInv, KeyInv, PendingEndsHere, AliveHere, Taken
    <2> QED
      BY <2>3, <2>4, <2>5 DEF Keeps, LocalInv
  <1> QED
    BY <1>2, <1>3

\* The serial queue starts its next task, or answers it for want of a session.
LEMMA StartTaskStep ==
  ASSUME BusInd, NEW t \in Sessions, StartTask(t) PROVE Keeps(t)
  <1> DEFINE m == Head(queue[t])
  <1> USE DEF BusInd, SessionTypeOK, busVars, StartTask
  <1>0. m \in Messages /\ Taken(queue[t], Tail(queue[t]), m.kind)
    BY Taking
  <1>1. /\ queue'[t] = Tail(queue[t]) /\ queue' \in [Sessions -> Seq(Messages)]
        /\ \A s \in Sessions \ {t} : queue'[s] = queue[s]
    BY <1>0 DEF Taken
  <1>2. CASE m.kind = "signNext" /\ key[t] # "held"
    <2>e. Msg("signError", m.req) \in Messages /\ Msg("signError", m.req).kind = "signError"
      BY <1>0, MessageTypes DEF SignAnswers
    <2>1. Emits(t, "signError") /\ UNCHANGED task
      BY <1>2, <2>e, Emitting
    <2>3. SessionTypeOK' /\ \A s \in Sessions \ {t} : Elsewhere(s)
      BY <1>1, <2>1 DEF Elsewhere, Emits
    <2>4. RequestsInv(t)'
      BY <1>0, <1>1, <1>2, <2>1
         DEF LocalInv, RequestsInv, OneAtATime, NothingAsked, AtMostOne, Taken, Emits,
             SignAnswers, OpenAnswers
    <2>5. KeyInv(t)' /\ PendingEndsHere(t)' /\ AliveHere(t)'
      BY <2>1 DEF LocalInv, KeyInv, PendingEndsHere, AliveHere, Emits
    <2> QED
      BY <2>3, <2>4, <2>5 DEF Keeps, LocalInv
  <1>3. CASE ~(m.kind = "signNext" /\ key[t] # "held")
    <2>1. task' = [task EXCEPT ![t] = m] /\ UNCHANGED outbox
      BY <1>3
    <2>2. SessionTypeOK' /\ \A s \in Sessions \ {t} : Elsewhere(s)
      BY <1>0, <1>1, <2>1 DEF Elsewhere
    <2>3. RequestsInv(t)'
      BY <1>0, <1>1, <2>1
         DEF LocalInv, RequestsInv, OneAtATime, NothingAsked, AtMostOne, Taken
    <2>4. KeyInv(t)' /\ PendingEndsHere(t)' /\ AliveHere(t)'
      BY <2>1 DEF LocalInv, KeyInv, PendingEndsHere, AliveHere
    <2> QED
      BY <2>2, <2>3, <2>4 DEF Keeps, LocalInv
  <1> QED
    BY <1>2, <1>3

\* A task ends with its answer; a parse that ends well holds the key.
LEMMA TaskEndsStep ==
  ASSUME BusInd, NEW t \in Sessions, ParseEnds(t) \/ SignEnds(t) PROVE Keeps(t)
  <1> USE DEF BusInd, SessionTypeOK, busVars
  <1>1. CASE ParseEnds(t)
    <2> USE <1>1 DEF ParseEnds
    <2>e. \A k \in OpenAnswers : Msg(k, 0) \in Messages /\ Msg(k, 0).kind = k
      BY MessageTypes DEF OpenAnswers
    <2>1. PICK kind \in OpenAnswers :
            /\ Emits(t, kind)
            /\ \/ kind = "sessionOpened" /\ key' = [key EXCEPT ![t] = "held"]
               \/ kind = "sessionOpenError" /\ UNCHANGED key
      BY <2>e, Emitting DEF OpenAnswers
    <2>2. /\ task'[t].kind = "idle" /\ task' = [task EXCEPT ![t] = Idle]
          /\ task' \in [Sessions -> Messages \cup {Idle}]
      BY MessageTypes
    <2>k. key' \in [Sessions -> {"none", "held", "wiped"}]
          /\ \A s \in Sessions \ {t} : key'[s] = key[s]
      BY <2>1
    <2>3. SessionTypeOK' /\ \A s \in Sessions \ {t} : Elsewhere(s)
      <3>1. outbox' \in [Sessions -> Seq(Messages)] /\ \A s \in Sessions \ {t} : outbox'[s] = outbox[s]
        BY <2>1 DEF Emits
      <3>2. SessionTypeOK'
        BY <2>2, <2>k, <3>1
      <3>3. \A s \in Sessions \ {t} : Elsewhere(s)
        BY <2>2, <2>k, <3>1 DEF Elsewhere
      <3> QED
        BY <3>2, <3>3
    <2>4. RequestsInv(t)'
      BY <2>1, <2>2
         DEF LocalInv, RequestsInv, OneAtATime, NothingAsked, AtMostOne, Emits, SignAnswers, OpenAnswers
    <2>5. KeyInv(t)' /\ PendingEndsHere(t)' /\ AliveHere(t)'
      <3>1. phase[t] \notin {"none", "open", "wiping"} /\ report[t] # "wiped"
        BY DEF LocalInv, RequestsInv, KeyInv, NothingAsked, AliveHere
      <3> QED
        BY <2>1, <3>1 DEF LocalInv, KeyInv, PendingEndsHere, AliveHere, Emits
    <2> QED
      BY <2>3, <2>4, <2>5 DEF Keeps, LocalInv
  <1>2. CASE SignEnds(t)
    <2> USE <1>2 DEF SignEnds
    <2>e. \A k \in SignAnswers : /\ Msg(k, task[t].req) \in Messages
                                 /\ Msg(k, task[t].req).kind = k
      BY MessageTypes
    <2>1. PICK kind \in SignAnswers : Emit(t, Msg(kind, task[t].req))
      BY AnswersOnly
    <2>m. Emits(t, kind)
      BY <2>1, <2>e, Emitting
    <2>2. /\ task'[t].kind = "idle" /\ task' = [task EXCEPT ![t] = Idle]
          /\ task' \in [Sessions -> Messages \cup {Idle}]
      BY MessageTypes
    <2>3. SessionTypeOK' /\ \A s \in Sessions \ {t} : Elsewhere(s)
      BY <2>m, <2>1, <2>2 DEF Elsewhere, Emits
    <2>4. RequestsInv(t)'
      BY <2>m, <2>1, <2>2
         DEF LocalInv, RequestsInv, OneAtATime, NothingAsked, AtMostOne, Emits, SignAnswers, OpenAnswers
    <2>5. KeyInv(t)' /\ PendingEndsHere(t)' /\ AliveHere(t)'
      BY <2>m, <2>1 DEF LocalInv, KeyInv, PendingEndsHere, AliveHere, Emits, SignAnswers
    <2> QED
      BY <2>3, <2>4, <2>5 DEF Keeps, LocalInv
  <1> QED
    BY <1>1, <1>2

LEMMA CrashStep ==
  ASSUME BusInd, NEW t \in Sessions, Crash(t) PROVE Keeps(t)
  <1> USE DEF BusInd, SessionTypeOK, busVars, workerVars, Crash
  <1>e. Msg("errorEvent", 0) \in Messages /\ Msg("errorEvent", 0).kind = "errorEvent"
    BY MessageTypes
  <1>1. Emits(t, "errorEvent")
    BY <1>e, Emitting
  <1>2. SessionTypeOK' /\ \A s \in Sessions \ {t} : Elsewhere(s)
    BY <1>1 DEF Elsewhere, Emits
  <1>3. LocalInv(t)'
    BY <1>1 DEF LocalInv, RequestsInv, KeyInv, PendingEndsHere, AliveHere, OneAtATime,
           NothingAsked, AtMostOne, Emits, SignAnswers, OpenAnswers
  <1> QED
    BY <1>2, <1>3 DEF Keeps

LEMMA WorkerStep ==
  ASSUME BusInd, NEW t \in Sessions, Worker(t) PROVE Keeps(t)
  BY ReceiveStep, StartTaskStep, TaskEndsStep, CrashStep DEF Worker

-----------------------------------------------------------------------------
\* Nothing is opened, posted or held at first.
LEMMA InitBus == SessionInit => BusInd
  <1> SUFFICES ASSUME SessionInit PROVE BusInd
    OBVIOUS
  <1>1. SessionTypeOK
    BY EmptyHas DEF SessionInit, SessionTypeOK
  <1>2. ASSUME NEW s \in Sessions PROVE LocalInv(s)
    <2>1. /\ inbox[s] = <<>> /\ queue[s] = <<>> /\ outbox[s] = <<>> /\ task[s].kind = "idle"
          /\ phase[s] = "none" /\ inFlight[s] = 0 /\ report[s] = "none" /\ call[s] = "idle"
          /\ ~alive[s]
      BY MessageTypes DEF SessionInit
    <2>2. RequestsInv(s)
      BY <2>1, EmptyHas DEF RequestsInv, OneAtATime, NothingAsked, AtMostOne
    <2>3. KeyInv(s) /\ PendingEndsHere(s) /\ AliveHere(s)
      BY <2>1, EmptyHas DEF KeyInv, PendingEndsHere, AliveHere
    <2> QED
      BY <2>2, <2>3 DEF LocalInv
  <1> QED
    BY <1>1, <1>2 DEF BusInd

\* Any step of any session, whoever its client is.
LEMMA BusStep ==
  ASSUME BusInd, NEW t \in Sessions,
         \/ OpenSignSession(t) \/ SignNext(t) \/ SignNextRejected(t) \/ CloseAndWipe(t) \/ Close(t)
         \/ Consume(t) \/ Deliver(t) \/ Timer(t) \/ Worker(t)
  PROVE  BusInd'
  BY OpenSignSessionStep, SignNextStep, SignNextRejectedStep, CloseAndWipeStep, CloseStep,
     ConsumeStep, DeliverStep, TimerStep, WorkerStep, KeepsAll

LEMMA StutterBus == BusInd /\ UNCHANGED sessionBusVars => BusInd'
  <1> SUFFICES ASSUME BusInd, UNCHANGED sessionBusVars PROVE BusInd'
    OBVIOUS
  <1>1. SessionTypeOK' /\ \A s \in Sessions : Elsewhere(s)
    BY DEF BusInd, SessionTypeOK, Elsewhere, sessionBusVars, busVars, workerVars
  <1> QED
    BY <1>1, ElsewhereKeeps DEF BusInd

\* What the invariant means to the caller of a session.
LEMMA BusMeans == BusInd => SessionInv
  <1> SUFFICES ASSUME BusInd PROVE SessionInv
    OBVIOUS
  <1> USE DEF BusInd, LocalInv
  <1>1. PendingHasAnEnd /\ NoOrphan
    BY DEF PendingHasAnEnd, NoOrphan, PendingEndsHere, AliveHere
  <1>2. TimeoutMeansStopped
    BY DEF TimeoutMeansStopped, AliveHere, RequestsInv
  <1>3. ConfirmedMeansWiped
    BY DEF ConfirmedMeansWiped, KeyInv
  <1>4. OneDocumentInWorker
    <2> SUFFICES ASSUME NEW s \in Sessions
                 PROVE  Cardinality(Documents(inbox[s])) + Cardinality(Documents(queue[s]))
                          + Cardinality(Documents(<<task[s]>>)) <= 1
      BY DEF OneDocumentInWorker
    <2>1. OneAtATime(s, {"signNext"}, SignAnswers)
      BY DEF RequestsInv
    <2>2. ASSUME NEW q, Once(q, {"signNext"})
          PROVE  \/ Has(q, {"signNext"}) /\ Cardinality(Documents(q)) = 1
                 \/ ~Has(q, {"signNext"}) /\ Cardinality(Documents(q)) = 0
      <3>1. CASE Has(q, {"signNext"})
        <4>1. PICK n \in DOMAIN q : q[n].kind = "signNext"
          BY <3>1 DEF Has
        <4>2. Documents(q) = {n}
          BY <2>2, <4>1 DEF Documents, Once
        <4> QED
          BY <3>1, <4>2, FS_Singleton
      <3>2. CASE ~Has(q, {"signNext"})
        <4>1. Documents(q) = {}
          BY <3>2 DEF Documents, Has
        <4> QED
          BY <3>2, <4>1, FS_EmptySet
      <3> QED
        BY <3>1, <3>2
    <2>3. /\ Once(<<task[s]>>, {"signNext"})
          /\ Has(<<task[s]>>, {"signNext"}) <=> task[s].kind = "signNext"
      BY DEF Once, Has
    <2>4. Cardinality(Documents(<<task[s]>>)) = IF task[s].kind = "signNext" THEN 1 ELSE 0
      BY <2>2, <2>3
    <2>5. /\ Cardinality(Documents(inbox[s])) = IF Has(inbox[s], {"signNext"}) THEN 1 ELSE 0
          /\ Cardinality(Documents(queue[s])) = IF Has(queue[s], {"signNext"}) THEN 1 ELSE 0
      BY <2>1, <2>2 DEF OneAtATime
    <2>6. /\ ~(Has(inbox[s], {"signNext"}) /\ Has(queue[s], {"signNext"}))
          /\ ~(Has(inbox[s], {"signNext"}) /\ task[s].kind = "signNext")
          /\ ~(Has(queue[s], {"signNext"}) /\ task[s].kind = "signNext")
      BY <2>1 DEF OneAtATime, AtMostOne
    <2> QED
      BY <2>4, <2>5, <2>6
  <1> QED
    BY <1>1, <1>2, <1>3, <1>4 DEF SessionInv

\* Whoever uses the sessions, in whatever order: a worker holds one document, a
\* pending call has something that ends it, a worker does not outlive its
\* session, a timeout means the worker is gone and a confirmed wipe is a wipe
\* (sign-session-bus.ts:396-863).
THEOREM SessionInvariance == SessionSpec => []SessionInv
  <1>1. ASSUME BusInd, [SessionNext]_sessionBusVars PROVE BusInd'
    BY <1>1, BusStep, StutterBus DEF SessionNext, Client
  <1>2. SessionSpec => SessionInit /\ [][SessionNext]_sessionBusVars
    BY PTL DEF SessionSpec
  <1>3. SessionInit /\ [][SessionNext]_sessionBusVars => []BusInd
    BY <1>1, InitBus, PTL
  <1> QED
    BY <1>2, <1>3, BusMeans, PTL
=============================================================================
