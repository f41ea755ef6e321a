---------------------------- MODULE SignQueueInv ----------------------------
(***************************************************************************)
(* The inductive invariant of SignQueue: what relates the await the        *)
(* function is suspended at to the cursor, the document in hand, the       *)
(* attempts made for it, the flags read at the top of the loop, and the    *)
(* state of every session.  SignQueueProofs derives the safety properties  *)
(* from it.                                                                *)
(***************************************************************************)
EXTENDS SignQueue

InHand   == {"read", "signing", "backoff", "closing", "reopening", "delivering"}
Asking   == {"read", "signing", "backoff"}
ShutDown == {"closing", "closed"}
Idle     == ShutDown \cup {"unopened"}

\* Where the cursor is, and the status of the documents around it.
CursorInv ==
  /\ InOrder
  /\ pc \in InHand => i \in Items
  /\ pc \in Asking => status[i] = "signing"
  /\ pc \in {"closing", "reopening"} => status[i] = "failed"
  /\ pc = "delivering" => status[i] = "done"
  /\ pc \in {"opening", "loop"} /\ i \in Items => status[i] = "pending"
  /\ exit = "returned" => i = N + 1
  /\ (exit = "none") <=> (pc \notin {"unwinding", "exited"})

\* Attempts stay under the cap of the document in hand.
AttemptInv ==
  /\ pc \in {"read", "backoff"} => attempt < AttemptCap
  /\ pc \in Asking => attempts[i] = attempt
  /\ \A k \in Items : status[k] = "pending" => attempts[k] = 0

\* A document given up without an attempt leaves a flag behind that the top of
\* the loop reads; nothing was given up before the document in hand.
GiveUpInv ==
  /\ pc \in InHand \ {"closing", "reopening"} => ~sessionDead
  /\ pc \in InHand => /\ ~deliveryDead
                      /\ \A k \in Items : k <= i => Attempted(k)
  /\ \A k \in Items : ~Finished(k) => error[k] = "none"
  /\ \A k \in Items :
       Finished(k) /\ ~Attempted(k) => aborted \/ deliveryDead \/ sessionDead
  /\ GivenUpForGood

\* Signed bytes are handed over once, at the end of the document's turn.
HandOverInv ==
  /\ SignedBytesAreHeld
  /\ \A k \in Items : k > i => delivery[k] = "none"
  /\ pc \in {"opening", "loop"} \cup InHand /\ i \in Items => delivery[i] = "none"
  /\ pc = "delivering" => i \in everSigned

\* Every session but the one in use is unopened or shut down.
SessionInv ==
  /\ session <= reopensUsed + 1
  /\ pc = "opening" => session = 0 /\ reopensUsed = 0
  /\ pc \notin {"opening", "exited"} => session \in SessionIds
  /\ \A s \in SessionIds : s > reopensUsed + 1 => sess[s] = "unopened"
  /\ \A s \in SessionIds :
       s # session => \/ sess[s] \in Idle
                      \/ pc \in {"opening", "reopening"} /\ s = reopensUsed + 1
  /\ session # 0 /\ session <= reopensUsed => sess[session] \in ShutDown
  /\ pc \in {"closing", "reopening", "unwinding"} => sess[session] \in ShutDown
  /\ pc \in {"closing", "reopening"} => session <= reopensUsed /\ reopensUsed > 0
  /\ pc = "closing" => sess[reopensUsed + 1] = "unopened"
  /\ pc = "exited" => ~p12Held /\ \A s \in SessionIds : sess[s] \in Idle

Inv == TypeOK /\ CursorInv /\ AttemptInv /\ GiveUpInv /\ HandOverInv /\ SessionInv

-----------------------------------------------------------------------------
(* What the counters and flags remember of the documents, on top of Inv.   *)

\* Every death of the session is paid by a reopening, or is the last one.
DeathInv ==
  Cardinality({k \in Items : error[k] = "session_fatal"})
    <= reopensUsed + (IF sessionDead THEN 1 ELSE 0)

\* A stalled responder has opened the LTV breaker.
LtvFlag == \A k \in Items : status[k] = "done" /\ outcome[k].stalled => ltvBreakerOpen

SignedFrom(j) == {m \in Items : j <= m /\ status[m] = "done"}
Handed(j)     == {m \in SignedFrom(j) : delivery[m] # "none"}

\* tsaStreak counts the documents signed since the last timestamp, and the
\* breaker remembers that it was once long enough.
TsaStreak ==
  /\ \A j \in Items : (\A m \in SignedFrom(j) : outcome[m].exhausted)
                       => Cardinality(SignedFrom(j)) <= tsaStreak
  /\ tsaBreakerOpen \/ \A j, k \in Items : j <= k => ~ExhaustedRun(j, k)

\* deliveryStreak counts the documents signed since the last delivery.
DeliveryStreak ==
  /\ \A j \in Items : (\A m \in Handed(j) : delivery[m] = "lifeline")
                       => Cardinality(Handed(j)) <= deliveryStreak
  /\ deliveryDead \/ \A j, k \in Items : j <= k => ~UndeliveredRun(j, k)

\* With BreakersHold, the second inductive invariant of SignQueueProofs.
CountersInv == Inv /\ DeathInv /\ LtvFlag /\ TsaStreak /\ DeliveryStreak
=============================================================================
