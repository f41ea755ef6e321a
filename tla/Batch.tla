-------------------------------- MODULE Batch --------------------------------
(***************************************************************************)
(* What runBatchSign promises its caller, whatever happens to sessions,    *)
(* workers, the network or the destination: the documents get their        *)
(* verdicts one at a time and in order, verdicts are final, a batch that   *)
(* gives a document up never attempts a later one, and it always ends,     *)
(* returning only with a verdict on every document.                        *)
(***************************************************************************)
EXTENDS Naturals

CONSTANT N

VARIABLES status,   \* BatchQueueItem.status of every document
          givenUp,  \* a document was given up without an attempt
          exit      \* "none", "returned" or "threw"

vars == <<status, givenUp, exit>>

Items   == 1..N
Verdict == {"done", "failed", "needs_review", "cancelled"}

Init ==
  /\ status = [k \in Items |-> "pending"]
  /\ givenUp = FALSE
  /\ exit = "none"

\* Document k is the next one: everything before it has its verdict.
Turn(k) ==
  /\ exit = "none"
  /\ status[k] = "pending"
  /\ \A j \in Items : j < k => status[j] \in Verdict

Begin(k) ==
  /\ Turn(k)
  /\ ~givenUp
  /\ status' = [status EXCEPT ![k] = "signing"]
  /\ UNCHANGED <<givenUp, exit>>

Decide(k, v) ==
  /\ exit = "none"
  /\ status[k] = "signing"
  /\ v \in {"done", "failed", "needs_review"}
  /\ status' = [status EXCEPT ![k] = v]
  /\ UNCHANGED <<givenUp, exit>>

GiveUp(k, v) ==
  /\ Turn(k)
  /\ v \in {"failed", "cancelled"}
  /\ status' = [status EXCEPT ![k] = v]
  /\ givenUp' = TRUE
  /\ UNCHANGED exit

Return ==
  /\ exit = "none"
  /\ \A k \in Items : status[k] \in Verdict
  /\ exit' = "returned"
  /\ UNCHANGED <<status, givenUp>>

Throw ==
  /\ exit = "none"
  /\ exit' = "threw"
  /\ UNCHANGED <<status, givenUp>>

Advance == (\E k \in Items : Begin(k) \/ \E v \in Verdict : Decide(k, v) \/ GiveUp(k, v)) \/ Return

Next == Advance \/ Throw

Safety == Init /\ [][Next]_vars
Spec   == Safety /\ WF_vars(Advance)
=============================================================================
