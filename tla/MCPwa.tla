-------------------------------- MODULE MCPwa --------------------------------
(***************************************************************************)
(* The parts of the PWA around the signing queue, for TLC: each behaviour  *)
(* is of one of them, the others never move.                               *)
(***************************************************************************)
EXTENDS BatchReview, SignScreen, ReloadHold, SignerNetwork, BatchZip

CONSTANT Topics  \* the parts this run is about

VARIABLE topic   \* whose behaviour this is

\* Three files: two names that differ in case only, and a long one that the
\* numbering of a collision makes equal to them.
ThreeUploads ==
  {[head |-> "a", tail |-> "x", upper |-> FALSE, size |-> 1],
   [head |-> "a", tail |-> "x", upper |-> TRUE, size |-> 3],
   [head |-> "a", tail |-> "y", upper |-> FALSE, size |-> 2]}

Init ==
  /\ topic \in Topics
  /\ ReviewInit /\ SignInit /\ ReloadInit /\ NetworkInit /\ ZipInit
  \* One initial state of what never moves.
  /\ topic # "single" => ~guided /\ chosen = 0
  /\ topic # "reload" => ~controlled
  /\ topic # "network" =>
       alreadySigned /\ ~wantTsa /\ ~wantLt /\ roots = {} /\ (\A b \in CpuSteps : before <= b) /\ route = "session"
  /\ topic # "archive" => upload = [k \in DocIds |-> CHOOSE u \in Uploads : TRUE]

Next ==
  /\ UNCHANGED topic
  /\ \/ /\ topic = "batch" /\ ReviewNext
        /\ UNCHANGED <<screenVars, reloadVars, networkVars, zipVars>>
     \/ /\ topic = "single" /\ SignNext
        /\ UNCHANGED <<reviewVars, reloadVars, networkVars, zipVars>>
     \/ /\ topic = "reload" /\ ReloadNext
        /\ UNCHANGED <<reviewVars, screenVars, networkVars, zipVars>>
     \/ /\ topic = "network" /\ NetworkNext
        /\ UNCHANGED <<reviewVars, screenVars, reloadVars, zipVars>>
     \/ /\ topic = "archive" /\ ZipNext
        /\ UNCHANGED <<reviewVars, screenVars, reloadVars, networkVars>>

vars == <<topic, reviewVars, screenVars, reloadVars, networkVars, zipVars>>

Spec ==
  /\ Init /\ [][Next]_vars
  /\ \A k \in Runs :
       WF_vars(/\ DocumentDone(k)
               /\ UNCHANGED <<topic, screenVars, reloadVars, networkVars, zipVars>>)
=============================================================================
