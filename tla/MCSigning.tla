------------------------------ MODULE MCSigning ------------------------------
(***************************************************************************)
(* Signing, for TLC: the queue of a batch over its sessions and workers,   *)
(* and where the visible signatures of a document go. Each behaviour is of *)
(* one of them, the other never moves.                                     *)
(***************************************************************************)
EXTENDS BatchSigning, MCAutoPlacement

VARIABLE topic  \* whose behaviour this is

SigningInit ==
  /\ topic \in {"batch", "placement"}
  /\ Init /\ PlacementInit
  \* One initial state of what never moves.
  /\ topic = "batch" => paper = CHOOSE d \in Papers : TRUE

SigningNext ==
  /\ UNCHANGED topic
  /\ \/ topic = "batch" /\ Next /\ UNCHANGED placementVars
     \/ topic = "placement" /\ PlacementNext /\ UNCHANGED vars

SigningSpec == SigningInit /\ [][SigningNext]_<<topic, vars, placementVars>>
=============================================================================
