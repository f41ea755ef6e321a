----------------------------- MODULE MCSignQueue -----------------------------
(* SignQueue, with the invariant of the proofs, on a small batch; the .cfg *)
(* files give the constants.                                               *)
EXTENDS SignQueueInv
=============================================================================
