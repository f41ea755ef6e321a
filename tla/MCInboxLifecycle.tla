-------------------------- MODULE MCInboxLifecycle --------------------------
\* TLC instance of InboxLifecycle.  The permuted sets are told apart only by equality.
EXTENDS InboxLifecycle, TLC

Symmetry == Permutations(Deliveries) \cup Permutations(WaMessages) \cup Permutations(Sends)
=============================================================================
