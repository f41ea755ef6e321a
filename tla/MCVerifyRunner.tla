--------------------------- MODULE MCVerifyRunner ---------------------------
\* TLC instance of VerifyRunner.  Spec states fairness, so no symmetry is used.
EXTENDS VerifyRunner
=============================================================================
