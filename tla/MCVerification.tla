--------------------------- MODULE MCVerification ---------------------------
(***************************************************************************)
(* Verification, for TLC: who gets one from the service, what the          *)
(* revocation data of a document says of a signature, and what becomes of  *)
(* the signatures as the file grows.  Each behaviour is of one of them,    *)
(* the others never move.                                                  *)
(***************************************************************************)
EXTENDS VerifyAdmission, SignatureVerdict, PdfRevisions, TLC

CONSTANT Topics  \* the parts this run is about

VARIABLE topic   \* whose behaviour this is

Item(kind, ln, authentic, form, on, from, until) ==
  [kind |-> kind, link |-> ln, authentic |-> authentic, form |-> form,
   revoked |-> on, from |-> from, until |-> until]

\* Time 2 is the time stamp's, 4 the present.
SomeEvidence ==
  {Item("ocsp", 1, TRUE,  "plain", Never, 2, 3),   \* a good answer of then
   Item("ocsp", 1, TRUE,  "plain", Never, 1, 1),   \* one that is too old
   Item("ocsp", 1, FALSE, "plain", Never, 2, 3),   \* forged
   Item("ocsp", 1, TRUE,  "plain", 3, 4, 4),       \* revoked later
   Item("ocsp", 2, TRUE,  "large", Never, 2, 3),
   Item("crl", 1, TRUE,  "plain", 1, 2, 3),        \* revoked earlier
   Item("crl", 1, TRUE,  "partial", Never, 2, 3),
   Item("crl", 1, TRUE,  "large", 1, 2, 3),
   Item("crl", 1, TRUE,  "archival", Never, 4, 4),
   Item("crl", 2, TRUE,  "plain", 0, 2, 3),        \* its CA, without a date
   Item("crl", 2, TRUE,  "indirect", Never, 2, 3),
   Item("crl", 0, TRUE,  "large", 1, 2, 3)}

\* Good or revoked at any time, from before and after the signer's expiry; not
\* signed by the issuer; and no longer current.
SomeReplies ==
  [authentic : {TRUE}, revoked : 0..Never, from : {1, 4}, until : {4}]
    \cup [authentic : {FALSE}, revoked : {1, Never}, from : {2}, until : {4}]
    \cup [authentic : {TRUE}, revoked : {1, Never}, from : {2}, until : {3}]

\* A file without a form, its annotations in place.
PlainFile ==
  [objs |-> FirstObjects("none", {}, FALSE, {}, 1), packed |-> {}, table |-> TRUE,
   size |-> FirstWidget + 1]

VerificationInit ==
  /\ topic \in Topics
  /\ AdmissionInit /\ VerdictInit /\ RevisionsInit
  \* One initial state of what never moves.
  /\ topic # "verdict" =>
       /\ ~stamped /\ declared = 0 /\ anchor = "unknown" /\ links = 1 /\ ~askLive
       /\ \A e \in Expiries : expiry <= e
  /\ topic # "revisions" => revisions = <<PlainFile>> /\ applied = {}

VerificationNext ==
  /\ UNCHANGED topic
  /\ \/ topic = "admission" /\ AdmissionNext /\ UNCHANGED <<verdictVars, pdfVars>>
     \/ topic = "verdict" /\ VerdictNext /\ UNCHANGED <<admissionVars, pdfVars>>
     \/ topic = "revisions" /\ RevisionsNext /\ UNCHANGED <<admissionVars, verdictVars>>

VerificationSpec ==
  VerificationInit /\ [][VerificationNext]_<<topic, admissionVars, verdictVars, pdfVars>>

\* The permuted sets are told apart only by equality.
Symmetry == Permutations(VerifyRequests) \cup Permutations(Docs)
=============================================================================
