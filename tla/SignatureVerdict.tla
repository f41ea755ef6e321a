-------------------------- MODULE SignatureVerdict --------------------------
(***************************************************************************)
(* The verdict on one signature (packages/verifier/src/index.ts): its      *)
(* integrity, its time stamp, its path (pathValidation.ts), the revocation *)
(* data embedded in the document (ltv.ts), the live question to the        *)
(* responder (ocsp.ts) and the status they add up to.                      *)
(*                                                                         *)
(* Times are 1..Now.  A revocation is its time: 0 when it has no date, so  *)
(* that the least of several is the one that decides, Never when there is  *)
(* none.  The scan of the embedded data can be cut between two entries, by *)
(* its own budget or by the deadline its caller races it against.          *)
(***************************************************************************)
EXTENDS Naturals, FiniteSets

CONSTANTS
  Now,        \* the present
  Stamps,     \* the times a valid time stamp may carry
  Expiries,   \* the signer's notAfter
  Declared,   \* the signing times a signature may declare, 0 for none
  Evidence,   \* the entries a DSS may hold
  Replies,     \* what the responder may answer
  MaxDss  \* bound on the entries of one DSS

Never == Now + 1

\* What a response or a CRL says, for one link of the chain: link 1 is the
\* signer under its issuer, link 2 that issuer under the anchor; 0 is outside.
\* A large CRL that may be indirect counts as one of link 2; an unreadable one
\* does not even tell its issuer.
Entries ==
  {e \in [kind : {"ocsp", "crl"}, link : 0..2,
          authentic : BOOLEAN,  \* signed by the link's issuer, and about its subject
          form : {"plain", "archival", "partial", "indirect", "large", "unreadable"},
          revoked : 0..Never, from : 1..Now, until : 1..Now] :
     \* A response speaks for one certificate, whole.
     e.kind = "ocsp" => e.form \notin {"partial", "indirect"}}

\* An answer of the responder.
LiveAnswers == [authentic : BOOLEAN, revoked : 0..Never, from : 1..Now, until : 1..Now]

ASSUME VerdictAssumption ==
  /\ Now \in Nat \ {0} /\ Stamps \subseteq 1..Now /\ Expiries \subseteq 1..Now
  /\ Declared \subseteq 0..Now
  /\ Evidence \subseteq Entries /\ Replies \subseteq LiveAnswers /\ MaxDss \in Nat

VARIABLES
  stamped,    \* a time stamp token is there
  proof,      \* the time of a valid one, 0 if none
  declared,   \* the time the signer declares, 0 if none
  expiry, anchor, links,  \* of the signer's certificate and its chain
  askLive,    \* opts.fetchOcsp
  stage,      \* "tsa", "chain", "dss", "scan", "ocsp", "verdict", "done"
  path,       \* "ok", "declared" (only at the time the signer declares), "failed"
  dss,        \* the embedded entries; {} with dssPresent FALSE when there is no DSS
  dssPresent,
  scope,      \* those of them that are looked at for this signature
  link, unread,      \* the link the scan is at, the entries it has not looked at there
  cut,               \* the scan was cut: "no", "budget", "deadline"
  signerRevoked, caRevoked, signerEvidence, skipped, caSkipped,
  live, liveRevoked, \* OcspStatus; "unasked" is a not_checked nobody asked for
  digest,     \* "sound", "weak" (SHA-1) or "altered"
  status

givenVars == <<stamped, proof, declared, expiry, anchor, links, askLive>>
dssVars   == <<dss, dssPresent, scope>>
scanVars  == <<link, unread, cut, signerRevoked, caRevoked, signerEvidence, skipped, caSkipped>>
liveVars  == <<live, liveRevoked>>
endVars   == <<digest, status>>
verdictVars == <<givenVars, stage, path, dssVars, scanVars, liveVars, endVars>>

\* What the phases will find in the signature.
VerdictInit ==
  /\ stamped \in BOOLEAN /\ proof = 0
  /\ declared \in Declared /\ expiry \in Expiries
  /\ anchor \in {"accredited", "unknown", "placeholder"}
  /\ links \in {1, 2}
  /\ askLive \in BOOLEAN
  /\ stage = "tsa" /\ path = "failed"
  /\ dss = {} /\ dssPresent = FALSE /\ scope = {}
  /\ link = 1 /\ unread = {} /\ cut = "no"
  /\ signerRevoked = Never /\ caRevoked = Never
  /\ signerEvidence = FALSE /\ skipped = FALSE /\ caSkipped = FALSE
  /\ live = "unasked" /\ liveRevoked = Never
  /\ digest = "sound" /\ status = "none"

-----------------------------------------------------------------------------
(* The time stamp, and the path at the time it proves.                     *)

VerifyTimestamp ==
  /\ stage = "tsa"
  /\ stage' = "chain"
  /\ proof' \in IF stamped THEN {0} \cup Stamps ELSE {0}
  /\ UNCHANGED <<stamped, declared, expiry, anchor, links, askLive,
                 path, dssVars, scanVars, liveVars, endVars>>

\* The time the signature is proven to exist at the latest.
Cutoff == IF proof # 0 THEN proof ELSE Now

\* "unknown": also the key that is not for signing.
PathHolds(t) == anchor = "accredited" /\ t <= expiry

ValidatePath ==
  /\ stage = "chain"
  /\ stage' = "dss"
  /\ path' = CASE PathHolds(Cutoff) -> "ok"
               [] /\ ~PathHolds(Cutoff)
                  /\ declared # 0 /\ (proof # 0 => declared < proof) /\ PathHolds(declared)
                  -> "declared"
               [] OTHER -> "failed"
  /\ UNCHANGED <<givenVars, dssVars, scanVars, liveVars, endVars>>

-----------------------------------------------------------------------------
(* The embedded revocation data.                                           *)

\* A failed path has no chain to scan.
Links == IF path = "failed" THEN {} ELSE 1..links

NoDss ==
  /\ stage = "dss"
  /\ stage' = "ocsp"
  /\ UNCHANGED <<givenVars, path, dssVars, scanVars, liveVars, endVars>>

\* What a DSS may hold; without a chain to scan it makes no difference.
Embeddable == {d \in SUBSET Evidence : Cardinality(d) <= MaxDss}

\* The VRI entry of the signature names the entries to consult, of each kind;
\* where it names none of a kind, all of that kind are.  Whoever wrote the
\* document wrote that entry.
Scopes(d) == {s \in SUBSET d : \A e \in d : \E f \in s : f.kind = e.kind}

ExtractDss ==
  /\ stage = "dss"
  /\ dss' \in IF Links = {} THEN {{}} ELSE Embeddable
  /\ dssPresent' = TRUE
  /\ scope' \in Scopes(dss')
  /\ unread' = scope'
  /\ stage' = "scan"
  /\ UNCHANGED <<givenVars, path, link, cut, signerRevoked, caRevoked, signerEvidence,
                 skipped, caSkipped, liveVars, endVars>>

\* mutant: the revocation read first decides
FirstRevoked(known, found) == IF known # Never THEN known ELSE found

Earlier(known, found) == IF found < known THEN found ELSE known

\* coversProofTime
Covers(e) == e.from >= Cutoff \/ Cutoff <= e.until
IssuedWhileValid(e) == e.from <= expiry

\* A good answer that speaks for the time of the signature.
Favourable(e) ==
  /\ e.revoked = Never
  /\ Covers(e)
  /\ IssuedWhileValid(e) \/ e.form = "archival"
  /\ e.form # "partial"

\* The OCSP responses come before the CRLs; within them the document's order
\* is anybody's.
Readable(e) == e \in unread /\ (e.kind = "crl" => \A f \in unread : f.kind = "crl")

\* What cannot be read, and may concern a link of the chain.  A CRL is
\* attributed by the name of its issuer, if that can be read at least.
IsSkipped(e) ==
  \/ e.form = "large" /\ (e.kind = "crl" => e.link \in Links)
  \/ e.kind = "crl" /\ e.form = "unreadable"
  \/ e.kind = "crl" /\ e.form = "indirect" /\ e.authentic /\ e.link = link

ConcernsCa(e) == e.kind = "ocsp" \/ e.form # "large" \/ e.link > 1

Speaks(e) == e.authentic /\ e.link = link /\ e.form \in {"plain", "archival", "partial"}

ReadEntry(e) ==
  /\ stage = "scan" /\ cut = "no" /\ link \in Links /\ Readable(e)
  /\ unread' = unread \ {e}
  /\ skipped' = (skipped \/ IsSkipped(e))
  /\ caSkipped' = (caSkipped \/ (IsSkipped(e) /\ ConcernsCa(e)))
  /\ signerRevoked' = IF Speaks(e) /\ link = 1 THEN Earlier(signerRevoked, e.revoked) ELSE signerRevoked
  /\ caRevoked' = IF Speaks(e) /\ link > 1 THEN Earlier(caRevoked, e.revoked) ELSE caRevoked
  /\ signerEvidence' = (signerEvidence \/ (/\ Speaks(e) /\ link = 1
                                           /\ e.revoked # Never \/ Favourable(e)))
  /\ UNCHANGED <<givenVars, stage, path, dssVars, link, cut, liveVars, endVars>>

NextLink ==
  /\ stage = "scan" /\ cut = "no" /\ link \in Links /\ unread = {}
  /\ link' = link + 1
  /\ unread' = scope
  /\ UNCHANGED <<givenVars, stage, path, dssVars, cut, signerRevoked, caRevoked,
                 signerEvidence, skipped, caSkipped, liveVars, endVars>>

\* LTV_BUDGET_MS, looked at before a link and before an entry: what was found stays, but does not stand in for the responder.
BudgetTrips ==
  /\ stage = "scan" /\ cut = "no" /\ link \in Links /\ (unread # {} \/ scope = {})
  /\ cut' = "budget"
  /\ signerEvidence' = FALSE
  /\ stage' = "ocsp"
  /\ UNCHANGED <<givenVars, path, dssVars, link, unread, signerRevoked, caRevoked,
                 skipped, caSkipped, liveVars, endVars>>

\* The deadline of the race, also met before the first entry: nothing found
\* is reported (ltvTimeoutSummary).
LtvTimesOut ==
  /\ stage = "scan" /\ cut = "no"
  /\ cut' = "deadline"
  /\ signerEvidence' = FALSE
  /\ signerRevoked' = Never /\ caRevoked' = Never
  /\ stage' = "ocsp"
  /\ UNCHANGED <<givenVars, path, dssVars, link, unread, skipped, caSkipped, liveVars, endVars>>

ScanEnds ==
  /\ stage = "scan" /\ cut = "no" /\ link \notin Links
  /\ stage' = "ocsp"
  /\ UNCHANGED <<givenVars, path, dssVars, scanVars, liveVars, endVars>>

Incomplete == cut # "no" \/ skipped
CaIncomplete == (cut # "no" \/ caSkipped) /\ links > 1

-----------------------------------------------------------------------------
(* The live question.                                                      *)

AsksLive ==
  /\ askLive /\ path # "failed" /\ stamped
  /\ ~(signerEvidence /\ ~Incomplete)

SkipOcsp ==
  /\ stage = "ocsp" /\ ~AsksLive
  /\ stage' = "verdict"
  /\ UNCHANGED <<givenVars, path, dssVars, scanVars, liveVars, endVars>>

\* No answer within the timeout, or no usable transport.
OcspFails ==
  /\ stage = "ocsp" /\ AsksLive
  /\ stage' = "verdict"
  /\ live' = "not_checked"
  /\ UNCHANGED <<givenVars, path, dssVars, scanVars, liveRevoked, endVars>>

Usable(a) ==
  /\ a.authentic /\ a.until >= Now
  /\ a.revoked = Never => a.from <= expiry

OcspAnswers ==
  /\ stage = "ocsp" /\ AsksLive
  /\ stage' = "verdict"
  /\ \E a \in Replies :
       /\ live' = CASE ~Usable(a) -> "unknown"
                    [] Usable(a) /\ a.revoked = Never -> "good"
                    [] OTHER -> "revoked"
       /\ liveRevoked' = IF Usable(a) THEN a.revoked ELSE Never
  /\ UNCHANGED <<givenVars, path, dssVars, scanVars, endVars>>

-----------------------------------------------------------------------------
(* The status.  The integrity is examined first, but nothing looks at it   *)
(* before.  unaccounted: bytes follow the document's latest signature that *)
(* no document time stamp wraps.                                           *)

RevokedBeforeProof(r) == r <= Cutoff

BaseStatus(integrity, unaccounted) ==
  CASE integrity = "altered" -> "invalid"
    [] integrity # "altered" /\ path = "failed" -> IF anchor = "placeholder" THEN "warning" ELSE "invalid"
    [] integrity # "altered" /\ path # "failed" /\ live = "revoked" /\ RevokedBeforeProof(liveRevoked) -> "invalid"
    [] OTHER -> IF unaccounted \/ live = "unknown" THEN "warning" ELSE "valid"

Embedded == Earlier(signerRevoked, caRevoked)

\* The live answer is about the signer only.
SignerSettled == live \in {"good", "revoked"} /\ ~CaIncomplete

\* The codes whose presence forbids a bare "valid".
Doubts(integrity, base) ==
  {c \in {"weak_hash_sha1", "signing_time_unproven", "revoked_after_signing", "revocation_unchecked"} :
     CASE c = "weak_hash_sha1" -> integrity = "weak"
       [] c = "signing_time_unproven" -> path = "declared"
       [] c = "revoked_after_signing" ->
            \/ live = "revoked" /\ ~RevokedBeforeProof(liveRevoked)
            \/ base # "invalid" /\ Embedded # Never /\ ~RevokedBeforeProof(Embedded)
       [] c = "revocation_unchecked" -> dssPresent /\ Incomplete /\ ~SignerSettled}

Conclude ==
  /\ stage = "verdict"
  /\ stage' = "done"
  /\ \E integrity \in {"sound", "weak", "altered"}, unaccounted \in BOOLEAN :
       LET base == BaseStatus(integrity, unaccounted) IN
       /\ digest' = integrity
       /\ status' = IF base = "invalid" \/ (Embedded # Never /\ RevokedBeforeProof(Embedded))
                    THEN "invalid"
                    ELSE IF base = "valid" /\ Doubts(integrity, base) = {} THEN "valid" ELSE "warning"
  /\ UNCHANGED <<givenVars, path, dssVars, scanVars, liveVars>>

VerdictNext ==
  \/ VerifyTimestamp \/ ValidatePath
  \/ NoDss \/ ExtractDss
  \/ \E e \in scope : ReadEntry(e)
  \/ NextLink \/ BudgetTrips \/ LtvTimesOut \/ ScanEnds
  \/ SkipOcsp \/ OcspFails \/ OcspAnswers
  \/ Conclude

VerdictSpec == VerdictInit /\ [][VerdictNext]_verdictVars

-----------------------------------------------------------------------------
(* Properties.                                                             *)

VerdictTypeOK ==
  /\ stage \in {"tsa", "chain", "dss", "scan", "ocsp", "verdict", "done"}
  /\ path \in {"ok", "declared", "failed"}
  /\ proof \in 0..Now /\ dss \subseteq Evidence /\ scope \subseteq dss /\ unread \subseteq scope
  /\ {signerRevoked, caRevoked, liveRevoked} \subseteq 0..Never
  /\ live \in {"unasked", "not_checked", "unknown", "good", "revoked"}
  /\ status \in {"none", "valid", "warning", "invalid"}

\* What the entries looked at prove about a link of the chain, whoever wrote
\* them and in whatever order.
Proven(e) == e \in scope /\ e.authentic /\ e.link \in Links /\ e.form \in {"plain", "archival", "partial"}
ProvenRevocations == {e.revoked : e \in {f \in scope : Proven(f)}} \cup {liveRevoked}

\* The earliest proven revocation decides, in any order of the entries, and
\* only if it is not later than the proven time: a forged entry or a later
\* revocation makes no signature invalid, and of the entries the VRI entry left
\* in scope none is overlooked by a scan that ran to its end.
EarliestRevocationDecides ==
  (stage = "done" /\ digest # "altered" /\ path # "failed") =>
    /\ status = "invalid" => \E r \in ProvenRevocations : r <= Cutoff
    /\ (cut = "no" /\ \E r \in ProvenRevocations : r <= Cutoff) => status = "invalid"

\* A bare "valid" was checked: no proven revocation at any time, nothing of what
\* is in scope left unread that a good answer about the signer does not settle,
\* and a path that holds at the proven time, not at a time the signer declares.
ValidWasChecked ==
  status = "valid" =>
    /\ digest = "sound" /\ anchor = "accredited" /\ Cutoff <= expiry
    /\ \A r \in ProvenRevocations : r = Never \/ (cut # "no" /\ live = "good" /\ links = 1)
    /\ (\E e \in scope : e.form \in {"large", "indirect"} /\ e.authentic /\ e.link = 1) => live = "good"
    /\ (dssPresent /\ cut # "no") => live = "good"
    /\ (\E e \in scope : e.form \in {"large", "indirect"} /\ e.authentic /\ e.link = 2) => links = 1

\* Only authentic evidence about the signer, read in a scan that missed nothing,
\* stands in for the responder.
OnlyEvidenceSilencesTheResponder ==
  (stage = "done" /\ askLive /\ stamped /\ path # "failed" /\ live = "unasked") =>
    /\ cut = "no"
    /\ \E e \in scope : Proven(e) /\ e.link = 1 /\ (e.revoked # Never \/ e.until >= Cutoff \/ e.from >= Cutoff)

VerdictInv ==
  /\ VerdictTypeOK
  /\ EarliestRevocationDecides
  /\ ValidWasChecked
  /\ OnlyEvidenceSilencesTheResponder

-----------------------------------------------------------------------------
\* Said of the code but not kept by it (README, section 5).

\* "Nothing ends the search early ... The earliest authenticated revocation is
\* what counts" (ltv.ts:748-750): a signature is not valid whose certificate an
\* authentic response or CRL of the document shows revoked before.
NoneIsOverlooked ==
  (status = "valid" /\ cut = "no") =>
    ~\E e \in dss : /\ e.authentic /\ e.link \in Links /\ e.form = "plain"
                    /\ e.revoked <= Cutoff
=============================================================================
