--------------------------- MODULE SignerNetwork ----------------------------
(***************************************************************************)
(* One document in the signer, as time sees it: the walk for missing       *)
(* intermediates (packages/signer/src/chainIntermediates.ts), the time     *)
(* stamp (cms.ts), the revocation data (ltv.ts) and the archive time stamp *)
(* (pades.ts), under the timeouts its caller derives from the document's   *)
(* own (sign-bus.ts, sign-queue.ts) and under the timer of the bus, which  *)
(* throws the signature away.                                              *)
(*                                                                         *)
(* Every request is one step that takes any time up to its timeout.  What  *)
(* is not the network - parsing, hashing, writing - is Compute.            *)
(***************************************************************************)
EXTENDS Naturals, FiniteSets

CONSTANTS
  Routes,       \* of {"session", "single"}: a batch's session, the single document
  DocTimeout,   \* the timeout of the document
  UserTimeout,  \* tsaTimeoutMs and ltvTimeoutMs of the settings
  MinLeg,       \* MIN_LEG_TIMEOUT_MS and its two copies
  MaxHops,      \* depth of the walk
  Chain,        \* bound: certificates of the container, the signer's included
  CpuSteps, MaxCpu  \* bounds on what is computed

ASSUME NetworkAssumption ==
  /\ Routes \subseteq {"session", "single"}
  /\ DocTimeout \in Nat /\ UserTimeout \in Nat /\ MinLeg \in Nat
  /\ MaxHops \in Nat /\ Chain \in Nat \ {0}
  /\ CpuSteps \subseteq Nat /\ MaxCpu \in Nat

-----------------------------------------------------------------------------
(* deriveNetworkBudget.                                                    *)

Network(t) == (t * 6) \div 10
TsaTimeout(t) == Network(t) \div 4
AiaBudget(t) == (Network(t) * 15) \div 100
AiaTimeout(t) == AiaBudget(t) \div 2
LtvBudget(t) == Network(t) - TsaTimeout(t) - AiaBudget(t)
LtvTimeout(t) == LtvBudget(t) \div 3

Shorter(a, b) == IF a < b THEN a ELSE b

-----------------------------------------------------------------------------
VARIABLES
  route, alreadySigned, wantTsa, wantLt, wantLta,  \* the request
  roots,     \* the self-signed of the certificates to check
  before,    \* time from the start of the timer to the setting of the deadlines
  phase,     \* "aia", "tsa", "ocsp", "crl", "write", "archive", "embed"; then "done", "revoked", "timeout"
  net, cpu,  \* time spent since the deadlines were set, by kind
  hop, complete,
  stamped,
  cert,      \* the certificate in hand, from 1: the signer's, the container's, the time stamp's
  covered, dss, archived,
  warnings

requestVars == <<route, alreadySigned, wantTsa, wantLt, wantLta, roots, before>>
resultVars == <<complete, stamped, covered, dss, archived>>
networkVars == <<requestVars, phase, net, cpu, hop, cert, resultVars, warnings>>

NetworkInit ==
  /\ route \in Routes
  /\ alreadySigned \in BOOLEAN /\ wantTsa \in BOOLEAN /\ wantLt \in BOOLEAN
  /\ wantLta \in {w \in BOOLEAN : w => wantLt}
  /\ roots \in SUBSET (2..(Chain + 1))
  /\ before \in CpuSteps
  /\ phase = "aia" /\ net = 0 /\ cpu = 0
  /\ hop = 0 /\ complete = FALSE /\ stamped = FALSE
  /\ cert = 1 /\ covered = {} /\ dss = FALSE /\ archived = FALSE
  /\ warnings = {}

Final == {"done", "revoked", "timeout"}
Now == net + cpu         \* since the deadlines were set
Elapsed == before + Now  \* by the timer
Working(p) == phase = p /\ Elapsed <= DocTimeout

\* mutant: no route has a deadline for its revocation data
DeadlinedNever == route \notin Routes

\* The single document has no deadline for its revocation data, and its
\* timeouts are the person's.
Deadlined == route = "session"
RequestTimeout(budget) == IF Deadlined THEN Shorter(UserTimeout, budget) ELSE UserTimeout

\* The timeout of a leg that Allowed lets start.
TimeFor(perRequest, deadline) == Shorter(perRequest, deadline - Now)
Allowed(deadline) == deadline >= Now /\ deadline - Now >= MinLeg

LtvAllowed == Deadlined => Allowed(LtvBudget(DocTimeout))
LtvTime ==
  LET perRequest == RequestTimeout(LtvTimeout(DocTimeout)) IN
  IF Deadlined THEN TimeFor(perRequest, LtvBudget(DocTimeout)) ELSE perRequest

Takes(timeout) == \E d \in 0..timeout : net' = net + d

Warned(ws) == warnings' = warnings \cup ws

-----------------------------------------------------------------------------
(* The timer of the bus, and what is not the network.                      *)

TimedOut ==
  /\ phase \notin Final /\ Elapsed >= DocTimeout
  /\ phase' = "timeout"
  /\ UNCHANGED <<requestVars, net, cpu, hop, cert, resultVars, warnings>>

Compute ==
  /\ phase \notin Final
  /\ \E d \in CpuSteps : cpu + d <= MaxCpu /\ cpu' = cpu + d
  /\ UNCHANGED <<requestVars, phase, net, hop, cert, resultVars, warnings>>

Finish ==
  /\ Working("embed")
  /\ phase' = "done"
  /\ UNCHANGED <<requestVars, net, cpu, hop, cert, resultVars, warnings>>

-----------------------------------------------------------------------------
(* The intermediates.                                                      *)

\* A document with earlier signatures gets neither a time stamp nor the rest.
ChainDone(reached) ==
  /\ complete' = reached
  /\ phase' = IF alreadySigned THEN "embed" ELSE "tsa"
  /\ Warned(IF alreadySigned THEN {"ltv_skipped_multifirma"} ELSE {})
  /\ UNCHANGED hop

\* One certificate nearer to the root, of the hops the walk allows itself.
NextLink ==
  \/ hop + 1 < MaxHops /\ hop' = hop + 1 /\ UNCHANGED <<phase, complete, warnings>>
  \/ hop + 1 >= MaxHops /\ ChainDone(FALSE)

\* The issuer is a root we know, or a link of the container or the bundle.
KnownIssuer ==
  /\ Working("aia")
  /\ ChainDone(TRUE) \/ NextLink
  /\ UNCHANGED <<requestVars, net, cpu, cert, stamped, covered, dss, archived>>

\* The issuer is asked of the address the certificate gives: a link comes, a
\* root of ours, or nothing that is of use.
AiaHop ==
  /\ Working("aia") /\ Allowed(AiaBudget(DocTimeout))
  /\ Takes(TimeFor(AiaTimeout(DocTimeout), AiaBudget(DocTimeout)))
  /\ NextLink \/ \E reached \in BOOLEAN : ChainDone(reached)
  /\ UNCHANGED <<requestVars, cpu, cert, stamped, covered, dss, archived>>

\* No time to ask.
AiaOutOfTime ==
  /\ Working("aia") /\ ~Allowed(AiaBudget(DocTimeout))
  /\ ChainDone(FALSE)
  /\ UNCHANGED <<requestVars, net, cpu, cert, stamped, covered, dss, archived>>

-----------------------------------------------------------------------------
(* The time stamp.                                                         *)

Timestamp ==
  /\ Working("tsa")
  /\ \/ wantTsa /\ stamped' \in BOOLEAN /\ Takes(RequestTimeout(TsaTimeout(DocTimeout)))
     \/ ~wantTsa /\ UNCHANGED <<stamped, net>>
  /\ phase' = IF wantLt THEN "ocsp" ELSE "embed"
  /\ UNCHANGED <<requestVars, cpu, hop, complete, cert, covered, dss, archived, warnings>>

-----------------------------------------------------------------------------
(* The revocation data: collectLtvData, one certificate after another.     *)

ToCheck == 1..(Chain + (IF stamped THEN 1 ELSE 0))

NextCert ==
  IF cert + 1 \in ToCheck THEN cert' = cert + 1 /\ phase' = "ocsp"
                          ELSE cert' = cert /\ phase' = "write"

\* A self-signed certificate other than the signer's is not asked about.
SkipRoot ==
  /\ Working("ocsp") /\ cert \in roots
  /\ NextCert
  /\ UNCHANGED <<requestVars, net, cpu, hop, resultVars, warnings>>

\* mutant: the walk stops without a word
OutOfTimeSilent ==
  /\ Working("ocsp") /\ cert \notin roots /\ ~LtvAllowed
  /\ phase' = "write"
  /\ UNCHANGED <<requestVars, net, cpu, hop, cert, resultVars, warnings>>

\* The budget is spent: the certificates that are left are not looked at.
OutOfTime ==
  /\ Working("ocsp") /\ cert \notin roots /\ ~LtvAllowed
  /\ phase' = "write" /\ Warned({"ltv_deadline_exceeded"})
  /\ UNCHANGED <<requestVars, net, cpu, hop, cert, resultVars>>

\* Good: it has data.  Revoked: the document is not signed.
Answered ==
  \/ covered' = covered \cup {cert} /\ NextCert
  \/ phase' = "revoked" /\ UNCHANGED <<cert, covered>>

Ocsp ==
  /\ Working("ocsp") /\ cert \notin roots /\ LtvAllowed
  /\ \/ Takes(LtvTime) /\ Answered /\ UNCHANGED warnings
     \/ /\ Takes(LtvTime) /\ phase' = "crl"
        /\ Warned({"ocsp_failed"}) /\ UNCHANGED <<cert, covered>>
     \/ /\ phase' = "crl" /\ UNCHANGED net  \* no issuer to ask about
        /\ Warned({"ocsp_no_issuer"}) /\ UNCHANGED <<cert, covered>>
  /\ UNCHANGED <<requestVars, cpu, hop, complete, stamped, dss, archived>>

Crl ==
  /\ Working("crl")
  /\ \/ LtvAllowed /\ Takes(LtvTime) /\ Answered /\ UNCHANGED warnings
     \/ /\ LtvAllowed /\ Takes(LtvTime)
        /\ NextCert /\ Warned({"crl_failed"}) /\ UNCHANGED covered
     \/ /\ ~LtvAllowed /\ UNCHANGED net
        /\ NextCert /\ Warned({"ltv_deadline_exceeded"}) /\ UNCHANGED covered
  /\ UNCHANGED <<requestVars, cpu, hop, complete, stamped, dss, archived>>

\* What was collected goes into the document.
WriteDss ==
  /\ Working("write")
  /\ \/ /\ covered # {} /\ dss' = TRUE /\ UNCHANGED warnings
        /\ phase' = IF wantLta THEN "archive" ELSE "embed"
     \/ /\ covered = {} /\ Warned({"ltv_no_revocation_data"})
        /\ phase' = "embed" /\ UNCHANGED dss
  /\ UNCHANGED <<requestVars, net, cpu, hop, cert, complete, stamped, covered, archived>>

\* Anything that throws on the way but a revocation leaves the document as it is.
LtvThrows ==
  /\ phase \in {"ocsp", "crl", "write"} /\ Elapsed <= DocTimeout
  /\ phase' = "embed" /\ Warned({"ltv_unexpected_error"})
  /\ UNCHANGED <<requestVars, net, cpu, hop, cert, resultVars>>

Archive ==
  /\ Working("archive")
  /\ phase' = "embed"
  /\ \/ LtvAllowed /\ Takes(LtvTime) /\ archived' = TRUE /\ UNCHANGED warnings
     \/ LtvAllowed /\ Takes(LtvTime) /\ Warned({"lta_failed"}) /\ UNCHANGED archived
     \/ ~LtvAllowed /\ Warned({"lta_deadline_exceeded"}) /\ UNCHANGED <<net, archived>>
  /\ UNCHANGED <<requestVars, cpu, hop, complete, stamped, cert, covered, dss>>

NetworkNext ==
  \/ TimedOut \/ Compute \/ Finish
  \/ KnownIssuer \/ AiaHop \/ AiaOutOfTime
  \/ Timestamp
  \/ SkipRoot \/ OutOfTime \/ Ocsp \/ Crl \/ WriteDss \/ LtvThrows \/ Archive

-----------------------------------------------------------------------------
(* Properties.                                                             *)

NetworkFlagsOK ==
  /\ alreadySigned \in BOOLEAN /\ wantTsa \in BOOLEAN /\ wantLt \in BOOLEAN /\ wantLta \in BOOLEAN
  /\ complete \in BOOLEAN /\ stamped \in BOOLEAN /\ dss \in BOOLEAN /\ archived \in BOOLEAN

NetworkTypeOK ==
  /\ NetworkFlagsOK
  /\ route \in Routes
  /\ phase \in {"aia", "tsa", "ocsp", "crl", "write", "archive", "embed"} \cup Final
  /\ before \in Nat /\ net \in Nat /\ cpu \in Nat
  /\ hop \in 0..MaxHops /\ cert \in 1..(Chain + 1)
  /\ covered \subseteq 1..(Chain + 1)

\* The network of a document of a batch stays within its share of the
\* document's time, and that of the walk for intermediates within its own,
\* however the legs fall.
NetworkFits ==
  route = "session" =>
    /\ phase \in {"aia", "tsa"} => net <= AiaBudget(DocTimeout)
    /\ net <= Network(DocTimeout)

\* Whoever is asked for revocation data and is not a root has it, up to a
\* certificate.
CoveredUpTo(c) == (1..c) \ roots \subseteq covered

Whole == ~alreadySigned /\ dss /\ CoveredUpTo(Chain + (IF stamped THEN 1 ELSE 0)) /\ (wantLta => archived)

\* A certificate without revocation data, or an archive stamp that was asked
\* for and is missing, has left a warning in the outcome.
NothingDegradesSilently == phase = "done" /\ wantLt => Whole \/ warnings # {}

\* What the walk knows on its way there: nothing is behind it that neither has
\* data nor a warning.
NothingIsSkipped ==
  /\ phase \in {"aia", "tsa"} => cert = 1
  /\ phase \in {"tsa", "ocsp", "crl", "write", "archive"} => ~alreadySigned
  /\ phase \in {"ocsp", "crl"} => cert \in ToCheck
  /\ phase = "crl" => warnings # {}
  /\ warnings = {} =>
       /\ phase = "ocsp" => CoveredUpTo(cert - 1)
       /\ phase = "write" => CoveredUpTo(Chain + (IF stamped THEN 1 ELSE 0))
       /\ phase = "archive" => dss /\ CoveredUpTo(Chain + (IF stamped THEN 1 ELSE 0))
       /\ phase \in {"embed", "done"} /\ wantLt => Whole

NetworkInv == NetworkTypeOK /\ NetworkFits /\ NothingIsSkipped /\ NothingDegradesSilently

\* A document of a batch that its timer throws away was slow to compute, whatever
\* the responders did: that is what the budget is for (sign-bus.ts:248).
TimeoutIsNotTheNetworks ==
  (route = "session" /\ phase = "timeout") => before + cpu >= DocTimeout - Network(DocTimeout)
=============================================================================
