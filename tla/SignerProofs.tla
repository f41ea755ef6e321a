------------------------- MODULE SignerProofs -------------------------
(***************************************************************************)
(* Theorems about what the signer does with one document, for every        *)
(* timeout, setting of the person, chain, file and page: its time on the   *)
(* network (SignerNetwork), the revisions of the file (PdfRevisions), and  *)
(* the place of its stamp (AutoPlacement).                                 *)
(***************************************************************************)
EXTENDS SignerNetwork, PdfRevisions, AutoPlacement, TLAPS, FiniteSetTheorems, SequenceTheorems,
        WellFoundedInduction

NetworkSpec == NetworkInit /\ [][NetworkNext]_networkVars

-----------------------------------------------------------------------------
(* The budget.                                                             *)

\* deriveNetworkBudget: the shares of a timeout are not negative, and together
\* they are the network's, which is strictly less than the timeout
\* (totalMs < docTimeoutMs, which the code asserts at its smallest timeout
\* only).
THEOREM BudgetFits ==
  ASSUME NEW t \in Nat
  PROVE  /\ Network(t) \in Nat /\ TsaTimeout(t) \in Nat /\ AiaBudget(t) \in Nat
         /\ AiaTimeout(t) \in Nat /\ LtvBudget(t) \in Nat /\ LtvTimeout(t) \in Nat
         /\ TsaTimeout(t) + AiaBudget(t) + LtvBudget(t) = Network(t)
         /\ t > 0 => Network(t) < t
<1> DEFINE n == Network(t)
<1>1. n \in Nat /\ 10 * n <= t * 6
  BY DEF Network
<1>2. TsaTimeout(t) \in Nat /\ 4 * TsaTimeout(t) <= n
  <2> HIDE DEF n
  <2> QED BY <1>1 DEF TsaTimeout, n
<1>3. AiaBudget(t) \in Nat /\ 100 * AiaBudget(t) <= n * 15
  <2> HIDE DEF n
  <2> QED BY <1>1 DEF AiaBudget, n
<1>4. AiaTimeout(t) \in Nat
  BY <1>3 DEF AiaTimeout
<1>5. LtvBudget(t) \in Nat /\ TsaTimeout(t) + AiaBudget(t) + LtvBudget(t) = n
  <2> HIDE DEF n
  <2> QED BY <1>1, <1>2, <1>3 DEF LtvBudget, n
<1>6. LtvTimeout(t) \in Nat
  BY <1>5 DEF LtvTimeout
<1>7. t > 0 => n < t
  <2> HIDE DEF n
  <2> QED BY <1>1
<1> QED BY <1>1, <1>2, <1>3, <1>4, <1>5, <1>6, <1>7

-----------------------------------------------------------------------------
(* The invariant is inductive.                                             *)

\* The budget of the document in hand.
LEMMA DocumentBudget ==
  /\ Network(DocTimeout) \in Nat /\ TsaTimeout(DocTimeout) \in Nat
  /\ AiaBudget(DocTimeout) \in Nat /\ AiaTimeout(DocTimeout) \in Nat
  /\ LtvBudget(DocTimeout) \in Nat /\ LtvTimeout(DocTimeout) \in Nat
  /\ TsaTimeout(DocTimeout) + AiaBudget(DocTimeout) + LtvBudget(DocTimeout) = Network(DocTimeout)
  BY BudgetFits, NetworkAssumption

LEMMA NetworkInitInv == NetworkInit => NetworkInv
  <1> SUFFICES ASSUME NetworkInit PROVE NetworkInv
    OBVIOUS
  <1> USE NetworkAssumption DEF NetworkInit
  <1>1. NetworkTypeOK
    <2>1. wantLta \in BOOLEAN
      OBVIOUS
    <2>2. before \in Nat /\ net \in Nat /\ cpu \in Nat /\ hop \in 0..MaxHops /\ cert \in 1..(Chain + 1)
      OBVIOUS
    <2> QED BY <2>1, <2>2 DEF NetworkTypeOK, NetworkFlagsOK, Final
  <1>2. NetworkFits
    BY DocumentBudget DEF NetworkFits
  <1>3. NothingIsSkipped /\ NothingDegradesSilently
    BY DEF NothingIsSkipped, NothingDegradesSilently
  <1> QED BY <1>1, <1>2, <1>3 DEF NetworkInv

\* A leg that may start is over by its deadline.
LEMMA LegEnds ==
  ASSUME NetworkTypeOK, NEW deadline \in Nat, NEW perRequest \in Nat, Allowed(deadline),
         Takes(TimeFor(perRequest, deadline))
  PROVE  net' \in Nat /\ net' <= deadline
  BY NetworkAssumption DEF NetworkTypeOK, Allowed, Takes, TimeFor, Shorter, Now

\* A leg of the revocation data, on either route.
LEMMA LtvLegEnds ==
  ASSUME NetworkTypeOK, LtvAllowed, Takes(LtvTime)
  PROVE  net' \in Nat /\ (route = "session" => net' <= LtvBudget(DocTimeout))
  <1> USE NetworkAssumption, DocumentBudget
  <1>1. CASE route = "session"
    <2>1. RequestTimeout(LtvTimeout(DocTimeout)) \in Nat
      BY DEF RequestTimeout, Shorter
    <2>2. Takes(TimeFor(RequestTimeout(LtvTimeout(DocTimeout)), LtvBudget(DocTimeout)))
      BY <1>1 DEF LtvTime, Deadlined
    <2>3. Allowed(LtvBudget(DocTimeout))
      BY <1>1 DEF LtvAllowed, Deadlined
    <2> QED BY <2>1, <2>2, <2>3, LegEnds
  <1>2. CASE route # "session"
    <2>1. LtvTime = UserTimeout
      BY <1>2 DEF LtvTime, RequestTimeout, Deadlined
    <2> QED BY <1>2, <2>1 DEF Takes, NetworkTypeOK
  <1> QED BY <1>1, <1>2

\* The flags of the request and of the result.
LEMMA FlagsStep ==
  ASSUME NetworkFlagsOK, [NetworkNext]_networkVars
  PROVE  NetworkFlagsOK'
  <1> USE DEF NetworkFlagsOK, requestVars, resultVars
  <1>1. CASE TimedOut \/ Compute \/ Finish \/ SkipRoot \/ OutOfTime \/ WriteDss \/ LtvThrows
    BY <1>1 DEF TimedOut, Compute, Finish, SkipRoot, OutOfTime, WriteDss, LtvThrows
  <1>2. CASE KnownIssuer \/ AiaHop \/ AiaOutOfTime
    BY <1>2 DEF KnownIssuer, AiaHop, AiaOutOfTime, ChainDone, NextLink
  <1>3. CASE Timestamp
    BY <1>3 DEF Timestamp
  <1>4. CASE Ocsp \/ Crl \/ Archive
    BY <1>4 DEF Ocsp, Crl, Archive
  <1>5. CASE UNCHANGED networkVars
    BY <1>5 DEF networkVars
  <1> QED BY <1>1, <1>2, <1>3, <1>4, <1>5 DEF NetworkNext

\* The time that is spent.
LEMMA ClockStep ==
  ASSUME NetworkTypeOK, [NetworkNext]_networkVars
  PROVE  before' \in Nat /\ net' \in Nat /\ cpu' \in Nat
  <1> USE NetworkAssumption DEF NetworkTypeOK, requestVars, resultVars
  <1>1. CASE TimedOut \/ Compute \/ Finish \/ SkipRoot \/ OutOfTime \/ WriteDss \/ LtvThrows
    BY <1>1 DEF TimedOut, Compute, Finish, SkipRoot, OutOfTime, WriteDss, LtvThrows
  <1>2. CASE KnownIssuer \/ AiaOutOfTime
    BY <1>2 DEF KnownIssuer, AiaOutOfTime
  <1>3. CASE AiaHop
    BY <1>3, LegEnds, DocumentBudget DEF AiaHop
  <1>4. CASE Timestamp
    <2>1. RequestTimeout(TsaTimeout(DocTimeout)) \in Nat
      BY DocumentBudget DEF RequestTimeout, Shorter
    <2> QED BY <1>4, <2>1 DEF Timestamp, Takes
  <1>5. CASE Ocsp \/ Crl \/ Archive
    <2>1. UNCHANGED net \/ net' \in Nat
      BY <1>5, LtvLegEnds DEF Ocsp, Crl, Archive
    <2> QED BY <1>5, <2>1 DEF Ocsp, Crl, Archive
  <1>6. CASE UNCHANGED networkVars
    BY <1>6 DEF networkVars
  <1> QED BY <1>1, <1>2, <1>3, <1>4, <1>5, <1>6 DEF NetworkNext

\* The certificate in hand and those that have data.
LEMMA WalkStep ==
  ASSUME NetworkTypeOK, [NetworkNext]_networkVars
  PROVE  cert' \in 1..(Chain + 1) /\ covered' \subseteq 1..(Chain + 1)
  <1> USE NetworkAssumption DEF NetworkTypeOK, requestVars, resultVars
  <1>0. ToCheck \subseteq 1..(Chain + 1)
    BY DEF ToCheck
  <1>1. CASE UNCHANGED <<cert, covered>>
    BY <1>1
  <1>2. CASE UNCHANGED covered /\ NextCert
    BY <1>0, <1>2 DEF NextCert
  <1>3. CASE Answered
    BY <1>0, <1>3 DEF Answered, NextCert
  <1> QED
    BY <1>1, <1>2, <1>3 DEF NetworkNext, networkVars, TimedOut, Compute, Finish, KnownIssuer,
          AiaHop,
       AiaOutOfTime, Timestamp, SkipRoot, OutOfTime, Ocsp, Crl, WriteDss, LtvThrows, Archive

LEMMA TypeStep ==
  ASSUME NetworkTypeOK, [NetworkNext]_networkVars
  PROVE  NetworkTypeOK'
  <1> USE NetworkAssumption DEF NetworkTypeOK
  <1>1. route' \in Routes /\ hop' \in 0..MaxHops
    BY DEF NetworkNext, networkVars, requestVars, TimedOut, Compute, Finish, KnownIssuer, AiaHop,
       AiaOutOfTime, ChainDone, NextLink, Timestamp, SkipRoot, OutOfTime, Ocsp, Crl, WriteDss,
       LtvThrows, Archive
  <1>2. phase' \in {"aia", "tsa", "ocsp", "crl", "write", "archive", "embed"} \cup Final
    BY DEF Final, NetworkNext, networkVars, TimedOut, Compute, Finish, KnownIssuer, AiaHop,
       AiaOutOfTime, ChainDone, NextLink, Timestamp, SkipRoot, NextCert, OutOfTime, Ocsp, Answered,
       Crl, WriteDss, LtvThrows, Archive
  <1> QED BY <1>1, <1>2, FlagsStep, ClockStep, WalkStep

\* The network stays within its shares.
LEMMA FitsStep ==
  ASSUME NetworkInv, [NetworkNext]_networkVars
  PROVE  NetworkFits'
  <1> SUFFICES ASSUME route = "session"
               PROVE  /\ phase' \in {"aia", "tsa"} => net' <= AiaBudget(DocTimeout)
                      /\ net' <= Network(DocTimeout)
    BY DEF NetworkFits, NetworkNext, networkVars, requestVars, TimedOut, Compute, Finish,
          KnownIssuer, AiaHop,
           AiaOutOfTime, Timestamp, SkipRoot, OutOfTime, Ocsp, Crl, WriteDss, LtvThrows, Archive
  <1> USE NetworkAssumption, DocumentBudget DEF NetworkInv, NetworkFits, Working
  <1>1. CASE UNCHANGED net /\ (phase' \in {"aia", "tsa"} => phase \in {"aia", "tsa"})
    BY <1>1 DEF NetworkTypeOK
  <1>2. CASE AiaHop
    BY <1>2, LegEnds DEF AiaHop, NetworkTypeOK
  <1>3. CASE Timestamp
    <2>1. net <= AiaBudget(DocTimeout) /\ net \in Nat
      BY <1>3 DEF Timestamp, NetworkTypeOK
    <2>2. net' <= net + TsaTimeout(DocTimeout) /\ net' \in Nat
      BY <1>3, <2>1 DEF Timestamp, Takes, RequestTimeout, Shorter, Deadlined
    <2>3. phase' \notin {"aia", "tsa"}
      BY <1>3 DEF Timestamp
    <2> HIDE DEF NetworkInv
    <2> QED BY <2>1, <2>2, <2>3
  <1>4. CASE Ocsp \/ Crl \/ Archive
    <2>1. phase' \notin {"aia", "tsa"}
      BY <1>4 DEF Ocsp, Crl, Archive, Answered, NextCert
    <2>2. UNCHANGED net \/ (net' <= LtvBudget(DocTimeout) /\ net' \in Nat)
      BY <1>4, LtvLegEnds DEF Ocsp, Crl, Archive
    <2>3. net <= Network(DocTimeout) /\ net \in Nat
      BY DEF NetworkTypeOK
    <2> HIDE DEF NetworkInv
    <2> QED BY <2>1, <2>2, <2>3
  <1> QED
    BY <1>1, <1>2, <1>3, <1>4 DEF NetworkNext, networkVars, TimedOut, Compute, Finish, KnownIssuer,
       AiaOutOfTime, SkipRoot, OutOfTime, WriteDss, LtvThrows, ChainDone, NextLink, NextCert, Final

\* The walk leaves nothing behind it in silence.
LEMMA SilentStep ==
  ASSUME NetworkInv, [NetworkNext]_networkVars
  PROVE  NothingIsSkipped' /\ NothingDegradesSilently'
  <1> USE NetworkAssumption DEF NetworkInv, NetworkTypeOK, NetworkFlagsOK, NothingIsSkipped, Whole,
        CoveredUpTo,
          ToCheck, requestVars, resultVars, Final, Working
  <1>1. NothingIsSkipped'
    <2>1. CASE TimedOut \/ Compute \/ Finish
      BY <2>1 DEF TimedOut, Compute, Finish
    <2>2. CASE KnownIssuer \/ AiaHop \/ AiaOutOfTime
      <3>1. CASE \E reached \in BOOLEAN : ChainDone(reached)
        <4>1. phase' = (IF alreadySigned THEN "embed" ELSE "tsa") /\ (alreadySigned => warnings' # {})
          BY <3>1 DEF ChainDone, Warned
        <4>2. phase = "aia" /\ UNCHANGED <<cert, requestVars>>
          BY <2>2 DEF KnownIssuer, AiaHop, AiaOutOfTime
        <4> QED BY <4>1, <4>2
      <3>2. CASE UNCHANGED <<phase, warnings>>
        BY <2>2, <3>2 DEF KnownIssuer, AiaHop, AiaOutOfTime
      <3> QED BY <2>2, <3>1, <3>2 DEF KnownIssuer, AiaHop, AiaOutOfTime, NextLink
    <2>3. CASE Timestamp
      BY <2>3 DEF Timestamp
    <2>4. CASE SkipRoot
      BY <2>4 DEF SkipRoot, NextCert
    <2>5. CASE OutOfTime \/ LtvThrows
      BY <2>5 DEF OutOfTime, LtvThrows, Warned
    <2>6. CASE Ocsp
      <3>1. CASE Answered /\ UNCHANGED warnings
        <4>1. phase = "ocsp" /\ UNCHANGED <<requestVars, stamped, dss, archived>>
          BY <2>6 DEF Ocsp
        <4>2. CASE phase' = "revoked"
          BY <4>2
        <4>3. CASE covered' = covered \cup {cert} /\ NextCert
          BY <3>1, <4>1, <4>3 DEF NextCert
        <4> QED BY <3>1, <4>2, <4>3 DEF Answered
      <3>2. CASE phase' = "crl" /\ warnings' # {}
        <4>1. UNCHANGED <<cert, stamped, alreadySigned>>
          BY <2>6, <3>2 DEF Ocsp, Answered, NextCert
        <4>2. cert \in ToCheck /\ ~alreadySigned
          BY <2>6 DEF Ocsp
        <4> QED BY <3>2, <4>1, <4>2
      <3>3. (Answered /\ UNCHANGED warnings) \/ (phase' = "crl" /\ warnings' # {})
        <4> HIDE DEF NetworkInv, NetworkTypeOK, NetworkFlagsOK, NothingIsSkipped, Whole,
              CoveredUpTo, ToCheck
        <4> QED BY <2>6 DEF Ocsp, Warned
      <3> QED BY <3>1, <3>2, <3>3
    <2>7. CASE Crl
      BY <2>7 DEF Crl, Answered, NextCert, Warned
    <2>8. CASE WriteDss
      BY <2>8 DEF WriteDss, Warned
    <2>9. CASE Archive
      BY <2>9 DEF Archive, Warned
    <2>10. CASE UNCHANGED networkVars
      BY <2>10 DEF networkVars
    <2> QED
      BY <2>1, <2>2, <2>3, <2>4, <2>5, <2>6, <2>7, <2>8, <2>9, <2>10 DEF NetworkNext
  <1> QED BY <1>1 DEF NothingDegradesSilently

-----------------------------------------------------------------------------
(* The theorems.                                                           *)

\* In every reachable state of either route: the types, the network within its
\* share on the session's, and no degradation without a warning.
THEOREM NetworkInvariant == NetworkSpec => []NetworkInv
  <1>1. NetworkInv /\ [NetworkNext]_networkVars => NetworkInv'
    BY TypeStep, FitsStep, SilentStep DEF NetworkInv
  <1> QED BY NetworkInitInv, <1>1, PTL DEF NetworkSpec

\* Nothing but the timer ends a document as a timeout.
TimedOutIsLate == phase = "timeout" => Elapsed >= DocTimeout

\* On the session's route a document that times out has spent at least the part
\* of its time that is not the network's on something else: no responder,
\* however slow, can throw a document of a batch away.
THEOREM TimeoutIsOurs == NetworkSpec => []TimeoutIsNotTheNetworks
  <1>1. NetworkInit => TimedOutIsLate
    BY DEF NetworkInit, TimedOutIsLate
  <1>2. TimedOutIsLate /\ NetworkInv /\ [NetworkNext]_networkVars => TimedOutIsLate'
    <2> SUFFICES ASSUME TimedOutIsLate, NetworkInv, [NetworkNext]_networkVars, phase' = "timeout"
                 PROVE  Elapsed' >= DocTimeout
      BY DEF TimedOutIsLate
    <2>1. CASE TimedOut
      BY <2>1 DEF TimedOut, Elapsed, Now, requestVars
    <2>2. CASE UNCHANGED networkVars
      BY <2>2 DEF networkVars, requestVars, Elapsed, Now, TimedOutIsLate
    <2> QED
      BY <2>1, <2>2 DEF NetworkNext, Compute, Finish, KnownIssuer, AiaHop, AiaOutOfTime, Timestamp,
         SkipRoot, OutOfTime, Ocsp, Crl, WriteDss, LtvThrows, Archive, Answered, NextCert,
         ChainDone,
         NextLink, Working, Final
  <1>3. NetworkInv /\ TimedOutIsLate => TimeoutIsNotTheNetworks
    BY DocumentBudget, NetworkAssumption
       DEF NetworkInv, NetworkTypeOK, NetworkFits, TimedOutIsLate, TimeoutIsNotTheNetworks,
             Elapsed, Now
  <1> QED BY NetworkInvariant, <1>1, <1>2, <1>3, PTL DEF NetworkSpec

-----------------------------------------------------------------------------
(* The revisions of a file (PdfRevisions). A file is a constant here, and  *)
(* what is read in it an operator of it, so that a lemma applies to the    *)
(* file before a step and after it. The invariant: the numbers are below   *)
(* the size, one type each, and the references of a body are to what they  *)
(* should be (Struct); what is read in the text agrees with what a viewer  *)
(* finds as far as the next signature relies on it (Faith); what was       *)
(* embedded is still what the catalogs point to (Embeds).                  *)

LEMMA SmallestIn ==
  ASSUME NEW S \in SUBSET Nat, S # {}
  PROVE  \E m \in S : \A n \in S : m <= n
<1>1. PICK m \in S : \A n \in S : ~(<<n, m>> \in OpToRel(<, Nat))
  BY NatLessThanWellFounded, WFMin
<1>2. \A n \in S : n \in Nat /\ m \in Nat /\ ~(n < m)
  BY <1>1, Zenon DEF OpToRel
<1>3. \A n \in S : m <= n
  BY <1>2
<1> QED
  BY <1>1, <1>3

LEMMA LargestIn ==
  ASSUME NEW S \in SUBSET Nat, S # {}, NEW top \in Nat, \A n \in S : n <= top
  PROVE  \E m \in S : \A n \in S : n <= m
<1> DEFINE U == {u \in Nat : \A n \in S : n <= u}
<1>1. PICK u \in U : \A v \in U : u <= v
  <2>1. U \in SUBSET Nat /\ top \in U
    OBVIOUS
  <2> HIDE DEF U
  <2> QED
    BY <2>1, SmallestIn
<1>2. CASE u \in S
  BY <1>1, <1>2
<1>3. CASE u \notin S
  <2>1. PICK n \in S : TRUE
    OBVIOUS
  <2>2. \A k \in S : k \in Nat /\ k <= u /\ k # u
    BY <1>1, <1>3
  <2>3. u - 1 \in Nat /\ \A k \in S : k <= u - 1
    BY <1>1, <2>1, <2>2
  <2>4. u - 1 \in U
    BY <2>3
  <2> QED
    BY <1>1, <2>4
<1> QED
  BY <1>2, <1>3

LEMMA LastOfIs ==
  ASSUME NEW S \in SUBSET Nat, NEW i \in S, \A j \in S : j <= i
  PROVE  LastOf(S) = i
<1>1. \A k \in S : (\A j \in S : j <= k) => k = i
  OBVIOUS
<1> QED
  BY <1>1 DEF LastOf

\* A file, and what is read in it: the last of the revisions that have a number, or
\* that have it in plain text.
IsFile(rs) == \E R : rs \in Seq(R)

Having(rs, n)      == {i \in DOMAIN rs : n \in DOMAIN rs[i].objs}
HavingPlain(rs, n) == {i \in DOMAIN rs : n \in DOMAIN rs[i].objs /\ n \notin rs[i].packed}

ReadIn(rs, S, n) == IF S = {} THEN Missing ELSE rs[LastOf(S)].objs[n]
ViewOf(rs, n)    == ReadIn(rs, Having(rs, n), n)
PlainOf(rs, n)   == ReadIn(rs, HavingPlain(rs, n), n)

LEMMA ReadingIs ==
  /\ \A n : Viewed(n) = ViewOf(revisions, n) /\ LastPlain(n) = PlainOf(revisions, n)
  /\ \A n : Viewed(n)' = ViewOf(revisions', n) /\ LastPlain(n)' = PlainOf(revisions', n)
<1> USE DEF Viewed, LastPlain, BodyIn, IsPlain, Defines, ViewOf, PlainOf, ReadIn, Having,
      HavingPlain
<1>1. \A n : Viewed(n) = ViewOf(revisions, n)
  OBVIOUS
<1>2. \A n : LastPlain(n) = PlainOf(revisions, n)
  OBVIOUS
<1>3. \A n : Viewed(n)' = ViewOf(revisions', n)
  OBVIOUS
<1>4. \A n : LastPlain(n)' = PlainOf(revisions', n)
  OBVIOUS
<1> QED
  BY <1>1, <1>2, <1>3, <1>4

LEMMA FileShape ==
  ASSUME NEW rs, IsFile(rs)
  PROVE  /\ Len(rs) \in Nat /\ DOMAIN rs = 1..Len(rs)
         /\ \A n : Having(rs, n) \in SUBSET Nat /\ HavingPlain(rs, n) \in SUBSET Nat
BY DEF IsFile, Having, HavingPlain

\* There is a last one, if there is one.
LEMMA LastRead ==
  ASSUME NEW rs, IsFile(rs), NEW S \in SUBSET (DOMAIN rs), NEW k \in S
  PROVE  /\ LastOf(S) \in S /\ k <= LastOf(S) /\ \A j \in S : j <= LastOf(S)
         /\ \A n : ReadIn(rs, S, n) = rs[LastOf(S)].objs[n]
<1>1. S \in SUBSET Nat /\ \A j \in S : j <= Len(rs)
  BY FileShape
<1>2. PICK i \in S : \A j \in S : j <= i
  BY <1>1, FileShape, LargestIn
<1>3. LastOf(S) = i
  BY <1>1, <1>2, LastOfIs
<1> QED
  BY <1>2, <1>3 DEF ReadIn

LEMMA Views ==
  ASSUME NEW rs, IsFile(rs), NEW n, NEW k \in DOMAIN rs, n \in DOMAIN rs[k].objs
  PROVE  \E i \in DOMAIN rs :
           /\ n \in DOMAIN rs[i].objs /\ k <= i /\ ViewOf(rs, n) = rs[i].objs[n]
           /\ \A j \in DOMAIN rs : n \in DOMAIN rs[j].objs => j <= i
<1> DEFINE S == Having(rs, n)
<1>1. S \in SUBSET (DOMAIN rs) /\ k \in S
  BY DEF Having
<1> HIDE DEF S
<1>2. /\ LastOf(S) \in S /\ k <= LastOf(S) /\ \A j \in S : j <= LastOf(S)
      /\ ReadIn(rs, S, n) = rs[LastOf(S)].objs[n]
  BY <1>1, LastRead
<1> QED
  BY <1>2 DEF S, ViewOf, Having

LEMMA PlainReads ==
  ASSUME NEW rs, IsFile(rs), NEW n, NEW k \in DOMAIN rs, n \in DOMAIN rs[k].objs, n \notin rs[k].packed
  PROVE  \E i \in DOMAIN rs :
           /\ n \in DOMAIN rs[i].objs /\ n \notin rs[i].packed /\ k <= i
           /\ PlainOf(rs, n) = rs[i].objs[n]
           /\ \A j \in DOMAIN rs : n \in DOMAIN rs[j].objs /\ n \notin rs[j].packed => j <= i
<1> DEFINE S == HavingPlain(rs, n)
<1>1. S \in SUBSET (DOMAIN rs) /\ k \in S
  BY DEF HavingPlain
<1> HIDE DEF S
<1>2. /\ LastOf(S) \in S /\ k <= LastOf(S) /\ \A j \in S : j <= LastOf(S)
      /\ ReadIn(rs, S, n) = rs[LastOf(S)].objs[n]
  BY <1>1, LastRead
<1> QED
  BY <1>2 DEF S, PlainOf, HavingPlain

\* A file grows by one revision, which is read first.
Follows(rs, r, rs2) == rs2 = Append(rs, r)

LEMMA Grows ==
  ASSUME NEW rs, IsFile(rs), NEW r, NEW rs2, Follows(rs, r, rs2)
  PROVE  /\ IsFile(rs2) /\ Len(rs2) = Len(rs) + 1 /\ rs2[Len(rs2)] = r
         /\ \A i \in DOMAIN rs : i \in DOMAIN rs2 /\ rs2[i] = rs[i]
         /\ \A i \in DOMAIN rs2 : i \in DOMAIN rs \/ i = Len(rs2)
         /\ \A i \in DOMAIN rs : i # Len(rs2) /\ i <= Len(rs2)
<1>1. PICK R : rs \in Seq(R)
  BY DEF IsFile
<1>2. rs \in Seq(R \cup {r}) /\ r \in R \cup {r}
  BY <1>1, SeqMonotonic
<1>3. rs2 \in Seq(R \cup {r})
  BY <1>2 DEF Follows
<1>4. IsFile(rs2)
  BY <1>3 DEF IsFile
<1>5. Len(rs2) = Len(rs) + 1 /\ Len(rs) \in Nat
  BY <1>2 DEF Follows
<1>6. DOMAIN rs = 1..Len(rs) /\ DOMAIN rs2 = 1..Len(rs2)
  BY <1>4, FileShape
<1>7. rs2[Len(rs2)] = r
  BY <1>2, <1>5 DEF Follows
<1>8. \A i \in DOMAIN rs : i \in DOMAIN rs2 /\ rs2[i] = rs[i]
  BY <1>2, <1>5, <1>6 DEF Follows
<1> QED
  BY <1>4, <1>5, <1>6, <1>7, <1>8

LEMMA ReadAfter ==
  ASSUME NEW rs, IsFile(rs), NEW r, NEW rs2, Follows(rs, r, rs2), NEW n
  PROVE  /\ ViewOf(rs2, n) = IF n \in DOMAIN r.objs THEN r.objs[n] ELSE ViewOf(rs, n)
         /\ PlainOf(rs2, n) = IF n \in DOMAIN r.objs \ r.packed THEN r.objs[n] ELSE PlainOf(rs, n)
<1> DEFINE L == Len(rs2)
<1>0. /\ IsFile(rs2) /\ rs2[L] = r /\ L \in DOMAIN rs2
      /\ \A i \in DOMAIN rs : i \in DOMAIN rs2 /\ rs2[i] = rs[i]
      /\ \A i \in DOMAIN rs2 : i \in DOMAIN rs \/ i = L
      /\ \A i \in DOMAIN rs : i # L /\ i <= L
  <2>1. /\ IsFile(rs2) /\ Len(rs2) = Len(rs) + 1 /\ rs2[Len(rs2)] = r
        /\ \A i \in DOMAIN rs : i \in DOMAIN rs2 /\ rs2[i] = rs[i]
        /\ \A i \in DOMAIN rs2 : i \in DOMAIN rs \/ i = Len(rs2)
        /\ \A i \in DOMAIN rs : i # Len(rs2) /\ i <= Len(rs2)
    BY Grows
  <2>2. Len(rs) \in Nat /\ DOMAIN rs2 = 1..L
    BY <2>1, FileShape
  <2> QED
    BY <2>1, <2>2
<1> HIDE DEF L
<1>1. ViewOf(rs2, n) = IF n \in DOMAIN r.objs THEN r.objs[n] ELSE ViewOf(rs, n)
  <2>1. CASE n \in DOMAIN r.objs
    <3>1. L \in Having(rs2, n) /\ LastOf(Having(rs2, n)) = L
      <4>1. L \in Having(rs2, n) /\ \A j \in Having(rs2, n) : j <= L
        BY <1>0, <2>1, FileShape DEF Having
      <4>2. Having(rs2, n) \in SUBSET Nat
        BY <1>0, FileShape
      <4> QED
        BY <4>1, <4>2, LastOfIs
    <3> QED
      BY <1>0, <2>1, <3>1 DEF ViewOf, ReadIn
  <2>2. CASE n \notin DOMAIN r.objs
    <3>1. Having(rs2, n) = Having(rs, n)
      BY <1>0, <2>2 DEF Having
    <3>2. CASE Having(rs, n) = {}
      BY <2>2, <3>1, <3>2 DEF ViewOf, ReadIn
    <3>3. CASE Having(rs, n) # {}
      <4>1. LastOf(Having(rs, n)) \in Having(rs, n)
        BY <3>3, LastRead DEF Having
      <4> QED
        BY <1>0, <2>2, <3>1, <3>3, <4>1 DEF ViewOf, ReadIn, Having
    <3> QED
      BY <3>2, <3>3
  <2> QED
    BY <2>1, <2>2
<1>2. PlainOf(rs2, n) = IF n \in DOMAIN r.objs \ r.packed THEN r.objs[n] ELSE PlainOf(rs, n)
  <2>1. CASE n \in DOMAIN r.objs \ r.packed
    <3>1. L \in HavingPlain(rs2, n) /\ LastOf(HavingPlain(rs2, n)) = L
      <4>1. L \in HavingPlain(rs2, n) /\ \A j \in HavingPlain(rs2, n) : j <= L
        BY <1>0, <2>1, FileShape DEF HavingPlain
      <4>2. HavingPlain(rs2, n) \in SUBSET Nat
        BY <1>0, FileShape
      <4> QED
        BY <4>1, <4>2, LastOfIs
    <3> QED
      BY <1>0, <2>1, <3>1 DEF PlainOf, ReadIn
  <2>2. CASE n \notin DOMAIN r.objs \ r.packed
    <3>1. HavingPlain(rs2, n) = HavingPlain(rs, n)
      BY <1>0, <2>2 DEF HavingPlain
    <3>2. CASE HavingPlain(rs, n) = {}
      BY <2>2, <3>1, <3>2 DEF PlainOf, ReadIn
    <3>3. CASE HavingPlain(rs, n) # {}
      <4>1. LastOf(HavingPlain(rs, n)) \in HavingPlain(rs, n)
        BY <3>3, LastRead DEF HavingPlain
      <4> QED
        BY <1>0, <2>2, <3>1, <3>3, <4>1 DEF PlainOf, ReadIn, HavingPlain
    <3> QED
      BY <3>2, <3>3
  <2> QED
    BY <2>1, <2>2
<1> QED
  BY <1>1, <1>2

\* What a number was given to: the type of its bodies.
Known(rs) == UNION {{<<n, rs[i].objs[n].type>> : n \in DOMAIN rs[i].objs} : i \in DOMAIN rs}

Are(type, S, T) == \A n \in S : <<n, type>> \in T

\* An array is where it is written, or the object at its place; T says what is known.
ArrayOK(a, place, T) ==
  /\ a = [ref |-> a.ref, items |-> a.items] /\ a.ref \in {0, place}
  /\ a.ref # 0 => a.items = {} /\ <<place, "array">> \in T

FormOK(form, T) ==
  /\ form = [kind |-> form.kind, num |-> form.num, fields |-> form.fields]
  /\ form.kind \in {"none", "ref", "inline"}
  /\ form.kind = "ref" => <<form.num, "form">> \in T
  /\ form.kind = "inline" => "inline" \in Forms
  /\ ArrayOK(form.fields, FirstFields, T) /\ Are("widget", form.fields.items, T)

Drawn(S, T) == \A n \in S : <<n, "widget">> \in T \/ <<n, "link">> \in T

\* The body of n refers to what is known to be of the type it should.
BodyOK(n, b, T) ==
  /\ b.type \in Types
  /\ b.type = "catalog" =>
       /\ n = Catalog /\ b = CatalogBody(b.form, b.dss) /\ FormOK(b.form, T)
       /\ b.dss # 0 => <<b.dss, "dss">> \in T
  /\ b.type = "form" =>
       /\ n = FirstForm \/ n >= FirstSig
       /\ b = FormBody(b.fields)
       /\ ArrayOK(b.fields, FirstFields, T) /\ Are("widget", b.fields.items, T)
  /\ b.type = "page" =>
       \E p \in Pages : /\ n = PageNum(p) /\ b = PageBody(b.annots)
                        /\ ArrayOK(b.annots, AnnotsNum(p), T) /\ Drawn(b.annots.items, T)
  /\ b.type = "array" =>
       /\ b = ArrayBody(b.items)
       /\ \/ n = FirstFields /\ Are("widget", b.items, T)
          \/ (\E p \in Pages : n = AnnotsNum(p)) /\ Drawn(b.items, T)
  /\ b.type = "widget" => b = WidgetBody(b.name) /\ b.name \in Nat
  /\ b.type = "dss" => b = [type |-> "dss", streams |-> b.streams] /\ Are("stream", b.streams, T)
  /\ b.type \notin {"catalog", "form", "page", "array"} => n >= FirstSig

Shape(rs) ==
  /\ IsFile(rs) /\ Len(rs) > 0
  /\ \A i \in DOMAIN rs :
       /\ DOMAIN rs[i].objs \subseteq 1..(rs[i].size - 1) /\ rs[i].packed \subseteq DOMAIN rs[i].objs
       /\ rs[i].table \in BOOLEAN /\ rs[i].size \in Nat
       /\ FirstWidget < rs[i].size /\ rs[i].size <= rs[Len(rs)].size

OneType(rs) == \A n, t, u : <<n, t>> \in Known(rs) /\ <<n, u>> \in Known(rs) => t = u
Sound(rs)   == \A i \in DOMAIN rs : \A n \in DOMAIN rs[i].objs : BodyOK(n, rs[i].objs[n], Known(rs))
Roots(rs)   == <<Catalog, "catalog">> \in Known(rs) /\ \A p \in Pages : <<PageNum(p), "page">> \in Known(rs)

Struct(rs) == Shape(rs) /\ OneType(rs) /\ Sound(rs) /\ Roots(rs)

\* As getBody reads.
GetOf(rs, n) == IF PlainOf(rs, n) = Missing THEN ViewOf(rs, n) ELSE PlainOf(rs, n)

LEMMA NumbersAre ==
  /\ NumPages \in Nat \ {0} /\ Pages \subseteq Nat /\ FirstSig \in Nat /\ FirstWidget = FirstSig + 1
  /\ \A p \in Pages : PageNum(p) \in Nat /\ AnnotsNum(p) \in Nat
  /\ \A p, q \in Pages : /\ PageNum(p) # AnnotsNum(q) /\ 3 < PageNum(p) /\ 3 < AnnotsNum(p)
                         /\ PageNum(p) < FirstSig /\ AnnotsNum(p) < FirstSig
                         /\ (PageNum(p) = PageNum(q) => p = q) /\ (AnnotsNum(p) = AnnotsNum(q) => p = q)
  /\ Catalog = 1 /\ FirstForm = 2 /\ FirstFields = 3 /\ 3 < FirstSig
BY RevisionsAssumption DEF Pages, FirstSig, FirstWidget, PageNum, AnnotsNum, Catalog, FirstForm,
      FirstFields

\* What is known stays so.
LEMMA StaysOK ==
  ASSUME NEW n, NEW b, NEW T, NEW U, T \subseteq U, BodyOK(n, b, T)
  PROVE  BodyOK(n, b, U)
<1>1. \A S : (Are("widget", S, T) => Are("widget", S, U)) /\ (Are("stream", S, T) => Are("stream", S, U))
             /\ (Drawn(S, T) => Drawn(S, U))
  BY DEF Are, Drawn
<1>2. \A a, place : ArrayOK(a, place, T) => ArrayOK(a, place, U)
  BY DEF ArrayOK
<1>3. \A form : FormOK(form, T) => FormOK(form, U)
  BY <1>1, <1>2 DEF FormOK
<1> QED
  BY <1>1, <1>2, <1>3 DEF BodyOK

LEMMA KnownIs ==
  ASSUME NEW rs, NEW i \in DOMAIN rs, NEW n \in DOMAIN rs[i].objs
  PROVE  <<n, rs[i].objs[n].type>> \in Known(rs)
BY DEF Known

LEMMA KnownFrom ==
  ASSUME NEW rs, NEW n, NEW t, <<n, t>> \in Known(rs)
  PROVE  \E i \in DOMAIN rs : n \in DOMAIN rs[i].objs /\ rs[i].objs[n].type = t
BY DEF Known

LEMMA KnownBelow ==
  ASSUME NEW rs, Shape(rs), NEW n, NEW t, <<n, t>> \in Known(rs)
  PROVE  n \in Nat /\ 0 < n /\ n < rs[Len(rs)].size
<1>1. PICK i \in DOMAIN rs : n \in DOMAIN rs[i].objs
  BY KnownFrom
<1>2. n \in 1..(rs[i].size - 1) /\ rs[i].size \in Nat /\ rs[i].size <= rs[Len(rs)].size
  BY <1>1 DEF Shape
<1>3. rs[Len(rs)].size \in Nat
  BY FileShape DEF Shape
<1> QED
  BY <1>2, <1>3

LEMMA WrittenIs ==
  ASSUME NEW rs, Struct(rs), NEW n, NEW t, <<n, t>> \in Known(rs)
  PROVE  \A i \in DOMAIN rs : n \in DOMAIN rs[i].objs =>
           rs[i].objs[n].type = t /\ BodyOK(n, rs[i].objs[n], Known(rs))
<1> TAKE i \in DOMAIN rs
<1> HAVE n \in DOMAIN rs[i].objs
<1>1. <<n, rs[i].objs[n].type>> \in Known(rs)
  BY KnownIs
<1>2. rs[i].objs[n].type = t
  BY <1>1 DEF Struct, OneType
<1>3. BodyOK(n, rs[i].objs[n], Known(rs))
  BY DEF Struct, Sound
<1> QED
  BY <1>2, <1>3

\* A number that is known is read as what it is, however it is read.
LEMMA ReadsOf ==
  ASSUME NEW rs, Struct(rs), NEW n, NEW t, <<n, t>> \in Known(rs)
  PROVE  /\ ViewOf(rs, n).type = t /\ BodyOK(n, ViewOf(rs, n), Known(rs))
         /\ GetOf(rs, n).type = t /\ BodyOK(n, GetOf(rs, n), Known(rs))
         /\ PlainOf(rs, n) # Missing =>
              PlainOf(rs, n).type = t /\ BodyOK(n, PlainOf(rs, n), Known(rs))
         /\ ViewOf(rs, n) # Missing /\ GetOf(rs, n) # Missing
<1> USE DEF Struct
<1>0. IsFile(rs)
  BY DEF Shape
<1>1. PICK k \in DOMAIN rs : n \in DOMAIN rs[k].objs
  BY KnownFrom
<1>2. PICK i \in DOMAIN rs : n \in DOMAIN rs[i].objs /\ ViewOf(rs, n) = rs[i].objs[n]
  BY <1>0, <1>1, Views
<1>3. ViewOf(rs, n).type = t /\ BodyOK(n, ViewOf(rs, n), Known(rs))
  BY <1>2, WrittenIs
<1>4. PlainOf(rs, n) # Missing => PlainOf(rs, n).type = t /\ BodyOK(n, PlainOf(rs, n), Known(rs))
  <2> SUFFICES ASSUME PlainOf(rs, n) # Missing
               PROVE  PlainOf(rs, n).type = t /\ BodyOK(n, PlainOf(rs, n), Known(rs))
    OBVIOUS
  <2>1. PICK j : j \in HavingPlain(rs, n)
    BY DEF PlainOf, ReadIn
  <2>2. j \in DOMAIN rs /\ n \in DOMAIN rs[j].objs /\ n \notin rs[j].packed
    BY <2>1 DEF HavingPlain
  <2>3. PICK l \in DOMAIN rs : n \in DOMAIN rs[l].objs /\ PlainOf(rs, n) = rs[l].objs[n]
    BY <1>0, <2>2, PlainReads
  <2> QED
    BY <2>3, WrittenIs
<1>5. \A b : BodyOK(n, b, Known(rs)) => b # Missing
  BY DEF BodyOK, Missing, Body, Types
<1> QED
  BY <1>3, <1>4, <1>5 DEF GetOf

-----------------------------------------------------------------------------
\* What may be appended to rs, when T is known: a new number, or one that is
\* known with its type.
Appendable(o, rs, T) ==
  \A n \in DOMAIN o : /\ BodyOK(n, o[n], T)
                      /\ n \in Nat /\ (n >= rs[Len(rs)].size \/ <<n, o[n].type>> \in Known(rs))

LEMMA OverIs ==
  ASSUME NEW f, NEW g
  PROVE  /\ DOMAIN Over(f, g) = DOMAIN f \cup DOMAIN g
         /\ \A n \in DOMAIN f : Over(f, g)[n] = f[n]
         /\ \A n : n \in DOMAIN g /\ n \notin DOMAIN f => Over(f, g)[n] = g[n]
BY DEF Over

LEMMA PartIs ==
  ASSUME NEW n, NEW b
  PROVE  DOMAIN Part(n, b) = {n} /\ Part(n, b)[n] = b /\ DOMAIN Nothing = {}
BY DEF Part, Nothing

LEMMA OverAppendable ==
  ASSUME NEW rs, NEW T, NEW f, NEW g, Appendable(f, rs, T), Appendable(g, rs, T)
  PROVE  Appendable(Over(f, g), rs, T)
<1> SUFFICES ASSUME NEW n \in DOMAIN Over(f, g)
             PROVE  /\ BodyOK(n, Over(f, g)[n], T)
                    /\ n \in Nat /\ (n >= rs[Len(rs)].size \/ <<n, Over(f, g)[n].type>> \in Known(rs))
  BY DEF Appendable
<1>1. CASE n \in DOMAIN f
  <2>1. n \in DOMAIN f /\ Over(f, g)[n] = f[n]
    BY <1>1, OverIs
  <2>2. /\ BodyOK(n, f[n], T)
        /\ n \in Nat /\ (n >= rs[Len(rs)].size \/ <<n, f[n].type>> \in Known(rs))
    BY <2>1 DEF Appendable
  <2> QED
    BY <2>1, <2>2
<1>2. CASE n \notin DOMAIN f
  <2>0. DOMAIN Over(f, g) = DOMAIN f \cup DOMAIN g
    BY OverIs
  <2>a. n \in DOMAIN g \ DOMAIN f
    BY <1>2, <2>0
  <2>1. n \in DOMAIN g /\ Over(f, g)[n] = g[n]
    BY <2>a DEF Over
  <2>2. /\ BodyOK(n, g[n], T)
        /\ n \in Nat /\ (n >= rs[Len(rs)].size \/ <<n, g[n].type>> \in Known(rs))
    BY <2>1 DEF Appendable
  <2> QED
    BY <2>1, <2>2
<1> QED
  BY <1>1, <1>2

LEMMA PartAppendable ==
  ASSUME NEW rs, NEW T, NEW n \in Nat, NEW b, BodyOK(n, b, T),
         n >= rs[Len(rs)].size \/ <<n, b.type>> \in Known(rs)
  PROVE  Appendable(Part(n, b), rs, T)
<1>1. DOMAIN Part(n, b) = {n} /\ Part(n, b)[n] = b
  BY PartIs
<1>2. \A m \in DOMAIN Part(n, b) : m = n /\ Part(n, b)[m] = b
  BY <1>1
<1>3. \A m \in DOMAIN Part(n, b) : BodyOK(m, Part(n, b)[m], T)
  BY <1>2
<1>4. \A m \in DOMAIN Part(n, b) :
        m \in Nat /\ (m >= rs[Len(rs)].size \/ <<m, Part(n, b)[m].type>> \in Known(rs))
  BY <1>2
<1> QED
  BY <1>3, <1>4 DEF Appendable

\* A file that grows by what may be appended to it is well-formed.
LEMMA StructGrows ==
  ASSUME NEW rs, Struct(rs), NEW r, NEW rs2, Follows(rs, r, rs2),
         DOMAIN r.objs \subseteq 1..(r.size - 1), r.packed \subseteq DOMAIN r.objs,
         r.table \in BOOLEAN, r.size \in Nat, r.size >= rs[Len(rs)].size,
         Appendable(r.objs, rs, Known(rs2))
  PROVE  /\ Struct(rs2) /\ Known(rs) \subseteq Known(rs2)
         /\ \A n \in DOMAIN r.objs : <<n, r.objs[n].type>> \in Known(rs2)
         /\ \A n, t : <<n, t>> \in Known(rs2) =>
              <<n, t>> \in Known(rs) \/ (n \in DOMAIN r.objs /\ t = r.objs[n].type)
<1> DEFINE L == Len(rs2)
<1> USE DEF Struct
<1>0. IsFile(rs) /\ Len(rs) \in Nat /\ Len(rs) > 0 /\ DOMAIN rs = 1..Len(rs) /\ Len(rs) \in DOMAIN rs
  BY FileShape DEF Shape
<1>1. /\ IsFile(rs2) /\ rs2[L] = r /\ L = Len(rs) + 1 /\ L \in DOMAIN rs2
      /\ \A i \in DOMAIN rs : i \in DOMAIN rs2 /\ rs2[i] = rs[i]
      /\ \A i \in DOMAIN rs2 : i \in DOMAIN rs \/ i = L
  <2>1. /\ IsFile(rs2) /\ rs2[Len(rs2)] = r /\ Len(rs2) = Len(rs) + 1
        /\ \A i \in DOMAIN rs : i \in DOMAIN rs2 /\ rs2[i] = rs[i]
        /\ \A i \in DOMAIN rs2 : i \in DOMAIN rs \/ i = Len(rs2)
    BY <1>0, Grows
  <2>2. DOMAIN rs2 = 1..Len(rs2)
    BY <2>1, FileShape
  <2> QED
    BY <1>0, <2>1, <2>2
<1> HIDE DEF L
<1>2. /\ Known(rs) \subseteq Known(rs2)
      /\ \A n \in DOMAIN r.objs : <<n, r.objs[n].type>> \in Known(rs2)
  BY <1>1 DEF Known
<1>3. \A n, t : <<n, t>> \in Known(rs2) =>
        <<n, t>> \in Known(rs) \/ (n \in DOMAIN r.objs /\ t = r.objs[n].type)
  <2> SUFFICES ASSUME NEW n, NEW t, <<n, t>> \in Known(rs2)
               PROVE  <<n, t>> \in Known(rs) \/ (n \in DOMAIN r.objs /\ t = r.objs[n].type)
    OBVIOUS
  <2>1. PICK i \in DOMAIN rs2 : n \in DOMAIN rs2[i].objs /\ rs2[i].objs[n].type = t
    BY KnownFrom
  <2>2. CASE i = L
    BY <1>1, <2>1, <2>2
  <2>3. CASE i \in DOMAIN rs
    BY <1>1, <2>1, <2>3, KnownIs
  <2> QED
    BY <1>1, <2>2, <2>3
<1>4. Shape(rs2)
  <2>1. \A i \in DOMAIN rs :
       /\ DOMAIN rs[i].objs \subseteq 1..(rs[i].size - 1) /\ rs[i].packed \subseteq DOMAIN rs[i].objs
       /\ rs[i].table \in BOOLEAN /\ rs[i].size \in Nat
       /\ FirstWidget < rs[i].size /\ rs[i].size <= r.size
    BY <1>0 DEF Shape
  <2>2. FirstWidget < r.size
    BY <1>0, <2>1, NumbersAre
  <2>3. \A i \in DOMAIN rs2 : /\ DOMAIN rs2[i].objs \subseteq 1..(rs2[i].size - 1)
                              /\ rs2[i].packed \subseteq DOMAIN rs2[i].objs
                              /\ rs2[i].table \in BOOLEAN /\ rs2[i].size \in Nat
                              /\ FirstWidget < rs2[i].size /\ rs2[i].size <= rs2[L].size
    <3> TAKE i \in DOMAIN rs2
    <3>1. CASE i = L
      BY <1>1, <2>2, <3>1
    <3>2. CASE i \in DOMAIN rs
      BY <1>1, <2>1, <3>2
    <3> QED
      BY <1>1, <3>1, <3>2
  <2> QED
    BY <1>0, <1>1, <2>3 DEF Shape, L
<1>5. OneType(rs2)
  <2>1. \A n \in DOMAIN r.objs : \A t : <<n, t>> \in Known(rs) => t = r.objs[n].type
    <3> TAKE n \in DOMAIN r.objs
    <3> TAKE t
    <3> HAVE <<n, t>> \in Known(rs)
    <3>1. n < rs[Len(rs)].size /\ n \in Nat /\ rs[Len(rs)].size \in Nat
      BY <1>0, KnownBelow DEF Shape
    <3>2. <<n, r.objs[n].type>> \in Known(rs)
      BY <3>1 DEF Appendable
    <3> QED
      BY <3>2 DEF OneType
  <2> QED
    BY <1>3, <2>1 DEF OneType
<1>6. Sound(rs2)
  <2> SUFFICES ASSUME NEW i \in DOMAIN rs2, NEW n \in DOMAIN rs2[i].objs
               PROVE  BodyOK(n, rs2[i].objs[n], Known(rs2))
    BY DEF Sound
  <2>1. CASE i = L
    BY <1>1, <2>1 DEF Appendable
  <2>2. CASE i \in DOMAIN rs
    <3>1. BodyOK(n, rs[i].objs[n], Known(rs))
      BY <1>1, <2>2 DEF Sound
    <3> QED
      BY <1>1, <1>2, <2>2, <3>1, StaysOK
  <2> QED
    BY <1>1, <2>1, <2>2
<1>7. Roots(rs2)
  BY <1>2 DEF Roots
<1> QED
  BY <1>2, <1>3, <1>4, <1>5, <1>6, <1>7

-----------------------------------------------------------------------------
(* What is read in the file rs, as definitions over it.                    *)

ElementsOf(rs, a) == IF a.ref = 0 THEN a.items ELSE ViewOf(rs, a.ref).items

FieldsOf(rs) ==
  LET form == ViewOf(rs, Catalog).form IN
  CASE form.kind = "none" -> {}
    [] form.kind = "inline" -> ElementsOf(rs, form.fields)
    [] form.kind = "ref" -> ElementsOf(rs, ViewOf(rs, form.num).fields)

ArrayGrown(rs, a, new) ==
  IF a.ref = 0 THEN Nothing ELSE Part(a.ref, ArrayBody(ElementsOf(rs, a) \cup new))

AnnotsGrown(rs, num, page, new) ==
  IF page.annots.ref = 0
  THEN Part(num, PageBody(Grown(page.annots, new)))
  ELSE ArrayGrown(rs, page.annots, new)

LEMMA ElementsIs ==
  /\ \A a : Elements(a) = ElementsOf(revisions, a)
  /\ \A n : GetBody(n) = GetOf(revisions, n)
  /\ Fields = FieldsOf(revisions) /\ Fields' = FieldsOf(revisions')
<1>1. \A a : Elements(a) = ElementsOf(revisions, a)
  BY ReadingIs DEF Elements, ElementsOf
<1>2. \A a : Elements(a)' = ElementsOf(revisions', a)
  BY ReadingIs DEF Elements, ElementsOf
<1>3. \A n : GetBody(n) = GetOf(revisions, n)
  BY ReadingIs DEF GetBody, GetOf
<1>4. Fields = FieldsOf(revisions)
  <2>1. /\ Viewed(Catalog) = ViewOf(revisions, Catalog)
        /\ Viewed(Viewed(Catalog).form.num) = ViewOf(revisions, ViewOf(revisions, Catalog).form.num)
    BY ReadingIs
  <2> QED
    BY <1>1, <2>1 DEF Fields, FieldsOf
<1>5. Fields' = FieldsOf(revisions')
  <2>1. Viewed(Catalog)' = ViewOf(revisions', Catalog)
    BY ReadingIs
  <2>2. Viewed(Viewed(Catalog).form.num)' = ViewOf(revisions', ViewOf(revisions', Catalog).form.num)
    BY <2>1 DEF Viewed, BodyIn, Defines, ViewOf, ReadIn, Having
  <2>3. \A a : Elements(a)' = ElementsOf(revisions', a)
    BY <1>2
  <2>4. /\ Elements(Viewed(Catalog).form.fields)' = ElementsOf(revisions', ViewOf(revisions', Catalog).form.fields)
        /\ Elements(Viewed(Viewed(Catalog).form.num).fields)'
           = ElementsOf(revisions', ViewOf(revisions', ViewOf(revisions', Catalog).form.num).fields)
    BY <2>1, <2>2 DEF Elements, ElementsOf, Viewed, BodyIn, Defines, ViewOf, ReadIn, Having
  <2> QED
    BY <2>1, <2>4 DEF Fields, FieldsOf
<1> QED
  BY <1>1, <1>3, <1>4, <1>5

LEMMA GrownIs ==
  /\ \A a, new : GrownArray(a, new) = ArrayGrown(revisions, a, new)
  /\ \A num, page, new : WithAnnots(num, page, new) = AnnotsGrown(revisions, num, page, new)
<1>1. \A a, new : GrownArray(a, new) = ArrayGrown(revisions, a, new)
  BY ElementsIs DEF GrownArray, ArrayGrown
<1> QED
  BY <1>1 DEF WithAnnots, AnnotsGrown

-----------------------------------------------------------------------------
(* What a revision writes is well-formed.                                  *)

LEMMA KnownGrows ==
  ASSUME NEW rs, IsFile(rs), NEW r, NEW rs2, Follows(rs, r, rs2)
  PROVE  /\ Known(rs) \subseteq Known(rs2)
         /\ \A n \in DOMAIN r.objs : <<n, r.objs[n].type>> \in Known(rs2)
<1>1. /\ rs2[Len(rs2)] = r /\ Len(rs2) = Len(rs) + 1 /\ IsFile(rs2)
      /\ \A i \in DOMAIN rs : i \in DOMAIN rs2 /\ rs2[i] = rs[i]
  BY Grows
<1>2. Len(rs2) \in DOMAIN rs2
  <2>1. DOMAIN rs2 = 1..Len(rs2) /\ Len(rs) \in Nat
    BY <1>1, FileShape
  <2> QED
    BY <1>1, <2>1
<1> QED
  BY <1>1, <1>2 DEF Known

LEMMA FieldsGrow ==
  ASSUME NEW rs, Struct(rs), NEW T, Known(rs) \subseteq T, NEW a, NEW new,
         ArrayOK(a, FirstFields, Known(rs)), Are("widget", a.items, Known(rs)), Are("widget", new, T)
  PROVE  /\ ArrayOK(Grown(a, new), FirstFields, T) /\ Are("widget", Grown(a, new).items, T)
         /\ Appendable(ArrayGrown(rs, a, new), rs, T)
         /\ DOMAIN ArrayGrown(rs, a, new) = (IF a.ref = 0 THEN {} ELSE {FirstFields})
         /\ a.ref # 0 => /\ a.ref = FirstFields
                         /\ ArrayGrown(rs, a, new)[FirstFields] = ArrayBody(ElementsOf(rs, a) \cup new)
         /\ Are("widget", ElementsOf(rs, a), Known(rs))
<1>1. CASE a.ref = 0
  <2>1. Grown(a, new) = Here(a.items \cup new) /\ ArrayGrown(rs, a, new) = Nothing
    BY <1>1 DEF Grown, ArrayGrown
  <2>2. ArrayOK(Grown(a, new), FirstFields, T) /\ Are("widget", Grown(a, new).items, T)
    BY <2>1 DEF ArrayOK, Are, Here
  <2>3. Appendable(ArrayGrown(rs, a, new), rs, T) /\ DOMAIN ArrayGrown(rs, a, new) = {}
    BY <2>1, PartIs DEF Appendable
  <2> QED
    BY <1>1, <2>2, <2>3 DEF ElementsOf
<1>2. CASE a.ref # 0
  <2>1. a.ref = FirstFields /\ a.items = {} /\ <<FirstFields, "array">> \in Known(rs)
    BY <1>2 DEF ArrayOK
  <2>2. ViewOf(rs, FirstFields).type = "array" /\ BodyOK(FirstFields, ViewOf(rs, FirstFields), Known(rs))
    BY <2>1, ReadsOf
  <2>3. Are("widget", ViewOf(rs, FirstFields).items, Known(rs))
    BY <2>2, NumbersAre DEF BodyOK
  <2>4. Are("widget", ElementsOf(rs, a), Known(rs)) /\ Are("widget", ElementsOf(rs, a) \cup new, T)
    BY <1>2, <2>1, <2>3 DEF ElementsOf, Are
  <2>5. BodyOK(FirstFields, ArrayBody(ElementsOf(rs, a) \cup new), T)
    BY <2>4 DEF BodyOK, ArrayBody, Types
  <2>6. FirstFields \in Nat /\ <<FirstFields, ArrayBody(ElementsOf(rs, a) \cup new).type>> \in Known(rs)
    BY <2>1, NumbersAre DEF ArrayBody
  <2>7. ArrayGrown(rs, a, new) = Part(FirstFields, ArrayBody(ElementsOf(rs, a) \cup new))
    BY <1>2, <2>1 DEF ArrayGrown
  <2>8. Appendable(ArrayGrown(rs, a, new), rs, T)
    BY <2>5, <2>6, <2>7, PartAppendable
  <2>9. ArrayOK(Grown(a, new), FirstFields, T) /\ Are("widget", Grown(a, new).items, T)
    BY <1>2, <2>1 DEF Grown, ArrayOK, Are
  <2> QED
    BY <1>2, <2>1, <2>4, <2>7, <2>8, <2>9, PartIs
<1> QED
  BY <1>1, <1>2

LEMMA AnnotsGrow ==
  ASSUME NEW rs, Struct(rs), NEW T, Known(rs) \subseteq T, NEW p \in Pages, NEW page, NEW new,
         BodyOK(PageNum(p), page, Known(rs)), page.type = "page", Drawn(new, T)
  PROVE  /\ Appendable(AnnotsGrown(rs, PageNum(p), page, new), rs, T)
         /\ DOMAIN AnnotsGrown(rs, PageNum(p), page, new) \subseteq {PageNum(p), AnnotsNum(p)}
         /\ \A n \in DOMAIN AnnotsGrown(rs, PageNum(p), page, new) :
              AnnotsGrown(rs, PageNum(p), page, new)[n].type \in {"page", "array"}
<1> DEFINE a == page.annots
<1>1. page = PageBody(a) /\ ArrayOK(a, AnnotsNum(p), Known(rs)) /\ Drawn(a.items, Known(rs))
  BY NumbersAre DEF BodyOK
<1>2. <<PageNum(p), "page">> \in Known(rs) /\ PageNum(p) \in Nat
  BY NumbersAre DEF Struct, Roots
<1> HIDE DEF a
<1>3. CASE a.ref = 0
  <2>1. AnnotsGrown(rs, PageNum(p), page, new) = Part(PageNum(p), PageBody(Here(a.items \cup new)))
    BY <1>3 DEF AnnotsGrown, a, Grown
  <2>2. ArrayOK(Here(a.items \cup new), AnnotsNum(p), T) /\ Drawn(Here(a.items \cup new).items, T)
    BY <1>1 DEF ArrayOK, Drawn, Here
  <2>3. BodyOK(PageNum(p), PageBody(Here(a.items \cup new)), T)
    BY <2>2 DEF BodyOK, PageBody, Types
  <2>4. PageBody(Here(a.items \cup new)).type = "page"
    BY DEF PageBody
  <2>5. Appendable(AnnotsGrown(rs, PageNum(p), page, new), rs, T)
    BY <1>2, <2>1, <2>3, <2>4, PartAppendable
  <2> DEFINE b == PageBody(Here(a.items \cup new))
  <2> HIDE DEF b
  <2>6. DOMAIN Part(PageNum(p), b) = {PageNum(p)} /\ Part(PageNum(p), b)[PageNum(p)] = b
    BY PartIs
  <2>7. AnnotsGrown(rs, PageNum(p), page, new) = Part(PageNum(p), b) /\ b.type = "page"
    BY <2>1, <2>4 DEF b
  <2> QED
    BY <2>5, <2>6, <2>7
<1>4. CASE a.ref # 0
  <2>1. a.ref = AnnotsNum(p) /\ <<AnnotsNum(p), "array">> \in Known(rs)
    BY <1>1, <1>4 DEF ArrayOK
  <2>2. ViewOf(rs, AnnotsNum(p)).type = "array" /\ BodyOK(AnnotsNum(p), ViewOf(rs, AnnotsNum(p)), Known(rs))
    BY <2>1, ReadsOf
  <2>3. Drawn(ViewOf(rs, AnnotsNum(p)).items, Known(rs))
    BY <2>2, NumbersAre DEF BodyOK
  <2> DEFINE b == ArrayBody(ElementsOf(rs, a) \cup new)
  <2>4. Drawn(ElementsOf(rs, a) \cup new, T)
    BY <1>4, <2>1, <2>3 DEF ElementsOf, Drawn
  <2>5. BodyOK(AnnotsNum(p), b, T) /\ b.type = "array"
    BY <2>4, NumbersAre DEF BodyOK, ArrayBody, Types
  <2>6. AnnotsGrown(rs, PageNum(p), page, new) = Part(AnnotsNum(p), b)
    BY <1>4, <2>1 DEF AnnotsGrown, a, ArrayGrown
  <2> HIDE DEF b
  <2>7. AnnotsNum(p) \in Nat
    BY NumbersAre
  <2>8. Appendable(Part(AnnotsNum(p), b), rs, T)
    BY <2>1, <2>5, <2>7, PartAppendable
  <2>9. DOMAIN Part(AnnotsNum(p), b) = {AnnotsNum(p)} /\ Part(AnnotsNum(p), b)[AnnotsNum(p)] = b
    BY PartIs
  <2> QED
    BY <2>5, <2>6, <2>8, <2>9
<1> QED
  BY <1>3, <1>4

-----------------------------------------------------------------------------
(* What the readings agree on.                                             *)

Rewritten == {"catalog", "form", "page", "array"}

Tables(rs) == \A i \in DOMAIN rs : rs[i].table => rs[i].packed = {}

CatalogIsRead(rs) == GetOf(rs, Catalog).form.kind = "ref" => ViewOf(rs, Catalog).form = GetOf(rs, Catalog).form

FormsAreRead(rs) ==
  \A n : <<n, "form">> \in Known(rs) =>
    /\ GetOf(rs, n).fields.ref = ViewOf(rs, n).fields.ref
    /\ GetOf(rs, n).fields.items \subseteq ViewOf(rs, n).fields.items

OnceOnly(rs) ==
  \A i, j \in DOMAIN rs : \A n \in DOMAIN rs[i].objs \cap DOMAIN rs[j].objs :
    rs[i].objs[n].type \notin Rewritten => i = j

Faith(rs) == Tables(rs) /\ CatalogIsRead(rs) /\ FormsAreRead(rs) /\ OnceOnly(rs)

\* What a revision with the objects o, of which some are packed, does not disturb.
Keeps(rs, r) ==
  /\ r.table => r.packed = {}
  /\ \A n \in DOMAIN r.objs : r.objs[n].type \notin Rewritten => n >= rs[Len(rs)].size
  /\ Catalog \in r.packed => ViewOf(rs, Catalog).form.kind # "ref"
  /\ \A n \in r.packed :
       r.objs[n].type = "form" =>
         \/ n >= rs[Len(rs)].size
         \/ /\ r.objs[n].fields.ref = ViewOf(rs, n).fields.ref
            /\ ViewOf(rs, n).fields.items \subseteq r.objs[n].fields.items

LEMMA UnknownIsMissing ==
  ASSUME NEW rs, Struct(rs), NEW n, ~(n < rs[Len(rs)].size)
  PROVE  PlainOf(rs, n) = Missing /\ ViewOf(rs, n) = Missing
<1>1. \A i \in DOMAIN rs : n \notin DOMAIN rs[i].objs
  <2> SUFFICES ASSUME NEW i \in DOMAIN rs, n \in DOMAIN rs[i].objs
               PROVE  FALSE
    OBVIOUS
  <2>1. <<n, rs[i].objs[n].type>> \in Known(rs)
    BY KnownIs
  <2> QED
    BY <2>1, KnownBelow DEF Struct
<1>2. Having(rs, n) = {} /\ HavingPlain(rs, n) = {}
  BY <1>1 DEF Having, HavingPlain
<1> QED
  BY <1>2 DEF PlainOf, ViewOf, ReadIn

\* Plain text is read before packed objects are.
LEMMA GetAfter ==
  ASSUME NEW rs, Struct(rs), NEW r, NEW rs2, Follows(rs, r, rs2), Struct(rs2), NEW n
  PROVE  /\ n \notin DOMAIN r.objs => GetOf(rs2, n) = GetOf(rs, n) /\ ViewOf(rs2, n) = ViewOf(rs, n)
         /\ n \in DOMAIN r.objs => ViewOf(rs2, n) = r.objs[n]
         /\ n \in DOMAIN r.objs /\ n \notin r.packed => GetOf(rs2, n) = r.objs[n]
         /\ n \in DOMAIN r.objs /\ n \in r.packed =>
              GetOf(rs2, n) = r.objs[n] \/ (PlainOf(rs, n) # Missing /\ GetOf(rs2, n) = GetOf(rs, n))
<1>1. /\ ViewOf(rs2, n) = IF n \in DOMAIN r.objs THEN r.objs[n] ELSE ViewOf(rs, n)
      /\ PlainOf(rs2, n) = IF n \in DOMAIN r.objs \ r.packed THEN r.objs[n] ELSE PlainOf(rs, n)
  BY ReadAfter DEF Struct, Shape
<1>2. n \in DOMAIN r.objs => r.objs[n] # Missing
  <2> SUFFICES ASSUME n \in DOMAIN r.objs
               PROVE  r.objs[n] # Missing
    OBVIOUS
  <2>1. <<n, r.objs[n].type>> \in Known(rs2)
    BY KnownGrows DEF Struct, Shape
  <2>2. ViewOf(rs2, n) # Missing
    BY <2>1, ReadsOf
  <2> QED
    BY <1>1, <2>2
<1> QED
  BY <1>1, <1>2 DEF GetOf

LEMMA FaithGrows ==
  ASSUME NEW rs, Struct(rs), Faith(rs), NEW r, NEW rs2, Follows(rs, r, rs2), Struct(rs2), Keeps(rs, r)
  PROVE  Faith(rs2)
<1>1. Tables(rs2)
  <2>1. \A i \in DOMAIN rs2 : (i \in DOMAIN rs /\ rs2[i] = rs[i]) \/ rs2[i] = r
    BY Grows DEF Struct, Shape
  <2> QED
    BY <2>1 DEF Tables, Faith, Keeps
<1>2. CatalogIsRead(rs2)
  <2>0. CatalogIsRead(rs)
    BY DEF Faith
  <2>1. CASE Catalog \notin DOMAIN r.objs
    BY <2>0, <2>1, GetAfter DEF CatalogIsRead
  <2>2. CASE Catalog \in DOMAIN r.objs /\ Catalog \notin r.packed
    BY <2>2, GetAfter DEF CatalogIsRead
  <2>3. CASE Catalog \in DOMAIN r.objs /\ Catalog \in r.packed
    <3>1. ViewOf(rs, Catalog).form.kind # "ref"
      BY <2>3 DEF Keeps
    <3>2. ViewOf(rs2, Catalog) = r.objs[Catalog]
      BY <2>3, GetAfter
    <3>3. GetOf(rs2, Catalog) = r.objs[Catalog] \/ GetOf(rs2, Catalog) = GetOf(rs, Catalog)
      BY <2>3, GetAfter
    <3>4. GetOf(rs, Catalog).form.kind # "ref"
      BY <2>0, <3>1 DEF CatalogIsRead
    <3> QED
      BY <3>2, <3>3, <3>4 DEF CatalogIsRead
  <2> QED
    BY <2>1, <2>2, <2>3
<1>3. FormsAreRead(rs2)
  <2> SUFFICES ASSUME NEW n, <<n, "form">> \in Known(rs2)
               PROVE  /\ GetOf(rs2, n).fields.ref = ViewOf(rs2, n).fields.ref
                      /\ GetOf(rs2, n).fields.items \subseteq ViewOf(rs2, n).fields.items
    BY DEF FormsAreRead
  <2>0. n \in DOMAIN r.objs => r.objs[n].type = "form"
    <3> HAVE n \in DOMAIN r.objs
    <3>1. <<n, r.objs[n].type>> \in Known(rs2)
      BY KnownGrows DEF Struct, Shape
    <3> QED
      BY <3>1 DEF Struct, OneType
  <2>1. CASE n \notin DOMAIN r.objs
    <3>1. GetOf(rs2, n) = GetOf(rs, n) /\ ViewOf(rs2, n) = ViewOf(rs, n)
      BY <2>1, GetAfter
    <3>2. ViewOf(rs2, n).type = "form" /\ ViewOf(rs2, n) # Missing
      BY ReadsOf
    <3>3. <<n, "form">> \in Known(rs)
      <4>1. PICK i \in DOMAIN rs2 : n \in DOMAIN rs2[i].objs /\ rs2[i].objs[n].type = "form"
        BY KnownFrom
      <4>2. i \in DOMAIN rs /\ rs2[i] = rs[i]
        BY <2>1, <4>1, Grows DEF Struct, Shape
      <4> QED
        BY <4>1, <4>2, KnownIs
    <3> QED
      BY <3>1, <3>3 DEF FormsAreRead, Faith
  <2>2. CASE n \in DOMAIN r.objs /\ n \notin r.packed
    BY <2>2, GetAfter
  <2>3. CASE n \in DOMAIN r.objs /\ n \in r.packed
    <3>1. ViewOf(rs2, n) = r.objs[n]
      BY <2>3, GetAfter
    <3>2. CASE GetOf(rs2, n) = r.objs[n]
      BY <3>1, <3>2
    <3>3. CASE PlainOf(rs, n) # Missing /\ GetOf(rs2, n) = GetOf(rs, n)
      <4>1. n < rs[Len(rs)].size
        BY <3>3, UnknownIsMissing
      <4>2. PICK i \in DOMAIN rs : n \in DOMAIN rs[i].objs
        BY <3>3 DEF PlainOf, ReadIn, HavingPlain
      <4>3. <<n, rs[i].objs[n].type>> \in Known(rs)
        BY <4>2, KnownIs
      <4>4. <<n, "form">> \in Known(rs)
        BY <4>3, KnownGrows DEF Struct, Shape, OneType
      <4>5. /\ GetOf(rs, n).fields.ref = ViewOf(rs, n).fields.ref
            /\ GetOf(rs, n).fields.items \subseteq ViewOf(rs, n).fields.items
        BY <4>4 DEF FormsAreRead, Faith
      <4>6. n \in Nat /\ rs[Len(rs)].size \in Nat
        <5>1. Len(rs) \in DOMAIN rs
          BY FileShape DEF Struct, Shape
        <5> QED
          BY <4>4, <5>1, KnownBelow DEF Struct, Shape
      <4>7. /\ r.objs[n].fields.ref = ViewOf(rs, n).fields.ref
            /\ ViewOf(rs, n).fields.items \subseteq r.objs[n].fields.items
        BY <2>0, <2>3, <4>1, <4>6 DEF Keeps
      <4> QED
        BY <3>1, <3>3, <4>5, <4>7
    <3> QED
      BY <2>3, <3>2, <3>3, GetAfter
  <2> QED
    BY <2>1, <2>2, <2>3
<1>4. OnceOnly(rs2)
  <2> SUFFICES ASSUME NEW i \in DOMAIN rs2, NEW j \in DOMAIN rs2,
                      NEW n \in DOMAIN rs2[i].objs \cap DOMAIN rs2[j].objs,
                      rs2[i].objs[n].type \notin Rewritten
               PROVE  i = j
    BY DEF OnceOnly
  <2>1. /\ (i \in DOMAIN rs /\ rs2[i] = rs[i]) \/ (i = Len(rs2) /\ rs2[i] = r)
        /\ (j \in DOMAIN rs /\ rs2[j] = rs[j]) \/ (j = Len(rs2) /\ rs2[j] = r)
    BY Grows DEF Struct, Shape
  <2>2. rs2[j].objs[n].type = rs2[i].objs[n].type
    <3>1. <<n, rs2[i].objs[n].type>> \in Known(rs2) /\ <<n, rs2[j].objs[n].type>> \in Known(rs2)
      BY KnownIs
    <3> QED
      BY <3>1 DEF Struct, OneType
  <2>3. \A k \in DOMAIN rs : n \in DOMAIN rs[k].objs => n \in Nat /\ n < rs[Len(rs)].size
    BY KnownIs, KnownBelow DEF Struct
  <2>4. rs[Len(rs)].size \in Nat
    BY FileShape DEF Struct, Shape
  <2>5. n \in DOMAIN r.objs /\ r.objs[n].type \notin Rewritten => n >= rs[Len(rs)].size
    BY DEF Keeps
  <2> QED
    BY <2>1, <2>2, <2>3, <2>4, <2>5 DEF OnceOnly, Faith
<1> QED
  BY <1>1, <1>2, <1>3, <1>4 DEF Faith

-----------------------------------------------------------------------------
(* What was embedded.                                                      *)

\* Revision k embeds the dictionary d, and no catalog since points elsewhere.
Embeds(rs, k, d) ==
  /\ k \in DOMAIN rs /\ rs[k].packed = {} /\ rs[k].table
  /\ Catalog \in DOMAIN rs[k].objs /\ d \in DOMAIN rs[k].objs /\ rs[k].objs[d].type = "dss"
  /\ rs[k].objs[d].streams \subseteq DOMAIN rs[k].objs
  /\ \A j \in DOMAIN rs : k <= j /\ Catalog \in DOMAIN rs[j].objs => rs[j].objs[Catalog].dss = d

LEMMA EmbedsIsRead ==
  ASSUME NEW rs, Struct(rs), NEW k, NEW d, Embeds(rs, k, d)
  PROVE  /\ ViewOf(rs, Catalog).dss = d /\ PlainOf(rs, Catalog).dss = d /\ GetOf(rs, Catalog).dss = d
         /\ PlainOf(rs, Catalog) # Missing
<1>0. IsFile(rs) /\ <<Catalog, "catalog">> \in Known(rs)
  BY DEF Struct, Shape, Roots
<1>1. ViewOf(rs, Catalog).dss = d
  <2>1. PICK i \in DOMAIN rs : Catalog \in DOMAIN rs[i].objs /\ k <= i /\ ViewOf(rs, Catalog) = rs[i].objs[Catalog]
    BY <1>0, Views DEF Embeds
  <2> QED
    BY <2>1 DEF Embeds
<1>2. PlainOf(rs, Catalog).dss = d /\ PlainOf(rs, Catalog) # Missing
  <2>1. PICK i \in DOMAIN rs : /\ Catalog \in DOMAIN rs[i].objs /\ k <= i
                               /\ PlainOf(rs, Catalog) = rs[i].objs[Catalog]
    BY <1>0, PlainReads DEF Embeds
  <2>2. rs[i].objs[Catalog].type = "catalog"
    BY <1>0, <2>1, WrittenIs
  <2> QED
    BY <2>1, <2>2 DEF Embeds, Missing, Body
<1> QED
  BY <1>1, <1>2 DEF GetOf

LEMMA EmbedsGrows ==
  ASSUME NEW rs, Struct(rs), NEW k, NEW d, Embeds(rs, k, d), NEW r, NEW rs2, Follows(rs, r, rs2),
         Catalog \in DOMAIN r.objs =>
           r.objs[Catalog].dss \in {ViewOf(rs, Catalog).dss, PlainOf(rs, Catalog).dss, GetOf(rs, Catalog).dss}
  PROVE  Embeds(rs2, k, d)
<1>1. /\ \A i \in DOMAIN rs : i \in DOMAIN rs2 /\ rs2[i] = rs[i]
      /\ \A i \in DOMAIN rs2 : i \in DOMAIN rs \/ rs2[i] = r
  BY Grows DEF Struct, Shape
<1>2. Catalog \in DOMAIN r.objs => r.objs[Catalog].dss = d
  BY EmbedsIsRead
<1>3. \A j \in DOMAIN rs2 : k <= j /\ Catalog \in DOMAIN rs2[j].objs => rs2[j].objs[Catalog].dss = d
  BY <1>1, <1>2 DEF Embeds
<1> QED
  BY <1>1, <1>3 DEF Embeds

\* The verifier finds an object that revision k wrote in plain text: by the tables, or
\* in the text.
LEMMA ByTablesFinds ==
  ASSUME Struct(revisions), NEW k \in DOMAIN revisions, revisions[k].packed = {}, revisions[k].table,
         NEW n \in DOMAIN revisions[k].objs
  PROVE  \E i \in DOMAIN revisions : /\ n \in DOMAIN revisions[i].objs /\ k <= i
                                     /\ ByTables(n) = revisions[i].objs[n]
<1> DEFINE found == {i \in TableChain : Defines(i, n)}
<1>0. IsFile(revisions) /\ DOMAIN revisions = 1..Len(revisions) /\ Len(revisions) \in Nat
  BY FileShape DEF Struct, Shape
<1>1. CASE found = {}
  <2>1. ByTables(n) = LastPlain(n)
    BY <1>1 DEF ByTables
  <2>2. LastPlain(n) = PlainOf(revisions, n)
    BY ReadingIs
  <2>3. PICK i \in DOMAIN revisions : /\ n \in DOMAIN revisions[i].objs /\ k <= i
                                      /\ PlainOf(revisions, n) = revisions[i].objs[n]
    BY <1>0, PlainReads
  <2> QED
    BY <2>1, <2>2, <2>3
<1>2. CASE found # {}
  <2>1. found \in SUBSET (DOMAIN revisions)
    BY DEF TableChain
  <2>2. PICK c : c \in found
    BY <1>2
  <2>3. ByTables(n) = revisions[LastOf(found)].objs[n]
    BY <1>2 DEF ByTables, BodyIn
  <2> DEFINE i == LastOf(found)
  <2> HIDE DEF i
  <2>4. i \in found /\ \A j \in found : j <= i
    <3> HIDE DEF found
    <3> QED
      BY <1>0, <2>1, <2>2, LastRead DEF i
  <2>5. i \in DOMAIN revisions /\ n \in DOMAIN revisions[i].objs
    BY <2>1, <2>4 DEF Defines
  <2>6. k <= i
    <3> SUFFICES ASSUME ~(k <= i)
                 PROVE  FALSE
      OBVIOUS
    <3>1. k \in found
      <4>1. \A j \in i..Len(revisions) : revisions[j].table
        BY <2>4 DEF TableChain
      <4>2. \A j \in k..Len(revisions) : j \in i..Len(revisions)
        BY <1>0, <2>5
      <4> QED
        BY <4>1, <4>2 DEF TableChain, Defines
    <3> QED
      BY <1>0, <2>4, <2>5, <3>1
  <2> QED
    BY <2>3, <2>5, <2>6 DEF i
<1> QED
  BY <1>1, <1>2

LEMMA EmbedsIsFound ==
  ASSUME Struct(revisions), OnceOnly(revisions), NEW k, NEW d, Embeds(revisions, k, d)
  PROVE  DssFound.type = "dss" /\ \A n \in DssFound.streams : ByTables(n).type = "stream"
<1> USE DEF Embeds
<1>1. ByTables(Catalog).dss = d /\ ByTables(Catalog) # Missing
  <2>1. PICK i \in DOMAIN revisions : /\ Catalog \in DOMAIN revisions[i].objs /\ k <= i
                                      /\ ByTables(Catalog) = revisions[i].objs[Catalog]
    BY ByTablesFinds
  <2>2. revisions[i].objs[Catalog].type = "catalog"
    BY <2>1, WrittenIs DEF Struct, Roots
  <2> QED
    BY <2>1, <2>2 DEF Missing, Body
<1>2. <<d, "dss">> \in Known(revisions)
  BY KnownIs
<1>3. d # 0
  BY <1>2, KnownBelow DEF Struct
<1>4. DssFound = ByTables(d)
  BY <1>1, <1>3 DEF DssFound
<1>5. ByTables(d) = revisions[k].objs[d]
  <2>1. PICK i \in DOMAIN revisions : /\ d \in DOMAIN revisions[i].objs
                                      /\ ByTables(d) = revisions[i].objs[d]
    BY ByTablesFinds
  <2>2. i = k
    BY <2>1 DEF OnceOnly, Rewritten
  <2> QED
    BY <2>1, <2>2
<1>6. \A n \in revisions[k].objs[d].streams : ByTables(n).type = "stream"
  <2> TAKE n \in revisions[k].objs[d].streams
  <2>1. BodyOK(d, revisions[k].objs[d], Known(revisions))
    BY DEF Struct, Sound
  <2>2. <<n, "stream">> \in Known(revisions)
    BY <2>1 DEF BodyOK, Are
  <2>3. PICK i \in DOMAIN revisions : /\ n \in DOMAIN revisions[i].objs
                                      /\ ByTables(n) = revisions[i].objs[n]
    BY ByTablesFinds
  <2> QED
    BY <2>2, <2>3, WrittenIs
<1> QED
  BY <1>4, <1>5, <1>6

-----------------------------------------------------------------------------
(* The names of the fields.                                                *)

NamesDifferIn(rs) == \A m, n \in FieldsOf(rs) : m # n => ViewOf(rs, m).name # ViewOf(rs, n).name

LEMMA ElementsAreWidgets ==
  ASSUME NEW rs, Struct(rs), NEW a,
         ArrayOK(a, FirstFields, Known(rs)), Are("widget", a.items, Known(rs))
  PROVE  Are("widget", ElementsOf(rs, a), Known(rs))
<1>1. Are("widget", {}, Known(rs)) /\ Known(rs) \subseteq Known(rs)
  BY DEF Are
<1> QED
  BY <1>1, FieldsGrow

LEMMA FieldsAreWidgets ==
  ASSUME NEW rs, Struct(rs)
  PROVE  Are("widget", FieldsOf(rs), Known(rs))
<1> DEFINE form == ViewOf(rs, Catalog).form
<1>1. FormOK(form, Known(rs))
  <2>1. <<Catalog, "catalog">> \in Known(rs)
    BY DEF Struct, Roots
  <2>2. ViewOf(rs, Catalog).type = "catalog" /\ BodyOK(Catalog, ViewOf(rs, Catalog), Known(rs))
    BY <2>1, ReadsOf
  <2> QED
    BY <2>2 DEF BodyOK
<1> HIDE DEF form
<1>2. Are("widget", {}, Known(rs))
  BY DEF Are
<1>3. CASE form.kind = "none"
  BY <1>2, <1>3 DEF FieldsOf, form
<1>4. CASE form.kind = "inline"
  <2>1. FieldsOf(rs) = ElementsOf(rs, form.fields)
    BY <1>4 DEF FieldsOf, form
  <2>2. ArrayOK(form.fields, FirstFields, Known(rs)) /\ Are("widget", form.fields.items, Known(rs))
    BY <1>1 DEF FormOK
  <2> QED
    BY <1>2, <2>1, <2>2, ElementsAreWidgets
<1>5. CASE form.kind = "ref"
  <2>1. FieldsOf(rs) = ElementsOf(rs, ViewOf(rs, form.num).fields)
    BY <1>5 DEF FieldsOf, form
  <2>2. <<form.num, "form">> \in Known(rs)
    BY <1>1, <1>5 DEF FormOK
  <2>3. ViewOf(rs, form.num).type = "form" /\ BodyOK(form.num, ViewOf(rs, form.num), Known(rs))
    BY <2>2, ReadsOf
  <2>4. /\ ArrayOK(ViewOf(rs, form.num).fields, FirstFields, Known(rs))
        /\ Are("widget", ViewOf(rs, form.num).fields.items, Known(rs))
    BY <2>3 DEF BodyOK
  <2> QED
    BY <1>2, <2>1, <2>4, ElementsAreWidgets
<1> QED
  BY <1>1, <1>3, <1>4, <1>5 DEF FormOK

LEMMA FieldsHaveNames ==
  ASSUME NEW rs, Struct(rs), NEW n \in FieldsOf(rs)
  PROVE  ViewOf(rs, n).type = "widget" /\ ViewOf(rs, n).name \in Nat
<1>1. <<n, "widget">> \in Known(rs)
  BY FieldsAreWidgets DEF Are
<1>2. ViewOf(rs, n).type = "widget" /\ BodyOK(n, ViewOf(rs, n), Known(rs))
  BY <1>1, ReadsOf
<1> QED
  BY <1>2 DEF BodyOK

\* No field is written again.
LEMMA FieldsUndisturbed ==
  ASSUME NEW rs, Struct(rs), NEW r, NEW rs2, Follows(rs, r, rs2), Keeps(rs, r), OneType(rs2)
  PROVE  \A n \in FieldsOf(rs) : ViewOf(rs2, n) = ViewOf(rs, n)
<1> TAKE n \in FieldsOf(rs)
<1>1. <<n, "widget">> \in Known(rs)
  BY FieldsAreWidgets DEF Are
<1>2. n \notin DOMAIN r.objs
  <2> SUFFICES ASSUME n \in DOMAIN r.objs
               PROVE  FALSE
    OBVIOUS
  <2>1. <<n, "widget">> \in Known(rs2) /\ <<n, r.objs[n].type>> \in Known(rs2)
    BY <1>1, KnownGrows DEF Struct, Shape
  <2>2. r.objs[n].type = "widget"
    BY <2>1 DEF OneType
  <2>3. n >= rs[Len(rs)].size
    BY <2>2 DEF Keeps, Rewritten
  <2>4. n \in Nat /\ n < rs[Len(rs)].size /\ rs[Len(rs)].size \in Nat
    BY <1>1, KnownBelow, FileShape DEF Struct, Shape
  <2> QED
    BY <2>3, <2>4
<1> QED
  BY <1>2, ReadAfter DEF Struct, Shape

LEMMA NamesGrow ==
  ASSUME NEW rs, Struct(rs), NEW r, NEW rs2, Follows(rs, r, rs2), Keeps(rs, r), NamesDifferIn(rs),
         NEW w, w \in DOMAIN r.objs, OneType(rs2),
         FieldsOf(rs2) \subseteq FieldsOf(rs) \cup {w},
         \A n \in FieldsOf(rs) : ViewOf(rs, n).name # r.objs[w].name
  PROVE  NamesDifferIn(rs2)
<1>1. ViewOf(rs2, w) = r.objs[w]
  BY ReadAfter DEF Struct, Shape
<1>2. \A n \in FieldsOf(rs) : ViewOf(rs2, n) = ViewOf(rs, n)
  BY FieldsUndisturbed
<1> QED
  BY <1>1, <1>2 DEF NamesDifferIn

LEMMA NamesStay ==
  ASSUME NEW rs, Struct(rs), NEW r, NEW rs2, Follows(rs, r, rs2), Keeps(rs, r), NamesDifferIn(rs),
         OneType(rs2), FieldsOf(rs2) \subseteq FieldsOf(rs)
  PROVE  NamesDifferIn(rs2)
BY FieldsUndisturbed DEF NamesDifferIn

-----------------------------------------------------------------------------
(* The annotations of the pages.                                           *)

AnnotsOf(rs, p) == ElementsOf(rs, ViewOf(rs, PageNum(p)).annots)

LEMMA AnnotsIs ==
  \A p : Annots(p) = AnnotsOf(revisions, p) /\ Annots(p)' = AnnotsOf(revisions', p)
<1>1. \A p : Annots(p) = AnnotsOf(revisions, p)
  BY ReadingIs DEF Annots, AnnotsOf, Elements, ElementsOf
<1>2. \A p : Annots(p)' = AnnotsOf(revisions', p)
  BY DEF Annots, AnnotsOf, Elements, ElementsOf, Viewed, BodyIn, Defines, ViewOf, ReadIn, Having
<1> QED
  BY <1>1, <1>2

NotOfPages(n) == \A q \in Pages : n # PageNum(q) /\ n # AnnotsNum(q)

\* Revision r adds new to the annotations of page p, which it found as page.
Redraws(rs, r, p, page, new) ==
  LET a == AnnotsGrown(rs, PageNum(p), page, new) IN
  /\ \A n \in DOMAIN a : n \in DOMAIN r.objs /\ r.objs[n] = a[n]
  /\ \A n \in DOMAIN r.objs : n \in DOMAIN a \/ NotOfPages(n)

\* The widget of the next number joins the fields kept, and the annotations of page p.
Lists(rs2, kept, size) == FieldsOf(rs2) = kept \cup {size + 1}
Draws(rs, r, p, page, size, link) == Redraws(rs, r, p, page, {size + 1} \cup link)

LEMMA PageIs ==
  ASSUME NEW rs, Struct(rs), NEW p \in Pages
  PROVE  ArrayOK(ViewOf(rs, PageNum(p)).annots, AnnotsNum(p), Known(rs))
<1>1. <<PageNum(p), "page">> \in Known(rs)
  BY DEF Struct, Roots
<1>2. ViewOf(rs, PageNum(p)).type = "page" /\ BodyOK(PageNum(p), ViewOf(rs, PageNum(p)), Known(rs))
  BY <1>1, ReadsOf
<1> QED
  BY <1>2, NumbersAre DEF BodyOK

LEMMA AnnotsSame ==
  ASSUME NEW rs, Struct(rs), NEW r, NEW rs2, Follows(rs, r, rs2), NEW q \in Pages,
         PageNum(q) \notin DOMAIN r.objs, AnnotsNum(q) \notin DOMAIN r.objs
  PROVE  AnnotsOf(rs2, q) = AnnotsOf(rs, q)
<1>1. ViewOf(rs2, PageNum(q)) = ViewOf(rs, PageNum(q)) /\ ViewOf(rs2, AnnotsNum(q)) = ViewOf(rs, AnnotsNum(q))
  BY ReadAfter DEF Struct, Shape
<1>2. ViewOf(rs, PageNum(q)).annots.ref \in {0, AnnotsNum(q)}
  BY PageIs DEF ArrayOK
<1> QED
  BY <1>1, <1>2 DEF AnnotsOf, ElementsOf

LEMMA AnnotsReach ==
  ASSUME NEW rs, Struct(rs), NEW r, NEW rs2, Follows(rs, r, rs2), NEW p \in Pages, NEW new,
         Redraws(rs, r, p, ViewOf(rs, PageNum(p)), new)
  PROVE  \A q \in Pages : AnnotsOf(rs2, q) = IF q = p THEN AnnotsOf(rs, p) \cup new ELSE AnnotsOf(rs, q)
<1> DEFINE page == ViewOf(rs, PageNum(p))
           a == AnnotsGrown(rs, PageNum(p), page, new)
           o == r.objs
<1>1. /\ \A n \in DOMAIN a : n \in DOMAIN o /\ o[n] = a[n]
      /\ \A n \in DOMAIN o : n \in DOMAIN a \/ NotOfPages(n)
  BY DEF Redraws
<1>2. ArrayOK(page.annots, AnnotsNum(p), Known(rs))
  BY PageIs
<1>3. \A n : ViewOf(rs2, n) = IF n \in DOMAIN o THEN o[n] ELSE ViewOf(rs, n)
  BY ReadAfter DEF Struct, Shape
<1> HIDE DEF o
<1>4. CASE page.annots.ref = 0
  <2> DEFINE b == PageBody(Grown(page.annots, new))
  <2>1. a = Part(PageNum(p), b)
    BY <1>4 DEF AnnotsGrown
  <2>2. b.annots = Here(page.annots.items \cup new)
    BY <1>4 DEF PageBody, Grown
  <2> HIDE DEF b, a
  <2>3. DOMAIN a = {PageNum(p)} /\ a[PageNum(p)] = b
    BY <2>1, PartIs
  <2>4. ViewOf(rs2, PageNum(p)) = b
    BY <1>1, <1>3, <2>3
  <2>5. AnnotsOf(rs2, p) = page.annots.items \cup new
    BY <2>2, <2>4 DEF AnnotsOf, ElementsOf, Here
  <2>6. AnnotsOf(rs, p) = page.annots.items
    BY <1>4 DEF AnnotsOf, ElementsOf
  <2>7. \A q \in Pages : q # p => PageNum(q) \notin DOMAIN o /\ AnnotsNum(q) \notin DOMAIN o
    BY <1>1, <2>3, NumbersAre DEF NotOfPages
  <2>8. \A q \in Pages : q # p => AnnotsOf(rs2, q) = AnnotsOf(rs, q)
    BY <2>7, AnnotsSame DEF o
  <2> QED
    BY <2>5, <2>6, <2>8
<1>5. CASE page.annots.ref # 0
  <2> DEFINE b == ArrayBody(ElementsOf(rs, page.annots) \cup new)
  <2>1. page.annots.ref = AnnotsNum(p)
    BY <1>2, <1>5 DEF ArrayOK
  <2>2. a = Part(AnnotsNum(p), b)
    BY <1>5, <2>1 DEF AnnotsGrown, ArrayGrown
  <2>3. b.items = AnnotsOf(rs, p) \cup new
    BY DEF ArrayBody, AnnotsOf
  <2> HIDE DEF b, a
  <2>4. DOMAIN a = {AnnotsNum(p)} /\ a[AnnotsNum(p)] = b
    BY <2>2, PartIs
  <2>5. ViewOf(rs2, AnnotsNum(p)) = b
    BY <1>1, <1>3, <2>4
  <2>6. PageNum(p) \notin DOMAIN o
    BY <1>1, <2>4, NumbersAre DEF NotOfPages
  <2>7. ViewOf(rs2, PageNum(p)) = page
    BY <1>3, <2>6
  <2>8. AnnotsOf(rs2, p) = AnnotsOf(rs, p) \cup new
    BY <1>5, <2>1, <2>3, <2>5, <2>7 DEF AnnotsOf, ElementsOf
  <2>9. \A q \in Pages : q # p => PageNum(q) \notin DOMAIN o /\ AnnotsNum(q) \notin DOMAIN o
    BY <1>1, <2>4, NumbersAre DEF NotOfPages
  <2>10. \A q \in Pages : q # p => AnnotsOf(rs2, q) = AnnotsOf(rs, q)
    BY <2>9, AnnotsSame DEF o
  <2> QED
    BY <2>8, <2>10
<1> QED
  BY <1>4, <1>5

-----------------------------------------------------------------------------
(* Where nothing that was in plain text is packed, all readings agree.     *)

Clear(rs) == \A n : PlainOf(rs, n) \in {Missing, ViewOf(rs, n)}

LEMMA ClearReads ==
  ASSUME NEW rs, Clear(rs)
  PROVE  \A n : GetOf(rs, n) = ViewOf(rs, n)
BY DEF Clear, GetOf

LEMMA ClearGrows ==
  ASSUME NEW rs, Struct(rs), Clear(rs), NEW r, NEW rs2, Follows(rs, r, rs2),
         \A n \in r.packed : PlainOf(rs, n) = Missing
  PROVE  Clear(rs2)
<1> SUFFICES ASSUME NEW n
             PROVE  PlainOf(rs2, n) \in {Missing, ViewOf(rs2, n)}
  BY DEF Clear
<1>1. /\ ViewOf(rs2, n) = IF n \in DOMAIN r.objs THEN r.objs[n] ELSE ViewOf(rs, n)
      /\ PlainOf(rs2, n) = IF n \in DOMAIN r.objs \ r.packed THEN r.objs[n] ELSE PlainOf(rs, n)
  BY ReadAfter DEF Struct, Shape
<1>2. PlainOf(rs, n) \in {Missing, ViewOf(rs, n)}
  BY DEF Clear
<1> QED
  BY <1>1, <1>2

-----------------------------------------------------------------------------
(* addIncrementalSignature.                                                *)

LEMMA PartOver ==
  ASSUME NEW m, NEW b, NEW g
  PROVE  /\ DOMAIN Over(Part(m, b), g) = {m} \cup DOMAIN g
         /\ Over(Part(m, b), g)[m] = b
         /\ \A n : n # m /\ n \in DOMAIN g => Over(Part(m, b), g)[n] = g[n]
BY DEF Over, Part

\* The form it finds, the fields it keeps, and the objects it writes.
OldForm(rs) == GetOf(rs, Catalog).form

KeptFields(rs) ==
  IF OldForm(rs).kind = "ref" /\ GetOf(rs, OldForm(rs).num) # Missing
  THEN GetOf(rs, OldForm(rs).num).fields ELSE Here({})

SignedObjects(rs, p, size, formNum, link, name) ==
  Over(Over(AnnotsGrown(rs, PageNum(p), GetOf(rs, PageNum(p)), {size + 1} \cup link),
            ArrayGrown(rs, KeptFields(rs), {size + 1})),
  Over(Part(formNum, FormBody(Grown(KeptFields(rs), {size + 1}))),
  Over(Part(Catalog, UpsertForm(GetOf(rs, Catalog), FormAt(formNum))),
  Over(Part(size + 1, WidgetBody(name)),
  Over(Part(size, Body("sig")),
  Over(Part(size + 2, Body("drawing")),
       [n \in link |-> Body("link")]))))))

LEMMA OldFormOK ==
  ASSUME NEW rs, Struct(rs)
  PROVE  /\ GetOf(rs, Catalog).type = "catalog" /\ BodyOK(Catalog, GetOf(rs, Catalog), Known(rs))
         /\ GetOf(rs, Catalog) = CatalogBody(OldForm(rs), GetOf(rs, Catalog).dss)
         /\ FormOK(OldForm(rs), Known(rs))
         /\ GetOf(rs, Catalog).dss # 0 => <<GetOf(rs, Catalog).dss, "dss">> \in Known(rs)
<1>1. <<Catalog, "catalog">> \in Known(rs)
  BY DEF Struct, Roots
<1>2. GetOf(rs, Catalog).type = "catalog" /\ BodyOK(Catalog, GetOf(rs, Catalog), Known(rs))
  BY <1>1, ReadsOf
<1> QED
  BY <1>2 DEF BodyOK, OldForm

\* It keeps nothing that is not a field of the file.
LEMMA KeptFieldsAre ==
  ASSUME NEW rs, Struct(rs), Faith(rs)
  PROVE  /\ ArrayOK(KeptFields(rs), FirstFields, Known(rs))
         /\ Are("widget", KeptFields(rs).items, Known(rs))
         /\ ElementsOf(rs, KeptFields(rs)) \subseteq FieldsOf(rs)
<1> DEFINE num == OldForm(rs).num
           fields == GetOf(rs, num).fields
<1>1. CASE OldForm(rs).kind = "ref" /\ GetOf(rs, num) # Missing
  <2>1. <<num, "form">> \in Known(rs)
    BY <1>1, OldFormOK DEF FormOK
  <2>2. KeptFields(rs) = fields
    BY <1>1 DEF KeptFields
  <2>3. GetOf(rs, num).type = "form" /\ BodyOK(num, GetOf(rs, num), Known(rs))
    BY <2>1, ReadsOf
  <2>4. ArrayOK(fields, FirstFields, Known(rs)) /\ Are("widget", fields.items, Known(rs))
    BY <2>3 DEF BodyOK
  <2>5. ViewOf(rs, Catalog).form = OldForm(rs)
    BY <1>1 DEF Faith, CatalogIsRead, OldForm
  <2>6. FieldsOf(rs) = ElementsOf(rs, ViewOf(rs, num).fields)
    BY <1>1, <2>5 DEF FieldsOf
  <2>7. fields.ref = ViewOf(rs, num).fields.ref /\ fields.items \subseteq ViewOf(rs, num).fields.items
    BY <2>1 DEF Faith, FormsAreRead
  <2>8. ElementsOf(rs, fields) \subseteq ElementsOf(rs, ViewOf(rs, num).fields)
    BY <2>7 DEF ElementsOf
  <2> QED
    BY <2>2, <2>4, <2>6, <2>8
<1>2. CASE ~(OldForm(rs).kind = "ref" /\ GetOf(rs, num) # Missing)
  <2>1. KeptFields(rs) = Here({})
    BY <1>2 DEF KeptFields
  <2> QED
    BY <2>1 DEF Here, ArrayOK, Are, ElementsOf
<1> QED
  BY <1>1, <1>2

\* The numbers it takes: of a new form, or of the one it rewrites.
NumbersTaken(rs, size, formNum, link) ==
  /\ size = rs[Len(rs)].size
  /\ \/ formNum = size + 3 /\ link \subseteq {size + 4}
     \/ <<formNum, "form">> \in Known(rs) /\ link \subseteq {size + 3}

LEMMA SignedNumbers ==
  ASSUME NEW rs, Struct(rs), NEW size,
         NEW formNum, NEW link,
         NumbersTaken(rs, size, formNum, link)
  PROVE  /\ size \in Nat /\ FirstWidget < size
         /\ formNum \in Nat /\ (formNum = FirstForm \/ FirstSig <= formNum)
         /\ formNum \notin {size, size + 1, size + 2} \cup link
         /\ \A n \in link : n \in Nat /\ n > size + 2
<1> USE DEF NumbersTaken
<1>1. size \in Nat /\ FirstWidget < size
  BY FileShape DEF Struct, Shape
<1>2. /\ formNum \in Nat /\ (formNum = FirstForm \/ FirstSig <= formNum)
      /\ formNum \notin {size, size + 1, size + 2} \cup link
      /\ \A n \in link : n \in Nat /\ n > size + 2
  <2>1. CASE formNum = size + 3 /\ link \subseteq {size + 4}
    <3>1. FirstSig \in Nat /\ FirstWidget = FirstSig + 1
      BY NumbersAre
    <3>2. \A n \in link : n = size + 4
      BY <2>1
    <3>3. formNum \in Nat /\ FirstSig <= formNum /\ formNum \notin {size, size + 1, size + 2}
      BY <1>1, <2>1, <3>1
    <3>4. formNum \notin link
      <4>1. formNum # size + 4
        BY <1>1, <2>1
      <4> QED
        BY <3>2, <4>1
    <3>5. \A n \in link : n \in Nat /\ n > size + 2
      BY <1>1, <3>2
    <3> QED
      BY <3>3, <3>4, <3>5
  <2>2. CASE <<formNum, "form">> \in Known(rs) /\ link \subseteq {size + 3}
    <3>1. formNum \in Nat /\ formNum < size
      BY <2>2, KnownBelow DEF Struct
    <3>2. ViewOf(rs, formNum).type = "form" /\ BodyOK(formNum, ViewOf(rs, formNum), Known(rs))
      BY <2>2, ReadsOf
    <3>3. formNum = FirstForm \/ FirstSig <= formNum
      BY <3>1, <3>2, NumbersAre DEF BodyOK
    <3> QED
      BY <1>1, <2>2, <3>1, <3>3
  <2> QED
    BY <2>1, <2>2
<1> QED
  BY <1>1, <1>2

\* What is at each number of the objects it writes.
WritesSigned(rs, o, p, size, formNum, link, name) ==
  LET kept == KeptFields(rs) IN
  /\ DOMAIN o \subseteq {PageNum(p), AnnotsNum(p), FirstFields, formNum, Catalog,
                         size, size + 1, size + 2} \cup link
  /\ {formNum, Catalog, size + 1} \cup link \subseteq DOMAIN o
  /\ o[formNum] = FormBody(Grown(kept, {size + 1}))
  /\ o[Catalog] = UpsertForm(GetOf(rs, Catalog), FormAt(formNum))
  /\ o[size + 1] = WidgetBody(name)
  /\ \A n \in link : o[n] = Body("link")
  /\ kept.ref # 0 => /\ kept.ref = FirstFields /\ FirstFields \in DOMAIN o
                     /\ o[FirstFields] = ArrayBody(ElementsOf(rs, kept) \cup {size + 1})
  /\ \A n \in DOMAIN o : o[n].type \notin Rewritten => n >= size
  /\ LET a == AnnotsGrown(rs, PageNum(p), GetOf(rs, PageNum(p)), {size + 1} \cup link) IN
     /\ \A n \in DOMAIN a : n \in DOMAIN o /\ o[n] = a[n]
     /\ \A n \in DOMAIN o :
          n \in DOMAIN a \/ n \in {FirstFields, formNum, Catalog, size, size + 1, size + 2} \cup link

LEMMA SignedObjectsAre ==
  ASSUME NEW rs, Struct(rs), Faith(rs), NEW p \in Pages, NEW size,
         NEW formNum, NEW link, NEW name \in Nat,
         NumbersTaken(rs, size, formNum, link)
  PROVE  WritesSigned(rs, SignedObjects(rs, p, size, formNum, link, name), p, size, formNum, link, name)
<1> DEFINE kept == KeptFields(rs)
           g == ArrayGrown(rs, kept, {size + 1})
           a == AnnotsGrown(rs, PageNum(p), GetOf(rs, PageNum(p)), {size + 1} \cup link)
           o6 == [n \in link |-> Body("link")]
           o5 == Over(Part(size + 2, Body("drawing")), o6)
           o4 == Over(Part(size, Body("sig")), o5)
           o3 == Over(Part(size + 1, WidgetBody(name)), o4)
           o2 == Over(Part(Catalog, UpsertForm(GetOf(rs, Catalog), FormAt(formNum))), o3)
           o1 == Over(Part(formNum, FormBody(Grown(kept, {size + 1}))), o2)
           o == Over(Over(a, g), o1)
<1>0. o = SignedObjects(rs, p, size, formNum, link, name)
  BY DEF SignedObjects
<1>1. size \in Nat /\ FirstWidget < size
  BY SignedNumbers
<1>2. /\ formNum \in Nat /\ (formNum = FirstForm \/ FirstSig <= formNum)
      /\ formNum \notin {size, size + 1, size + 2} \cup link
      /\ \A n \in link : n \in Nat /\ n > size + 2
  BY SignedNumbers
<1> DEFINE T == Known(rs) \cup {<<n, "widget">> : n \in {size + 1} \cup link}
<1>3. Known(rs) \subseteq T /\ Drawn({size + 1} \cup link, T) /\ Are("widget", {size + 1}, T)
  BY DEF Drawn, Are
<1> HIDE DEF T
<1>4. /\ DOMAIN a \subseteq {PageNum(p), AnnotsNum(p)}
      /\ \A n \in DOMAIN a : a[n].type \in {"page", "array"}
  <2>1. <<PageNum(p), "page">> \in Known(rs)
    BY DEF Struct, Roots
  <2>2. GetOf(rs, PageNum(p)).type = "page" /\ BodyOK(PageNum(p), GetOf(rs, PageNum(p)), Known(rs))
    BY <2>1, ReadsOf
  <2> QED
    BY <1>3, <2>2, AnnotsGrow
<1>5. /\ DOMAIN g = (IF kept.ref = 0 THEN {} ELSE {FirstFields})
      /\ kept.ref # 0 => /\ kept.ref = FirstFields
                         /\ g[FirstFields] = ArrayBody(ElementsOf(rs, kept) \cup {size + 1})
  <2>1. ArrayOK(kept, FirstFields, Known(rs)) /\ Are("widget", kept.items, Known(rs))
    BY KeptFieldsAre
  <2> DEFINE new == {size + 1}
  <2>2. Are("widget", new, T)
    BY <1>3
  <2> HIDE DEF kept, new
  <2>3. DOMAIN ArrayGrown(rs, kept, new) = (IF kept.ref = 0 THEN {} ELSE {FirstFields})
    BY <1>3, <2>1, <2>2, FieldsGrow
  <2>4. kept.ref # 0 => kept.ref = FirstFields
    BY <1>3, <2>1, <2>2, FieldsGrow
  <2>5. kept.ref # 0 => ArrayGrown(rs, kept, new)[FirstFields] = ArrayBody(ElementsOf(rs, kept) \cup new)
    BY <2>4 DEF ArrayGrown, Part
  <2> QED
    BY <2>3, <2>4, <2>5 DEF new
<1>6. /\ DOMAIN o6 = link /\ \A n \in link : o6[n] = Body("link")
  OBVIOUS
<1> HIDE DEF kept, g, a, o6
<1> DEFINE B2 == Body("drawing")
           B0 == Body("sig")
           BC == UpsertForm(GetOf(rs, Catalog), FormAt(formNum))
           BF == FormBody(Grown(kept, {size + 1}))
<1> HIDE DEF B2, B0, BC, BF
<1>7. /\ DOMAIN o5 = {size + 2} \cup DOMAIN o6 /\ o5[size + 2] = B2
      /\ \A n : n # size + 2 /\ n \in DOMAIN o6 => o5[n] = o6[n]
  BY DEF B2, Over, Part
<1> HIDE DEF o5
<1>8. /\ DOMAIN o4 = {size} \cup DOMAIN o5 /\ o4[size] = B0
      /\ \A n : n # size /\ n \in DOMAIN o5 => o4[n] = o5[n]
  BY DEF B0, Over, Part
<1> HIDE DEF o4
<1>9. /\ DOMAIN o3 = {size + 1} \cup DOMAIN o4 /\ o3[size + 1] = WidgetBody(name)
      /\ \A n : n # size + 1 /\ n \in DOMAIN o4 => o3[n] = o4[n]
  BY DEF Over, Part
<1> HIDE DEF o3
<1>10. /\ DOMAIN o2 = {Catalog} \cup DOMAIN o3 /\ o2[Catalog] = BC
       /\ \A n : n # Catalog /\ n \in DOMAIN o3 => o2[n] = o3[n]
  BY DEF BC, Over, Part
<1> HIDE DEF o2
<1>11. /\ DOMAIN o1 = {formNum} \cup DOMAIN o2 /\ o1[formNum] = BF
       /\ \A n : n # formNum /\ n \in DOMAIN o2 => o1[n] = o2[n]
  BY DEF BF, Over, Part
<1> HIDE DEF o1
<1>a. formNum # Catalog /\ Catalog = 1 /\ Catalog < size
  BY <1>1, <1>2, NumbersAre
<1>b. DOMAIN o1 = {formNum, Catalog, size + 1, size, size + 2} \cup link
  BY <1>6, <1>7, <1>8, <1>9, <1>10, <1>11
<1>c. o1[formNum] = BF /\ o1[Catalog] = BC
  BY <1>a, <1>10, <1>11
<1>d. o1[size + 1] = WidgetBody(name)
  <2>1. size + 1 # formNum /\ size + 1 # Catalog
    BY <1>1, <1>2, <1>a
  <2> QED
    BY <2>1, <1>9, <1>10, <1>11
<1>e. \A n \in link : o1[n] = Body("link")
  <2> TAKE n \in link
  <2>1. n # formNum /\ n # Catalog /\ n # size /\ n # size + 1 /\ n # size + 2
    BY <1>1, <1>2, <1>a
  <2> QED
    BY <2>1, <1>6, <1>7, <1>8, <1>9, <1>10, <1>11
<1> DEFINE h == Over(a, g)
<1>12. /\ DOMAIN h = DOMAIN a \cup DOMAIN g
       /\ \A n \in DOMAIN h : n \notin DOMAIN a => h[n] = g[n]
       /\ \A n \in DOMAIN h : n \in DOMAIN a => h[n] = a[n]
  BY DEF Over
<1>13. /\ DOMAIN o = DOMAIN h \cup DOMAIN o1
       /\ \A n \in DOMAIN o1 : n \notin DOMAIN h => o[n] = o1[n]
       /\ \A n \in DOMAIN h : o[n] = h[n]
  BY DEF Over
<1> HIDE DEF h, o
<1>14. \A n \in DOMAIN h : n \in {PageNum(p), AnnotsNum(p), FirstFields}
  BY <1>4, <1>5, <1>12
<1>15. \A n \in DOMAIN o1 : n \notin DOMAIN h
  <2>1. /\ PageNum(p) \in Nat /\ AnnotsNum(p) \in Nat /\ FirstSig \in Nat /\ FirstWidget = FirstSig + 1
        /\ 3 < PageNum(p) /\ 3 < AnnotsNum(p) /\ PageNum(p) < FirstSig /\ AnnotsNum(p) < FirstSig
        /\ FirstForm = 2 /\ FirstFields = 3 /\ 3 < FirstSig
    BY NumbersAre
  <2>2. \A n \in DOMAIN o1 : n = FirstForm \/ n >= FirstSig \/ n = 1
    BY <1>1, <1>2, <1>a, <1>b, <2>1
  <2> QED
    BY <1>14, <2>1, <2>2
<1>16. kept.ref # 0 => /\ kept.ref = FirstFields /\ FirstFields \in DOMAIN o
                       /\ o[FirstFields] = ArrayBody(ElementsOf(rs, kept) \cup {size + 1})
  <2> HAVE kept.ref # 0
  <2>1. FirstFields \in DOMAIN g /\ FirstFields \notin DOMAIN a
    BY <1>4, <1>5, NumbersAre
  <2> QED
    BY <1>5, <1>12, <1>13, <2>1
<1>17. \A n \in DOMAIN o : o[n].type \notin Rewritten => n >= size
  <2> TAKE n \in DOMAIN o
  <2> HAVE o[n].type \notin Rewritten
  <2>1. n \notin DOMAIN a
    BY <1>4, <1>12, <1>13 DEF Rewritten
  <2>2. n \notin DOMAIN g
    <3> SUFFICES ASSUME n \in DOMAIN g
                 PROVE  FALSE
      OBVIOUS
    <3>1. n = FirstFields /\ kept.ref # 0
      BY <1>5
    <3> QED
      BY <1>16, <3>1 DEF ArrayBody, Rewritten
  <2>3. n \in DOMAIN o1
    BY <1>12, <1>13, <2>1, <2>2
  <2>4. n # Catalog /\ n # formNum
    <3>1. BF.type = "form"
      BY DEF BF, FormBody
    <3>2. BC.type = "catalog"
      <4>1. GetOf(rs, Catalog) = CatalogBody(OldForm(rs), GetOf(rs, Catalog).dss)
        BY OldFormOK
      <4>2. \A x, y, z : UpsertForm(CatalogBody(x, y), z) = CatalogBody(z, y)
        BY DEF UpsertForm, CatalogBody
      <4>3. BC = CatalogBody(FormAt(formNum), GetOf(rs, Catalog).dss)
        BY <4>1, <4>2 DEF BC
      <4> QED
        BY <4>3 DEF CatalogBody
    <3> QED
      BY <1>b, <1>c, <1>13, <1>15, <2>3, <3>1, <3>2 DEF Rewritten
  <2> QED
    BY <1>1, <1>2, <1>b, <1>c, <2>3, <2>4
<1>18. /\ {formNum, Catalog, size + 1} \cup link \subseteq DOMAIN o
       /\ o[formNum] = BF /\ o[Catalog] = BC /\ o[size + 1] = WidgetBody(name)
       /\ \A n \in link : o[n] = Body("link")
  BY <1>b, <1>c, <1>d, <1>e, <1>13, <1>15
<1>19. DOMAIN o \subseteq {PageNum(p), AnnotsNum(p), FirstFields, formNum, Catalog,
                           size, size + 1, size + 2} \cup link
  BY <1>b, <1>c, <1>13, <1>14
<1>20. /\ \A n \in DOMAIN a : n \in DOMAIN o /\ o[n] = a[n]
       /\ \A n \in DOMAIN o :
            n \in DOMAIN a \/ n \in {FirstFields, formNum, Catalog, size, size + 1, size + 2} \cup link
  <2>1. \A n \in DOMAIN a : n \in DOMAIN o /\ o[n] = a[n]
    BY <1>12, <1>13
  <2>2. \A n \in DOMAIN o : n \in DOMAIN a \/ n = FirstFields \/ n \in DOMAIN o1
    BY <1>5, <1>12, <1>13
  <2> QED
    BY <1>b, <2>1, <2>2
<1>21. LET b == AnnotsGrown(rs, PageNum(p), GetOf(rs, PageNum(p)), {size + 1} \cup link) IN
       /\ \A n \in DOMAIN b : n \in DOMAIN o /\ o[n] = b[n]
       /\ \A n \in DOMAIN o :
            n \in DOMAIN b \/ n \in {FirstFields, formNum, Catalog, size, size + 1, size + 2} \cup link
  BY <1>20 DEF a
<1> QED
  BY <1>0, <1>16, <1>17, <1>18, <1>19, <1>21 DEF kept, BF, BC, WritesSigned

LEMMA SignedAppendable ==
  ASSUME NEW rs, Struct(rs), Faith(rs), NEW p \in Pages, NEW size,
         NEW formNum, NEW link, NEW name \in Nat,
         NumbersTaken(rs, size, formNum, link),
         NEW T, Known(rs) \subseteq T, <<formNum, "form">> \in T, <<size + 1, "widget">> \in T,
         \A n \in link : <<n, "link">> \in T
  PROVE  Appendable(SignedObjects(rs, p, size, formNum, link, name), rs, T)
<1> DEFINE kept == KeptFields(rs)
           g == ArrayGrown(rs, kept, {size + 1})
           a == AnnotsGrown(rs, PageNum(p), GetOf(rs, PageNum(p)), {size + 1} \cup link)
           o6 == [n \in link |-> Body("link")]
           o5 == Over(Part(size + 2, Body("drawing")), o6)
           o4 == Over(Part(size, Body("sig")), o5)
           o3 == Over(Part(size + 1, WidgetBody(name)), o4)
           o2 == Over(Part(Catalog, UpsertForm(GetOf(rs, Catalog), FormAt(formNum))), o3)
           o1 == Over(Part(formNum, FormBody(Grown(kept, {size + 1}))), o2)
           o == Over(Over(a, g), o1)
<1>0. o = SignedObjects(rs, p, size, formNum, link, name)
  BY DEF SignedObjects
<1>1. size \in Nat /\ FirstWidget < size /\ FirstSig <= size /\ FirstSig \in Nat /\ size = rs[Len(rs)].size
  <2>1. size \in Nat /\ FirstWidget < size
    BY SignedNumbers
  <2> QED
    BY <2>1, NumbersAre DEF NumbersTaken
<1>2. /\ formNum \in Nat /\ (formNum = FirstForm \/ FirstSig <= formNum)
      /\ \A n \in link : n \in Nat /\ n > size + 2
  BY SignedNumbers
<1>3. Appendable(a, rs, T)
  <2>1. <<PageNum(p), "page">> \in Known(rs)
    BY DEF Struct, Roots
  <2>2. GetOf(rs, PageNum(p)).type = "page" /\ BodyOK(PageNum(p), GetOf(rs, PageNum(p)), Known(rs))
    BY <2>1, ReadsOf
  <2> DEFINE new == {size + 1} \cup link
  <2>3. Drawn(new, T)
    BY DEF Drawn
  <2> HIDE DEF new
  <2>4. Appendable(AnnotsGrown(rs, PageNum(p), GetOf(rs, PageNum(p)), new), rs, T)
    BY <2>2, <2>3, AnnotsGrow
  <2> QED
    BY <2>4 DEF new
<1>4. /\ Appendable(g, rs, T)
      /\ ArrayOK(Grown(kept, {size + 1}), FirstFields, T) /\ Are("widget", Grown(kept, {size + 1}).items, T)
  <2>1. ArrayOK(kept, FirstFields, Known(rs)) /\ Are("widget", kept.items, Known(rs))
    BY KeptFieldsAre
  <2> DEFINE new == {size + 1}
  <2>2. Are("widget", new, T)
    BY DEF Are
  <2> HIDE DEF kept, new
  <2>3. Appendable(ArrayGrown(rs, kept, new), rs, T)
    BY <2>1, <2>2, FieldsGrow
  <2>4. ArrayOK(Grown(kept, new), FirstFields, T) /\ Are("widget", Grown(kept, new).items, T)
    BY <2>1, <2>2, FieldsGrow
  <2> QED
    BY <2>3, <2>4 DEF new
<1>5. \A n \in Nat : n >= size =>
        BodyOK(n, Body("sig"), T) /\ BodyOK(n, Body("drawing"), T) /\ BodyOK(n, Body("link"), T)
  BY <1>1 DEF BodyOK, Body, Types
<1>6. Appendable(o6, rs, T)
  <2>1. \A n \in link : /\ BodyOK(n, Body("link"), T)
                        /\ n \in Nat /\ (n >= rs[Len(rs)].size \/ <<n, Body("link").type>> \in Known(rs))
    BY <1>1, <1>2, <1>5
  <2> QED
    BY <2>1 DEF Appendable
<1> HIDE DEF o6, a, g
<1>7. Appendable(Part(size + 2, Body("drawing")), rs, T) /\ Appendable(Part(size, Body("sig")), rs, T)
  <2>1. BodyOK(size + 2, Body("drawing"), T) /\ size + 2 \in Nat /\ size + 2 >= rs[Len(rs)].size
    BY <1>1, <1>5
  <2>2. BodyOK(size, Body("sig"), T) /\ size \in Nat /\ size >= rs[Len(rs)].size
    BY <1>1, <1>5
  <2>3. Appendable(Part(size + 2, Body("drawing")), rs, T)
    BY <2>1, PartAppendable
  <2>4. Appendable(Part(size, Body("sig")), rs, T)
    BY <2>2, PartAppendable
  <2> QED
    BY <2>3, <2>4
<1>8. Appendable(Part(size + 1, WidgetBody(name)), rs, T)
  <2>1. BodyOK(size + 1, WidgetBody(name), T)
    BY <1>1 DEF BodyOK, WidgetBody, Types
  <2>2. size + 1 \in Nat /\ size + 1 >= rs[Len(rs)].size
    BY <1>1
  <2> QED
    BY <2>1, <2>2, PartAppendable
<1>9. Appendable(Part(Catalog, UpsertForm(GetOf(rs, Catalog), FormAt(formNum))), rs, T)
  <2> DEFINE data == GetOf(rs, Catalog).dss
             b == CatalogBody(FormAt(formNum), data)
  <2>1. GetOf(rs, Catalog) = CatalogBody(OldForm(rs), data) /\ (data # 0 => <<data, "dss">> \in Known(rs))
    BY OldFormOK
  <2>2. \A x, y, z : UpsertForm(CatalogBody(x, y), z) = CatalogBody(z, y)
    BY DEF UpsertForm, CatalogBody
  <2>3. UpsertForm(GetOf(rs, Catalog), FormAt(formNum)) = b
    BY <2>1, <2>2
  <2>4. FormOK(FormAt(formNum), T)
    BY DEF FormOK, FormAt, ArrayOK, Are, Here
  <2>5. data # 0 => <<data, "dss">> \in T
    BY <2>1
  <2> HIDE DEF data
  <2>6. BodyOK(Catalog, b, T)
    BY <2>4, <2>5 DEF BodyOK, CatalogBody, Types
  <2>7. Catalog \in Nat /\ <<Catalog, b.type>> \in Known(rs)
    BY NumbersAre DEF Struct, Roots, CatalogBody
  <2> HIDE DEF b
  <2>8. Appendable(Part(Catalog, b), rs, T)
    BY <2>6, <2>7, PartAppendable
  <2> QED
    BY <2>3, <2>8
<1>10. Appendable(Part(formNum, FormBody(Grown(kept, {size + 1}))), rs, T)
  <2> DEFINE b == FormBody(Grown(kept, {size + 1}))
  <2>1. BodyOK(formNum, b, T)
    BY <1>1, <1>2, <1>4 DEF BodyOK, FormBody, Types
  <2>2. formNum >= rs[Len(rs)].size \/ <<formNum, b.type>> \in Known(rs)
    BY <1>1 DEF FormBody, NumbersTaken
  <2> HIDE DEF b
  <2>3. Appendable(Part(formNum, b), rs, T)
    BY <1>2, <2>1, <2>2, PartAppendable
  <2> QED
    BY <2>3 DEF b
<1> HIDE DEF kept
<1>11. Appendable(o5, rs, T)
  BY <1>6, <1>7, OverAppendable
<1> HIDE DEF o5
<1>12. Appendable(o4, rs, T)
  BY <1>7, <1>11, OverAppendable
<1> HIDE DEF o4
<1>13. Appendable(o3, rs, T)
  BY <1>8, <1>12, OverAppendable
<1> HIDE DEF o3
<1>14. Appendable(o2, rs, T)
  BY <1>9, <1>13, OverAppendable
<1> HIDE DEF o2
<1>15. Appendable(o1, rs, T)
  BY <1>10, <1>14, OverAppendable
<1> HIDE DEF o1
<1>16. Appendable(Over(a, g), rs, T)
  BY <1>3, <1>4, OverAppendable
<1>17. Appendable(o, rs, T)
  BY <1>15, <1>16, OverAppendable
<1> QED
  BY <1>0, <1>17

-----------------------------------------------------------------------------
(* pickSignatureFieldName finds a name that is not in use.                 *)

LEMMA PickNameIs ==
  ASSUME NEW existing, IsFiniteSet(existing), NEW prior \in Nat
  PROVE  PickName(existing, prior) \in Nat /\ PickName(existing, prior) > prior
         /\ PickName(existing, prior) \notin existing
<1> DEFINE c == Cardinality(existing)
           R == (prior + 1)..(prior + 1 + c)
<1>1. c \in Nat
  BY FS_CardinalityType
<1>2. IsFiniteSet(R) /\ Cardinality(R) = c + 1
  <2>1. prior + 1 \in Int /\ prior + 1 + c \in Int /\ ~(prior + 1 > prior + 1 + c)
    BY <1>1
  <2>2. IsFiniteSet(R) /\ Cardinality(R) = (prior + 1 + c) - (prior + 1) + 1
    BY <2>1, FS_Interval
  <2> QED
    BY <1>1, <2>2
<1> HIDE DEF c
<1>3. R \ existing # {}
  <2> SUFFICES ASSUME R \ existing = {}
               PROVE  FALSE
    OBVIOUS
  <2>1. R \in SUBSET existing
    OBVIOUS
  <2> HIDE DEF R
  <2>2. Cardinality(R) <= Cardinality(existing)
    BY <2>1, FS_Subset
  <2> QED
    BY <1>1, <1>2, <2>2 DEF c
<1>4. R \in SUBSET Nat
  BY <1>1
<1>5. PICK n \in R \ existing : \A m \in R \ existing : n <= m
  <2> DEFINE S == R \ existing
  <2>1. S \in SUBSET Nat /\ S # {}
    BY <1>3, <1>4
  <2> HIDE DEF S
  <2>2. \E n \in S : \A m \in S : n <= m
    BY <2>1, SmallestIn
  <2> QED
    BY <2>2 DEF S
<1>6. (prior + 1)..(n - 1) \subseteq existing
  <2> SUFFICES ASSUME NEW m \in (prior + 1)..(n - 1)
               PROVE  m \in existing
    OBVIOUS
  <2>0. n \in Nat /\ n <= prior + 1 + c
    BY <1>4, <1>5
  <2>1. m \in R /\ ~(n <= m)
    BY <1>1, <2>0
  <2> QED
    BY <1>5, <2>1
<1>7. \E k \in R : k \notin existing /\ (prior + 1)..(k - 1) \subseteq existing
  BY <1>5, <1>6
<1>8. PickName(existing, prior) \in R /\ PickName(existing, prior) \notin existing
  <2>1. PickName(existing, prior)
        = CHOOSE k \in R : k \notin existing /\ (prior + 1)..(k - 1) \subseteq existing
    BY DEF PickName, c
  <2> HIDE DEF R
  <2> QED
    BY <1>7, <2>1
<1> QED
  BY <1>1, <1>8

\* The names of the widgets are in use, and they are finitely many.
LEMMA NamesAreFinite ==
  ASSUME Struct(revisions)
  PROVE  /\ IsFiniteSet(NamesInUse)
         /\ \A n \in FieldsOf(revisions) : ViewOf(revisions, n).name \in NamesInUse
<1> DEFINE top == revisions[Len(revisions)].size
           P == (1..Len(revisions)) \X (0..top)
           N == {revisions[x[1]].objs[x[2]].name : x \in P}
<1>0. /\ Len(revisions) \in Nat /\ DOMAIN revisions = 1..Len(revisions) /\ top \in Nat
      /\ IsFile(revisions)
  BY FileShape DEF Struct, Shape
<1>1. IsFiniteSet(P)
  <2>1. IsFiniteSet(1..Len(revisions)) /\ IsFiniteSet(0..top)
    <3>1. 1 \in Int /\ 0 \in Int /\ Len(revisions) \in Int /\ top \in Int
      BY <1>0
    <3> HIDE DEF top
    <3> QED
      BY <3>1, FS_Interval
  <2> QED
    BY <2>1, FS_Product
<1>2. IsFiniteSet(N)
  <2> DEFINE f == [x \in P |-> revisions[x[1]].objs[x[2]].name]
  <2>1. f \in Surjection(P, N)
    <3> HIDE DEF P
    <3> QED
      BY DEF Surjection
  <2> HIDE DEF P, N, f
  <2> QED
    BY <1>1, <2>1, FS_Surjection
<1>3. \A i \in DOMAIN revisions : \A n \in DOMAIN revisions[i].objs : revisions[i].objs[n].name \in N
  <2> TAKE i \in DOMAIN revisions
  <2> TAKE n \in DOMAIN revisions[i].objs
  <2>1. n \in 0..top
    <3>1. <<n, revisions[i].objs[n].type>> \in Known(revisions)
      BY KnownIs
    <3> QED
      BY <1>0, <3>1, KnownBelow DEF Struct
  <2>2. <<i, n>> \in P
    BY <1>0, <2>1
  <2> QED
    BY <2>2
<1>4. \A n \in Fields : /\ Viewed(n) = ViewOf(revisions, n) /\ Viewed(n).type = "widget"
                        /\ Viewed(n).name \in N
  <2> TAKE n \in Fields
  <2>1. n \in FieldsOf(revisions)
    BY ElementsIs
  <2>2. <<n, "widget">> \in Known(revisions)
    BY <2>1, FieldsAreWidgets DEF Are
  <2>3. PICK k \in DOMAIN revisions : n \in DOMAIN revisions[k].objs
    BY <2>2, KnownFrom
  <2>4. PICK i \in DOMAIN revisions : /\ n \in DOMAIN revisions[i].objs
                                      /\ ViewOf(revisions, n) = revisions[i].objs[n]
    BY <1>0, <2>3, Views
  <2> QED
    BY <1>3, <2>1, <2>4, ReadingIs, FieldsHaveNames
<1> HIDE DEF N
<1>5. NamesInUse \in SUBSET N
  BY <1>3, <1>4 DEF NamesInUse
<1>6. \A n \in Fields : Viewed(n).name \in NamesInUse
  BY <1>4 DEF NamesInUse
<1> QED
  BY <1>2, <1>4, <1>5, <1>6, ElementsIs, FS_Subset

-----------------------------------------------------------------------------
(* The inductive invariant.                                                *)

\* While the validation data and the archive stamp are owed, only the signer has
\* written: everything is plain text, and what it appends to is in place.
Owing(rs) ==
  /\ \A i \in DOMAIN rs : rs[i].packed = {} /\ rs[i].table
  /\ ViewOf(rs, Catalog).form.kind # "none"
  /\ ViewOf(rs, Catalog).form.kind = "ref" => ViewOf(rs, ViewOf(rs, Catalog).form.num).fields.ref = 0
  /\ ViewOf(rs, PageNum(1)).annots.ref = 0
  /\ \A n \in FieldsOf(rs) : ViewOf(rs, n).name # ArchiveName

Holds(rs, ap, ow, em) ==
  /\ Struct(rs) /\ Faith(rs) /\ NamesDifferIn(rs)
  /\ IsFiniteSet(ap) /\ \A s \in ap : s.page \in Pages /\ <<s.widget, "widget">> \in Known(rs)
  /\ ow \in {"dss", "dts", "nothing"} /\ (ow # "nothing" => Owing(rs))
  /\ em \in BOOLEAN /\ (em => \E k, d : Embeds(rs, k, d))

RevisionsIInv == Holds(revisions, applied, owed, embedded)

\* A revision that addIncrementalSignature writes.
IsSigned(rs, r, p, size, formNum, link, name) ==
  /\ r.objs = SignedObjects(rs, p, size, formNum, link, name)
  /\ r.packed = {} /\ r.table = TRUE /\ r.size \in Nat
  /\ size + 2 < r.size /\ formNum < r.size /\ \A n \in link : n < r.size

LEMMA SignedRevision ==
  ASSUME NEW rs, Struct(rs), Faith(rs), NamesDifferIn(rs), NEW p \in Pages, NEW size,
         NEW formNum, NEW link, NEW name \in Nat, NumbersTaken(rs, size, formNum, link),
         NEW r, NEW rs2, Follows(rs, r, rs2), IsSigned(rs, r, p, size, formNum, link, name),
         \A n \in FieldsOf(rs) : ViewOf(rs, n).name # name
  PROVE  /\ Struct(rs2) /\ Faith(rs2) /\ NamesDifferIn(rs2)
         /\ Known(rs) \subseteq Known(rs2) /\ <<size + 1, "widget">> \in Known(rs2)
         /\ \A k, d : Embeds(rs, k, d) => Embeds(rs2, k, d)
         /\ Lists(rs2, ElementsOf(rs, KeptFields(rs)), size) /\ Draws(rs, r, p, GetOf(rs, PageNum(p)), size, link)
<1> DEFINE kept == KeptFields(rs)
           o == r.objs
<1>1. /\ DOMAIN o \subseteq {PageNum(p), AnnotsNum(p), FirstFields, formNum, Catalog,
                             size, size + 1, size + 2} \cup link
      /\ {formNum, Catalog, size + 1} \cup link \subseteq DOMAIN o
      /\ o[formNum] = FormBody(Grown(kept, {size + 1}))
      /\ o[Catalog] = UpsertForm(GetOf(rs, Catalog), FormAt(formNum))
      /\ o[size + 1] = WidgetBody(name)
      /\ \A n \in link : o[n] = Body("link")
      /\ kept.ref # 0 => /\ kept.ref = FirstFields /\ FirstFields \in DOMAIN o
                         /\ o[FirstFields] = ArrayBody(ElementsOf(rs, kept) \cup {size + 1})
      /\ \A n \in DOMAIN o : o[n].type \notin Rewritten => n >= size
  <2>1. WritesSigned(rs, SignedObjects(rs, p, size, formNum, link, name), p, size, formNum, link, name)
    BY SignedObjectsAre
  <2> QED
    BY <2>1 DEF WritesSigned, IsSigned
<1>2. /\ size \in Nat /\ FirstWidget < size /\ size = rs[Len(rs)].size
      /\ formNum \in Nat /\ (formNum = FirstForm \/ FirstSig <= formNum)
      /\ \A n \in link : n \in Nat /\ n > size + 2
  <2>1. size = rs[Len(rs)].size
    BY DEF NumbersTaken
  <2> QED
    BY <2>1, SignedNumbers
<1>3. IsFile(rs)
  BY DEF Struct, Shape
<1>4. /\ Known(rs) \subseteq Known(rs2)
      /\ \A n \in DOMAIN o : <<n, o[n].type>> \in Known(rs2)
  BY <1>3, KnownGrows
<1>5. o[Catalog].dss = GetOf(rs, Catalog).dss /\ o[Catalog].form = FormAt(formNum)
  <2>1. GetOf(rs, Catalog) = CatalogBody(OldForm(rs), GetOf(rs, Catalog).dss)
    BY OldFormOK
  <2>2. \A x, y, z : UpsertForm(CatalogBody(x, y), z).dss = y /\ UpsertForm(CatalogBody(x, y), z).form = z
    BY DEF UpsertForm, CatalogBody
  <2> QED
    BY <1>1, <2>1, <2>2
<1>6. /\ <<formNum, "form">> \in Known(rs2) /\ <<size + 1, "widget">> \in Known(rs2)
      /\ \A n \in link : <<n, "link">> \in Known(rs2)
  <2>1. \A x : FormBody(x).type = "form" /\ WidgetBody(x).type = "widget"
    BY DEF FormBody, WidgetBody
  <2>2. Body("link").type = "link"
    BY DEF Body
  <2>3. <<formNum, o[formNum].type>> \in Known(rs2) /\ <<size + 1, o[size + 1].type>> \in Known(rs2)
    BY <1>1, <1>4
  <2>4. \A n \in link : <<n, o[n].type>> \in Known(rs2)
    BY <1>1, <1>4
  <2> QED
    BY <1>1, <2>1, <2>2, <2>3, <2>4
<1>7. Appendable(o, rs, Known(rs2))
  <2>1. Appendable(SignedObjects(rs, p, size, formNum, link, name), rs, Known(rs2))
    BY <1>4, <1>6, SignedAppendable
  <2> QED
    BY <2>1 DEF IsSigned
<1>8. DOMAIN o \subseteq 1..(r.size - 1)
  <2> SUFFICES ASSUME NEW n \in DOMAIN o
               PROVE  n \in Nat /\ 0 < n /\ n < r.size
    BY DEF IsSigned
  <2>1. /\ FirstSig \in Nat /\ 3 < FirstSig /\ FirstFields = 3 /\ FirstForm = 2 /\ Catalog = 1
        /\ PageNum(p) \in Nat /\ 3 < PageNum(p) /\ PageNum(p) < FirstSig
        /\ AnnotsNum(p) \in Nat /\ 3 < AnnotsNum(p) /\ AnnotsNum(p) < FirstSig
        /\ FirstWidget = FirstSig + 1
    BY NumbersAre
  <2>2. CASE n \in link
    BY <1>2, <2>2 DEF IsSigned
  <2>3. CASE n = formNum
    BY <1>2, <2>1, <2>3 DEF IsSigned
  <2>4. CASE n \in {PageNum(p), AnnotsNum(p), FirstFields, Catalog}
    <3>1. n \in Nat /\ 0 < n /\ n < FirstSig
      BY <2>1, <2>4
    <3> QED
      BY <1>2, <2>1, <3>1 DEF IsSigned
  <2>5. CASE n \in {size, size + 1, size + 2}
    BY SMTT(60), <1>2, <2>5 DEF IsSigned
  <2> QED
    BY <1>1, <2>2, <2>3, <2>4, <2>5
<1>9. Struct(rs2)
  <2>1. r.size >= rs[Len(rs)].size
    BY <1>2 DEF IsSigned
  <2> QED
    BY <1>7, <1>8, <2>1, StructGrows DEF IsSigned
<1>10. Keeps(rs, r)
  BY <1>1, <1>2 DEF Keeps, IsSigned
<1>11. Faith(rs2)
  BY <1>9, <1>10, FaithGrows
<1>12. FieldsOf(rs2) = ElementsOf(rs, kept) \cup {size + 1}
  <2>1. /\ ViewOf(rs2, Catalog) = o[Catalog] /\ ViewOf(rs2, formNum) = o[formNum]
        /\ FirstFields \in DOMAIN o => ViewOf(rs2, FirstFields) = o[FirstFields]
    BY <1>1, <1>3, ReadAfter
  <2>2. ViewOf(rs2, Catalog).form.kind = "ref" /\ ViewOf(rs2, Catalog).form.num = formNum
    BY <1>5, <2>1 DEF FormAt
  <2>3. FieldsOf(rs2) = ElementsOf(rs2, ViewOf(rs2, formNum).fields)
    BY <2>2 DEF FieldsOf
  <2>4. ViewOf(rs2, formNum).fields = Grown(kept, {size + 1})
    BY <1>1, <2>1 DEF FormBody
  <2> HIDE DEF kept
  <2>6. CASE kept.ref = 0
    <3>1. ElementsOf(rs2, Grown(kept, {size + 1})) = kept.items \cup {size + 1}
      BY <2>6 DEF Grown, Here, ElementsOf
    <3>2. ElementsOf(rs, kept) = kept.items
      BY <2>6 DEF ElementsOf
    <3> QED
      BY <2>3, <2>4, <3>1, <3>2
  <2>7. CASE kept.ref # 0
    <3>1. ElementsOf(rs2, Grown(kept, {size + 1})) = ViewOf(rs2, kept.ref).items
      BY <2>7 DEF Grown, ElementsOf
    <3>2. ViewOf(rs2, kept.ref) = ArrayBody(ElementsOf(rs, kept) \cup {size + 1})
      BY <1>1, <2>1, <2>7
    <3>3. ElementsOf(rs2, Grown(kept, {size + 1})) = ElementsOf(rs, kept) \cup {size + 1}
      BY <3>1, <3>2 DEF ArrayBody
    <3> QED
      BY <2>3, <2>4, <3>3
  <2> QED
    BY <2>6, <2>7
<1>13. NamesDifferIn(rs2)
  <2>1. o[size + 1].name = name
    BY <1>1 DEF WidgetBody
  <2>2. \A n \in FieldsOf(rs) : ViewOf(rs, n).name # r.objs[size + 1].name
    BY <2>1
  <2> DEFINE w == size + 1
  <2>3. w \in DOMAIN r.objs /\ FieldsOf(rs2) \subseteq FieldsOf(rs) \cup {w}
        /\ \A n \in FieldsOf(rs) : ViewOf(rs, n).name # r.objs[w].name
    BY <1>1, <1>12, <2>2, KeptFieldsAre
  <2> HIDE DEF w
  <2>4. OneType(rs2)
    BY <1>9 DEF Struct
  <2> QED
    BY <1>10, <2>3, <2>4, NamesGrow
<1>14. \A k, d : Embeds(rs, k, d) => Embeds(rs2, k, d)
  <2>1. Catalog \in DOMAIN r.objs =>
          r.objs[Catalog].dss \in {ViewOf(rs, Catalog).dss, PlainOf(rs, Catalog).dss, GetOf(rs, Catalog).dss}
    BY <1>5
  <2> QED
    BY <2>1, EmbedsGrows
<1>15. Redraws(rs, r, p, GetOf(rs, PageNum(p)), {size + 1} \cup link)
  <2> DEFINE a == AnnotsGrown(rs, PageNum(p), GetOf(rs, PageNum(p)), {size + 1} \cup link)
  <2>1. /\ \A n \in DOMAIN a : n \in DOMAIN o /\ o[n] = a[n]
        /\ \A n \in DOMAIN o :
             n \in DOMAIN a \/ n \in {FirstFields, formNum, Catalog, size, size + 1, size + 2} \cup link
    <3>1. WritesSigned(rs, SignedObjects(rs, p, size, formNum, link, name), p, size, formNum, link, name)
      BY SignedObjectsAre
    <3> QED
      BY <3>1 DEF WritesSigned, IsSigned
  <2>2. \A n \in {FirstFields, formNum, Catalog, size, size + 1, size + 2} \cup link : NotOfPages(n)
    <3> TAKE n \in {FirstFields, formNum, Catalog, size, size + 1, size + 2} \cup link
    <3>0. FirstSig \in Nat /\ FirstSig < size
      BY <1>2, NumbersAre
    <3>1. CASE n \in link
      <4>1. n \in Nat /\ n >= FirstSig
        BY <1>2, <3>0, <3>1
      <4> QED
        BY <4>1, NumbersAre DEF NotOfPages
    <3>2. CASE n \in {size, size + 1, size + 2}
      <4>1. n \in Nat /\ n >= FirstSig
        BY <1>2, <3>0, <3>2
      <4> QED
        BY <4>1, NumbersAre DEF NotOfPages
    <3>3. CASE n \in {FirstFields, formNum, Catalog}
      BY <1>2, <3>3, NumbersAre DEF NotOfPages
    <3> QED
      BY <3>1, <3>2, <3>3
  <2> HIDE DEF a
  <2>3. \A n \in DOMAIN o : n \in DOMAIN a \/ NotOfPages(n)
    BY <2>1, <2>2
  <2> QED
    BY <2>1, <2>3 DEF Redraws, a
<1> QED
  BY <1>4, <1>6, <1>9, <1>11, <1>12, <1>13, <1>14, <1>15 DEF Lists, Draws

\* What is true of the signatures stays true when the file grows.
LEMMA AppliedStays ==
  ASSUME NEW T, NEW U, T \subseteq U, NEW ap, NEW s,
         IsFiniteSet(ap), \A x \in ap : x.page \in Pages /\ <<x.widget, "widget">> \in T,
         s.page \in Pages, <<s.widget, "widget">> \in U
  PROVE  /\ IsFiniteSet(ap \cup {s})
         /\ \A x \in ap \cup {s} : x.page \in Pages /\ <<x.widget, "widget">> \in U
<1>1. IsFiniteSet(ap \cup {s})
  BY FS_AddElement
<1> QED
  BY <1>1

\* What addIncrementalSignature writes on page p.
WritesSignature(rs, rs2, ap, ap2, p) ==
  \E r, size, formNum, link, name :
    /\ name \in Nat /\ Follows(rs, r, rs2) /\ NumbersTaken(rs, size, formNum, link)
    /\ IsSigned(rs, r, p, size, formNum, link, name)
    /\ \A n \in FieldsOf(rs) : ViewOf(rs, n).name # name
    /\ ap2 = ap \cup {[widget |-> size + 1, page |-> p]}

LEMMA AddIncrementalSignatureWrites ==
  ASSUME RevisionsIInv, NEW p \in Pages, NEW visible \in BOOLEAN, AddIncrementalSignature(p, visible)
  PROVE  WritesSignature(revisions, revisions', applied, applied', p)
<1> USE DEF RevisionsIInv, Holds
<1> DEFINE size == revisions[Len(revisions)].size
           old == OldForm(revisions)
           formNum == IF old.kind = "ref" THEN old.num ELSE size + 3
           afterForm == size + (IF old.kind = "ref" THEN 3 ELSE 4)
           link == IF visible THEN {afterForm} ELSE {}
           name == PickName(NamesInUse, Cardinality(applied))
           o == SignedObjects(revisions, p, size, formNum, link, name)
           r == [objs |-> o, packed |-> {}, table |-> TRUE, size |-> afterForm + Cardinality(link)]
           s == [widget |-> size + 1, page |-> p]
<1>1. revisions' = Append(revisions, r)
  <2>1. /\ GetBody(Catalog) = GetOf(revisions, Catalog) /\ GetBody(Catalog).form = old
        /\ GetBody(old.num) = GetOf(revisions, old.num)
        /\ GetBody(PageNum(p)) = GetOf(revisions, PageNum(p))
    BY ElementsIs DEF OldForm
  <2>2. (IF old.kind = "ref" /\ GetBody(old.num) # Missing THEN GetBody(old.num).fields ELSE Here({}))
        = KeptFields(revisions)
    BY <2>1 DEF KeptFields
  <2>3. /\ WithAnnots(PageNum(p), GetOf(revisions, PageNum(p)), {size + 1} \cup link)
           = AnnotsGrown(revisions, PageNum(p), GetOf(revisions, PageNum(p)), {size + 1} \cup link)
        /\ GrownArray(KeptFields(revisions), {size + 1}) = ArrayGrown(revisions, KeptFields(revisions), {size + 1})
    BY GrownIs
  <2> QED
    BY <2>1, <2>2, <2>3 DEF AddIncrementalSignature, Write, LastRevision, SignedObjects
<1>2. applied' = applied \cup {s} /\ UNCHANGED <<owed, embedded>> /\ owed = "nothing"
  BY DEF AddIncrementalSignature, Signed, LastRevision
<1>3. size \in Nat
  BY FileShape DEF Struct, Shape
<1>4. NumbersTaken(revisions, size, formNum, link)
  <2>1. FormOK(old, Known(revisions))
    BY OldFormOK
  <2> QED
    BY <2>1 DEF NumbersTaken, FormOK
<1>5. name \in Nat /\ \A n \in FieldsOf(revisions) : ViewOf(revisions, n).name # name
  <2>1. Cardinality(applied) \in Nat
    BY FS_CardinalityType
  <2>2. IsFiniteSet(NamesInUse) /\ \A n \in FieldsOf(revisions) : ViewOf(revisions, n).name \in NamesInUse
    BY NamesAreFinite
  <2>3. name \in Nat /\ name \notin NamesInUse
    BY <2>1, <2>2, PickNameIs
  <2> QED
    BY <2>2, <2>3
<1>6. IsSigned(revisions, r, p, size, formNum, link, name)
  <2>1. Cardinality(link) = IF visible THEN 1 ELSE 0
    BY FS_Singleton, FS_EmptySet
  <2>2. old.kind = "ref" => old.num \in Nat /\ old.num < size
    <3>1. FormOK(old, Known(revisions))
      BY OldFormOK
    <3> QED
      BY <3>1, KnownBelow DEF FormOK, Struct
  <2> HIDE DEF o
  <2>3. formNum < r.size /\ size + 2 < r.size /\ r.size \in Nat /\ \A n \in link : n < r.size
    <3>1. afterForm \in Nat /\ size + 2 < afterForm /\ formNum < afterForm
      BY <1>3, <2>2
    <3>2. link \subseteq {afterForm}
      OBVIOUS
    <3>3. Cardinality(link) \in {0, 1} /\ (link # {} => Cardinality(link) = 1)
      BY <2>1
    <3>4. r.size = afterForm + Cardinality(link)
      OBVIOUS
    <3> HIDE DEF afterForm, link, formNum, r, size
    <3>5. r.size \in Nat /\ formNum < r.size /\ size + 2 < r.size
      <4>1. formNum \in Nat
        BY <1>3, <1>4, SignedNumbers
      <4> QED
        BY <1>3, <3>1, <3>3, <3>4, <4>1
    <3>6. \A n \in link : n < r.size
      <4> TAKE n \in link
      <4>1. n = afterForm /\ Cardinality(link) = 1
        BY <3>2, <3>3
      <4> QED
        BY <3>1, <3>4, <4>1
    <3> QED
      BY <3>5, <3>6
  <2> QED
    BY <2>3 DEF IsSigned, o
<1>7. Follows(revisions, r, revisions')
  BY <1>1 DEF Follows
<1> HIDE DEF r, name, formNum, link
<1> QED
  BY <1>2, <1>4, <1>5, <1>6, <1>7 DEF WritesSignature

LEMMA AddIncrementalSignatureKeeps ==
  ASSUME RevisionsIInv, NEW p \in Pages, NEW visible \in BOOLEAN, AddIncrementalSignature(p, visible)
  PROVE  RevisionsIInv'
<1> USE DEF RevisionsIInv, Holds
<1>1. WritesSignature(revisions, revisions', applied, applied', p)
  BY AddIncrementalSignatureWrites
<1>2. PICK r, size, formNum, link, name :
        /\ name \in Nat /\ Follows(revisions, r, revisions') /\ NumbersTaken(revisions, size, formNum, link)
        /\ IsSigned(revisions, r, p, size, formNum, link, name)
        /\ \A n \in FieldsOf(revisions) : ViewOf(revisions, n).name # name
        /\ applied' = applied \cup {[widget |-> size + 1, page |-> p]}
  BY <1>1 DEF WritesSignature
<1>3. UNCHANGED <<owed, embedded>> /\ owed = "nothing"
  BY DEF AddIncrementalSignature
<1>4. /\ Struct(revisions') /\ Faith(revisions') /\ NamesDifferIn(revisions')
      /\ Known(revisions) \subseteq Known(revisions') /\ <<size + 1, "widget">> \in Known(revisions')
      /\ \A k, d : Embeds(revisions, k, d) => Embeds(revisions', k, d)
  BY <1>2, SignedRevision
<1> DEFINE s == [widget |-> size + 1, page |-> p]
<1>5. s.page \in Pages /\ <<s.widget, "widget">> \in Known(revisions')
  BY <1>4
<1>6. applied' = applied \cup {s}
  BY <1>2
<1> HIDE DEF s
<1>7. /\ IsFiniteSet(applied \cup {s})
      /\ \A x \in applied \cup {s} : x.page \in Pages /\ <<x.widget, "widget">> \in Known(revisions')
  BY <1>4, <1>5, AppliedStays
<1> QED
  BY <1>3, <1>4, <1>6, <1>7

LEMMA PlainIsViewed ==
  ASSUME NEW rs, \A i \in DOMAIN rs : rs[i].packed = {}
  PROVE  \A n : PlainOf(rs, n) = ViewOf(rs, n)
<1> TAKE n
<1>1. Having(rs, n) = HavingPlain(rs, n)
  BY DEF Having, HavingPlain
<1> QED
  BY <1>1 DEF PlainOf, ViewOf

LEMMA SizeIs ==
  ASSUME NEW rs, Struct(rs)
  PROVE  /\ rs[Len(rs)].size \in Nat /\ FirstWidget < rs[Len(rs)].size /\ IsFile(rs)
         /\ FirstSig \in Nat /\ FirstWidget = FirstSig + 1 /\ 3 < FirstSig
         /\ Catalog = 1 /\ FirstForm = 2 /\ FirstFields = 3
BY FileShape, NumbersAre DEF Struct, Shape

\* The form stays when the catalog and new objects are all that is written.
LEMMA FieldsSame ==
  ASSUME NEW rs, Struct(rs), NEW r, NEW rs2, Follows(rs, r, rs2),
         \A n \in DOMAIN r.objs : n = Catalog \/ n >= rs[Len(rs)].size,
         ViewOf(rs2, Catalog).form = ViewOf(rs, Catalog).form
  PROVE  /\ FieldsOf(rs2) = FieldsOf(rs)
         /\ ViewOf(rs, Catalog).form.kind = "ref" =>
              ViewOf(rs2, ViewOf(rs, Catalog).form.num) = ViewOf(rs, ViewOf(rs, Catalog).form.num)
<1> DEFINE form == ViewOf(rs, Catalog).form
<1>1. \A n : n # Catalog /\ n \in Nat /\ n < rs[Len(rs)].size => ViewOf(rs2, n) = ViewOf(rs, n)
  <2> TAKE n
  <2> HAVE n # Catalog /\ n \in Nat /\ n < rs[Len(rs)].size
  <2>1. n \notin DOMAIN r.objs
    BY SizeIs
  <2> QED
    BY <2>1, ReadAfter, SizeIs
<1>2. FormOK(form, Known(rs))
  <2>1. <<Catalog, "catalog">> \in Known(rs)
    BY DEF Struct, Roots
  <2>2. ViewOf(rs, Catalog).type = "catalog" /\ BodyOK(Catalog, ViewOf(rs, Catalog), Known(rs))
    BY <2>1, ReadsOf
  <2> QED
    BY <2>2 DEF BodyOK
<1>3. \A a : ArrayOK(a, FirstFields, Known(rs)) => ElementsOf(rs2, a) = ElementsOf(rs, a)
  <2> TAKE a
  <2> HAVE ArrayOK(a, FirstFields, Known(rs))
  <2>1. a.ref # 0 => ViewOf(rs2, a.ref) = ViewOf(rs, a.ref)
    BY <1>1, SizeIs DEF ArrayOK
  <2> QED
    BY <2>1 DEF ElementsOf
<1>4. form.kind = "ref" => ViewOf(rs2, form.num) = ViewOf(rs, form.num)
                           /\ ArrayOK(ViewOf(rs, form.num).fields, FirstFields, Known(rs))
  <2> HAVE form.kind = "ref"
  <2>1. <<form.num, "form">> \in Known(rs) /\ <<Catalog, "catalog">> \in Known(rs)
    BY <1>2 DEF FormOK, Struct, Roots
  <2>2. form.num # Catalog
    BY <2>1 DEF Struct, OneType
  <2>3. form.num \in Nat /\ form.num < rs[Len(rs)].size
    BY <2>1, KnownBelow DEF Struct
  <2>4. ViewOf(rs, form.num).type = "form" /\ BodyOK(form.num, ViewOf(rs, form.num), Known(rs))
    BY <2>1, ReadsOf
  <2> QED
    BY <1>1, <2>2, <2>3, <2>4 DEF BodyOK
<1>5. ArrayOK(form.fields, FirstFields, Known(rs)) /\ form.kind \in {"none", "ref", "inline"}
  BY <1>2 DEF FormOK
<1>6. FieldsOf(rs2) = FieldsOf(rs)
  <2>1. ViewOf(rs2, Catalog).form = form
    OBVIOUS
  <2> HIDE DEF form
  <2>2. CASE form.kind = "none"
    BY <2>1, <2>2 DEF FieldsOf, form
  <2>3. CASE form.kind = "inline"
    <3>1. ElementsOf(rs2, form.fields) = ElementsOf(rs, form.fields)
      BY <1>3, <1>5
    <3> QED
      BY <2>1, <2>3, <3>1 DEF FieldsOf, form
  <2>4. CASE form.kind = "ref"
    <3>1. ElementsOf(rs2, ViewOf(rs2, form.num).fields) = ElementsOf(rs, ViewOf(rs, form.num).fields)
      BY <1>3, <1>4, <2>4
    <3> QED
      BY <2>1, <2>4, <3>1 DEF FieldsOf, form
  <2> QED
    BY <1>5, <2>2, <2>3, <2>4
<1> QED
  BY <1>4, <1>6

\* A revision that appendDss writes.
IsDss(rs, r, size) ==
  /\ size = rs[Len(rs)].size
  /\ r.objs = Over(Part(size, Body("stream")),
              Over(Part(size + 1, [type |-> "dss", streams |-> {size}]),
                   Part(Catalog, [ViewOf(rs, Catalog) EXCEPT !.dss = size + 1])))
  /\ r.packed = {} /\ r.table = TRUE /\ r.size = size + 2

LEMMA DssRevision ==
  ASSUME NEW rs, Struct(rs), Faith(rs), NamesDifferIn(rs), Owing(rs), NEW size,
         NEW r, NEW rs2, Follows(rs, r, rs2), IsDss(rs, r, size)
  PROVE  /\ Struct(rs2) /\ Faith(rs2) /\ NamesDifferIn(rs2) /\ Owing(rs2)
         /\ Known(rs) \subseteq Known(rs2)
         /\ \E k, d : Embeds(rs2, k, d)
         /\ FieldsOf(rs2) = FieldsOf(rs) /\ \A q \in Pages : AnnotsOf(rs2, q) = AnnotsOf(rs, q)
<1> DEFINE o == r.objs
           BS == Body("stream")
           BD == [type |-> "dss", streams |-> {size}]
           form == ViewOf(rs, Catalog).form
           BC == CatalogBody(form, size + 1)
<1>1. /\ size \in Nat /\ size = rs[Len(rs)].size /\ FirstWidget < size /\ IsFile(rs)
      /\ FirstSig \in Nat /\ FirstWidget = FirstSig + 1 /\ 3 < FirstSig /\ Catalog = 1
  BY SizeIs DEF IsDss
<1>2. /\ ViewOf(rs, Catalog) = CatalogBody(form, ViewOf(rs, Catalog).dss) /\ FormOK(form, Known(rs))
      /\ <<Catalog, "catalog">> \in Known(rs)
  <2>1. <<Catalog, "catalog">> \in Known(rs)
    BY DEF Struct, Roots
  <2>2. ViewOf(rs, Catalog).type = "catalog" /\ BodyOK(Catalog, ViewOf(rs, Catalog), Known(rs))
    BY <2>1, ReadsOf
  <2> QED
    BY <2>1, <2>2 DEF BodyOK
<1>3. [ViewOf(rs, Catalog) EXCEPT !.dss = size + 1] = BC
  BY <1>2 DEF CatalogBody
<1>4. o = Over(Part(size, BS), Over(Part(size + 1, BD), Part(Catalog, BC)))
  BY <1>3 DEF IsDss
<1>t. BS.type = "stream" /\ BD.type = "dss" /\ BD.streams = {size} /\ BC.type = "catalog"
      /\ BC.dss = size + 1 /\ BC.form = form
  BY DEF Body, CatalogBody
<1>5. /\ DOMAIN o = {size, size + 1, Catalog}
      /\ o[size] = BS /\ o[size + 1] = BD /\ o[Catalog] = BC
  <2>1. size # size + 1 /\ size # Catalog /\ size + 1 # Catalog
    BY <1>1
  <2> HIDE DEF BS, BD, BC
  <2> QED
    BY <1>4, <2>1 DEF Over, Part
<1>6. /\ Known(rs) \subseteq Known(rs2)
      /\ <<size, "stream">> \in Known(rs2) /\ <<size + 1, "dss">> \in Known(rs2)
  <2>1. /\ Known(rs) \subseteq Known(rs2)
        /\ \A n \in DOMAIN r.objs : <<n, r.objs[n].type>> \in Known(rs2)
    BY <1>1, KnownGrows
  <2> HIDE DEF BS, BD, BC
  <2>2. <<size, o[size].type>> \in Known(rs2) /\ <<size + 1, o[size + 1].type>> \in Known(rs2)
    BY <1>5, <2>1
  <2> QED
    BY <1>5, <1>t, <2>1, <2>2
<1>7. Appendable(o, rs, Known(rs2))
  <2>1. BodyOK(size, BS, Known(rs2))
    BY <1>1 DEF BodyOK, Body, Types
  <2>2. BodyOK(size + 1, BD, Known(rs2))
    BY <1>1, <1>6 DEF BodyOK, Types, Are
  <2>3. BodyOK(Catalog, BC, Known(rs2))
    <3>1. BodyOK(Catalog, ViewOf(rs, Catalog), Known(rs2))
      BY <1>2, <1>6, ReadsOf, StaysOK
    <3>2. FormOK(form, Known(rs2))
      <4>1. ViewOf(rs, Catalog).type = "catalog"
        BY <1>2 DEF CatalogBody
      <4> QED
        BY <3>1, <4>1 DEF BodyOK
    <3> HIDE DEF form
    <3> QED
      BY <1>6, <3>2 DEF BodyOK, CatalogBody, Types
  <2> HIDE DEF BS, BD, BC
  <2>4. \A n \in {size, size + 1, Catalog} :
          n \in Nat /\ (n >= rs[Len(rs)].size \/ <<n, o[n].type>> \in Known(rs))
    BY <1>1, <1>2, <1>5, <1>t
  <2>5. \A n \in {size, size + 1, Catalog} : BodyOK(n, o[n], Known(rs2))
    BY <1>5, <2>1, <2>2, <2>3
  <2> QED
    BY <1>5, <2>4, <2>5 DEF Appendable
<1> HIDE DEF BS, BD, BC
<1>8. Struct(rs2)
  <2>1. DOMAIN r.objs \subseteq 1..(r.size - 1) /\ r.packed \subseteq DOMAIN r.objs
        /\ r.table \in BOOLEAN /\ r.size \in Nat /\ r.size >= rs[Len(rs)].size
    <3>1. r.size = size + 2 /\ r.packed = {} /\ r.table = TRUE
      BY DEF IsDss
    <3>2. {size, size + 1, Catalog} \subseteq 1..(size + 2 - 1)
      BY <1>1
    <3>3. DOMAIN r.objs \subseteq 1..(r.size - 1)
      <4>1. r.size - 1 = size + 2 - 1
        BY <1>1, <3>1
      <4> QED
        BY <1>5, <3>2, <4>1
    <3>4. r.size \in Nat /\ r.size >= rs[Len(rs)].size
      BY <1>1, <3>1
    <3> QED
      BY <3>1, <3>3, <3>4
  <2> QED
    BY <1>7, <2>1, StructGrows
<1>9. Keeps(rs, r)
  BY <1>1, <1>5, <1>t DEF Keeps, IsDss, Rewritten
<1>10. Faith(rs2)
  BY <1>8, <1>9, FaithGrows
<1>11. ViewOf(rs2, Catalog) = BC /\ \A n : n \notin DOMAIN o => ViewOf(rs2, n) = ViewOf(rs, n)
  BY <1>1, <1>5, ReadAfter
<1>12. /\ FieldsOf(rs2) = FieldsOf(rs)
       /\ form.kind = "ref" => ViewOf(rs2, form.num) = ViewOf(rs, form.num)
  <2>1. \A n \in DOMAIN r.objs : n = Catalog \/ n >= rs[Len(rs)].size
    BY <1>1, <1>5
  <2>2. ViewOf(rs2, Catalog).form = ViewOf(rs, Catalog).form
    BY <1>11, <1>t
  <2> QED
    BY <2>1, <2>2, FieldsSame
<1>13. NamesDifferIn(rs2)
  BY <1>8, <1>9, <1>12, NamesStay DEF Struct
<1>14. Owing(rs2)
  <2>1. \A i \in DOMAIN rs2 : rs2[i].packed = {} /\ rs2[i].table
    <3>1. \A i \in DOMAIN rs2 : (i \in DOMAIN rs /\ rs2[i] = rs[i]) \/ rs2[i] = r
      BY <1>1, Grows
    <3> QED
      BY <3>1 DEF Owing, IsDss
  <2>2. ViewOf(rs2, Catalog).form = form
    BY <1>11, <1>t
  <2>3. ViewOf(rs2, PageNum(1)) = ViewOf(rs, PageNum(1))
    <3>1. 1 \in Pages
      BY RevisionsAssumption DEF Pages
    <3>2. PageNum(1) \notin {size, size + 1, Catalog}
      BY <1>1, <3>1, NumbersAre
    <3> QED
      BY <1>5, <1>11, <3>2
  <2>4. \A n \in FieldsOf(rs) : ViewOf(rs2, n) = ViewOf(rs, n)
    BY <1>8, <1>9, FieldsUndisturbed DEF Struct
  <2> QED
    BY <1>12, <2>1, <2>2, <2>3, <2>4 DEF Owing
<1>15. Embeds(rs2, Len(rs2), size + 1)
  <2>1. Len(rs2) \in DOMAIN rs2 /\ rs2[Len(rs2)] = r /\ \A j \in DOMAIN rs2 : Len(rs2) <= j => j = Len(rs2)
    <3>1. IsFile(rs2) /\ Len(rs2) = Len(rs) + 1 /\ rs2[Len(rs2)] = r
      BY <1>1, Grows
    <3>2. Len(rs) \in Nat /\ DOMAIN rs2 = 1..Len(rs2)
      BY <1>1, <3>1, FileShape
    <3> QED
      BY <3>1, <3>2
  <2>2. r.packed = {} /\ r.table
    BY DEF IsDss
  <2> QED
    BY <1>5, <1>t, <2>1, <2>2 DEF Embeds
<1>16. \A q \in Pages : AnnotsOf(rs2, q) = AnnotsOf(rs, q)
  <2> TAKE q \in Pages
  <2>1. PageNum(q) \notin DOMAIN r.objs /\ AnnotsNum(q) \notin DOMAIN r.objs
    BY <1>1, <1>5, NumbersAre
  <2> QED
    BY <2>1, AnnotsSame
<1> QED
  BY <1>6, <1>8, <1>10, <1>12, <1>13, <1>14, <1>15, <1>16

\* What appendDss writes.
WritesDss(rs, rs2) == \E r, size : Follows(rs, r, rs2) /\ IsDss(rs, r, size)

LEMMA AppendDssWrites ==
  ASSUME RevisionsIInv, AppendDss
  PROVE  /\ WritesDss(revisions, revisions') /\ Owing(revisions)
         /\ owed' = "dts" /\ embedded' = TRUE /\ applied' = applied
<1> USE DEF RevisionsIInv, Holds
<1> DEFINE size == revisions[Len(revisions)].size
           r == [objs |-> Over(Part(size, Body("stream")),
                          Over(Part(size + 1, [type |-> "dss", streams |-> {size}]),
                               Part(Catalog, [ViewOf(revisions, Catalog) EXCEPT !.dss = size + 1]))),
                 packed |-> {}, table |-> TRUE, size |-> size + 1 + 1]
<1>1. owed = "dss" /\ owed' = "dts" /\ embedded' = TRUE /\ applied' = applied
  BY DEF AppendDss
<1>2. Owing(revisions)
  BY <1>1
<1>3. LastPlain(Catalog) = ViewOf(revisions, Catalog)
  BY <1>2, ReadingIs, PlainIsViewed DEF Owing
<1>4. revisions' = Append(revisions, r)
  BY <1>3 DEF AppendDss, Write, LastRevision
<1>5. size \in Nat
  BY SizeIs
<1>6. IsDss(revisions, r, size)
  BY <1>5 DEF IsDss
<1>7. Follows(revisions, r, revisions')
  BY <1>4 DEF Follows
<1> HIDE DEF r, size
<1> QED
  BY <1>1, <1>2, <1>6, <1>7 DEF WritesDss

LEMMA AppendDssKeeps ==
  ASSUME RevisionsIInv, AppendDss
  PROVE  RevisionsIInv'
<1> USE DEF RevisionsIInv, Holds
<1>1. /\ WritesDss(revisions, revisions') /\ Owing(revisions)
      /\ owed' = "dts" /\ embedded' = TRUE /\ applied' = applied
  BY AppendDssWrites
<1>2. /\ Struct(revisions') /\ Faith(revisions') /\ NamesDifferIn(revisions') /\ Owing(revisions')
      /\ Known(revisions) \subseteq Known(revisions')
      /\ \E k, d : Embeds(revisions', k, d)
  BY <1>1, DssRevision DEF WritesDss
<1> QED
  BY <1>1, <1>2

\* A revision that appendDocumentTimestamp writes, of a form with the fields kept.
IsStamp(rs, r, size, formNum, kept) ==
  /\ NumbersTaken(rs, size, formNum, {})
  /\ r.objs = Over(Part(size, Body("sig")),
              Over(Part(size + 1, WidgetBody(ArchiveName)),
              Over(Part(size + 2, Body("drawing")),
              Over(Part(formNum, FormBody(Here(kept \cup {size + 1}))),
              Over(Part(Catalog, [ViewOf(rs, Catalog) EXCEPT !.form = FormAt(formNum)]),
                   Part(PageNum(1),
                        PageBody(Here(ViewOf(rs, PageNum(1)).annots.items \cup {size + 1}))))))))
  /\ r.packed = {} /\ r.table = TRUE /\ r.size \in Nat /\ size + 2 < r.size /\ formNum < r.size

LEMMA StampRevision ==
  ASSUME NEW rs, Struct(rs), Faith(rs), NamesDifferIn(rs), Owing(rs), NEW size,
         NEW formNum, NEW kept, kept \subseteq FieldsOf(rs),
         NEW r, NEW rs2, Follows(rs, r, rs2), IsStamp(rs, r, size, formNum, kept)
  PROVE  /\ Struct(rs2) /\ Faith(rs2) /\ NamesDifferIn(rs2)
         /\ Known(rs) \subseteq Known(rs2) /\ <<size + 1, "widget">> \in Known(rs2)
         /\ \A k, d : Embeds(rs, k, d) => Embeds(rs2, k, d)
         /\ Lists(rs2, kept, size) /\ Draws(rs, r, 1, ViewOf(rs, PageNum(1)), size, {})
<1> DEFINE o == r.objs
           w == size + 1
           page == PageNum(1)
           items == ViewOf(rs, page).annots.items
           data == ViewOf(rs, Catalog).dss
           BS == Body("sig")
           BW == WidgetBody(ArchiveName)
           BD == Body("drawing")
           BF == FormBody(Here(kept \cup {size + 1}))
           BC == CatalogBody(FormAt(formNum), data)
           BP == PageBody(Here(items \cup {size + 1}))
<1>1. /\ size \in Nat /\ size = rs[Len(rs)].size /\ FirstWidget < size /\ IsFile(rs)
      /\ FirstSig \in Nat /\ FirstWidget = FirstSig + 1 /\ 3 < FirstSig
      /\ Catalog = 1 /\ FirstForm = 2 /\ FirstFields = 3
  BY SizeIs DEF IsStamp, NumbersTaken
<1>2. /\ ViewOf(rs, Catalog) = CatalogBody(ViewOf(rs, Catalog).form, data)
      /\ <<Catalog, "catalog">> \in Known(rs)
      /\ data # 0 => <<data, "dss">> \in Known(rs)
  <2>1. <<Catalog, "catalog">> \in Known(rs)
    BY DEF Struct, Roots
  <2>2. ViewOf(rs, Catalog).type = "catalog" /\ BodyOK(Catalog, ViewOf(rs, Catalog), Known(rs))
    BY <2>1, ReadsOf
  <2> QED
    BY <2>1, <2>2 DEF BodyOK
<1>3. /\ 1 \in Pages /\ page \in Nat /\ 3 < page /\ page < FirstSig
      /\ <<page, "page">> \in Known(rs) /\ Drawn(items, Known(rs))
  <2>1. 1 \in Pages
    BY RevisionsAssumption DEF Pages
  <2>2. <<page, "page">> \in Known(rs)
    BY <2>1 DEF Struct, Roots
  <2>3. ViewOf(rs, page).type = "page" /\ BodyOK(page, ViewOf(rs, page), Known(rs))
    BY <2>2, ReadsOf
  <2> QED
    BY <2>1, <2>2, <2>3, NumbersAre DEF BodyOK
<1>4. /\ formNum \in Nat /\ (formNum = FirstForm \/ FirstSig <= formNum)
      /\ formNum \notin {size, size + 1, size + 2}
      /\ size <= formNum \/ <<formNum, "form">> \in Known(rs)
  <2>1. NumbersTaken(rs, size, formNum, {})
    BY DEF IsStamp
  <2>2. formNum \in Nat /\ (formNum = FirstForm \/ FirstSig <= formNum)
    BY <2>1, SignedNumbers
  <2>3. formNum \notin {size, size + 1, size + 2}
    BY <2>1, SignedNumbers
  <2>4. size <= formNum \/ <<formNum, "form">> \in Known(rs)
    BY <1>1, <2>1 DEF NumbersTaken
  <2> QED
    BY <2>2, <2>3, <2>4
<1>5. [ViewOf(rs, Catalog) EXCEPT !.form = FormAt(formNum)] = BC
  BY <1>2 DEF CatalogBody
<1>6. o = Over(Part(size, BS), Over(Part(w, BW), Over(Part(size + 2, BD),
          Over(Part(formNum, BF), Over(Part(Catalog, BC), Part(page, BP))))))
  BY <1>5 DEF IsStamp
<1>t. BS.type = "sig" /\ BW.type = "widget" /\ BD.type = "drawing" /\ BF.type = "form"
      /\ BC.type = "catalog" /\ BP.type = "page" /\ BC.dss = data /\ BC.form = FormAt(formNum)
      /\ BF.fields = Here(kept \cup {w}) /\ BW.name = ArchiveName
  BY DEF Body, WidgetBody, FormBody, CatalogBody, PageBody
<1>7. /\ DOMAIN o = {size, w, size + 2, formNum, Catalog, page}
      /\ o[size] = BS /\ o[w] = BW /\ o[size + 2] = BD /\ o[formNum] = BF /\ o[Catalog] = BC /\ o[page] = BP
  <2>1. /\ size # w /\ size # size + 2 /\ size # formNum /\ size # Catalog /\ size # page
        /\ w # size + 2 /\ w # formNum /\ w # Catalog /\ w # page
    BY <1>1, <1>3, <1>4
  <2>2. /\ size + 2 # formNum /\ size + 2 # Catalog /\ size + 2 # page
        /\ formNum # Catalog /\ formNum # page /\ Catalog # page
    BY <1>1, <1>3, <1>4
  <2> DEFINE z == size + 2
  <2> HIDE DEF BS, BW, BD, BF, BC, BP, o, w, z, page
  <2>3. o = Over(Part(size, BS), Over(Part(w, BW), Over(Part(z, BD),
            Over(Part(formNum, BF), Over(Part(Catalog, BC), Part(page, BP))))))
    BY <1>6 DEF z
  <2>4. /\ size # w /\ size # z /\ size # formNum /\ size # Catalog /\ size # page
        /\ w # z /\ w # formNum /\ w # Catalog /\ w # page
        /\ z # formNum /\ z # Catalog /\ z # page
        /\ formNum # Catalog /\ formNum # page /\ Catalog # page
    BY <2>1, <2>2 DEF z
  <2>5. DOMAIN o = {size, w, z, formNum, Catalog, page}
    BY <2>3 DEF Over, Part
  <2>6. o[size] = BS /\ o[w] = BW /\ o[z] = BD
    BY <2>3, <2>4 DEF Over, Part
  <2>7. o[formNum] = BF /\ o[Catalog] = BC /\ o[page] = BP
    BY <2>3, <2>4 DEF Over, Part
  <2> QED
    BY <2>5, <2>6, <2>7 DEF z
<1>8. Known(rs) \subseteq Known(rs2) /\ <<formNum, "form">> \in Known(rs2) /\ <<w, "widget">> \in Known(rs2)
  <2>1. /\ Known(rs) \subseteq Known(rs2)
        /\ \A n \in DOMAIN r.objs : <<n, r.objs[n].type>> \in Known(rs2)
    BY <1>1, KnownGrows
  <2> HIDE DEF BS, BD, BC, BW, BF, BP
  <2>2. <<formNum, o[formNum].type>> \in Known(rs2) /\ <<w, o[w].type>> \in Known(rs2)
    BY <1>7, <2>1
  <2> QED
    BY <1>7, <1>t, <2>1, <2>2
<1>9. Appendable(o, rs, Known(rs2))
  <2>1. BodyOK(size, BS, Known(rs2)) /\ BodyOK(size + 2, BD, Known(rs2))
    BY <1>1 DEF BodyOK, Body, Types
  <2>2. BodyOK(w, BW, Known(rs2))
    BY <1>1 DEF BodyOK, WidgetBody, Types, ArchiveName
  <2>3. BodyOK(Catalog, BC, Known(rs2))
    <3>1. FormOK(FormAt(formNum), Known(rs2))
      BY <1>8 DEF FormOK, FormAt, ArrayOK, Are, Here
    <3>2. data # 0 => <<data, "dss">> \in Known(rs2)
      BY <1>2, <1>8
    <3> HIDE DEF data
    <3> QED
      BY <3>1, <3>2 DEF BodyOK, CatalogBody, Types
  <2>4. BodyOK(formNum, BF, Known(rs2))
    <3>1. Are("widget", kept \cup {w}, Known(rs2))
      BY <1>8, FieldsAreWidgets DEF Are
    <3>2. ArrayOK(Here(kept \cup {w}), FirstFields, Known(rs2)) /\ Are("widget", Here(kept \cup {w}).items, Known(rs2))
      BY <3>1 DEF ArrayOK, Here
    <3> QED
      BY <1>1, <1>4, <3>2 DEF BodyOK, FormBody, Types
  <2>5. BodyOK(page, BP, Known(rs2))
    <3>1. Drawn(items \cup {w}, Known(rs2))
      BY <1>3, <1>8 DEF Drawn
    <3>2. ArrayOK(Here(items \cup {w}), AnnotsNum(1), Known(rs2)) /\ Drawn(Here(items \cup {w}).items, Known(rs2))
      BY <3>1 DEF ArrayOK, Here
    <3> HIDE DEF items
    <3> QED
      BY <1>3, <3>2 DEF BodyOK, PageBody, Types
  <2> HIDE DEF BS, BW, BD, BF, BC, BP
  <2>6. \A n \in {size, w, size + 2, formNum, Catalog, page} :
          n \in Nat /\ (n >= rs[Len(rs)].size \/ <<n, o[n].type>> \in Known(rs))
    <3> TAKE n \in {size, w, size + 2, formNum, Catalog, page}
    <3>1. CASE n \in {size, w, size + 2}
      BY <1>1, <3>1
    <3>2. CASE n = formNum
      BY <1>1, <1>4, <1>7, <1>t, <3>2
    <3>3. CASE n = Catalog
      BY <1>1, <1>2, <1>7, <1>t, <3>3
    <3>4. CASE n = page
      BY <1>3, <1>7, <1>t, <3>4
    <3> QED
      BY <3>1, <3>2, <3>3, <3>4
  <2>7. \A n \in {size, w, size + 2, formNum, Catalog, page} : BodyOK(n, o[n], Known(rs2))
    BY <1>7, <2>1, <2>2, <2>3, <2>4, <2>5
  <2> QED
    BY <1>7, <2>6, <2>7 DEF Appendable
<1> HIDE DEF BS, BW, BD, BF, BC, BP
<1>10. Struct(rs2)
  <2>1. r.packed = {} /\ r.table = TRUE /\ r.size \in Nat /\ size + 2 < r.size /\ formNum < r.size
    BY DEF IsStamp
  <2>2. \A n \in {size, w, size + 2, formNum, Catalog, page} : n \in Nat /\ 0 < n /\ n < r.size
    <3> TAKE n \in {size, w, size + 2, formNum, Catalog, page}
    <3>1. CASE n \in {size, w, size + 2}
      BY <1>1, <2>1, <3>1
    <3>2. CASE n = formNum
      BY <1>1, <1>4, <2>1, <3>2
    <3>3. CASE n \in {Catalog, page}
      BY <1>1, <1>3, <2>1, <3>3
    <3> QED
      BY <3>1, <3>2, <3>3
  <2>3. DOMAIN r.objs \subseteq 1..(r.size - 1)
    BY <1>7, <2>1, <2>2
  <2>4. r.size >= rs[Len(rs)].size
    BY <1>1, <2>1
  <2> QED
    BY <1>9, <2>1, <2>3, <2>4, StructGrows
<1>11. Keeps(rs, r)
  <2>1. \A n \in DOMAIN o : o[n].type \notin Rewritten => n >= rs[Len(rs)].size
    BY <1>1, <1>7, <1>t DEF Rewritten
  <2> QED
    BY <2>1 DEF Keeps, IsStamp
<1>12. Faith(rs2)
  BY <1>10, <1>11, FaithGrows
<1>13. FieldsOf(rs2) = kept \cup {w}
  <2>1. ViewOf(rs2, Catalog) = BC /\ ViewOf(rs2, formNum) = BF
    BY <1>1, <1>7, ReadAfter
  <2>2. ViewOf(rs2, Catalog).form.kind = "ref" /\ ViewOf(rs2, Catalog).form.num = formNum
    BY <1>t, <2>1 DEF FormAt
  <2>3. FieldsOf(rs2) = ElementsOf(rs2, ViewOf(rs2, formNum).fields)
    BY <2>2 DEF FieldsOf
  <2>4. ElementsOf(rs2, Here(kept \cup {w})) = kept \cup {w}
    BY DEF ElementsOf, Here
  <2> QED
    BY <1>t, <2>1, <2>3, <2>4
<1>14. NamesDifferIn(rs2)
  <2>1. \A n \in FieldsOf(rs) : ViewOf(rs, n).name # r.objs[w].name
    BY <1>7, <1>t DEF Owing
  <2>2. w \in DOMAIN r.objs /\ OneType(rs2) /\ FieldsOf(rs2) \subseteq FieldsOf(rs) \cup {w}
    BY <1>7, <1>10, <1>13 DEF Struct
  <2> HIDE DEF w
  <2> QED
    BY <1>11, <2>1, <2>2, NamesGrow
<1>15. \A k, d : Embeds(rs, k, d) => Embeds(rs2, k, d)
  <2>1. Catalog \in DOMAIN r.objs =>
          r.objs[Catalog].dss \in {ViewOf(rs, Catalog).dss, PlainOf(rs, Catalog).dss, GetOf(rs, Catalog).dss}
    BY <1>7, <1>t
  <2> QED
    BY <2>1, EmbedsGrows
<1>16. Redraws(rs, r, 1, ViewOf(rs, PageNum(1)), {size + 1})
  <2>1. AnnotsGrown(rs, page, ViewOf(rs, page), {w}) = Part(page, BP)
    <3>1. ViewOf(rs, page).annots.ref = 0
      BY DEF Owing
    <3> QED
      BY <3>1 DEF AnnotsGrown, Grown, BP
  <2>2. \A n \in {size, w, size + 2, formNum, Catalog} : NotOfPages(n)
    <3> TAKE n \in {size, w, size + 2, formNum, Catalog}
    <3>1. n \in {Catalog, FirstForm} \/ (n \in Nat /\ n >= FirstSig)
      BY <1>1, <1>4
    <3> QED
      BY <3>1, NumbersAre DEF NotOfPages
  <2>3. DOMAIN Part(page, BP) = {page} /\ Part(page, BP)[page] = BP
    BY PartIs
  <2> QED
    BY <1>7, <2>1, <2>2, <2>3 DEF Redraws
<1>17. Draws(rs, r, 1, ViewOf(rs, PageNum(1)), size, {})
  <2>1. {size + 1} \cup {} = {size + 1}
    OBVIOUS
  <2> QED
    BY <1>16, <2>1 DEF Draws
<1> QED
  BY <1>8, <1>10, <1>12, <1>13, <1>14, <1>15, <1>17 DEF Lists

\* What appendDocumentTimestamp writes.
WritesStamp(rs, rs2, ap, ap2) ==
  \E r, size, formNum, kept :
    /\ Follows(rs, r, rs2) /\ IsStamp(rs, r, size, formNum, kept)
    /\ kept \subseteq FieldsOf(rs) /\ ("inline" \notin Forms => kept = FieldsOf(rs))
    /\ ap2 = ap \cup {[widget |-> size + 1, page |-> 1]}

LEMMA AppendArchiveStampWrites ==
  ASSUME RevisionsIInv, AppendArchiveStamp
  PROVE  /\ WritesStamp(revisions, revisions', applied, applied') /\ Owing(revisions)
         /\ owed' = "nothing" /\ embedded' = embedded
<1> USE DEF RevisionsIInv, Holds
<1> DEFINE size == revisions[Len(revisions)].size
           old == ViewOf(revisions, Catalog).form
           formNum == IF old.kind = "ref" THEN old.num ELSE size + 3
           kept == IF old.kind = "ref" THEN ViewOf(revisions, old.num).fields.items ELSE {}
           r == [objs |->
                   Over(Part(size, Body("sig")),
                   Over(Part(size + 1, WidgetBody(ArchiveName)),
                   Over(Part(size + 2, Body("drawing")),
                   Over(Part(formNum, FormBody(Here(kept \cup {size + 1}))),
                   Over(Part(Catalog, [ViewOf(revisions, Catalog) EXCEPT !.form = FormAt(formNum)]),
                        Part(PageNum(1),
                             PageBody(Here(ViewOf(revisions, PageNum(1)).annots.items \cup {size + 1})))))))),
                 packed |-> {}, table |-> TRUE, size |-> size + (IF old.kind = "ref" THEN 3 ELSE 4)]
           s == [widget |-> size + 1, page |-> 1]
<1>1. /\ owed = "dts" /\ owed' = "nothing" /\ embedded' = embedded /\ applied' = applied \cup {s}
  BY DEF AppendArchiveStamp, Signed, LastRevision
<1>2. Owing(revisions)
  BY <1>1
<1>3. \A n : LastPlain(n) = ViewOf(revisions, n)
  BY <1>2, ReadingIs, PlainIsViewed DEF Owing
<1>4. FormOK(old, Known(revisions))
  <2>1. <<Catalog, "catalog">> \in Known(revisions)
    BY DEF Struct, Roots
  <2>2. /\ ViewOf(revisions, Catalog).type = "catalog"
        /\ BodyOK(Catalog, ViewOf(revisions, Catalog), Known(revisions))
    BY <2>1, ReadsOf
  <2> QED
    BY <2>2 DEF BodyOK
<1>5. old.kind = "ref" => /\ <<old.num, "form">> \in Known(revisions) /\ ViewOf(revisions, old.num) # Missing
                          /\ old.num < size
  <2> HAVE old.kind = "ref"
  <2>1. <<old.num, "form">> \in Known(revisions)
    BY <1>4 DEF FormOK
  <2> QED
    BY <2>1, ReadsOf, KnownBelow DEF Struct
<1>6. revisions' = Append(revisions, r)
  <2>1. LastPlain(Catalog) = ViewOf(revisions, Catalog) /\ LastPlain(PageNum(1)) = ViewOf(revisions, PageNum(1))
        /\ LastPlain(old.num) = ViewOf(revisions, old.num)
    BY <1>3
  <2>2. ViewOf(revisions, PageNum(1)).annots.ref = 0
    BY <1>2 DEF Owing
  <2>3. (IF (IF old.kind = "ref" THEN LastPlain(old.num) ELSE Missing) = Missing THEN {}
         ELSE (IF old.kind = "ref" THEN LastPlain(old.num) ELSE Missing).fields.items) = kept
    BY <1>5, <2>1
  <2> QED
    BY <2>1, <2>2, <2>3 DEF AppendArchiveStamp, Write, LastRevision
<1>7. size \in Nat
  BY SizeIs
<1>8. NumbersTaken(revisions, size, formNum, {})
  BY <1>5 DEF NumbersTaken
<1>9. IsStamp(revisions, r, size, formNum, kept)
  <2>1. formNum < r.size /\ size + 2 < r.size /\ r.size \in Nat
    <3>1. CASE old.kind = "ref"
      <4>1. formNum \in Nat
        BY <1>8, SignedNumbers
      <4> QED
        BY <1>5, <1>7, <3>1, <4>1
    <3>2. CASE old.kind # "ref"
      BY <1>7, <3>2
    <3> QED
      BY <3>1, <3>2
  <2> QED
    BY <1>8, <2>1 DEF IsStamp
<1>10. kept \subseteq FieldsOf(revisions) /\ ("inline" \notin Forms => kept = FieldsOf(revisions))
  <2>1. CASE old.kind = "ref"
    <3>1. ViewOf(revisions, old.num).fields.ref = 0
      BY <1>2, <2>1 DEF Owing
    <3> QED
      BY <2>1, <3>1 DEF FieldsOf, ElementsOf
  <2>2. CASE old.kind # "ref"
    <3>1. old.kind = "inline" /\ "inline" \in Forms
      BY <1>2, <1>4, <2>2 DEF Owing, FormOK
    <3> QED
      BY <2>2, <3>1
  <2> QED
    BY <2>1, <2>2
<1>11. Follows(revisions, r, revisions')
  BY <1>6 DEF Follows
<1>12. applied' = applied \cup {[widget |-> size + 1, page |-> 1]}
  BY <1>1
<1> HIDE DEF r, kept, formNum, size
<1> QED
  BY <1>1, <1>2, <1>9, <1>10, <1>11, <1>12 DEF WritesStamp

LEMMA AppendArchiveStampKeeps ==
  ASSUME RevisionsIInv, AppendArchiveStamp
  PROVE  RevisionsIInv'
<1> USE DEF RevisionsIInv, Holds
<1>1. /\ WritesStamp(revisions, revisions', applied, applied') /\ Owing(revisions)
      /\ owed' = "nothing" /\ embedded' = embedded
  BY AppendArchiveStampWrites
<1>2. PICK r, size, formNum, kept :
        /\ Follows(revisions, r, revisions') /\ IsStamp(revisions, r, size, formNum, kept)
        /\ kept \subseteq FieldsOf(revisions)
        /\ applied' = applied \cup {[widget |-> size + 1, page |-> 1]}
  BY <1>1 DEF WritesStamp
<1>3. /\ Struct(revisions') /\ Faith(revisions') /\ NamesDifferIn(revisions')
      /\ Known(revisions) \subseteq Known(revisions') /\ <<size + 1, "widget">> \in Known(revisions')
      /\ \A k, d : Embeds(revisions, k, d) => Embeds(revisions', k, d)
  BY <1>1, <1>2, StampRevision
<1> DEFINE s == [widget |-> size + 1, page |-> 1]
<1>4. s.page \in Pages /\ <<s.widget, "widget">> \in Known(revisions')
  BY <1>3, RevisionsAssumption DEF Pages
<1>5. applied' = applied \cup {s}
  BY <1>2
<1> HIDE DEF s
<1>6. /\ IsFiniteSet(applied \cup {s})
      /\ \A x \in applied \cup {s} : x.page \in Pages /\ <<x.widget, "widget">> \in Known(revisions')
  BY <1>3, <1>4, AppliedStays
<1> QED
  BY <1>1, <1>3, <1>5, <1>6

-----------------------------------------------------------------------------
(* What another program writes of the form.                                *)

OtherForm(rs, new, formNum) ==
  LET catalog == ViewOf(rs, Catalog)
      old == catalog.form
  IN CASE old.kind = "none" ->
            Over(Part(formNum, FormBody(Here(new))),
                 Part(Catalog, [catalog EXCEPT !.form = FormAt(formNum)]))
       [] old.kind = "inline" /\ old.fields.ref = 0 ->
            Part(Catalog, [catalog EXCEPT !.form.fields = Grown(@, new)])
       [] old.kind = "inline" /\ old.fields.ref # 0 -> ArrayGrown(rs, old.fields, new)
       [] old.kind = "ref" ->
            LET fields == ViewOf(rs, old.num).fields
            IN IF fields.ref = 0 THEN Part(old.num, FormBody(Grown(fields, new)))
               ELSE ArrayGrown(rs, fields, new)

\* The numbers of the catalog, of forms and of their arrays.
OfForm(n) == n \in Nat /\ (n \in {Catalog, FirstForm, FirstFields} \/ FirstSig <= n)

\* What the part f of a revision does not disturb.
FormPart(rs, f, size) ==
  /\ \A n \in DOMAIN f :
       /\ OfForm(n) /\ n \notin {size, size + 1}
       /\ n < size \/ (n = size + 2 /\ ViewOf(rs, Catalog).form.kind = "none")
       /\ f[n].type \in {"catalog", "form", "array"}
  /\ Catalog \in DOMAIN f => /\ ViewOf(rs, Catalog).form.kind # "ref"
                             /\ f[Catalog].dss = ViewOf(rs, Catalog).dss
  /\ \A n \in DOMAIN f :
       f[n].type = "form" =>
         \/ n >= size
         \/ /\ f[n].fields.ref = ViewOf(rs, n).fields.ref
            /\ ViewOf(rs, n).fields.items \subseteq f[n].fields.items

\* It is read before what was there.
ReadsOver(rs, f, rs2, size) ==
  /\ \A n \in DOMAIN f : ViewOf(rs2, n) = f[n]
  /\ \A n : OfForm(n) /\ n \notin DOMAIN f /\ n < size => ViewOf(rs2, n) = ViewOf(rs, n)

\* All that is said of the part.
PartHolds(rs, f, size) ==
  /\ FormPart(rs, f, size)
  /\ \A T : Known(rs) \subseteq T /\ Are("widget", {size + 1}, T)
              /\ (\A n \in DOMAIN f : <<n, f[n].type>> \in T) => Appendable(f, rs, T)
  /\ \A rs2 : ReadsOver(rs, f, rs2, size) => FieldsOf(rs2) = FieldsOf(rs) \cup {size + 1}

IsSize(rs, size) == size = rs[Len(rs)].size

LEMMA ViewedForm ==
  ASSUME NEW rs, Struct(rs)
  PROVE  /\ ViewOf(rs, Catalog) = CatalogBody(ViewOf(rs, Catalog).form, ViewOf(rs, Catalog).dss)
         /\ FormOK(ViewOf(rs, Catalog).form, Known(rs)) /\ <<Catalog, "catalog">> \in Known(rs)
         /\ ViewOf(rs, Catalog).dss # 0 => <<ViewOf(rs, Catalog).dss, "dss">> \in Known(rs)
<1>1. <<Catalog, "catalog">> \in Known(rs)
  BY DEF Struct, Roots
<1>2. ViewOf(rs, Catalog).type = "catalog" /\ BodyOK(Catalog, ViewOf(rs, Catalog), Known(rs))
  BY <1>1, ReadsOf
<1> QED
  BY <1>1, <1>2 DEF BodyOK

\* An array of its own grows.
ArrayPartHolds(rs, f, a, size) ==
  /\ FormPart(rs, f, size)
  /\ \A T : Known(rs) \subseteq T /\ Are("widget", {size + 1}, T) => Appendable(f, rs, T)
  /\ DOMAIN f = {FirstFields} /\ a.ref = FirstFields
  /\ f[FirstFields].items = ElementsOf(rs, a) \cup {size + 1}

LEMMA ArrayPart ==
  ASSUME NEW rs, Struct(rs), NEW size, IsSize(rs, size), NEW a, a.ref # 0,
         ArrayOK(a, FirstFields, Known(rs)), Are("widget", a.items, Known(rs))
  PROVE  ArrayPartHolds(rs, ArrayGrown(rs, a, {size + 1}), a, size)
<1> DEFINE b == ArrayBody(ElementsOf(rs, a) \cup {size + 1})
           f == ArrayGrown(rs, a, {size + 1})
<1>1. a.ref = FirstFields /\ <<FirstFields, "array">> \in Known(rs)
  BY DEF ArrayOK
<1>2. f = Part(FirstFields, b)
  BY <1>1 DEF ArrayGrown
<1>3. b.type = "array" /\ b.items = ElementsOf(rs, a) \cup {size + 1}
  BY DEF ArrayBody
<1> HIDE DEF b
<1>4. DOMAIN f = {FirstFields} /\ f[FirstFields] = b
  BY <1>2 DEF Part
<1>5. /\ size \in Nat /\ FirstSig < size /\ 3 < FirstSig /\ FirstSig \in Nat /\ Catalog = 1 /\ FirstFields = 3
  BY SizeIs DEF IsSize
<1>6. FormPart(rs, f, size)
  <2>1. OfForm(FirstFields) /\ FirstFields \notin {size, size + 1} /\ FirstFields < size /\ FirstFields # Catalog
    BY <1>5 DEF OfForm
  <2> HIDE DEF f
  <2> QED
    BY <1>3, <1>4, <2>1 DEF FormPart
<1>7. \A T : Known(rs) \subseteq T /\ Are("widget", {size + 1}, T) => Appendable(f, rs, T)
  <2> TAKE T
  <2> HAVE Known(rs) \subseteq T /\ Are("widget", {size + 1}, T)
  <2> DEFINE new == {size + 1}
  <2>1. Are("widget", new, T)
    OBVIOUS
  <2> HIDE DEF new
  <2>2. Appendable(ArrayGrown(rs, a, new), rs, T)
    BY <2>1, FieldsGrow
  <2> QED
    BY <2>2 DEF new
<1> HIDE DEF f
<1> QED
  BY <1>1, <1>3, <1>4, <1>6, <1>7 DEF f, ArrayPartHolds

LEMMA OtherFormHolds ==
  ASSUME NEW rs, Struct(rs), NEW size, IsSize(rs, size)
  PROVE  PartHolds(rs, OtherForm(rs, {size + 1}, size + 2), size)
<1> DEFINE new == {size + 1}
           old == ViewOf(rs, Catalog).form
           data == ViewOf(rs, Catalog).dss
           f == OtherForm(rs, new, size + 2)
<1>1. /\ size \in Nat /\ FirstSig < size /\ 3 < FirstSig /\ FirstSig \in Nat
      /\ Catalog = 1 /\ FirstForm = 2 /\ FirstFields = 3 /\ size = rs[Len(rs)].size
  BY SizeIs DEF IsSize
<1>2. /\ ViewOf(rs, Catalog) = CatalogBody(old, data) /\ FormOK(old, Known(rs))
      /\ <<Catalog, "catalog">> \in Known(rs)
      /\ data # 0 => <<data, "dss">> \in Known(rs)
  BY ViewedForm
<1>3. old.kind \in {"none", "inline", "ref"} /\ ArrayOK(old.fields, FirstFields, Known(rs))
      /\ Are("widget", old.fields.items, Known(rs))
  BY <1>2 DEF FormOK
<1>4. CASE old.kind = "none"
  <2> DEFINE n1 == size + 2
             BF == FormBody(Here(new))
             BC == CatalogBody(FormAt(n1), data)
  <2>1. [ViewOf(rs, Catalog) EXCEPT !.form = FormAt(n1)] = BC
    BY <1>2 DEF CatalogBody
  <2>2. f = Over(Part(n1, BF), Part(Catalog, BC))
    BY <1>4, <2>1 DEF OtherForm
  <2>3. /\ BF.type = "form" /\ BC.type = "catalog" /\ BF.fields = Here(new)
        /\ BC.form = FormAt(n1) /\ BC.dss = data
    BY DEF FormBody, CatalogBody
  <2>4. n1 # Catalog
    BY <1>1
  <2>5. DOMAIN f = {n1, Catalog} /\ f[n1] = BF /\ f[Catalog] = BC
    <3> HIDE DEF BF, BC, n1
    <3> QED
      BY <2>2, <2>4 DEF Over, Part
  <2>6. FormPart(rs, f, size)
    <3>1. OfForm(n1) /\ n1 \notin {size, size + 1} /\ n1 >= size /\ OfForm(Catalog) /\ Catalog \notin {size, size + 1}
          /\ Catalog < size
      BY <1>1 DEF OfForm
    <3> HIDE DEF BF, BC, f
    <3> QED
      BY <1>4, <2>3, <2>4, <2>5, <3>1 DEF FormPart
  <2>7. ASSUME NEW T, Known(rs) \subseteq T, Are("widget", new, T),
               \A n \in DOMAIN f : <<n, f[n].type>> \in T
        PROVE  Appendable(f, rs, T)
    <3>1. <<n1, "form">> \in T
      <4> HIDE DEF BF, BC, f, n1
      <4> QED
        BY <2>3, <2>5, <2>7
    <3>2. BodyOK(n1, BF, T)
      <4>1. ArrayOK(Here(new), FirstFields, T) /\ Are("widget", Here(new).items, T)
        BY <2>7 DEF ArrayOK, Here
      <4> HIDE DEF new
      <4> QED
        BY <1>1, <4>1 DEF BodyOK, FormBody, Types
    <3>3. BodyOK(Catalog, BC, T)
      <4>1. FormOK(FormAt(n1), T)
        BY <3>1 DEF FormOK, FormAt, ArrayOK, Are, Here
      <4>2. data # 0 => <<data, "dss">> \in T
        BY <1>2, <2>7
      <4> HIDE DEF data, n1
      <4> QED
        BY <4>1, <4>2 DEF BodyOK, CatalogBody, Types
    <3>4. n1 \in Nat /\ n1 >= rs[Len(rs)].size /\ Catalog \in Nat
      BY <1>1
    <3> HIDE DEF BF, BC, n1
    <3>5. Appendable(Part(n1, BF), rs, T)
      BY <3>2, <3>4, PartAppendable
    <3>6. Appendable(Part(Catalog, BC), rs, T)
      BY <1>2, <2>3, <3>3, <3>4, PartAppendable
    <3> QED
      BY <2>2, <3>5, <3>6, OverAppendable
  <2>8. ASSUME NEW rs2, ReadsOver(rs, f, rs2, size)
        PROVE  FieldsOf(rs2) = FieldsOf(rs) \cup new
    <3>1. ViewOf(rs2, Catalog) = BC /\ ViewOf(rs2, n1) = BF
      <4> HIDE DEF BF, BC, f, n1
      <4> QED
        BY <2>5, <2>8 DEF ReadsOver
    <3>2. BC.form.kind = "ref" /\ BC.form.num = n1
      BY <2>3 DEF FormAt
    <3>3. ElementsOf(rs2, BF.fields) = new
      BY <2>3 DEF ElementsOf, Here
    <3>4. FieldsOf(rs) = {}
      BY <1>4 DEF FieldsOf
    <3> HIDE DEF BF, BC, n1
    <3>5. FieldsOf(rs2) = ElementsOf(rs2, BF.fields)
      BY <3>1, <3>2 DEF FieldsOf
    <3> QED
      BY <3>3, <3>4, <3>5
  <2> QED
    BY <2>6, <2>7, <2>8 DEF PartHolds
<1>5. CASE old.kind = "inline" /\ old.fields.ref = 0
  <2> DEFINE form == [old EXCEPT !.fields = Here(old.fields.items \cup new)]
             BC == CatalogBody(form, data)
  <2>1. [ViewOf(rs, Catalog) EXCEPT !.form.fields = Grown(@, new)] = BC
    <3>1. Grown(old.fields, new) = Here(old.fields.items \cup new)
      BY <1>5 DEF Grown
    <3> QED
      BY <1>2, <3>1 DEF CatalogBody
  <2>2. f = Part(Catalog, BC)
    BY <1>5, <2>1 DEF OtherForm
  <2>3. form.kind = "inline" /\ form.num = old.num /\ form.fields = Here(old.fields.items \cup new)
        /\ form = [kind |-> form.kind, num |-> form.num, fields |-> form.fields]
    BY <1>2, <1>5 DEF FormOK
  <2>4. BC.type = "catalog" /\ BC.form = form /\ BC.dss = data
    BY DEF CatalogBody
  <2>5. DOMAIN f = {Catalog} /\ f[Catalog] = BC
    BY <2>2 DEF Part
  <2>6. FormPart(rs, f, size)
    <3>1. OfForm(Catalog) /\ Catalog \notin {size, size + 1} /\ Catalog < size
      BY <1>1 DEF OfForm
    <3> HIDE DEF BC, f
    <3> QED
      BY <1>5, <2>4, <2>5, <3>1 DEF FormPart
  <2>7. ASSUME NEW T, Known(rs) \subseteq T, Are("widget", new, T)
        PROVE  Appendable(f, rs, T)
    <3>1. FormOK(form, T)
      <4>1. ArrayOK(Here(old.fields.items \cup new), FirstFields, T)
            /\ Are("widget", Here(old.fields.items \cup new).items, T)
        BY <1>3, <2>7 DEF ArrayOK, Here, Are
      <4>2. "inline" \in Forms
        BY <1>2, <1>5 DEF FormOK
      <4> HIDE DEF form
      <4> QED
        BY <2>3, <4>1, <4>2 DEF FormOK
    <3>2. data # 0 => <<data, "dss">> \in T
      BY <1>2, <2>7
    <3>3. BodyOK(Catalog, BC, T)
      <4> HIDE DEF data, form
      <4> QED
        BY <3>1, <3>2 DEF BodyOK, CatalogBody, Types
    <3>4. Catalog \in Nat
      BY <1>1
    <3> HIDE DEF BC
    <3>5. Appendable(Part(Catalog, BC), rs, T)
      BY <1>2, <2>4, <3>3, <3>4, PartAppendable
    <3> QED
      BY <2>2, <3>5
  <2>8. ASSUME NEW rs2, ReadsOver(rs, f, rs2, size)
        PROVE  FieldsOf(rs2) = FieldsOf(rs) \cup new
    <3>1. ViewOf(rs2, Catalog) = BC
      <4> HIDE DEF BC, f
      <4> QED
        BY <2>5, <2>8 DEF ReadsOver
    <3>2. FieldsOf(rs) = old.fields.items
      BY <1>5 DEF FieldsOf, ElementsOf
    <3>3. FieldsOf(rs2) = ElementsOf(rs2, form.fields)
      <4> HIDE DEF form
      <4> QED
        BY <2>3, <2>4, <3>1 DEF FieldsOf
    <3>4. ElementsOf(rs2, Here(old.fields.items \cup new)) = old.fields.items \cup new
      BY DEF ElementsOf, Here
    <3> QED
      BY <2>3, <3>2, <3>3, <3>4
  <2> QED
    BY <2>6, <2>7, <2>8 DEF PartHolds
<1>6. CASE old.kind = "inline" /\ old.fields.ref # 0
  <2>1. f = ArrayGrown(rs, old.fields, new)
    BY <1>6 DEF OtherForm
  <2>2. /\ FormPart(rs, f, size)
        /\ \A T : Known(rs) \subseteq T /\ Are("widget", {size + 1}, T) => Appendable(f, rs, T)
        /\ DOMAIN f = {FirstFields} /\ old.fields.ref = FirstFields
        /\ f[FirstFields].items = ElementsOf(rs, old.fields) \cup {size + 1}
    <3>1. ArrayPartHolds(rs, ArrayGrown(rs, old.fields, {size + 1}), old.fields, size)
      BY <1>3, <1>6, ArrayPart
    <3> QED
      BY <2>1, <3>1 DEF ArrayPartHolds
  <2>8. ASSUME NEW rs2, ReadsOver(rs, f, rs2, size)
        PROVE  FieldsOf(rs2) = FieldsOf(rs) \cup new
    <3>1. FieldsOf(rs) = ElementsOf(rs, old.fields)
      BY <1>6 DEF FieldsOf
    <3>2. OfForm(Catalog) /\ Catalog < size /\ Catalog # FirstFields
      BY <1>1 DEF OfForm
    <3> HIDE DEF f
    <3>3. ViewOf(rs2, Catalog) = ViewOf(rs, Catalog) /\ ViewOf(rs2, FirstFields) = f[FirstFields]
      BY <2>2, <2>8, <3>2 DEF ReadsOver
    <3>4. FieldsOf(rs2) = ElementsOf(rs2, old.fields)
      BY <1>6, <3>3 DEF FieldsOf
    <3>5. ElementsOf(rs2, old.fields) = f[FirstFields].items
      BY <1>6, <2>2, <3>3 DEF ElementsOf
    <3> QED
      BY <2>2, <3>1, <3>4, <3>5
  <2> QED
    BY <2>2, <2>8 DEF PartHolds
<1>7. ASSUME old.kind = "ref"
      PROVE  /\ <<old.num, "form">> \in Known(rs) /\ old.num # Catalog /\ old.num # FirstFields
             /\ old.num < size /\ OfForm(old.num) /\ old.num \notin {size, size + 1} /\ old.num \in Nat
             /\ (old.num = FirstForm \/ FirstSig <= old.num)
             /\ ArrayOK(ViewOf(rs, old.num).fields, FirstFields, Known(rs))
             /\ Are("widget", ViewOf(rs, old.num).fields.items, Known(rs))
  <2>1. <<old.num, "form">> \in Known(rs)
    BY <1>2, <1>7 DEF FormOK
  <2>2. old.num # Catalog
    BY <1>2, <2>1 DEF Struct, OneType
  <2>3. old.num \in Nat /\ old.num < size
    BY <1>1, <2>1, KnownBelow DEF Struct
  <2>4. ViewOf(rs, old.num).type = "form" /\ BodyOK(old.num, ViewOf(rs, old.num), Known(rs))
    BY <2>1, ReadsOf
  <2>5. /\ (old.num = FirstForm \/ FirstSig <= old.num)
        /\ ArrayOK(ViewOf(rs, old.num).fields, FirstFields, Known(rs))
        /\ Are("widget", ViewOf(rs, old.num).fields.items, Known(rs))
    BY <1>1, <2>3, <2>4 DEF BodyOK
  <2> HIDE DEF old
  <2>6. OfForm(old.num) /\ old.num # FirstFields /\ old.num \notin {size, size + 1}
    BY <1>1, <2>3, <2>5 DEF OfForm
  <2> QED
    BY <2>1, <2>2, <2>3, <2>5, <2>6
<1> DEFINE fields == ViewOf(rs, old.num).fields
<1>8. CASE old.kind = "ref" /\ fields.ref = 0
  <2> DEFINE BF == FormBody(Here(fields.items \cup new))
             n1 == old.num
  <2>1. f = Part(n1, BF)
    BY <1>8 DEF OtherForm, Grown
  <2>2. BF.type = "form" /\ BF.fields = Here(fields.items \cup new)
    BY DEF FormBody
  <2>3. DOMAIN f = {n1} /\ f[n1] = BF
    BY <2>1 DEF Part
  <2>4. /\ <<n1, "form">> \in Known(rs) /\ n1 # Catalog /\ n1 # FirstFields
        /\ n1 < size /\ OfForm(n1) /\ n1 \notin {size, size + 1} /\ n1 \in Nat
        /\ (n1 = FirstForm \/ FirstSig <= n1)
        /\ ArrayOK(fields, FirstFields, Known(rs)) /\ Are("widget", fields.items, Known(rs))
    BY <1>7, <1>8
  <2>6. FormPart(rs, f, size)
    <3>1. fields = ViewOf(rs, n1).fields /\ BF.fields.ref = 0 /\ BF.fields.items = fields.items \cup new
      BY <2>2 DEF Here
    <3> HIDE DEF BF, f, n1, fields
    <3> QED
      BY <1>8, <2>2, <2>3, <2>4, <3>1 DEF FormPart
  <2>7. ASSUME NEW T, Known(rs) \subseteq T, Are("widget", new, T)
        PROVE  Appendable(f, rs, T)
    <3>1. ArrayOK(Here(fields.items \cup new), FirstFields, T)
          /\ Are("widget", Here(fields.items \cup new).items, T)
      BY <2>4, <2>7 DEF ArrayOK, Here, Are
    <3> HIDE DEF fields, n1, new
    <3>2. BodyOK(n1, BF, T)
      BY <1>1, <2>4, <3>1 DEF BodyOK, FormBody, Types
    <3> HIDE DEF BF
    <3>3. Appendable(Part(n1, BF), rs, T)
      BY <2>2, <2>4, <3>2, PartAppendable
    <3> QED
      BY <2>1, <3>3
  <2>8. ASSUME NEW rs2, ReadsOver(rs, f, rs2, size)
        PROVE  FieldsOf(rs2) = FieldsOf(rs) \cup new
    <3>1. FieldsOf(rs) = fields.items
      BY <1>8 DEF FieldsOf, ElementsOf
    <3>2. OfForm(Catalog) /\ Catalog < size
      BY <1>1 DEF OfForm
    <3>3. ViewOf(rs2, Catalog) = ViewOf(rs, Catalog) /\ ViewOf(rs2, n1) = BF
      <4> HIDE DEF BF, f, n1
      <4> QED
        BY <2>3, <2>4, <2>8, <3>2 DEF ReadsOver
    <3>4. FieldsOf(rs2) = ElementsOf(rs2, BF.fields)
      <4> HIDE DEF BF
      <4> QED
        BY <1>8, <3>3 DEF FieldsOf
    <3>5. ElementsOf(rs2, Here(fields.items \cup new)) = fields.items \cup new
      BY DEF ElementsOf, Here
    <3> QED
      BY <2>2, <3>1, <3>4, <3>5
  <2> QED
    BY <2>6, <2>7, <2>8 DEF PartHolds
<1>9. CASE old.kind = "ref" /\ fields.ref # 0
  <2>1. f = ArrayGrown(rs, fields, new)
    BY <1>9 DEF OtherForm
  <2>0. /\ old.num # FirstFields /\ old.num < size /\ OfForm(old.num)
        /\ ArrayOK(fields, FirstFields, Known(rs)) /\ Are("widget", fields.items, Known(rs))
    BY <1>7, <1>9
  <2>2. /\ FormPart(rs, f, size)
        /\ \A T : Known(rs) \subseteq T /\ Are("widget", {size + 1}, T) => Appendable(f, rs, T)
        /\ DOMAIN f = {FirstFields} /\ fields.ref = FirstFields
        /\ f[FirstFields].items = ElementsOf(rs, fields) \cup {size + 1}
    <3>1. ArrayPartHolds(rs, ArrayGrown(rs, fields, {size + 1}), fields, size)
      BY <1>9, <2>0, ArrayPart
    <3> QED
      BY <2>1, <3>1 DEF ArrayPartHolds
  <2>8. ASSUME NEW rs2, ReadsOver(rs, f, rs2, size)
        PROVE  FieldsOf(rs2) = FieldsOf(rs) \cup new
    <3>1. FieldsOf(rs) = ElementsOf(rs, fields)
      BY <1>9 DEF FieldsOf
    <3>2. OfForm(Catalog) /\ Catalog < size /\ Catalog # FirstFields
      BY <1>1 DEF OfForm
    <3> HIDE DEF f
    <3>3. /\ ViewOf(rs2, Catalog) = ViewOf(rs, Catalog) /\ ViewOf(rs2, FirstFields) = f[FirstFields]
          /\ ViewOf(rs2, old.num) = ViewOf(rs, old.num)
      BY <2>0, <2>2, <2>8, <3>2 DEF ReadsOver
    <3>4. FieldsOf(rs2) = ElementsOf(rs2, fields)
      BY <1>9, <3>3 DEF FieldsOf
    <3>5. ElementsOf(rs2, fields) = f[FirstFields].items
      BY <1>9, <2>2, <3>3 DEF ElementsOf
    <3> QED
      BY <2>2, <3>1, <3>4, <3>5
  <2> QED
    BY <2>2, <2>8 DEF PartHolds
<1> QED
  BY <1>3, <1>4, <1>5, <1>6, <1>8, <1>9

\* A revision that another program writes.
IsOther(rs, r, p, size, name) ==
  /\ IsSize(rs, size)
  /\ r.objs = Over(Over(OtherForm(rs, {size + 1}, size + 2),
                        AnnotsGrown(rs, PageNum(p), ViewOf(rs, PageNum(p)), {size + 1})),
                   Over(Part(size + 1, WidgetBody(name)), Part(size, Body("sig"))))
  /\ r.packed \subseteq DOMAIN r.objs \ {size} /\ r.table \in BOOLEAN /\ (r.table => r.packed = {})
  /\ r.size = IF ViewOf(rs, Catalog).form.kind = "none" THEN size + 3 ELSE size + 2

LEMMA OtherRevision ==
  ASSUME NEW rs, Struct(rs), Faith(rs), NamesDifferIn(rs), NEW p \in Pages, NEW size,
         NEW name \in Nat, NEW r, NEW rs2, Follows(rs, r, rs2), IsOther(rs, r, p, size, name),
         \A n \in FieldsOf(rs) : ViewOf(rs, n).name # name
  PROVE  /\ Struct(rs2) /\ Faith(rs2) /\ NamesDifferIn(rs2)
         /\ Known(rs) \subseteq Known(rs2) /\ <<size + 1, "widget">> \in Known(rs2)
         /\ \A k, d : Embeds(rs, k, d) => Embeds(rs2, k, d)
         /\ Lists(rs2, FieldsOf(rs), size) /\ Draws(rs, r, p, ViewOf(rs, PageNum(p)), size, {})
<1> DEFINE o == r.objs
           w == size + 1
           f == OtherForm(rs, {size + 1}, size + 2)
           a == AnnotsGrown(rs, PageNum(p), ViewOf(rs, PageNum(p)), {size + 1})
           BW == WidgetBody(name)
           BS == Body("sig")
           ends == Over(Part(w, BW), Part(size, BS))
           h == Over(f, a)
<1>1. /\ size \in Nat /\ size = rs[Len(rs)].size /\ FirstSig < size /\ IsFile(rs) /\ IsSize(rs, size)
      /\ FirstSig \in Nat /\ 3 < FirstSig /\ Catalog = 1 /\ FirstForm = 2 /\ FirstFields = 3
  BY SizeIs DEF IsOther, IsSize
<1>2. PartHolds(rs, f, size)
  BY <1>1, OtherFormHolds
<1>3. ViewOf(rs, PageNum(p)).type = "page" /\ BodyOK(PageNum(p), ViewOf(rs, PageNum(p)), Known(rs))
  <2>1. <<PageNum(p), "page">> \in Known(rs)
    BY DEF Struct, Roots
  <2> QED
    BY <2>1, ReadsOf
<1>4. \A T : Known(rs) \subseteq T /\ Are("widget", {w}, T) => Appendable(a, rs, T)
  <2> TAKE T
  <2> HAVE Known(rs) \subseteq T /\ Are("widget", {w}, T)
  <2> DEFINE new == {size + 1}
  <2>1. Drawn(new, T)
    BY DEF Drawn, Are
  <2> HIDE DEF new
  <2>2. Appendable(AnnotsGrown(rs, PageNum(p), ViewOf(rs, PageNum(p)), new), rs, T)
    BY <1>3, <2>1, AnnotsGrow
  <2> QED
    BY <2>2 DEF new
<1>5. /\ DOMAIN a \subseteq {PageNum(p), AnnotsNum(p)}
      /\ \A n \in DOMAIN a : a[n].type \in {"page", "array"}
  <2> DEFINE T == Known(rs) \cup {<<size + 1, "widget">>}
             new == {size + 1}
  <2>1. Drawn(new, T) /\ Known(rs) \subseteq T
    BY DEF Drawn
  <2> HIDE DEF T, new
  <2>2. /\ DOMAIN AnnotsGrown(rs, PageNum(p), ViewOf(rs, PageNum(p)), new) \subseteq {PageNum(p), AnnotsNum(p)}
        /\ \A n \in DOMAIN AnnotsGrown(rs, PageNum(p), ViewOf(rs, PageNum(p)), new) :
             AnnotsGrown(rs, PageNum(p), ViewOf(rs, PageNum(p)), new)[n].type \in {"page", "array"}
    BY <1>3, <2>1, AnnotsGrow
  <2> QED
    BY <2>2 DEF new
<1>6. /\ PageNum(p) \in Nat /\ 3 < PageNum(p) /\ PageNum(p) < FirstSig
      /\ AnnotsNum(p) \in Nat /\ 3 < AnnotsNum(p) /\ AnnotsNum(p) < FirstSig
  BY NumbersAre
<1>7. FormPart(rs, f, size)
  BY <1>2 DEF PartHolds
<1>8. o = Over(h, ends)
  BY DEF IsOther
<1> HIDE DEF f, a
<1>9. /\ \A n \in DOMAIN f : OfForm(n) /\ n \notin {size, w} /\ n < size + 3
      /\ \A n \in DOMAIN f : n < size + 2 \/ ViewOf(rs, Catalog).form.kind = "none"
      /\ \A n \in DOMAIN a : n \in Nat /\ n < size /\ 3 < n /\ ~OfForm(n)
  <2>1. \A n \in DOMAIN f : OfForm(n) /\ n \notin {size, w} /\ n \in Nat /\
          (n < size \/ (n = size + 2 /\ ViewOf(rs, Catalog).form.kind = "none"))
    BY <1>7 DEF FormPart, OfForm
  <2>2. \A n \in DOMAIN a : n \in Nat /\ n < size /\ 3 < n /\ n < FirstSig
    BY <1>1, <1>5, <1>6
  <2>3. \A n \in DOMAIN a : ~OfForm(n)
    BY <1>1, <2>2 DEF OfForm
  <2> QED
    BY <1>1, <2>1, <2>2, <2>3
<1> HIDE DEF BW, BS
<1>10. DOMAIN ends = {w, size} /\ ends[w] = BW /\ ends[size] = BS
  <2>1. w # size
    BY <1>1
  <2> HIDE DEF w
  <2> QED
    BY <2>1 DEF Over, Part
<1> HIDE DEF ends
<1>11. /\ DOMAIN h = DOMAIN f \cup DOMAIN a /\ \A n \in DOMAIN f : h[n] = f[n]
       /\ \A n \in DOMAIN h : n \notin DOMAIN f => n \in DOMAIN a /\ h[n] = a[n]
  BY DEF Over
<1>12. /\ DOMAIN o = DOMAIN h \cup {w, size}
       /\ \A n \in DOMAIN h : o[n] = h[n]
       /\ \A n \in {w, size} : n \notin DOMAIN h => o[n] = ends[n]
  BY <1>8, <1>10 DEF Over
<1> HIDE DEF h
<1>13. w \notin DOMAIN h /\ size \notin DOMAIN h
  BY <1>1, <1>9, <1>11
<1>14. /\ DOMAIN o = DOMAIN f \cup DOMAIN a \cup {w, size}
       /\ \A n \in DOMAIN f : o[n] = f[n]
       /\ \A n \in DOMAIN a : n \notin DOMAIN f => o[n] = a[n]
       /\ o[w] = BW /\ o[size] = BS
  BY <1>10, <1>11, <1>12, <1>13
<1>t. BW.type = "widget" /\ BS.type = "sig" /\ BW.name = name
  BY DEF BW, BS, WidgetBody, Body
<1>15. /\ Known(rs) \subseteq Known(rs2) /\ <<w, "widget">> \in Known(rs2)
       /\ \A n \in DOMAIN f : <<n, f[n].type>> \in Known(rs2)
  <2>1. /\ Known(rs) \subseteq Known(rs2)
        /\ \A n \in DOMAIN o : <<n, o[n].type>> \in Known(rs2)
    BY <1>1, KnownGrows
  <2> HIDE DEF o, w
  <2>2. <<w, o[w].type>> \in Known(rs2)
    BY <1>14, <2>1
  <2>3. \A n \in DOMAIN f : <<n, o[n].type>> \in Known(rs2)
    BY <1>14, <2>1
  <2> QED
    BY <1>14, <1>t, <2>1, <2>2, <2>3
<1>16. Appendable(o, rs, Known(rs2))
  <2>1. Are("widget", {size + 1}, Known(rs2))
    BY <1>15 DEF Are
  <2>2. Appendable(f, rs, Known(rs2))
    BY <1>2, <1>15, <2>1 DEF PartHolds
  <2>3. Appendable(a, rs, Known(rs2))
    BY <1>4, <1>15, <2>1
  <2>4. BodyOK(w, BW, Known(rs2)) /\ w \in Nat /\ w >= rs[Len(rs)].size
    BY <1>1 DEF BodyOK, BW, WidgetBody, Types
  <2>5. BodyOK(size, BS, Known(rs2)) /\ size >= rs[Len(rs)].size
    BY <1>1 DEF BodyOK, BS, Body, Types
  <2>6. Appendable(Part(w, BW), rs, Known(rs2))
    BY <2>4, PartAppendable
  <2>7. Appendable(Part(size, BS), rs, Known(rs2))
    BY <1>1, <2>5, PartAppendable
  <2>8. Appendable(ends, rs, Known(rs2))
    BY <2>6, <2>7, OverAppendable DEF ends
  <2>9. Appendable(h, rs, Known(rs2))
    BY <2>2, <2>3, OverAppendable DEF h
  <2>10. Appendable(Over(h, ends), rs, Known(rs2))
    BY <2>8, <2>9, OverAppendable
  <2> QED
    BY <1>8, <2>10
<1>17. Struct(rs2)
  <2>1. r.size \in Nat /\ size + 2 <= r.size /\ (ViewOf(rs, Catalog).form.kind = "none" => r.size = size + 3)
    BY <1>1 DEF IsOther
  <2>2. \A n \in DOMAIN o : n \in Nat /\ 0 < n /\ n < r.size
    <3> TAKE n \in DOMAIN o
    <3>1. CASE n \in DOMAIN f
      <4>1. n \in Nat /\ 0 < n
        BY <1>1, <1>9, <3>1 DEF OfForm
      <4> QED
        BY <1>1, <1>9, <2>1, <3>1, <4>1
    <3>2. CASE n \in DOMAIN a
      BY <1>1, <1>9, <2>1, <3>2
    <3>3. CASE n \in {w, size}
      BY <1>1, <2>1, <3>3
    <3> QED
      BY <1>14, <3>1, <3>2, <3>3
  <2>3. DOMAIN r.objs \subseteq 1..(r.size - 1)
    BY <2>1, <2>2
  <2>4. r.packed \subseteq DOMAIN r.objs /\ r.table \in BOOLEAN
    BY DEF IsOther
  <2>5. r.size >= rs[Len(rs)].size
    BY <1>1, <2>1
  <2> QED
    BY <1>16, <2>1, <2>3, <2>4, <2>5, StructGrows
<1>18. Keeps(rs, r)
  <2>1. \A n \in DOMAIN o : o[n].type \notin Rewritten => n >= rs[Len(rs)].size
    <3> TAKE n \in DOMAIN o
    <3> HAVE o[n].type \notin Rewritten
    <3>1. n \notin DOMAIN f
      BY <1>7, <1>14 DEF FormPart, Rewritten
    <3>2. n \notin DOMAIN a
      BY <1>5, <1>14, <3>1 DEF Rewritten
    <3> QED
      BY <1>1, <1>14, <3>1, <3>2
  <2>2. Catalog \notin DOMAIN a /\ Catalog \notin {w, size}
    BY <1>1, <1>9
  <2>3. Catalog \in DOMAIN o => Catalog \in DOMAIN f
    BY <1>14, <2>2
  <2>4. \A n \in DOMAIN o : o[n].type = "form" => n \in DOMAIN f
    <3> TAKE n \in DOMAIN o
    <3> HAVE o[n].type = "form"
    <3>1. CASE n \in DOMAIN a /\ n \notin DOMAIN f
      BY <1>5, <1>14, <3>1
    <3> QED
      BY <1>14, <1>t, <3>1
  <2>5. \A n \in DOMAIN o : o[n].type = "form" =>
         \/ n >= rs[Len(rs)].size
         \/ /\ o[n].fields.ref = ViewOf(rs, n).fields.ref
            /\ ViewOf(rs, n).fields.items \subseteq o[n].fields.items
    BY <1>1, <1>7, <1>14, <2>4 DEF FormPart
  <2>6. r.packed \subseteq DOMAIN r.objs /\ (r.table => r.packed = {})
    BY DEF IsOther
  <2>7. Catalog \in DOMAIN f => ViewOf(rs, Catalog).form.kind # "ref"
    BY <1>7 DEF FormPart
  <2> QED
    BY <2>1, <2>3, <2>5, <2>6, <2>7 DEF Keeps
<1>19. Faith(rs2)
  BY <1>17, <1>18, FaithGrows
<1>20. ReadsOver(rs, f, rs2, size)
  <2>1. \A n \in DOMAIN f : ViewOf(rs2, n) = f[n]
    BY <1>1, <1>14, ReadAfter
  <2>2. \A n : OfForm(n) /\ n \notin DOMAIN f /\ n < size => ViewOf(rs2, n) = ViewOf(rs, n)
    <3> TAKE n
    <3> HAVE OfForm(n) /\ n \notin DOMAIN f /\ n < size
    <3>1. n \notin DOMAIN a
      BY <1>9
    <3>2. n \notin {w, size}
      BY <1>1 DEF OfForm
    <3>3. n \notin DOMAIN o
      BY <1>14, <3>1, <3>2
    <3> QED
      BY <1>1, <3>3, ReadAfter
  <2> QED
    BY <2>1, <2>2 DEF ReadsOver
<1>21. FieldsOf(rs2) = FieldsOf(rs) \cup {size + 1}
  BY <1>2, <1>20 DEF PartHolds
<1>22. NamesDifferIn(rs2)
  <2>1. w \in DOMAIN r.objs /\ OneType(rs2) /\ FieldsOf(rs2) \subseteq FieldsOf(rs) \cup {w}
    BY <1>14, <1>17, <1>21 DEF Struct
  <2>2. \A n \in FieldsOf(rs) : ViewOf(rs, n).name # r.objs[w].name
    BY <1>14, <1>t
  <2> HIDE DEF w
  <2> QED
    BY <1>18, <2>1, <2>2, NamesGrow
<1>23. \A k, d : Embeds(rs, k, d) => Embeds(rs2, k, d)
  <2>1. Catalog \in DOMAIN r.objs => Catalog \in DOMAIN f /\ r.objs[Catalog] = f[Catalog]
    BY <1>1, <1>9, <1>14
  <2>2. Catalog \in DOMAIN f => f[Catalog].dss = ViewOf(rs, Catalog).dss
    BY <1>7 DEF FormPart
  <2>3. Catalog \in DOMAIN r.objs =>
          r.objs[Catalog].dss \in {ViewOf(rs, Catalog).dss, PlainOf(rs, Catalog).dss, GetOf(rs, Catalog).dss}
    BY <2>1, <2>2
  <2> QED
    BY <2>3, EmbedsGrows
<1>24. Redraws(rs, r, p, ViewOf(rs, PageNum(p)), {size + 1})
  <2>1. \A n : OfForm(n) => NotOfPages(n)
    <3> SUFFICES ASSUME NEW n, OfForm(n)
                 PROVE  NotOfPages(n)
      OBVIOUS
    <3>1. n \in {Catalog, FirstForm, FirstFields} \/ (n \in Nat /\ n >= FirstSig)
      BY NumbersAre DEF OfForm
    <3> QED
      BY <3>1, NumbersAre DEF NotOfPages
  <2>2. OfForm(w) /\ OfForm(size)
    BY <1>1 DEF OfForm
  <2>3. \A n \in DOMAIN a : n \in DOMAIN o /\ o[n] = a[n]
    BY <1>9, <1>14
  <2>4. \A n \in DOMAIN o : n \in DOMAIN a \/ NotOfPages(n)
    BY <1>9, <1>14, <2>1, <2>2
  <2> QED
    BY <2>3, <2>4 DEF Redraws, a
<1>25. Draws(rs, r, p, ViewOf(rs, PageNum(p)), size, {})
  <2>1. {size + 1} \cup {} = {size + 1}
    OBVIOUS
  <2> QED
    BY <1>24, <2>1 DEF Draws
<1> QED
  BY <1>15, <1>17, <1>19, <1>21, <1>22, <1>23, <1>25 DEF Lists

\* What another program writes on page p.
WritesOther(rs, rs2, ap, ap2, p) ==
  \E r, size, name :
    /\ name \in Nat /\ Follows(rs, r, rs2) /\ IsOther(rs, r, p, size, name)
    /\ \A n \in FieldsOf(rs) : ViewOf(rs, n).name # name
    /\ ~Repacking => \A n \in r.packed : PlainOf(rs, n) = Missing
    /\ ap2 = ap \cup {[widget |-> size + 1, page |-> p]}

LEMMA OtherSignsWrites ==
  ASSUME RevisionsIInv, NEW p \in Pages, NEW name \in 1..MaxFieldName, NEW pack \in BOOLEAN,
         OtherSigns(p, name, pack)
  PROVE  WritesOther(revisions, revisions', applied, applied', p)
<1> USE DEF RevisionsIInv, Holds
<1> DEFINE size == revisions[Len(revisions)].size
           old == ViewOf(revisions, Catalog).form
           o == Over(Over(OtherForm(revisions, {size + 1}, size + 2),
                          AnnotsGrown(revisions, PageNum(p), ViewOf(revisions, PageNum(p)), {size + 1})),
                     Over(Part(size + 1, WidgetBody(name)), Part(size, Body("sig"))))
           r == [objs |-> o, packed |-> IF pack THEN DOMAIN o \ {size} ELSE {}, table |-> ~pack,
                 size |-> IF old.kind = "none" THEN size + 2 + 1 ELSE size + 2]
           s == [widget |-> size + 1, page |-> p]
<1>1. /\ owed = "nothing" /\ UNCHANGED <<owed, embedded>> /\ applied' = applied \cup {s}
  BY DEF OtherSigns, Signed, LastRevision
<1>2. revisions' = Append(revisions, r)
  <2>1. /\ Viewed(Catalog) = ViewOf(revisions, Catalog)
        /\ Viewed(PageNum(p)) = ViewOf(revisions, PageNum(p))
        /\ Viewed(old.num) = ViewOf(revisions, old.num)
    BY ReadingIs
  <2>2. /\ WithAnnots(PageNum(p), ViewOf(revisions, PageNum(p)), {size + 1})
           = AnnotsGrown(revisions, PageNum(p), ViewOf(revisions, PageNum(p)), {size + 1})
        /\ GrownArray(old.fields, {size + 1}) = ArrayGrown(revisions, old.fields, {size + 1})
        /\ GrownArray(ViewOf(revisions, old.num).fields, {size + 1})
           = ArrayGrown(revisions, ViewOf(revisions, old.num).fields, {size + 1})
    BY GrownIs
  <2> QED
    BY <2>1, <2>2 DEF OtherSigns, Write, LastRevision, OtherForm
<1>3. size \in Nat /\ name \in Nat
  BY SizeIs
<1>4. IsOther(revisions, r, p, size, name)
  <2>1. IsSize(revisions, size)
    BY DEF IsSize
  <2> HIDE DEF o
  <2>2. r.packed \subseteq DOMAIN r.objs \ {size} /\ r.table \in BOOLEAN /\ (r.table => r.packed = {})
    OBVIOUS
  <2>3. r.size = IF old.kind = "none" THEN size + 3 ELSE size + 2
    BY <1>3
  <2> QED
    BY <2>1, <2>2, <2>3 DEF IsOther, o
<1>5. Follows(revisions, r, revisions')
  BY <1>2 DEF Follows
<1>6. \A n \in FieldsOf(revisions) : ViewOf(revisions, n).name # name
  <2>1. name \notin {Viewed(n).name : n \in Fields}
    BY DEF OtherSigns
  <2> QED
    BY <2>1, ElementsIs, ReadingIs
<1>7. ~Repacking => \A n \in r.packed : PlainOf(revisions, n) = Missing
  <2> SUFFICES ASSUME ~Repacking, NEW n \in r.packed
               PROVE  PlainOf(revisions, n) = Missing
    OBVIOUS
  <2> DEFINE rewritten == Over(OtherForm(revisions, {size + 1}, size + 2),
                               AnnotsGrown(revisions, PageNum(p), ViewOf(revisions, PageNum(p)), {size + 1}))
  <2>1. pack /\ n \in DOMAIN o \ {size}
    OBVIOUS
  <2>2. \A k \in DOMAIN rewritten : LastPlain(k) = Missing
    <3>1. /\ Viewed(Catalog) = ViewOf(revisions, Catalog)
          /\ Viewed(PageNum(p)) = ViewOf(revisions, PageNum(p))
          /\ Viewed(old.num) = ViewOf(revisions, old.num)
      BY ReadingIs
    <3>2. /\ WithAnnots(PageNum(p), ViewOf(revisions, PageNum(p)), {size + 1})
             = AnnotsGrown(revisions, PageNum(p), ViewOf(revisions, PageNum(p)), {size + 1})
          /\ GrownArray(old.fields, {size + 1}) = ArrayGrown(revisions, old.fields, {size + 1})
          /\ GrownArray(ViewOf(revisions, old.num).fields, {size + 1})
             = ArrayGrown(revisions, ViewOf(revisions, old.num).fields, {size + 1})
      BY GrownIs
    <3> QED
      BY <2>1, <3>1, <3>2 DEF OtherSigns, LastRevision, OtherForm
  <2> HIDE DEF rewritten
  <2>3. CASE n \in DOMAIN rewritten
    BY <2>2, <2>3, ReadingIs
  <2>4. CASE n \notin DOMAIN rewritten
    <3>1. o = Over(rewritten, Over(Part(size + 1, WidgetBody(name)), Part(size, Body("sig"))))
      BY DEF rewritten
    <3>2. DOMAIN o = DOMAIN rewritten \cup {size + 1, size}
      <4> HIDE DEF o
      <4> QED
        BY <3>1 DEF Over, Part
    <3>3. n = size + 1
      BY <2>1, <2>4, <3>2
    <3>4. ~(n < size)
      BY <1>3, <3>3
    <3> QED
      BY <3>4, UnknownIsMissing
  <2> QED
    BY <2>3, <2>4
<1>8. applied' = applied \cup {[widget |-> size + 1, page |-> p]}
  BY <1>1
<1> HIDE DEF r, size
<1> QED
  BY <1>3, <1>4, <1>5, <1>6, <1>7, <1>8 DEF WritesOther

LEMMA OtherSignsKeeps ==
  ASSUME RevisionsIInv, NEW p \in Pages, NEW name \in 1..MaxFieldName, NEW pack \in BOOLEAN,
         OtherSigns(p, name, pack)
  PROVE  RevisionsIInv'
<1> USE DEF RevisionsIInv, Holds
<1>1. WritesOther(revisions, revisions', applied, applied', p)
  BY OtherSignsWrites
<1>2. PICK r, size, n1 :
        /\ n1 \in Nat /\ Follows(revisions, r, revisions') /\ IsOther(revisions, r, p, size, n1)
        /\ \A n \in FieldsOf(revisions) : ViewOf(revisions, n).name # n1
        /\ applied' = applied \cup {[widget |-> size + 1, page |-> p]}
  BY <1>1 DEF WritesOther
<1>3. UNCHANGED <<owed, embedded>> /\ owed = "nothing"
  BY DEF OtherSigns
<1>4. /\ Struct(revisions') /\ Faith(revisions') /\ NamesDifferIn(revisions')
      /\ Known(revisions) \subseteq Known(revisions') /\ <<size + 1, "widget">> \in Known(revisions')
      /\ \A k, d : Embeds(revisions, k, d) => Embeds(revisions', k, d)
  BY <1>2, OtherRevision
<1> DEFINE s == [widget |-> size + 1, page |-> p]
<1>5. s.page \in Pages /\ <<s.widget, "widget">> \in Known(revisions')
  BY <1>4
<1>6. applied' = applied \cup {s}
  BY <1>2
<1> HIDE DEF s
<1>7. /\ IsFiniteSet(applied \cup {s})
      /\ \A x \in applied \cup {s} : x.page \in Pages /\ <<x.widget, "widget">> \in Known(revisions')
  BY <1>4, <1>5, AppliedStays
<1> QED
  BY <1>3, <1>4, <1>6, <1>7

-----------------------------------------------------------------------------
(* The first revision.                                                     *)

FirstFieldsOf(fieldsApart, widgets) == IF fieldsApart THEN At(FirstFields) ELSE Here(widgets)

FirstFormOf(kind, fieldsApart, widgets) ==
  CASE kind = "none" -> NoForm
    [] kind = "ref" -> FormAt(FirstForm)
    [] kind = "inline" -> [NoForm EXCEPT !.kind = "inline", !.fields = FirstFieldsOf(fieldsApart, widgets)]

FirstAnnotsOf(p, widgets, page) == IF p = page THEN widgets ELSE {}

\* What is at each number of its objects.
WritesFirst(o, kind, apart, fieldsApart, widgets, page) ==
  /\ o[Catalog] = CatalogBody(FirstFormOf(kind, fieldsApart, widgets), 0)
  /\ kind = "ref" => o[FirstForm] = FormBody(FirstFieldsOf(fieldsApart, widgets))
  /\ fieldsApart => o[FirstFields] = ArrayBody(widgets)
  /\ \A p \in Pages :
       o[PageNum(p)] = PageBody(IF p \in apart THEN At(AnnotsNum(p)) ELSE Here(FirstAnnotsOf(p, widgets, page)))
  /\ \A p \in apart : o[AnnotsNum(p)] = ArrayBody(FirstAnnotsOf(p, widgets, page))
  /\ \A n \in widgets : o[n] = WidgetBody(1)
  /\ widgets # {} => o[FirstSig] = Body("sig")
  /\ DOMAIN o = {Catalog} \cup (IF kind = "ref" THEN {FirstForm} ELSE {})
                \cup (IF fieldsApart THEN {FirstFields} ELSE {})
                \cup {PageNum(p) : p \in Pages} \cup {AnnotsNum(p) : p \in apart}
                \cup widgets \cup (IF widgets = {} THEN {} ELSE {FirstSig})

LEMMA FirstObjectsAre ==
  ASSUME NEW kind \in Forms, NEW apart \in SUBSET Pages, NEW page \in Pages, NEW fieldsApart \in BOOLEAN,
         NEW widgets \in SUBSET {FirstWidget}
  PROVE  WritesFirst(FirstObjects(kind, apart, fieldsApart, widgets, page),
                     kind, apart, fieldsApart, widgets, page)
<1> DEFINE fields == FirstFieldsOf(fieldsApart, widgets)
           form == FirstFormOf(kind, fieldsApart, widgets)
           PageAt(p) == PageBody(IF p \in apart THEN At(AnnotsNum(p)) ELSE Here(FirstAnnotsOf(p, widgets, page)))
           AnnotsAt(p) == ArrayBody(FirstAnnotsOf(p, widgets, page))
           f7 == IF widgets = {} THEN Nothing ELSE Part(FirstSig, Body("sig"))
           f6 == [n \in widgets |-> WidgetBody(1)]
           f5 == [n \in {AnnotsNum(p) : p \in apart} |-> AnnotsAt(n - 3 - NumPages)]
           f4 == [n \in {PageNum(p) : p \in Pages} |-> PageAt(n - 3)]
           f3 == IF fieldsApart THEN Part(FirstFields, ArrayBody(widgets)) ELSE Nothing
           f2 == IF kind = "ref" THEN Part(FirstForm, FormBody(fields)) ELSE Nothing
           f1 == Part(Catalog, CatalogBody(form, 0))
           g6 == Over(f6, f7)
           g5 == Over(f5, g6)
           g4 == Over(f4, g5)
           g3 == Over(f3, g4)
           g2 == Over(f2, g3)
           o == Over(f1, g2)
<1>1. o = FirstObjects(kind, apart, fieldsApart, widgets, page)
  BY DEF FirstObjects, FirstFieldsOf, FirstFormOf, FirstAnnotsOf
<1>2. /\ NumPages \in Nat /\ Pages \subseteq Nat /\ \A p \in Pages : p <= NumPages /\ 0 < p
      /\ \A p \in Pages : PageNum(p) = 3 + p /\ AnnotsNum(p) = 3 + NumPages + p
      /\ Catalog = 1 /\ FirstForm = 2 /\ FirstFields = 3
      /\ FirstSig \in Nat /\ FirstSig = 4 + 2 * NumPages /\ FirstWidget = FirstSig + 1
  BY RevisionsAssumption DEF Pages, PageNum, AnnotsNum, Catalog, FirstForm, FirstFields, FirstSig,
        FirstWidget
<1>3. /\ DOMAIN f7 = (IF widgets = {} THEN {} ELSE {FirstSig})
      /\ widgets # {} => f7[FirstSig] = Body("sig")
  BY PartIs
<1>4. DOMAIN f6 = widgets /\ \A n \in widgets : f6[n] = WidgetBody(1)
  OBVIOUS
<1>5. DOMAIN f5 = {AnnotsNum(p) : p \in apart} /\ \A p \in apart : f5[AnnotsNum(p)] = AnnotsAt(p)
  <2> HIDE DEF AnnotsAt
  <2>1. \A p \in apart : AnnotsNum(p) - 3 - NumPages = p
    BY <1>2
  <2> QED
    BY <2>1
<1>6. DOMAIN f4 = {PageNum(p) : p \in Pages} /\ \A p \in Pages : f4[PageNum(p)] = PageAt(p)
  <2> HIDE DEF PageAt
  <2>1. \A p \in Pages : PageNum(p) - 3 = p
    BY <1>2
  <2> QED
    BY <2>1
<1>7. DOMAIN f3 = (IF fieldsApart THEN {FirstFields} ELSE {}) /\ (fieldsApart => f3[FirstFields] = ArrayBody(widgets))
  BY PartIs
<1>8. DOMAIN f2 = (IF kind = "ref" THEN {FirstForm} ELSE {}) /\ (kind = "ref" => f2[FirstForm] = FormBody(fields))
  BY PartIs
<1>9. DOMAIN f1 = {Catalog} /\ f1[Catalog] = CatalogBody(form, 0)
  BY PartIs
<1> HIDE DEF f1, f2, f3, f4, f5, f6, f7, PageAt, AnnotsAt, form, fields
<1>10. /\ DOMAIN g6 = DOMAIN f6 \cup DOMAIN f7 /\ \A n \in DOMAIN f6 : g6[n] = f6[n]
       /\ \A n \in DOMAIN f7 : n \notin DOMAIN f6 => g6[n] = f7[n]
  BY DEF Over
<1> HIDE DEF g6
<1>11. /\ DOMAIN g5 = DOMAIN f5 \cup DOMAIN g6 /\ \A n \in DOMAIN f5 : g5[n] = f5[n]
       /\ \A n \in DOMAIN g6 : n \notin DOMAIN f5 => g5[n] = g6[n]
  BY DEF Over
<1> HIDE DEF g5
<1>12. /\ DOMAIN g4 = DOMAIN f4 \cup DOMAIN g5 /\ \A n \in DOMAIN f4 : g4[n] = f4[n]
       /\ \A n \in DOMAIN g5 : n \notin DOMAIN f4 => g4[n] = g5[n]
  BY DEF Over
<1> HIDE DEF g4
<1>13. /\ DOMAIN g3 = DOMAIN f3 \cup DOMAIN g4 /\ \A n \in DOMAIN f3 : g3[n] = f3[n]
       /\ \A n \in DOMAIN g4 : n \notin DOMAIN f3 => g3[n] = g4[n]
  BY DEF Over
<1> HIDE DEF g3
<1>14. /\ DOMAIN g2 = DOMAIN f2 \cup DOMAIN g3 /\ \A n \in DOMAIN f2 : g2[n] = f2[n]
       /\ \A n \in DOMAIN g3 : n \notin DOMAIN f2 => g2[n] = g3[n]
  BY DEF Over
<1> HIDE DEF g2
<1>15. /\ DOMAIN o = DOMAIN f1 \cup DOMAIN g2 /\ \A n \in DOMAIN f1 : o[n] = f1[n]
       /\ \A n \in DOMAIN g2 : n \notin DOMAIN f1 => o[n] = g2[n]
  BY DEF Over
<1> HIDE DEF o
\* The parts have no number in common.
<1>16. /\ \A n \in DOMAIN f1 : n = 1
       /\ \A n \in DOMAIN f2 : n = 2
       /\ \A n \in DOMAIN f3 : n = 3
       /\ \A n \in DOMAIN f4 : n \in Nat /\ 3 < n /\ n < 4 + NumPages
       /\ \A n \in DOMAIN f5 : n \in Nat /\ 3 + NumPages < n /\ n < FirstSig
       /\ \A n \in DOMAIN f6 : n = FirstSig + 1
       /\ \A n \in DOMAIN f7 : n = FirstSig
  <2>1. \A n \in DOMAIN f4 : n \in Nat /\ 3 < n /\ n < 4 + NumPages
    <3> TAKE n \in DOMAIN f4
    <3>1. PICK p \in Pages : n = PageNum(p)
      BY <1>6
    <3>2. n = 3 + p /\ p \in Nat /\ p <= NumPages /\ 0 < p /\ NumPages \in Nat
      BY <1>2, <3>1
    <3> QED
      BY <3>2
  <2>2. \A n \in DOMAIN f5 : n \in Nat /\ 3 + NumPages < n /\ n < FirstSig
    <3> TAKE n \in DOMAIN f5
    <3>1. PICK p \in apart : n = AnnotsNum(p)
      BY <1>5
    <3>2. /\ n = 3 + NumPages + p /\ p \in Nat /\ p <= NumPages /\ 0 < p /\ NumPages \in Nat
          /\ FirstSig = 4 + 2 * NumPages
      BY <1>2, <3>1
    <3> QED
      BY <3>2
  <2> QED
    BY <1>2, <1>3, <1>4, <1>7, <1>8, <1>9, <2>1, <2>2
<1>17. \A n \in DOMAIN f7 : o[n] = f7[n]
  <2> TAKE n \in DOMAIN f7
  <2>1. /\ n \notin DOMAIN f6 /\ n \notin DOMAIN f5 /\ n \notin DOMAIN f4
        /\ n \notin DOMAIN f3 /\ n \notin DOMAIN f2 /\ n \notin DOMAIN f1
    BY <1>2, <1>16
  <2> QED
    BY <2>1, <1>10, <1>11, <1>12, <1>13, <1>14, <1>15
<1>18. \A n \in DOMAIN f6 : o[n] = f6[n]
  <2> TAKE n \in DOMAIN f6
  <2>1. /\ n \notin DOMAIN f5 /\ n \notin DOMAIN f4
        /\ n \notin DOMAIN f3 /\ n \notin DOMAIN f2 /\ n \notin DOMAIN f1
    BY <1>2, <1>16
  <2> QED
    BY <2>1, <1>10, <1>11, <1>12, <1>13, <1>14, <1>15
<1>19. \A n \in DOMAIN f5 : o[n] = f5[n]
  <2> TAKE n \in DOMAIN f5
  <2>1. n \notin DOMAIN f4 /\ n \notin DOMAIN f3 /\ n \notin DOMAIN f2 /\ n \notin DOMAIN f1
    BY <1>2, <1>16
  <2> QED
    BY <2>1, <1>11, <1>12, <1>13, <1>14, <1>15
<1>20. \A n \in DOMAIN f4 : o[n] = f4[n]
  <2> TAKE n \in DOMAIN f4
  <2>1. n \notin DOMAIN f3 /\ n \notin DOMAIN f2 /\ n \notin DOMAIN f1
    BY <1>2, <1>16
  <2> QED
    BY <2>1, <1>12, <1>13, <1>14, <1>15
<1>21. \A n \in DOMAIN f3 : o[n] = f3[n]
  <2> TAKE n \in DOMAIN f3
  <2>1. n \notin DOMAIN f2 /\ n \notin DOMAIN f1
    BY <1>2, <1>16
  <2> QED
    BY <2>1, <1>13, <1>14, <1>15
<1>22. \A n \in DOMAIN f2 : o[n] = f2[n]
  <2> TAKE n \in DOMAIN f2
  <2>1. n \notin DOMAIN f1
    BY <1>2, <1>16
  <2> QED
    BY <2>1, <1>14, <1>15
<1>23. DOMAIN o = DOMAIN f1 \cup DOMAIN f2 \cup DOMAIN f3 \cup DOMAIN f4 \cup DOMAIN f5
                  \cup DOMAIN f6 \cup DOMAIN f7
  BY <1>10, <1>11, <1>12, <1>13, <1>14, <1>15
<1>24. /\ o[Catalog] = CatalogBody(form, 0)
       /\ kind = "ref" => o[FirstForm] = FormBody(fields)
       /\ fieldsApart => o[FirstFields] = ArrayBody(widgets)
  BY <1>7, <1>8, <1>9, <1>15, <1>21, <1>22
<1>25. /\ \A p \in Pages : o[PageNum(p)] = PageAt(p)
       /\ \A p \in apart : o[AnnotsNum(p)] = AnnotsAt(p)
       /\ \A n \in widgets : o[n] = WidgetBody(1)
       /\ widgets # {} => o[FirstSig] = Body("sig")
  BY <1>3, <1>4, <1>5, <1>6, <1>17, <1>18, <1>19, <1>20
<1>26. WritesFirst(o, kind, apart, fieldsApart, widgets, page)
  BY <1>3, <1>4, <1>5, <1>6, <1>7, <1>8, <1>9, <1>23, <1>24, <1>25
     DEF WritesFirst, PageAt, AnnotsAt, form, fields
<1> QED
  BY <1>1, <1>26

\* A file of one revision.
IsFirst(rs, r) == IsFile(rs) /\ DOMAIN rs = {1} /\ Len(rs) = 1 /\ rs[1] = r

LEMMA OneRevisionReads ==
  ASSUME NEW rs, NEW r, IsFirst(rs, r)
  PROVE  /\ \A n : ViewOf(rs, n) = IF n \in DOMAIN r.objs THEN r.objs[n] ELSE Missing
         /\ \A n : GetOf(rs, n) = ViewOf(rs, n)
         /\ Clear(rs)
         /\ Known(rs) = {<<n, r.objs[n].type>> : n \in DOMAIN r.objs}
<1>1. \A n : ViewOf(rs, n) = IF n \in DOMAIN r.objs THEN r.objs[n] ELSE Missing
  <2> TAKE n
  <2>1. CASE n \in DOMAIN r.objs
    <3>1. \E i \in DOMAIN rs : n \in DOMAIN rs[i].objs /\ ViewOf(rs, n) = rs[i].objs[n]
      BY <2>1, Views DEF IsFirst
    <3> QED
      BY <2>1, <3>1 DEF IsFirst
  <2>2. CASE n \notin DOMAIN r.objs
    <3>1. Having(rs, n) = {}
      BY <2>2 DEF Having, IsFirst
    <3> QED
      BY <2>2, <3>1 DEF ViewOf, ReadIn
  <2> QED
    BY <2>1, <2>2
<1>2. \A n : GetOf(rs, n) = ViewOf(rs, n) /\ PlainOf(rs, n) \in {Missing, ViewOf(rs, n)}
  <2> TAKE n
  <2>1. CASE n \in DOMAIN r.objs /\ n \notin r.packed
    <3>1. \E i \in DOMAIN rs : n \in DOMAIN rs[i].objs /\ PlainOf(rs, n) = rs[i].objs[n]
      BY <2>1, PlainReads DEF IsFirst
    <3> QED
      BY <1>1, <2>1, <3>1 DEF IsFirst, GetOf
  <2>2. CASE ~(n \in DOMAIN r.objs /\ n \notin r.packed)
    <3>1. HavingPlain(rs, n) = {}
      BY <2>2 DEF HavingPlain, IsFirst
    <3> QED
      BY <3>1 DEF PlainOf, ReadIn, GetOf
  <2> QED
    BY <2>1, <2>2
<1>3. Known(rs) = {<<n, r.objs[n].type>> : n \in DOMAIN r.objs}
  BY DEF Known, IsFirst
<1> QED
  BY <1>1, <1>2, <1>3 DEF Clear

\* What it refers to is among its objects.
TypesOf(o) == {<<n, o[n].type>> : n \in DOMAIN o}

\* The objects of a first revision whose signature, if any, is on this page.
AreFirst(o, widgets, page) ==
  \E kind \in Forms, apart \in SUBSET Pages, fieldsApart \in BOOLEAN :
    /\ kind = "none" => ~fieldsApart /\ widgets = {}
    /\ WritesFirst(o, kind, apart, fieldsApart, widgets, page)

LEMMA FirstBodiesAre ==
  ASSUME NEW o, NEW page \in Pages, NEW widgets \in SUBSET {FirstWidget},
         AreFirst(o, widgets, page)
  PROVE  /\ \A n \in DOMAIN o : BodyOK(n, o[n], TypesOf(o))
         /\ <<Catalog, "catalog">> \in TypesOf(o)
         /\ \A p \in Pages : <<PageNum(p), "page">> \in TypesOf(o)
         /\ \A n \in widgets : <<n, "widget">> \in TypesOf(o)
<1>p. PICK kind \in Forms, apart \in SUBSET Pages, fieldsApart \in BOOLEAN :
        /\ kind = "none" => ~fieldsApart /\ widgets = {}
        /\ WritesFirst(o, kind, apart, fieldsApart, widgets, page)
  BY DEF AreFirst
<1> USE <1>p
<1> DEFINE T == TypesOf(o)
           fields == FirstFieldsOf(fieldsApart, widgets)
           form == FirstFormOf(kind, fieldsApart, widgets)
           AnnotsAt(p) == FirstAnnotsOf(p, widgets, page)
           PageAt(p) == IF p \in apart THEN At(AnnotsNum(p)) ELSE Here(AnnotsAt(p))
<1>0. \A n \in DOMAIN o : <<n, o[n].type>> \in T
  BY DEF TypesOf
<1> HIDE DEF T
<1>1. /\ Catalog \in DOMAIN o
      /\ kind = "ref" => FirstForm \in DOMAIN o
      /\ fieldsApart => FirstFields \in DOMAIN o
      /\ \A p \in Pages : PageNum(p) \in DOMAIN o
      /\ \A p \in apart : AnnotsNum(p) \in DOMAIN o
      /\ widgets \subseteq DOMAIN o
  BY DEF WritesFirst
<1>2. /\ <<Catalog, "catalog">> \in T
      /\ kind = "ref" => <<FirstForm, "form">> \in T
      /\ fieldsApart => <<FirstFields, "array">> \in T
  <2>1. /\ o[Catalog].type = "catalog"
        /\ kind = "ref" => o[FirstForm].type = "form"
        /\ fieldsApart => o[FirstFields].type = "array"
    BY DEF WritesFirst, CatalogBody, FormBody, ArrayBody
  <2> QED
    BY <1>0, <1>1, <2>1
<1>3. /\ \A p \in Pages : <<PageNum(p), "page">> \in T
      /\ \A p \in apart : <<AnnotsNum(p), "array">> \in T
      /\ \A n \in widgets : <<n, "widget">> \in T
  <2>1. /\ \A a : PageBody(a).type = "page"
        /\ \A S : ArrayBody(S).type = "array"
        /\ WidgetBody(1).type = "widget"
    BY DEF PageBody, ArrayBody, WidgetBody
  <2>2. \A p \in Pages : o[PageNum(p)].type = "page"
    BY <2>1 DEF WritesFirst
  <2>3. \A p \in apart : o[AnnotsNum(p)].type = "array"
    BY <2>1 DEF WritesFirst
  <2>4. \A n \in widgets : o[n].type = "widget"
    BY <2>1 DEF WritesFirst
  <2> QED
    BY <1>0, <1>1, <2>2, <2>3, <2>4
<1>4. /\ Are("widget", widgets, T) /\ Are("widget", {}, T)
      /\ \A p : Drawn(AnnotsAt(p), T) /\ Drawn({}, T)
  BY <1>3 DEF Are, Drawn, FirstAnnotsOf
<1>5. ArrayOK(fields, FirstFields, T) /\ Are("widget", fields.items, T)
  <2>1. CASE fieldsApart
    BY <1>2, <1>4, <2>1 DEF FirstFieldsOf, At, ArrayOK
  <2>2. CASE ~fieldsApart
    BY <1>4, <2>2 DEF FirstFieldsOf, Here, ArrayOK
  <2> QED
    BY <2>1, <2>2
<1> HIDE DEF fields
<1>6. FormOK(form, T)
  <2>0. kind \in {"none", "ref", "inline"}
    BY RevisionsAssumption
  <2>1. ArrayOK(Here({}), FirstFields, T) /\ Are("widget", Here({}).items, T)
    BY <1>4 DEF Here, ArrayOK
  <2>2. CASE kind = "none"
    <3>1. form = [kind |-> "none", num |-> 0, fields |-> Here({})]
      BY <2>2 DEF FirstFormOf, NoForm
    <3> HIDE DEF form
    <3> QED
      BY <2>1, <3>1 DEF FormOK
  <2>3. CASE kind = "ref"
    <3>1. form = [kind |-> "ref", num |-> FirstForm, fields |-> Here({})]
      BY <2>3 DEF FirstFormOf, FormAt
    <3> HIDE DEF form
    <3> QED
      BY <1>2, <2>1, <2>3, <3>1 DEF FormOK
  <2>4. CASE kind = "inline"
    <3>1. form = [kind |-> "inline", num |-> 0, fields |-> fields]
      BY <2>4 DEF FirstFormOf, NoForm, fields
    <3> HIDE DEF form
    <3> QED
      BY <1>5, <2>4, <3>1 DEF FormOK
  <2> QED
    BY <2>0, <2>2, <2>3, <2>4
<1> HIDE DEF form
<1>7. BodyOK(Catalog, o[Catalog], T)
  <2>1. o[Catalog] = CatalogBody(form, 0)
    BY DEF WritesFirst, form
  <2> QED
    BY <1>6, <2>1 DEF BodyOK, CatalogBody, Types
<1>8. kind = "ref" => BodyOK(FirstForm, o[FirstForm], T)
  <2>1. kind = "ref" => o[FirstForm] = FormBody(fields)
    BY DEF WritesFirst, fields
  <2> QED
    BY <1>5, <2>1 DEF BodyOK, FormBody, Types
<1>9. fieldsApart => BodyOK(FirstFields, o[FirstFields], T)
  <2>1. fieldsApart => o[FirstFields] = ArrayBody(widgets)
    BY DEF WritesFirst
  <2> QED
    BY <1>4, <2>1 DEF BodyOK, ArrayBody, Types
<1>10. \A p \in Pages : BodyOK(PageNum(p), o[PageNum(p)], T)
  <2> TAKE p \in Pages
  <2>1. o[PageNum(p)] = PageBody(PageAt(p))
    BY DEF WritesFirst
  <2>2. ArrayOK(PageAt(p), AnnotsNum(p), T) /\ Drawn(PageAt(p).items, T)
    BY <1>3, <1>4 DEF At, Here, ArrayOK
  <2> HIDE DEF PageAt
  <2> QED
    BY <2>1, <2>2 DEF BodyOK, PageBody, Types
<1>11. \A p \in apart : BodyOK(AnnotsNum(p), o[AnnotsNum(p)], T)
  <2> TAKE p \in apart
  <2>1. o[AnnotsNum(p)] = ArrayBody(AnnotsAt(p))
    BY DEF WritesFirst
  <2>2. Drawn(AnnotsAt(p), T)
    BY <1>4
  <2> HIDE DEF AnnotsAt
  <2> QED
    BY <2>1, <2>2 DEF BodyOK, ArrayBody, Types
<1>12. \A n \in widgets : BodyOK(n, o[n], T)
  <2> TAKE n \in widgets
  <2>1. o[n] = WidgetBody(1) /\ n >= FirstSig
    BY NumbersAre DEF WritesFirst
  <2> QED
    BY <2>1 DEF BodyOK, WidgetBody, Types
<1>13. widgets # {} => BodyOK(FirstSig, o[FirstSig], T)
  <2>1. widgets # {} => o[FirstSig] = Body("sig") /\ FirstSig >= FirstSig
    BY NumbersAre DEF WritesFirst
  <2> QED
    BY <2>1 DEF BodyOK, Body, Types
<1>14. \A n \in DOMAIN o : BodyOK(n, o[n], T)
  <2> TAKE n \in DOMAIN o
  <2>1. \/ n = Catalog \/ (kind = "ref" /\ n = FirstForm) \/ (fieldsApart /\ n = FirstFields)
        \/ n \in {PageNum(p) : p \in Pages} \/ n \in {AnnotsNum(p) : p \in apart}
        \/ n \in widgets \/ (widgets # {} /\ n = FirstSig)
    BY DEF WritesFirst
  <2> QED
    BY <1>7, <1>8, <1>9, <1>10, <1>11, <1>12, <1>13, <2>1
<1> QED
  BY <1>2, <1>3, <1>14 DEF T

\* What RevisionsInit writes, with the signature on this page, if any.
IsWrittenFirst(r, widgets, page) ==
  /\ r.packed \subseteq DOMAIN r.objs /\ r.table \in BOOLEAN /\ (r.table => r.packed = {})
  /\ r.size = FirstWidget + 1
  /\ AreFirst(r.objs, widgets, page)

LEMMA FirstRevisionIs ==
  ASSUME NEW rs, NEW r, IsFirst(rs, r), NEW page \in Pages,
         NEW widgets \in SUBSET {FirstWidget}, IsWrittenFirst(r, widgets, page)
  PROVE  /\ Struct(rs) /\ Faith(rs) /\ NamesDifferIn(rs)
         /\ \A n \in widgets : <<n, "widget">> \in Known(rs)
         /\ FieldsOf(rs) = widgets /\ AnnotsOf(rs, page) = widgets
<1>0. PICK kind \in Forms, apart \in SUBSET Pages, fieldsApart \in BOOLEAN :
        /\ kind = "none" => ~fieldsApart /\ widgets = {}
        /\ WritesFirst(r.objs, kind, apart, fieldsApart, widgets, page)
  BY DEF IsWrittenFirst, AreFirst
<1>a. /\ r.packed \subseteq DOMAIN r.objs /\ r.table \in BOOLEAN /\ (r.table => r.packed = {})
      /\ r.size = FirstWidget + 1
  BY DEF IsWrittenFirst
<1> USE <1>0, <1>a
<1> DEFINE o == r.objs
<1>1. /\ \A n : ViewOf(rs, n) = IF n \in DOMAIN o THEN o[n] ELSE Missing
      /\ \A n : GetOf(rs, n) = ViewOf(rs, n)
      /\ Known(rs) = TypesOf(o)
  BY OneRevisionReads DEF TypesOf
<1>2. /\ \A n \in DOMAIN o : BodyOK(n, o[n], Known(rs))
      /\ <<Catalog, "catalog">> \in Known(rs)
      /\ \A p \in Pages : <<PageNum(p), "page">> \in Known(rs)
      /\ \A n \in widgets : <<n, "widget">> \in Known(rs)
  <2> HIDE DEF o
  <2>1. AreFirst(o, widgets, page)
    BY DEF o, IsWrittenFirst
  <2> QED
    BY <1>1, <2>1, FirstBodiesAre
<1>3. Shape(rs)
  <2>1. DOMAIN o \subseteq 1..(r.size - 1)
    <3> SUFFICES ASSUME NEW n \in DOMAIN o
                 PROVE  n \in 1..(r.size - 1)
      OBVIOUS
    <3>1. \/ n = Catalog \/ n = FirstForm \/ n = FirstFields
          \/ n \in {PageNum(p) : p \in Pages} \/ n \in {AnnotsNum(p) : p \in apart}
          \/ n \in widgets \/ n = FirstSig
      BY DEF WritesFirst
    <3>2. (n \in {PageNum(p) : p \in Pages} \/ n \in {AnnotsNum(p) : p \in apart})
            => n \in Nat /\ 0 < n /\ n <= FirstWidget
      BY NumbersAre
    <3>3. (n \in {Catalog, FirstForm, FirstFields, FirstSig} \/ n \in widgets)
            => n \in Nat /\ 0 < n /\ n <= FirstWidget
      <4> HAVE n \in {Catalog, FirstForm, FirstFields, FirstSig} \/ n \in widgets
      <4>1. n \in {1, 2, 3, FirstSig, FirstWidget}
        BY NumbersAre
      <4>2. FirstSig \in Nat /\ 3 < FirstSig /\ FirstWidget = FirstSig + 1
        BY NumbersAre
      <4> QED
        BY <4>1, <4>2
    <3>4. n \in Nat /\ 0 < n /\ n <= FirstWidget
      BY <3>1, <3>2, <3>3
    <3> QED
      BY <3>4, NumbersAre
  <2>2. r.size \in Nat /\ FirstWidget < r.size
    BY NumbersAre
  <2> QED
    BY <2>1, <2>2 DEF Shape, IsFirst
<1>4. OneType(rs)
  BY <1>1 DEF OneType, TypesOf
<1>5. Struct(rs)
  BY <1>2, <1>3, <1>4 DEF Struct, Sound, Roots, IsFirst
<1>6. Faith(rs)
  BY <1>1 DEF Faith, Tables, CatalogIsRead, FormsAreRead, OnceOnly, IsFirst
<1>7. FieldsOf(rs) = widgets
  <2> DEFINE fields == FirstFieldsOf(fieldsApart, widgets)
             form == FirstFormOf(kind, fieldsApart, widgets)
  <2>1. ViewOf(rs, Catalog).form = form
    BY <1>1 DEF WritesFirst, CatalogBody
  <2>2. ElementsOf(rs, fields) = widgets
    <3>1. CASE fieldsApart
      <4>1. FirstFields # 0 /\ fields = At(FirstFields)
        BY <3>1, NumbersAre DEF FirstFieldsOf
      <4>2. FirstFields \in DOMAIN o /\ o[FirstFields] = ArrayBody(widgets)
        BY <3>1 DEF WritesFirst
      <4>3. ViewOf(rs, FirstFields) = ArrayBody(widgets)
        BY <1>1, <4>2
      <4> HIDE DEF fields
      <4> QED
        BY <4>1, <4>3 DEF ElementsOf, At, ArrayBody
    <3>2. CASE ~fieldsApart
      BY <3>2 DEF FirstFieldsOf, ElementsOf, Here
    <3> QED
      BY <3>1, <3>2
  <2> HIDE DEF fields
  <2>3. CASE kind = "none"
    <3>1. form.kind = "none" /\ widgets = {}
      BY <2>3 DEF FirstFormOf, NoForm
    <3> HIDE DEF form
    <3> QED
      BY <2>1, <3>1 DEF FieldsOf
  <2>4. CASE kind = "inline"
    <3>1. form.kind = "inline" /\ form.fields = fields
      BY <2>4 DEF FirstFormOf, NoForm, fields
    <3> HIDE DEF form
    <3> QED
      BY <2>1, <2>2, <3>1 DEF FieldsOf
  <2>5. CASE kind = "ref"
    <3>1. form.kind = "ref" /\ form.num = FirstForm
      BY <2>5 DEF FirstFormOf, FormAt
    <3>2. ViewOf(rs, FirstForm) = FormBody(fields)
      <4>1. FirstForm \in DOMAIN o /\ o[FirstForm] = FormBody(fields)
        BY <2>5 DEF WritesFirst, fields
      <4> QED
        BY <1>1, <4>1
    <3> HIDE DEF form
    <3> QED
      BY <2>1, <2>2, <3>1, <3>2 DEF FieldsOf, FormBody
  <2> QED
    BY <2>3, <2>4, <2>5, RevisionsAssumption
<1>8. NamesDifferIn(rs)
  BY <1>7 DEF NamesDifferIn
<1>9. AnnotsOf(rs, page) = widgets
  <2>0. PageNum(page) \in DOMAIN o
    BY DEF WritesFirst
  <2>1. CASE page \in apart
    <3>0. o[PageNum(page)] = PageBody(At(AnnotsNum(page)))
      BY <2>1 DEF WritesFirst
    <3>1. ViewOf(rs, PageNum(page)).annots = At(AnnotsNum(page))
      BY <1>1, <2>0, <3>0 DEF PageBody
    <3>2. ViewOf(rs, AnnotsNum(page)) = ArrayBody(widgets)
      BY <1>1, <2>1 DEF WritesFirst, FirstAnnotsOf
    <3>3. AnnotsNum(page) # 0
      BY NumbersAre
    <3> QED
      BY <3>1, <3>2, <3>3 DEF AnnotsOf, ElementsOf, At, ArrayBody
  <2>2. CASE page \notin apart
    <3>1. o[PageNum(page)] = PageBody(Here(widgets))
      BY <2>2 DEF WritesFirst, FirstAnnotsOf
    <3>2. ViewOf(rs, PageNum(page)).annots = Here(widgets)
      BY <1>1, <2>0, <3>1 DEF PageBody
    <3> QED
      BY <3>2 DEF AnnotsOf, ElementsOf, Here
  <2> QED
    BY <2>1, <2>2
<1> QED
  BY <1>2, <1>5, <1>6, <1>7, <1>8, <1>9

\* Every signature is a field, and an annotation of its page.
Shown(rs, ap) == \A s \in ap : s.widget \in FieldsOf(rs) /\ s.widget \in AnnotsOf(rs, s.page)

\* What signPdfPades saved is in place and in plain text.
LEMMA FirstIsOwing ==
  ASSUME NEW rs, NEW r, IsFirst(rs, r), NEW kind \in Forms, kind # "none",
         NEW apart \in SUBSET Pages, NEW page \in Pages, 1 \notin apart,
         WritesFirst(r.objs, kind, apart, FALSE, {FirstWidget}, page),
         FieldsOf(rs) \subseteq {FirstWidget}, r.packed = {}, r.table
  PROVE  Owing(rs)
<1> DEFINE o == r.objs
           form == FirstFormOf(kind, FALSE, {FirstWidget})
           fields == FirstFieldsOf(FALSE, {FirstWidget})
<1>1. \A n : ViewOf(rs, n) = IF n \in DOMAIN o THEN o[n] ELSE Missing
  BY OneRevisionReads
<1>2. ViewOf(rs, Catalog).form = form
  <2>1. Catalog \in DOMAIN o /\ o[Catalog] = CatalogBody(form, 0)
    BY DEF WritesFirst
  <2> HIDE DEF form
  <2> QED
    BY <1>1, <2>1 DEF CatalogBody
<1>3. fields.ref = 0
  BY DEF FirstFieldsOf, Here
<1> HIDE DEF fields
<1>4. form.kind = kind
  BY RevisionsAssumption DEF FirstFormOf, NoForm, FormAt
<1>5. kind = "ref" => ViewOf(rs, form.num).fields.ref = 0
  <2> HAVE kind = "ref"
  <2>1. form.num = FirstForm
    BY DEF FirstFormOf, FormAt
  <2>2. FirstForm \in DOMAIN o /\ o[FirstForm] = FormBody(fields)
    BY DEF WritesFirst, fields
  <2> HIDE DEF form
  <2> QED
    BY <1>1, <1>3, <2>1, <2>2 DEF FormBody
<1>6. ViewOf(rs, PageNum(1)).annots.ref = 0
  <2>1. 1 \in Pages
    BY RevisionsAssumption DEF Pages
  <2>2. PageNum(1) \in DOMAIN o
    BY <2>1 DEF WritesFirst
  <2>3. o[PageNum(1)] = PageBody(Here(FirstAnnotsOf(1, {FirstWidget}, page)))
    BY <2>1 DEF WritesFirst
  <2> QED
    BY <1>1, <2>2, <2>3 DEF PageBody, Here
<1>7. \A n \in FieldsOf(rs) : ViewOf(rs, n).name # ArchiveName
  <2>1. FirstWidget \in DOMAIN o /\ o[FirstWidget] = WidgetBody(1)
    BY DEF WritesFirst
  <2>2. ViewOf(rs, FirstWidget).name = 1
    BY <1>1, <2>1 DEF WidgetBody
  <2> QED
    BY <2>2 DEF ArchiveName
<1> HIDE DEF form
<1>8. \A i \in DOMAIN rs : rs[i].packed = {} /\ rs[i].table
  BY DEF IsFirst
<1> QED
  BY <1>2, <1>4, <1>5, <1>6, <1>7, <1>8 DEF Owing

LEMMA RevisionsStart ==
  ASSUME RevisionsInit
  PROVE  RevisionsIInv /\ Clear(revisions) /\ Shown(revisions, applied)
<1>1. PICK kind \in Forms, apart \in SUBSET Pages, page \in Pages,
        fieldsApart \in BOOLEAN, pack \in BOOLEAN, ours \in BOOLEAN :
      LET widgets == IF ours THEN {FirstWidget} ELSE {}
          objs == FirstObjects(kind, apart, fieldsApart, widgets, page)
      IN /\ kind = "none" => ~fieldsApart /\ ~ours
         /\ ours => ~pack /\ ~fieldsApart /\ apart \subseteq Pages \ {1, page}
         /\ ~ours => page = 1
         /\ revisions = <<[objs |-> objs, packed |-> IF pack THEN DOMAIN objs ELSE {},
                          table |-> ~pack, size |-> FirstWidget + 1]>>
         /\ applied = [widget : widgets, page : {page}]
         /\ owed = IF ours THEN "dss" ELSE "nothing"
         /\ embedded = FALSE
  BY DEF RevisionsInit
<1> DEFINE widgets == IF ours THEN {FirstWidget} ELSE {}
           o == FirstObjects(kind, apart, fieldsApart, widgets, page)
           r == [objs |-> o, packed |-> IF pack THEN DOMAIN o ELSE {}, table |-> ~pack, size |-> FirstWidget + 1]
<1>2. revisions = <<r>>
  BY <1>1
<1>3. widgets \in SUBSET {FirstWidget}
  OBVIOUS
<1>4. WritesFirst(o, kind, apart, fieldsApart, widgets, page)
  <2> HIDE DEF widgets
  <2> QED
    BY <1>3, FirstObjectsAre
<1>5. /\ kind = "none" => ~fieldsApart /\ widgets = {}
      /\ ours => ~pack /\ ~fieldsApart /\ 1 \notin apart /\ kind # "none"
  BY <1>1
<1>6. /\ applied = [widget : widgets, page : {page}] /\ embedded = FALSE
      /\ owed = IF ours THEN "dss" ELSE "nothing"
  BY <1>1
<1> HIDE DEF o
<1>7. r.objs = o /\ r.packed \subseteq DOMAIN o /\ r.table \in BOOLEAN /\ (r.table => r.packed = {})
      /\ r.size = FirstWidget + 1 /\ (ours => r.packed = {} /\ r.table)
  BY <1>5
<1> HIDE DEF r
<1>8. IsFirst(revisions, r)
  <2>1. revisions \in Seq({r}) /\ Len(revisions) = 1 /\ revisions[1] = r
    BY <1>2
  <2> QED
    BY <2>1 DEF IsFirst, IsFile
<1> HIDE DEF widgets
<1>a. IsWrittenFirst(r, widgets, page)
  BY <1>4, <1>5, <1>7 DEF IsWrittenFirst, AreFirst
<1>9. /\ Struct(revisions) /\ Faith(revisions) /\ NamesDifferIn(revisions)
      /\ \A n \in widgets : <<n, "widget">> \in Known(revisions)
      /\ FieldsOf(revisions) = widgets /\ AnnotsOf(revisions, page) = widgets
  BY <1>3, <1>a, <1>8, FirstRevisionIs
<1>10. \A s \in applied : s.page \in Pages /\ <<s.widget, "widget">> \in Known(revisions)
  BY <1>6, <1>9
<1>11. IsFiniteSet(applied)
  <2> DEFINE s == [widget |-> FirstWidget, page |-> page]
  <2>1. applied \in SUBSET {s}
    BY <1>6 DEF widgets
  <2> HIDE DEF s
  <2>2. IsFiniteSet({s})
    BY FS_Singleton
  <2> QED
    BY <2>1, <2>2, FS_Subset
<1>12. owed # "nothing" => Owing(revisions)
  <2> SUFFICES ASSUME owed # "nothing"
               PROVE  Owing(revisions)
    OBVIOUS
  <2>1. ours /\ widgets = {FirstWidget} /\ fieldsApart = FALSE
    BY <1>5, <1>6 DEF widgets
  <2>2. WritesFirst(r.objs, kind, apart, FALSE, {FirstWidget}, page)
    BY <1>4, <1>7, <2>1
  <2>3. FieldsOf(revisions) \subseteq {FirstWidget}
    BY <1>9, <2>1
  <2> QED
    BY <1>5, <1>7, <1>8, <2>1, <2>2, <2>3, FirstIsOwing
<1>b. Clear(revisions) /\ Shown(revisions, applied)
  BY <1>6, <1>8, <1>9, OneRevisionReads DEF Shown
<1>13. owed \in {"dss", "dts", "nothing"} /\ embedded \in BOOLEAN /\ ~embedded
  BY <1>6
<1> QED
  BY <1>9, <1>10, <1>11, <1>12, <1>13, <1>b DEF RevisionsIInv, Holds

-----------------------------------------------------------------------------
(* What the invariant means.                                               *)

LEMMA RevisionsMean ==
  ASSUME RevisionsIInv
  PROVE  RevisionsInv
<1> USE DEF RevisionsIInv, Holds
<1>1. RevisionsTypeOK
  <2>1. \A i \in DOMAIN revisions :
          LET r == revisions[i] IN
          /\ DOMAIN r.objs \subseteq 1..(r.size - 1) /\ r.packed \subseteq DOMAIN r.objs
          /\ \A n \in DOMAIN r.objs : r.objs[n].type \in Types
          /\ r.table \in BOOLEAN /\ r.size \in Nat
    <3> TAKE i \in DOMAIN revisions
    <3>1. \A n \in DOMAIN revisions[i].objs : revisions[i].objs[n].type \in Types
      <4> TAKE n \in DOMAIN revisions[i].objs
      <4>1. BodyOK(n, revisions[i].objs[n], Known(revisions))
        BY DEF Struct, Sound
      <4> QED
        BY <4>1 DEF BodyOK
    <3> QED
      BY <3>1 DEF Struct, Shape
  <2>2. \A s \in applied : s.page \in Pages /\ Viewed(s.widget).type = "widget"
    <3> TAKE s \in applied
    <3>1. <<s.widget, "widget">> \in Known(revisions)
      OBVIOUS
    <3>2. ViewOf(revisions, s.widget).type = "widget"
      BY <3>1, ReadsOf
    <3> QED
      BY <3>2, ReadingIs
  <2> QED
    BY <2>1, <2>2 DEF RevisionsTypeOK
<1>2. NumbersKeepTheirMeaning
  <2> SUFFICES ASSUME NEW i \in DOMAIN revisions, NEW j \in DOMAIN revisions,
                      NEW n \in DOMAIN revisions[i].objs \cap DOMAIN revisions[j].objs
               PROVE  revisions[i].objs[n].type = revisions[j].objs[n].type
    BY DEF NumbersKeepTheirMeaning
  <2>1. /\ <<n, revisions[i].objs[n].type>> \in Known(revisions)
        /\ <<n, revisions[j].objs[n].type>> \in Known(revisions)
    BY KnownIs
  <2> QED
    BY <2>1 DEF Struct, OneType
<1>3. NamesDiffer
  BY ElementsIs, ReadingIs DEF NamesDiffer, NamesDifferIn
<1>4. EmbeddedIsFound
  <2> SUFFICES ASSUME embedded
               PROVE  DssFound.type = "dss" /\ \A n \in DssFound.streams : ByTables(n).type = "stream"
    BY DEF EmbeddedIsFound
  <2>1. PICK k, d : Embeds(revisions, k, d)
    OBVIOUS
  <2> QED
    BY <2>1, EmbedsIsFound DEF Faith
<1> QED
  BY <1>1, <1>2, <1>3, <1>4 DEF RevisionsInv

LEMMA RevisionsKeep ==
  ASSUME RevisionsIInv, [RevisionsNext]_pdfVars
  PROVE  RevisionsIInv'
<1>1. CASE AppendDss
  BY <1>1, AppendDssKeeps
<1>2. CASE AppendArchiveStamp
  BY <1>2, AppendArchiveStampKeeps
<1>3. CASE LeaveOut
  BY <1>3 DEF LeaveOut, RevisionsIInv, Holds
<1>4. ASSUME NEW p \in Pages, NEW visible \in BOOLEAN, AddIncrementalSignature(p, visible)
      PROVE  RevisionsIInv'
  BY <1>4, AddIncrementalSignatureKeeps
<1>5. ASSUME NEW p \in Pages, NEW name \in 1..MaxFieldName, NEW pack \in BOOLEAN, OtherSigns(p, name, pack)
      PROVE  RevisionsIInv'
  BY <1>5, OtherSignsKeeps
<1>6. CASE UNCHANGED pdfVars
  BY <1>6 DEF pdfVars, RevisionsIInv
<1> QED
  BY <1>1, <1>2, <1>3, <1>4, <1>5, <1>6 DEF RevisionsNext

\* For every number of pages, holding of the form and first file, and whatever other
\* programs pack: the shape of the file, a number never given to a second object, no
\* two fields with one name, and the validation data reported as embedded found by the
\* verifier, however many revisions follow (incrementalUpdate.ts, incrementalDss.ts,
\* parseDss.ts).
THEOREM RevisionsInvariance == RevisionsSpec => []RevisionsInv
<1>1. RevisionsInit => RevisionsIInv
  BY RevisionsStart
<1>2. RevisionsIInv /\ [RevisionsNext]_pdfVars => RevisionsIInv'
  BY RevisionsKeep
<1>3. RevisionsIInv => RevisionsInv
  BY RevisionsMean
<1> QED
  BY <1>1, <1>2, <1>3, PTL DEF RevisionsSpec

-----------------------------------------------------------------------------
(* Every signature stays shown, where the form is apart and no program     *)
(* packs what was in plain text.                                           *)

StaysIInv == RevisionsIInv /\ Clear(revisions) /\ Shown(revisions, applied)

\* The next widget joins the fields and the annotations of its page.
Shows(rs, rs2, w, p) ==
  /\ FieldsOf(rs2) = FieldsOf(rs) \cup {w}
  /\ w \in AnnotsOf(rs2, p) /\ \A q \in Pages : AnnotsOf(rs, q) \subseteq AnnotsOf(rs2, q)

LEMMA ShownGrows ==
  ASSUME NEW rs, NEW rs2, NEW w, NEW p \in Pages, Shows(rs, rs2, w, p),
         NEW ap, Shown(rs, ap), \A s \in ap : s.page \in Pages
  PROVE  Shown(rs2, ap \cup {[widget |-> w, page |-> p]})
BY DEF Shown, Shows

LEMMA DrawnIsShown ==
  ASSUME NEW rs, Struct(rs), NEW r, NEW rs2, Follows(rs, r, rs2), NEW p \in Pages, NEW size, NEW link,
         Lists(rs2, FieldsOf(rs), size), Draws(rs, r, p, ViewOf(rs, PageNum(p)), size, link)
  PROVE  Shows(rs, rs2, size + 1, p)
<1> DEFINE new == {size + 1} \cup link
<1>1. size + 1 \in new /\ Redraws(rs, r, p, ViewOf(rs, PageNum(p)), new)
  BY DEF Draws
<1> HIDE DEF new
<1>2. \A q \in Pages : AnnotsOf(rs2, q) = IF q = p THEN AnnotsOf(rs, p) \cup new ELSE AnnotsOf(rs, q)
  BY <1>1, AnnotsReach
<1>3. FieldsOf(rs2) = FieldsOf(rs) \cup {size + 1}
  BY DEF Lists
<1> QED
  BY <1>1, <1>2, <1>3 DEF Shows

\* With the form apart, addIncrementalSignature finds all the fields.
LEMMA AllAreKept ==
  ASSUME NEW rs, Struct(rs), Clear(rs), "inline" \notin Forms
  PROVE  ElementsOf(rs, KeptFields(rs)) = FieldsOf(rs)
<1>1. \A n : GetOf(rs, n) = ViewOf(rs, n)
  BY ClearReads
<1>2. FormOK(OldForm(rs), Known(rs)) /\ OldForm(rs) = ViewOf(rs, Catalog).form
  BY <1>1, OldFormOK DEF OldForm
<1>3. CASE OldForm(rs).kind = "ref"
  <2>1. <<OldForm(rs).num, "form">> \in Known(rs)
    BY <1>2, <1>3 DEF FormOK
  <2>2. GetOf(rs, OldForm(rs).num) # Missing
    BY <2>1, ReadsOf
  <2> QED
    BY <1>1, <1>2, <1>3, <2>2 DEF KeptFields, FieldsOf
<1>4. CASE OldForm(rs).kind # "ref"
  <2>1. OldForm(rs).kind = "none"
    BY <1>2, <1>4 DEF FormOK
  <2> QED
    BY <1>2, <2>1 DEF KeptFields, FieldsOf, Here, ElementsOf
<1> QED
  BY <1>3, <1>4

LEMMA AddIncrementalSignatureStays ==
  ASSUME "inline" \notin Forms, StaysIInv, NEW p \in Pages, NEW visible \in BOOLEAN,
         AddIncrementalSignature(p, visible)
  PROVE  Clear(revisions') /\ Shown(revisions', applied')
<1> USE DEF StaysIInv, RevisionsIInv, Holds
<1>1. WritesSignature(revisions, revisions', applied, applied', p)
  BY AddIncrementalSignatureWrites
<1>2. PICK r, size, formNum, link, name :
        /\ name \in Nat /\ Follows(revisions, r, revisions') /\ NumbersTaken(revisions, size, formNum, link)
        /\ IsSigned(revisions, r, p, size, formNum, link, name)
        /\ \A n \in FieldsOf(revisions) : ViewOf(revisions, n).name # name
        /\ applied' = applied \cup {[widget |-> size + 1, page |-> p]}
  BY <1>1 DEF WritesSignature
<1>3. /\ Lists(revisions', ElementsOf(revisions, KeptFields(revisions)), size)
      /\ Draws(revisions, r, p, GetOf(revisions, PageNum(p)), size, link)
  BY <1>2, SignedRevision
<1>4. /\ Lists(revisions', FieldsOf(revisions), size)
      /\ Draws(revisions, r, p, ViewOf(revisions, PageNum(p)), size, link)
  BY <1>3, AllAreKept, ClearReads
<1>5. Shows(revisions, revisions', size + 1, p)
  BY <1>2, <1>4, DrawnIsShown
<1>6. Shown(revisions', applied')
  BY <1>2, <1>5, ShownGrows
<1>7. Clear(revisions')
  <2>1. r.packed = {}
    BY <1>2 DEF IsSigned
  <2> QED
    BY <1>2, <2>1, ClearGrows
<1> QED
  BY <1>6, <1>7

LEMMA AppendDssStays ==
  ASSUME StaysIInv, AppendDss
  PROVE  Clear(revisions') /\ Shown(revisions', applied')
<1> USE DEF StaysIInv, RevisionsIInv, Holds
<1>1. WritesDss(revisions, revisions') /\ Owing(revisions) /\ applied' = applied
  BY AppendDssWrites
<1>2. PICK r, size : Follows(revisions, r, revisions') /\ IsDss(revisions, r, size)
  BY <1>1 DEF WritesDss
<1>3. /\ FieldsOf(revisions') = FieldsOf(revisions)
      /\ \A q \in Pages : AnnotsOf(revisions', q) = AnnotsOf(revisions, q)
  BY <1>1, <1>2, DssRevision
<1>4. Shown(revisions', applied')
  BY <1>1, <1>3 DEF Shown
<1>5. Clear(revisions')
  <2>1. r.packed = {}
    BY <1>2 DEF IsDss
  <2> QED
    BY <1>2, <2>1, ClearGrows
<1> QED
  BY <1>4, <1>5

LEMMA AppendArchiveStampStays ==
  ASSUME "inline" \notin Forms, StaysIInv, AppendArchiveStamp
  PROVE  Clear(revisions') /\ Shown(revisions', applied')
<1> USE DEF StaysIInv, RevisionsIInv, Holds
<1>1. WritesStamp(revisions, revisions', applied, applied') /\ Owing(revisions)
  BY AppendArchiveStampWrites
<1>2. PICK r, size, formNum, kept :
        /\ Follows(revisions, r, revisions') /\ IsStamp(revisions, r, size, formNum, kept)
        /\ kept \subseteq FieldsOf(revisions) /\ kept = FieldsOf(revisions)
        /\ applied' = applied \cup {[widget |-> size + 1, page |-> 1]}
  BY <1>1 DEF WritesStamp
<1>3. /\ Lists(revisions', kept, size)
      /\ Draws(revisions, r, 1, ViewOf(revisions, PageNum(1)), size, {})
  BY <1>1, <1>2, StampRevision
<1>4. 1 \in Pages
  BY RevisionsAssumption DEF Pages
<1>5. Shows(revisions, revisions', size + 1, 1)
  BY <1>2, <1>3, <1>4, DrawnIsShown
<1>6. Shown(revisions', applied')
  BY <1>2, <1>4, <1>5, ShownGrows
<1>7. Clear(revisions')
  <2>1. r.packed = {}
    BY <1>2 DEF IsStamp
  <2> QED
    BY <1>2, <2>1, ClearGrows
<1> QED
  BY <1>6, <1>7

LEMMA OtherSignsStays ==
  ASSUME ~Repacking, StaysIInv, NEW p \in Pages, NEW name \in 1..MaxFieldName, NEW pack \in BOOLEAN,
         OtherSigns(p, name, pack)
  PROVE  Clear(revisions') /\ Shown(revisions', applied')
<1> USE DEF StaysIInv, RevisionsIInv, Holds
<1>1. WritesOther(revisions, revisions', applied, applied', p)
  BY OtherSignsWrites
<1>2. PICK r, size, n1 :
        /\ n1 \in Nat /\ Follows(revisions, r, revisions') /\ IsOther(revisions, r, p, size, n1)
        /\ \A n \in FieldsOf(revisions) : ViewOf(revisions, n).name # n1
        /\ \A n \in r.packed : PlainOf(revisions, n) = Missing
        /\ applied' = applied \cup {[widget |-> size + 1, page |-> p]}
  BY <1>1 DEF WritesOther
<1>3. /\ Lists(revisions', FieldsOf(revisions), size)
      /\ Draws(revisions, r, p, ViewOf(revisions, PageNum(p)), size, {})
  BY <1>2, OtherRevision
<1>4. Shows(revisions, revisions', size + 1, p)
  BY <1>2, <1>3, DrawnIsShown
<1>5. Shown(revisions', applied')
  BY <1>2, <1>4, ShownGrows
<1>6. Clear(revisions')
  BY <1>2, ClearGrows
<1> QED
  BY <1>5, <1>6

LEMMA StaysKeeps ==
  ASSUME ~Repacking, "inline" \notin Forms, StaysIInv, [RevisionsNext]_pdfVars
  PROVE  StaysIInv'
<1>1. RevisionsIInv'
  BY RevisionsKeep DEF StaysIInv
<1>2. CASE AppendDss
  BY <1>1, <1>2, AppendDssStays DEF StaysIInv
<1>3. CASE AppendArchiveStamp
  BY <1>1, <1>3, AppendArchiveStampStays DEF StaysIInv
<1>4. CASE LeaveOut
  BY <1>1, <1>4 DEF LeaveOut, StaysIInv
<1>5. ASSUME NEW p \in Pages, NEW visible \in BOOLEAN, AddIncrementalSignature(p, visible)
      PROVE  StaysIInv'
  BY <1>1, <1>5, AddIncrementalSignatureStays DEF StaysIInv
<1>6. ASSUME NEW p \in Pages, NEW name \in 1..MaxFieldName, NEW pack \in BOOLEAN, OtherSigns(p, name, pack)
      PROVE  StaysIInv'
  BY <1>1, <1>6, OtherSignsStays DEF StaysIInv
<1>7. CASE UNCHANGED pdfVars
  BY <1>1, <1>7 DEF pdfVars, StaysIInv
<1> QED
  BY <1>2, <1>3, <1>4, <1>5, <1>6, <1>7 DEF RevisionsNext

\* Every signature and stamp stays a field of the form and an annotation of its page,
\* whoever signs next and wherever, provided the form is an object of its own and no
\* program packs what an earlier revision has in plain text. Without the first,
\* FormKeepsItsFields is false (run inline_form).
THEOREM SignaturesStayForGood ==
  ASSUME ~Repacking, "inline" \notin Forms
  PROVE  RevisionsSpec => []SignaturesStay
<1>1. RevisionsInit => StaysIInv
  BY RevisionsStart DEF StaysIInv
<1>2. StaysIInv /\ [RevisionsNext]_pdfVars => StaysIInv'
  BY StaysKeeps
<1>3. StaysIInv => SignaturesStay
  BY ElementsIs, AnnotsIs DEF StaysIInv, Shown, SignaturesStay
<1> QED
  BY <1>1, <1>2, <1>3, PTL DEF RevisionsSpec

-----------------------------------------------------------------------------
(* The place of a stamp (AutoPlacement). The documents and the pages are   *)
(* constants of the lemmas, so that they hold of the paper before a step   *)
(* and after it. The invariant: the paper is well formed and its stamps    *)
(* apart, and what the analysis offers on it is good: the search checked   *)
(* its place against everything that is on the page (Good).                *)

Rectangle(r) == r.x \in Int /\ r.y \in Int /\ r.w \in Nat /\ r.h \in Nat
Sheet(g) ==
  /\ g.x \in Int /\ g.y \in Int /\ g.w \in Nat /\ g.h \in Nat
  /\ g.rotate \in {0, 90, 180, 270}

LEMMA SheetIs ==
  ASSUME NEW g \in Sheets
  PROVE  Sheet(g)
BY DEF Sheets, Sheet

\* Where a rectangle of the reader is on the page, for every rotation.
LEMMA FromCanonicalIs ==
  ASSUME NEW g, Sheet(g), NEW r, Rectangle(r)
  PROVE  /\ Rectangle(RectFromCanonical(g, r))
         /\ g.rotate = 0 =>
              /\ RectFromCanonical(g, r).x = g.x + r.x /\ RectFromCanonical(g, r).y = g.y + r.y
              /\ RectFromCanonical(g, r).w = r.w /\ RectFromCanonical(g, r).h = r.h
         /\ g.rotate = 90 =>
              /\ RectFromCanonical(g, r).x = g.x + g.w - r.y - r.h /\ RectFromCanonical(g, r).y = g.y + r.x
              /\ RectFromCanonical(g, r).w = r.h /\ RectFromCanonical(g, r).h = r.w
         /\ g.rotate = 180 =>
              /\ RectFromCanonical(g, r).x = g.x + g.w - r.x - r.w /\ RectFromCanonical(g, r).y = g.y + g.h - r.y - r.h
              /\ RectFromCanonical(g, r).w = r.w /\ RectFromCanonical(g, r).h = r.h
         /\ g.rotate = 270 =>
              /\ RectFromCanonical(g, r).x = g.x + r.y /\ RectFromCanonical(g, r).y = g.y + g.h - r.x - r.w
              /\ RectFromCanonical(g, r).w = r.h /\ RectFromCanonical(g, r).h = r.w
<1> DEFINE f == RectFromCanonical(g, r)
<1>0. /\ g.x \in Int /\ g.y \in Int /\ g.w \in Nat /\ g.h \in Nat
      /\ r.x \in Int /\ r.y \in Int /\ r.w \in Nat /\ r.h \in Nat
  BY DEF Sheet, Rectangle
<1>1. g.rotate \in {0, 90, 180, 270}
  BY DEF Sheet
<1>2. CASE g.rotate = 0
  <2> DEFINE a == g.x + r.x  b == g.y + r.y
             c == g.x + (r.x + r.w)  d == g.y + (r.y + r.h)
  <2>1. f = Between(<<a, b>>, <<c, d>>)
    BY <1>2 DEF RectFromCanonical, FromCanonical
  <2>2. a \in Int /\ b \in Int /\ c \in Int /\ d \in Int
    BY <1>0
  <2>3. f.x = Least(a, c) /\ f.y = Least(b, d) /\ f.w = Distance(a, c) /\ f.h = Distance(b, d)
    BY <2>1 DEF Between
  <2>4. f.x = g.x + r.x /\ f.y = g.y + r.y /\ f.w = r.w /\ f.h = r.h
    BY <1>0, <2>3 DEF Least, Distance
  <2>5. Rectangle(f)
    BY <1>0, <2>4 DEF Rectangle
  <2> QED
    BY <1>2, <2>4, <2>5
<1>3. CASE g.rotate = 90
  <2> DEFINE a == g.x + g.w - r.y  b == g.y + r.x
             c == g.x + g.w - (r.y + r.h)  d == g.y + (r.x + r.w)
  <2>1. f = Between(<<a, b>>, <<c, d>>)
    BY <1>3 DEF RectFromCanonical, FromCanonical
  <2>2. a \in Int /\ b \in Int /\ c \in Int /\ d \in Int
    BY <1>0
  <2>3. f.x = Least(a, c) /\ f.y = Least(b, d) /\ f.w = Distance(a, c) /\ f.h = Distance(b, d)
    BY <2>1 DEF Between
  <2>4. f.x = g.x + g.w - r.y - r.h /\ f.y = g.y + r.x /\ f.w = r.h /\ f.h = r.w
    BY <1>0, <2>3 DEF Least, Distance
  <2>5. Rectangle(f)
    BY <1>0, <2>4 DEF Rectangle
  <2> QED
    BY <1>3, <2>4, <2>5
<1>4. CASE g.rotate = 180
  <2> DEFINE a == g.x + g.w - r.x  b == g.y + g.h - r.y
             c == g.x + g.w - (r.x + r.w)  d == g.y + g.h - (r.y + r.h)
  <2>1. f = Between(<<a, b>>, <<c, d>>)
    BY <1>4 DEF RectFromCanonical, FromCanonical
  <2>2. a \in Int /\ b \in Int /\ c \in Int /\ d \in Int
    BY <1>0
  <2>3. f.x = Least(a, c) /\ f.y = Least(b, d) /\ f.w = Distance(a, c) /\ f.h = Distance(b, d)
    BY <2>1 DEF Between
  <2>4. f.x = g.x + g.w - r.x - r.w /\ f.y = g.y + g.h - r.y - r.h /\ f.w = r.w /\ f.h = r.h
    BY <1>0, <2>3 DEF Least, Distance
  <2>5. Rectangle(f)
    BY <1>0, <2>4 DEF Rectangle
  <2> QED
    BY <1>4, <2>4, <2>5
<1>5. CASE g.rotate = 270
  <2> DEFINE a == g.x + r.y  b == g.y + g.h - r.x
             c == g.x + (r.y + r.h)  d == g.y + g.h - (r.x + r.w)
  <2>1. f = Between(<<a, b>>, <<c, d>>)
    BY <1>5 DEF RectFromCanonical, FromCanonical
  <2>2. a \in Int /\ b \in Int /\ c \in Int /\ d \in Int
    BY <1>0
  <2>3. f.x = Least(a, c) /\ f.y = Least(b, d) /\ f.w = Distance(a, c) /\ f.h = Distance(b, d)
    BY <2>1 DEF Between
  <2>4. f.x = g.x + r.y /\ f.y = g.y + g.h - r.x - r.w /\ f.w = r.h /\ f.h = r.w
    BY <1>0, <2>3 DEF Least, Distance
  <2>5. Rectangle(f)
    BY <1>0, <2>4 DEF Rectangle
  <2> QED
    BY <1>5, <2>4, <2>5
<1> QED
  BY <1>1, <1>2, <1>3, <1>4, <1>5

LEMMA ToCanonicalIs ==
  ASSUME NEW g, Sheet(g), NEW r, Rectangle(r)
  PROVE  /\ Rectangle(RectToCanonical(g, r))
         /\ g.rotate = 0 =>
              /\ RectToCanonical(g, r).x = r.x - g.x /\ RectToCanonical(g, r).y = r.y - g.y
              /\ RectToCanonical(g, r).w = r.w /\ RectToCanonical(g, r).h = r.h
         /\ g.rotate = 90 =>
              /\ RectToCanonical(g, r).x = r.y - g.y /\ RectToCanonical(g, r).y = g.x + g.w - r.x - r.w
              /\ RectToCanonical(g, r).w = r.h /\ RectToCanonical(g, r).h = r.w
         /\ g.rotate = 180 =>
              /\ RectToCanonical(g, r).x = g.x + g.w - r.x - r.w /\ RectToCanonical(g, r).y = g.y + g.h - r.y - r.h
              /\ RectToCanonical(g, r).w = r.w /\ RectToCanonical(g, r).h = r.h
         /\ g.rotate = 270 =>
              /\ RectToCanonical(g, r).x = g.y + g.h - r.y - r.h /\ RectToCanonical(g, r).y = r.x - g.x
              /\ RectToCanonical(g, r).w = r.h /\ RectToCanonical(g, r).h = r.w
<1> DEFINE f == RectToCanonical(g, r)
<1>0. /\ g.x \in Int /\ g.y \in Int /\ g.w \in Nat /\ g.h \in Nat
      /\ r.x \in Int /\ r.y \in Int /\ r.w \in Nat /\ r.h \in Nat
  BY DEF Sheet, Rectangle
<1>1. g.rotate \in {0, 90, 180, 270}
  BY DEF Sheet
<1>2. CASE g.rotate = 0
  <2> DEFINE a == r.x - g.x  b == r.y - g.y
             c == (r.x + r.w) - g.x  d == (r.y + r.h) - g.y
  <2>1. f = Between(<<a, b>>, <<c, d>>)
    BY <1>2 DEF RectToCanonical, ToCanonical
  <2>2. a \in Int /\ b \in Int /\ c \in Int /\ d \in Int
    BY <1>0
  <2>3. f.x = Least(a, c) /\ f.y = Least(b, d) /\ f.w = Distance(a, c) /\ f.h = Distance(b, d)
    BY <2>1 DEF Between
  <2>4. f.x = r.x - g.x /\ f.y = r.y - g.y /\ f.w = r.w /\ f.h = r.h
    BY <1>0, <2>3 DEF Least, Distance
  <2>5. Rectangle(f)
    BY <1>0, <2>4 DEF Rectangle
  <2> QED
    BY <1>2, <2>4, <2>5
<1>3. CASE g.rotate = 90
  <2> DEFINE a == r.y - g.y  b == g.x + g.w - r.x
             c == (r.y + r.h) - g.y  d == g.x + g.w - (r.x + r.w)
  <2>1. f = Between(<<a, b>>, <<c, d>>)
    BY <1>3 DEF RectToCanonical, ToCanonical
  <2>2. a \in Int /\ b \in Int /\ c \in Int /\ d \in Int
    BY <1>0
  <2>3. f.x = Least(a, c) /\ f.y = Least(b, d) /\ f.w = Distance(a, c) /\ f.h = Distance(b, d)
    BY <2>1 DEF Between
  <2>4. f.x = r.y - g.y /\ f.y = g.x + g.w - r.x - r.w /\ f.w = r.h /\ f.h = r.w
    BY <1>0, <2>3 DEF Least, Distance
  <2>5. Rectangle(f)
    BY <1>0, <2>4 DEF Rectangle
  <2> QED
    BY <1>3, <2>4, <2>5
<1>4. CASE g.rotate = 180
  <2> DEFINE a == g.x + g.w - r.x  b == g.y + g.h - r.y
             c == g.x + g.w - (r.x + r.w)  d == g.y + g.h - (r.y + r.h)
  <2>1. f = Between(<<a, b>>, <<c, d>>)
    BY <1>4 DEF RectToCanonical, ToCanonical
  <2>2. a \in Int /\ b \in Int /\ c \in Int /\ d \in Int
    BY <1>0
  <2>3. f.x = Least(a, c) /\ f.y = Least(b, d) /\ f.w = Distance(a, c) /\ f.h = Distance(b, d)
    BY <2>1 DEF Between
  <2>4. f.x = g.x + g.w - r.x - r.w /\ f.y = g.y + g.h - r.y - r.h /\ f.w = r.w /\ f.h = r.h
    BY <1>0, <2>3 DEF Least, Distance
  <2>5. Rectangle(f)
    BY <1>0, <2>4 DEF Rectangle
  <2> QED
    BY <1>4, <2>4, <2>5
<1>5. CASE g.rotate = 270
  <2> DEFINE a == g.y + g.h - r.y  b == r.x - g.x
             c == g.y + g.h - (r.y + r.h)  d == (r.x + r.w) - g.x
  <2>1. f = Between(<<a, b>>, <<c, d>>)
    BY <1>5 DEF RectToCanonical, ToCanonical
  <2>2. a \in Int /\ b \in Int /\ c \in Int /\ d \in Int
    BY <1>0
  <2>3. f.x = Least(a, c) /\ f.y = Least(b, d) /\ f.w = Distance(a, c) /\ f.h = Distance(b, d)
    BY <2>1 DEF Between
  <2>4. f.x = g.y + g.h - r.y - r.h /\ f.y = r.x - g.x /\ f.w = r.h /\ f.h = r.w
    BY <1>0, <2>3 DEF Least, Distance
  <2>5. Rectangle(f)
    BY <1>0, <2>4 DEF Rectangle
  <2> QED
    BY <1>5, <2>4, <2>5
<1> QED
  BY <1>1, <1>2, <1>3, <1>4, <1>5

\* Two rectangles are apart on the page when they are for the reader.
LEMMA ApartIsApart ==
  ASSUME NEW g, Sheet(g), NEW r, Rectangle(r), NEW o, Rectangle(o), NEW pad \in Nat,
         ~RectsOverlap(r, RectToCanonical(g, o), pad)
  PROVE  ~RectsOverlap(RectFromCanonical(g, r), o, pad)
<1> DEFINE f == RectFromCanonical(g, r)
           t == RectToCanonical(g, o)
<1>0. /\ g.x \in Int /\ g.y \in Int /\ g.w \in Nat /\ g.h \in Nat
      /\ r.x \in Int /\ r.y \in Int /\ r.w \in Nat /\ r.h \in Nat
      /\ o.x \in Int /\ o.y \in Int /\ o.w \in Nat /\ o.h \in Nat
  BY DEF Sheet, Rectangle
<1>1. g.rotate \in {0, 90, 180, 270}
  BY DEF Sheet
<1>2. \/ r.x + r.w + pad <= t.x \/ t.x + t.w + pad <= r.x
      \/ r.y + r.h + pad <= t.y \/ t.y + t.h + pad <= r.y
  BY DEF RectsOverlap
<1>3. CASE g.rotate = 0
  <2>1. f.x = g.x + r.x /\ f.y = g.y + r.y /\ f.w = r.w /\ f.h = r.h
    BY <1>3, FromCanonicalIs
  <2>2. t.x = o.x - g.x /\ t.y = o.y - g.y /\ t.w = o.w /\ t.h = o.h
    BY <1>3, ToCanonicalIs
  <2> HIDE DEF f, t
  <2>3. \/ f.x + f.w + pad <= o.x \/ o.x + o.w + pad <= f.x
        \/ f.y + f.h + pad <= o.y \/ o.y + o.h + pad <= f.y
    BY <1>0, <1>2, <2>1, <2>2
  <2> QED
    BY <2>3 DEF RectsOverlap, f
<1>4. CASE g.rotate = 90
  <2>1. f.x = g.x + g.w - r.y - r.h /\ f.y = g.y + r.x /\ f.w = r.h /\ f.h = r.w
    BY <1>4, FromCanonicalIs
  <2>2. t.x = o.y - g.y /\ t.y = g.x + g.w - o.x - o.w /\ t.w = o.h /\ t.h = o.w
    BY <1>4, ToCanonicalIs
  <2> HIDE DEF f, t
  <2>3. \/ f.x + f.w + pad <= o.x \/ o.x + o.w + pad <= f.x
        \/ f.y + f.h + pad <= o.y \/ o.y + o.h + pad <= f.y
    BY <1>0, <1>2, <2>1, <2>2
  <2> QED
    BY <2>3 DEF RectsOverlap, f
<1>5. CASE g.rotate = 180
  <2>1. f.x = g.x + g.w - r.x - r.w /\ f.y = g.y + g.h - r.y - r.h /\ f.w = r.w /\ f.h = r.h
    BY <1>5, FromCanonicalIs
  <2>2. t.x = g.x + g.w - o.x - o.w /\ t.y = g.y + g.h - o.y - o.h /\ t.w = o.w /\ t.h = o.h
    BY <1>5, ToCanonicalIs
  <2> HIDE DEF f, t
  <2>3. \/ f.x + f.w + pad <= o.x \/ o.x + o.w + pad <= f.x
        \/ f.y + f.h + pad <= o.y \/ o.y + o.h + pad <= f.y
    BY <1>0, <1>2, <2>1, <2>2
  <2> QED
    BY <2>3 DEF RectsOverlap, f
<1>6. CASE g.rotate = 270
  <2>1. f.x = g.x + r.y /\ f.y = g.y + g.h - r.x - r.w /\ f.w = r.h /\ f.h = r.w
    BY <1>6, FromCanonicalIs
  <2>2. t.x = g.y + g.h - o.y - o.h /\ t.y = o.x - g.x /\ t.w = o.h /\ t.h = o.w
    BY <1>6, ToCanonicalIs
  <2> HIDE DEF f, t
  <2>3. \/ f.x + f.w + pad <= o.x \/ o.x + o.w + pad <= f.x
        \/ f.y + f.h + pad <= o.y \/ o.y + o.h + pad <= f.y
    BY <1>0, <1>2, <2>1, <2>2
  <2> QED
    BY <2>3 DEF RectsOverlap, f
<1> QED
  BY <1>1, <1>3, <1>4, <1>5, <1>6

-----------------------------------------------------------------------------
(* Least and greatest.                                                     *)

LEMMA LeastOfIs ==
  ASSUME NEW S
  PROVE  LeastOf(S) \in S \/ LeastOf(S) = None
<1>1. CASE \E x \in S : \A y \in S : x <= y
  <2>1. LeastOf(S) = CHOOSE x \in S : \A y \in S : x <= y
    BY <1>1 DEF LeastOf
  <2> QED
    BY <1>1, <2>1
<1>2. CASE ~ \E x \in S : \A y \in S : x <= y
  BY <1>2 DEF LeastOf
<1> QED
  BY <1>1, <1>2

LEMMA GreatestOfIs ==
  ASSUME NEW S
  PROVE  /\ GreatestOf(S) \in S \/ GreatestOf(S) = None
         /\ (\E x \in S : \A y \in S : y <= x) =>
              GreatestOf(S) \in S /\ \A y \in S : y <= GreatestOf(S)
<1>1. CASE \E x \in S : \A y \in S : y <= x
  <2>1. GreatestOf(S) = CHOOSE x \in S : \A y \in S : y <= x
    BY <1>1 DEF GreatestOf
  <2> QED
    BY <1>1, <2>1
<1>2. CASE ~ \E x \in S : \A y \in S : y <= x
  BY <1>2 DEF GreatestOf
<1> QED
  BY <1>1, <1>2

HasLeast(S) == \E x \in S : \A y \in S : x <= y

\* A finite set of numbers has a least one.
LEMMA FiniteHasLeast ==
  ASSUME NEW S \in SUBSET Int, IsFiniteSet(S), S # {}
  PROVE  LeastOf(S) \in S
<1>0. PICK n \in Nat : ExistsSurjection(1..n, S)
  BY FS_NatSurjection
<1>1. n \in Nat
  OBVIOUS
<1>2. PICK f \in Surjection(1..n, S) : TRUE
  BY <1>0, Zenon DEF ExistsSurjection
<1>3. (\A k \in 1..n : f[k] \in S) /\ \A x \in S : \E k \in 1..n : f[k] = x
  BY <1>2 DEF Surjection
<1> DEFINE UpTo(k) == {f[j] : j \in 1..k}
           Bad == {k \in 1..n : ~HasLeast(UpTo(k))}
<1>4. Bad = {}
  <2> SUFFICES ASSUME Bad # {}
               PROVE  FALSE
    OBVIOUS
  <2>1. Bad \in SUBSET Nat
    BY <1>1
  <2> HIDE DEF Bad
  <2>2. PICK k \in Bad : \A j \in Bad : k <= j
    BY <2>1, SmallestIn
  <2>3. k \in 1..n /\ k \in Nat /\ f[k] \in Int /\ ~HasLeast(UpTo(k))
    BY <1>1, <1>3, <2>1, <2>2 DEF Bad
  <2>4. CASE k = 1
    <3>1. UpTo(k) = {f[1]}
      BY <2>4
    <3> QED
      BY <2>3, <2>4, <3>1 DEF HasLeast
  <2>5. CASE k # 1
    <3> DEFINE j == k - 1
    <3>1. j \in 1..n /\ j \in Nat /\ k = j + 1 /\ ~(k <= j)
      BY <1>1, <2>3, <2>5
    <3>2. HasLeast(UpTo(j))
      BY <2>2, <3>1 DEF Bad
    <3>3. PICK x \in UpTo(j) : \A y \in UpTo(j) : x <= y
      BY <3>2 DEF HasLeast
    <3>4. UpTo(k) = UpTo(j) \cup {f[k]}
      <4>1. 1..k = (1..j) \cup {k}
        BY <3>1
      <4> QED
        BY <4>1
    <3>5. x \in Int /\ \A y \in UpTo(j) : y \in Int
      <4>1. \A y \in UpTo(j) : y \in S
        BY <1>1, <1>3, <3>1
      <4> QED
        BY <4>1
    <3> HIDE DEF UpTo
    <3>6. CASE x <= f[k]
      BY <2>3, <3>3, <3>4, <3>5, <3>6 DEF HasLeast
    <3>7. CASE ~(x <= f[k])
      <4>1. \A y \in UpTo(k) : f[k] <= y
        BY <2>3, <3>3, <3>4, <3>5, <3>7
      <4> QED
        BY <2>3, <3>4, <4>1 DEF HasLeast
    <3> QED
      BY <3>6, <3>7
  <2> QED
    BY <2>4, <2>5
<1>5. n \in 1..n
  <2>1. PICK x \in S : TRUE
    OBVIOUS
  <2>2. PICK k \in 1..n : f[k] = x
    BY <1>3, <2>1
  <2> QED
    BY <1>1, <2>2
<1>6. UpTo(n) = S
  BY <1>3
<1>7. HasLeast(S)
  BY <1>4, <1>5, <1>6
<1> QED
  BY <1>7, Zenon DEF HasLeast, LeastOf

LEMMA ImageIsFinite ==
  ASSUME NEW f, IsFiniteSet(DOMAIN f)
  PROVE  IsFiniteSet({f[x] : x \in DOMAIN f})
<1> DEFINE T == {f[x] : x \in DOMAIN f}
           g == [x \in DOMAIN f |-> f[x]]
<1>1. g \in Surjection(DOMAIN f, T)
  BY DEF Surjection
<1> HIDE DEF T, g
<1>3. IsFiniteSet(T)
  BY <1>1, FS_Surjection
<1> QED
  BY <1>3 DEF T

-----------------------------------------------------------------------------
(* What is read in a document.                                             *)

Sources ==
  {"other", "empty-field", "text-anchor", "anti-overlap", "reserved-gap", "free-space", "default-footer"}

StampsOf(d) ==
  [page : DOMAIN d.pages, x : Int, y : Int, w : Nat, h : Nat, source : Sources]

LineOK(l) == l.y \in Int /\ l.h \in Int /\ l.x \in Int \cup {None}

PaperOK(d) ==
  /\ {"pages", "lines", "stamps", "fields"} \subseteq DOMAIN d
  /\ d.pages \in Seq(Sheets)
  /\ IsFiniteSet(d.lines) /\ \A l \in d.lines : LineOK(l)
  /\ d.stamps \in Seq(StampsOf(d))
  /\ d.fields \in Seq([page : DOMAIN d.pages, x : Int, y : Int, w : Nat, h : Nat])
  /\ d.pages = <<>> => d.failure \in {"encrypted", "unreadable"}

LEMMA SheetOfPage ==
  ASSUME NEW d, PaperOK(d), NEW p \in DOMAIN d.pages
  PROVE  Sheet(d.pages[p]) /\ p \in Nat /\ p <= Len(d.pages) /\ Len(d.pages) \in DOMAIN d.pages
<1>1. d.pages \in Seq(Sheets)
  BY DEF PaperOK
<1>2. /\ d.pages[p] \in Sheets /\ DOMAIN d.pages = 1..Len(d.pages) /\ Len(d.pages) \in Nat
  BY <1>1
<1> QED
  BY <1>2, SheetIs

LEMMA StampIs ==
  ASSUME NEW d, PaperOK(d), NEW s \in Range(d.stamps)
  PROVE  s.page \in DOMAIN d.pages /\ Rectangle(s)
<1>1. d.stamps \in Seq(StampsOf(d))
  BY DEF PaperOK
<1>2. s \in StampsOf(d)
  BY <1>1 DEF Range
<1> QED
  BY <1>2 DEF StampsOf, Rectangle

BandOK(b) ==
  /\ b.y \in Int /\ b.h \in Nat /\ b.x \in Int \cup {None}
  /\ IsFiniteSet(b.starts) /\ \A s \in b.starts : s.x \in Int /\ s.y \in Int

LEMMA MergedAre ==
  ASSUME NEW L, IsFiniteSet(L), \A l \in L : LineOK(l), NEW b \in MergeBands(L), b.h \in Nat \ {0}
  PROVE  BandOK(b)
<1> DEFINE low(y) == {l \in L : l.y >= y /\ \A n \in Begins(L,
      MergeTolerance) : n.y > y => l.y < n.y}
           xs(y) == {l.x : l \in {m \in low(y) : m.y = y /\ m.x # None}}
           known(y) == {m \in low(y) : m.x # None}
           starts(y) == {[x |-> l.x, y |-> l.y, end |-> l.end] : l \in known(y)}
<1>1. PICK y \in {l.y : l \in Begins(L, MergeTolerance)} :
        b = [y |-> y, h |-> GreatestOf({Top(l) : l \in low(y)}) - y, x |-> LeastOf(xs(y)), starts |-> starts(y)]
  BY DEF MergeBands
<1>2. b.y = y /\ b.x = LeastOf(xs(y)) /\ b.starts = starts(y)
  BY <1>1
<1>3. y \in Int
  BY <1>1 DEF Begins, LineOK
<1>4. \A x \in xs(y) : x \in Int
  BY DEF LineOK
<1>5. b.x \in Int \cup {None}
  <2> HIDE DEF xs
  <2>1. LeastOf(xs(y)) \in xs(y) \/ LeastOf(xs(y)) = None
    BY LeastOfIs
  <2> QED
    BY <1>2, <1>4, <2>1
<1>6. IsFiniteSet(starts(y))
  <2> DEFINE f == [l \in known(y) |-> [x |-> l.x, y |-> l.y, end |-> l.end]]
  <2>1. known(y) \subseteq L
    OBVIOUS
  <2>2. IsFiniteSet(known(y))
    BY <2>1, FS_Subset
  <2>3. DOMAIN f = known(y) /\ starts(y) = {f[l] : l \in DOMAIN f}
    OBVIOUS
  <2> HIDE DEF f, known, starts
  <2> QED
    BY <2>2, <2>3, ImageIsFinite
<1>7. \A s \in starts(y) : s.x \in Int /\ s.y \in Int
  BY DEF LineOK
<1> QED
  BY <1>2, <1>3, <1>5, <1>6, <1>7 DEF BandOK

LEMMA BandsAre ==
  ASSUME NEW d, PaperOK(d), NEW p
  PROVE  \A b \in Bands(d, p) : BandOK(b)
<1> DEFINE L == {l \in d.lines : l.page = p}
           K == WithoutWatermark(L)
<1>1. K \subseteq L
  BY DEF WithoutWatermark
<1>2. K \subseteq d.lines
  BY <1>1
<1> HIDE DEF K, L
<1>3. IsFiniteSet(K) /\ \A l \in K : LineOK(l)
  BY <1>2, FS_Subset DEF PaperOK
<1> SUFFICES ASSUME NEW b \in Bands(d, p)
             PROVE  BandOK(b)
  OBVIOUS
<1>4. b \in MergeBands(K) /\ b.h \in Nat \ {0}
  BY DEF Bands, K, L
<1> QED
  BY <1>3, <1>4, MergedAre

LEMMA BandRectIs ==
  ASSUME NEW g, Sheet(g), NEW b, BandOK(b)
  PROVE  Rectangle(BandRect(g, b))
BY DEF Sheet, BandOK, BandRect, Rectangle

LEMMA ObstacleIs ==
  ASSUME NEW r, NEW row
  PROVE  /\ Obstacle(r, row).x = r.x /\ Obstacle(r, row).y = r.y
         /\ Obstacle(r, row).w = r.w /\ Obstacle(r, row).h = r.h
         /\ Rectangle(r) => Rectangle(Obstacle(r, row))
BY DEF Obstacle, Rectangle

LEMMA OverlapReads ==
  ASSUME NEW r, NEW row, NEW c, NEW pad
  PROVE  RectsOverlap(c, Obstacle(r, row), pad) <=> RectsOverlap(c, r, pad)
BY ObstacleIs DEF RectsOverlap

Rectangles(S) == \A o \in S : Rectangle(o)

LEMMA TextIs ==
  ASSUME NEW g, Sheet(g), NEW bands, \A b \in bands : BandOK(b)
  PROVE  Rectangles(TextBandRects(g, bands))
<1> SUFFICES ASSUME NEW o \in TextBandRects(g, bands)
             PROVE  Rectangle(o)
  BY DEF Rectangles
<1>1. PICK b \in bands : \E row : o = Obstacle(RectToCanonical(g, BandRect(g, b)), row)
  BY DEF TextBandRects
<1>2. Rectangle(RectToCanonical(g, BandRect(g, b)))
  BY BandRectIs, ToCanonicalIs
<1> QED
  BY <1>1, <1>2, ObstacleIs

LEMMA ObstaclesAre ==
  ASSUME NEW d, PaperOK(d), NEW p \in DOMAIN d.pages
  PROVE  Rectangles(Obstacles(d, p))
<1>1. Sheet(d.pages[p])
  BY SheetOfPage
<1>2. Rectangles(TextBandRects(d.pages[p], Bands(d, p)))
  BY <1>1, TextIs, BandsAre
<1>3. ASSUME NEW o \in StampRects(d, p)
      PROVE  Rectangle(o)
  <2>1. PICK s \in Stamps(d, p) : o = Obstacle(RectToCanonical(d.pages[p], s), FALSE)
    BY <1>3 DEF StampRects
  <2>2. Rectangle(s)
    BY <2>1, StampIs DEF Stamps
  <2> QED
    BY <1>1, <2>1, <2>2, ToCanonicalIs, ObstacleIs
<1> QED
  BY <1>2, <1>3 DEF Rectangles, Obstacles

\* What is free for the reader is clear on the page.
LEMMA FreeIsClearOfText ==
  ASSUME NEW g, Sheet(g), NEW bands, \A b \in bands : BandOK(b), NEW r, Rectangle(r),
         IsFree(r, TextBandRects(g, bands))
  PROVE  \A b \in bands : ~RectsOverlap(RectFromCanonical(g, r), BandRect(g, b), HalfGap)
<1> SUFFICES ASSUME NEW b \in bands
             PROVE  ~RectsOverlap(RectFromCanonical(g, r), BandRect(g, b), HalfGap)
  OBVIOUS
<1>1. PICK row : Obstacle(RectToCanonical(g, BandRect(g, b)), row) \in TextBandRects(g, bands)
  BY DEF TextBandRects
<1>2. ~RectsOverlap(r, RectToCanonical(g, BandRect(g, b)), HalfGap)
  BY <1>1, OverlapReads DEF IsFree
<1>3. Rectangle(BandRect(g, b)) /\ HalfGap \in Nat
  BY BandRectIs, LengthsAssumption
<1> QED
  BY <1>2, <1>3, ApartIsApart

LEMMA FreeIsClear ==
  ASSUME NEW d, PaperOK(d), NEW p \in DOMAIN d.pages, NEW r, Rectangle(r), IsFree(r, Obstacles(d, p))
  PROVE  ClearOnPage(d, p, RectFromCanonical(d.pages[p], r))
<1> DEFINE g == d.pages[p]
<1>1. Sheet(g) /\ HalfGap \in Nat
  BY SheetOfPage, LengthsAssumption
<1>2. IsFree(r, TextBandRects(g, Bands(d, p)))
  BY DEF IsFree, Obstacles
<1>3. \A b \in Bands(d, p) : ~RectsOverlap(RectFromCanonical(g, r), BandRect(g, b), HalfGap)
  BY <1>1, <1>2, BandsAre, FreeIsClearOfText
<1>4. ASSUME NEW s \in Stamps(d, p)
      PROVE  ~RectsOverlap(RectFromCanonical(g, r), s, HalfGap)
  <2>1. Obstacle(RectToCanonical(g, s), FALSE) \in Obstacles(d, p)
    BY DEF StampRects, Obstacles
  <2>2. ~RectsOverlap(r, RectToCanonical(g, s), HalfGap)
    BY <2>1, OverlapReads DEF IsFree
  <2>3. Rectangle(s)
    BY StampIs DEF Stamps
  <2> QED
    BY <1>1, <2>2, <2>3, ApartIsApart
<1> QED
  BY <1>3, <1>4 DEF ClearOnPage

-----------------------------------------------------------------------------
(* What is searched for.                                                   *)

LEMMA Lengths ==
  /\ EdgeMargin \in Nat /\ HalfGap \in Nat /\ ColumnSplit \in Nat /\ MinLegible \in Nat
  /\ SigBoxW \in Nat /\ SigBoxH \in Nat /\ MaxStamps \in Nat /\ None \notin Int
BY LengthsAssumption

Search(s) == s.w \in Nat /\ s.h \in Nat /\ s.v \in Int \cup {None}

LEMMA SlotIs ==
  ASSUME NEW g, Sheet(g), NEW onPage, NEW s, Search(s), NEW c \in Slots(g, onPage, s)
  PROVE  /\ IsFree(c, onPage) /\ Rectangle(c)
         /\ DOMAIN c = {"x", "y", "w", "h", "u", "v"}
<1> DEFINE maxV == OrientedH(g) - EdgeMargin - s.h
           fits == {u \in EdgeMargin..(OrientedW(g) - EdgeMargin - s.w) :
                      u \in {EdgeMargin, s.u} \/ \E o \in onPage : u = o.x + o.w + Gap}
           heights == VerticalCandidates(onPage, maxV, s) \cup ({s.v} \ {None})
           rank(x, preferred) == IF x = preferred THEN 0 ELSE x + 1
           all == {[x |-> u, y |-> Least(v, maxV), w |-> s.w, h |-> s.h,
                    u |-> rank(u, s.u), v |-> rank(v, s.v)] : u \in fits, v \in heights}
           free == {r \in all : IsFree(r, onPage)}
<1>1. c \in free
  <2> DEFINE found == CHOOSE f : f = [n \in 0..MaxSlots |->
        IF n = 0 THEN {}
        ELSE LET prior == f[n - 1] IN
             prior \cup Foremost({r \in free : \A d \in prior : ~RectsOverlap(r, d, 0)})]
  <2>1. Slots(g, onPage, s) = IF onPage = {} THEN {} ELSE free \cap found[MaxSlots]
    BY DEF Slots
  <2> HIDE DEF free, found
  <2> QED
    BY <2>1
<1>2. PICK u \in fits, v \in heights :
        c = [x |-> u, y |-> Least(v, maxV), w |-> s.w, h |-> s.h, u |-> rank(u, s.u), v |-> rank(v, s.v)]
  BY <1>1
<1>3. /\ g.w \in Nat /\ g.h \in Nat /\ s.w \in Nat /\ s.h \in Nat /\ EdgeMargin \in Nat
      /\ s.v \in Int \cup {None}
  BY Lengths DEF Sheet, Search
<1>4. maxV \in Int /\ OrientedW(g) \in Nat
  BY <1>3 DEF OrientedH, OrientedW
<1>5. u \in Int
  BY <1>2, <1>3, <1>4
<1> HIDE DEF maxV
<1>6. v \in Int
  <2>1. VerticalCandidates(onPage, maxV, s) \subseteq EdgeMargin..maxV
    BY DEF VerticalCandidates
  <2> QED
    BY <1>2, <1>3, <1>4, <2>1
<1>7. Least(v, maxV) \in Int
  BY <1>4, <1>6 DEF Least
<1>8. IsFree(c, onPage)
  BY <1>1
<1> HIDE DEF free, all, fits, heights, rank
<1>9. c.x = u /\ c.y = Least(v, maxV) /\ c.w = s.w /\ c.h = s.h
  BY <1>2
<1>10. DOMAIN c = {"x", "y", "w", "h", "u", "v"}
  BY <1>2
<1> QED
  BY <1>3, <1>5, <1>7, <1>8, <1>9, <1>10 DEF Rectangle

\* The first of some slots is one of them.
LEMMA FirstIs ==
  ASSUME NEW S
  PROVE  First(S) \in S \/ First(S) = None
<1>1. Foremost(S) \subseteq S
  BY DEF Foremost
<1>2. Foremost(S) # {} => First(S) \in Foremost(S)
  BY DEF First
<1>3. Foremost(S) = {} => First(S) = None
  BY DEF First
<1> QED
  BY <1>1, <1>2, <1>3

LEMMA BlockTopIs ==
  ASSUME NEW onPage, Rectangles(onPage), NEW h
  PROVE  BlockTop(onPage, h) \in Int \cup {None}
<1> DEFINE body  == {r \in onPage : Top(r) > FooterStrip \/ r.row}
           start == LeastOf({r.y : r \in body})
           rest  == {r \in onPage : r.y > start} \cup {r \in body : r.y = start}
           above == LeastOf({r.y : r \in {q \in Begins(rest, BlockGap) : q.y > start}})
           tops  == {Top(r) : r \in {q \in rest : q.y < above}}
           top   == GreatestOf(tops)
<1>1. BlockTop(onPage, h) = IF start = None \/ above = None \/ top = None \/ above - top < h + Gap THEN None ELSE top
  BY DEF BlockTop
<1>2. rest \subseteq onPage
  OBVIOUS
<1> HIDE DEF start, above, rest
<1>3. tops \subseteq Int
  BY <1>2 DEF Rectangles, Rectangle, Top
<1>4. top \in tops \/ top = None
  <2> HIDE DEF tops
  <2> QED
    BY GreatestOfIs
<1> HIDE DEF top, tops
<1> QED
  BY <1>1, <1>3, <1>4

LEMMA ReservedGapIs ==
  ASSUME NEW onPage, Rectangles(onPage), NEW h
  PROVE  ReservedGapV(onPage, h) \in Int \cup {None}
<1>1. BlockTop(onPage, h) \in Int \cup {None}
  BY BlockTopIs
<1> QED
  BY <1>1, Lengths DEF ReservedGapV

LEMMA SpotIs ==
  ASSUME NEW g, Sheet(g), NEW x \in Int, NEW y \in Int
  PROVE  Spot(g, x, y).x \in Int /\ Spot(g, x, y).y \in Int
<1> DEFINE r == [x |-> x, y |-> y, w |-> 1, h |-> 1]
<1>1. Rectangle(r)
  BY DEF Rectangle
<1> HIDE DEF r
<1>2. Rectangle(RectToCanonical(g, r))
  BY <1>1, ToCanonicalIs
<1> QED
  BY <1>2 DEF Spot, Rectangle, r

PointsOK(P) == IsFiniteSet(P) /\ \A q \in P : q.u \in Int /\ q.v \in Int

LEMMA StartsAre ==
  ASSUME NEW g, Sheet(g), NEW b, BandOK(b)
  PROVE  PointsOK(StartsOf(g, b))
<1> DEFINE f == [s \in b.starts |-> [u |-> Spot(g, s.x, s.y).x, v |-> Spot(g, s.x, s.y).y]]
<1>1. IsFiniteSet(b.starts) /\ \A s \in b.starts : s.x \in Int /\ s.y \in Int
  BY DEF BandOK
<1>2. StartsOf(g, b) = {f[s] : s \in DOMAIN f} /\ DOMAIN f = b.starts
  BY DEF StartsOf
<1>3. \A s \in b.starts : f[s].u \in Int /\ f[s].v \in Int
  BY <1>1, SpotIs
<1> HIDE DEF f
<1>4. IsFiniteSet({f[s] : s \in DOMAIN f})
  BY <1>1, <1>2, ImageIsFinite
<1> QED
  BY <1>2, <1>3, <1>4 DEF PointsOK

LEMMA SomeLeast ==
  ASSUME NEW f, IsFiniteSet(DOMAIN f), DOMAIN f # {}, \A x \in DOMAIN f : f[x] \in Int
  PROVE  \E x \in DOMAIN f : \A y \in DOMAIN f : f[x] <= f[y]
<1> DEFINE S == {f[x] : x \in DOMAIN f}
<1>1. IsFiniteSet(S)
  BY ImageIsFinite
<1>2. S \in SUBSET Int /\ S # {}
  OBVIOUS
<1> HIDE DEF S
<1>3. LeastOf(S) \in S
  BY <1>1, <1>2, FiniteHasLeast
<1>4. \E x \in S : \A y \in S : x <= y
  BY <1>2, <1>3, Lengths DEF LeastOf
<1> QED
  BY <1>4 DEF S

LEMMA LowestIs ==
  ASSUME NEW P, PointsOK(P), P # {}
  PROVE  LowestU(P) \in Int
<1> DEFINE f == [q \in P |-> q.v]
           low == {l \in P : \A m \in P : l.v <= m.v}
           g == [q \in low |-> q.u]
           us == {q.u : q \in low}
<1>1. \E x \in P : \A y \in P : x.v <= y.v
  <2>1. DOMAIN f = P /\ \A q \in P : f[q] = q.v
    OBVIOUS
  <2>2. IsFiniteSet(DOMAIN f) /\ DOMAIN f # {} /\ \A q \in DOMAIN f : f[q] \in Int
    BY <2>1 DEF PointsOK
  <2> HIDE DEF f
  <2>3. \E x \in DOMAIN f : \A y \in DOMAIN f : f[x] <= f[y]
    BY <2>2, SomeLeast
  <2> QED
    BY <2>1, <2>3
<1>2. low # {} /\ low \subseteq P
  BY <1>1
<1>3. IsFiniteSet(low)
  BY <1>2, FS_Subset DEF PointsOK
<1>4. us = {g[q] : q \in DOMAIN g} /\ DOMAIN g = low
  OBVIOUS
<1>5. us \in SUBSET Int /\ us # {}
  BY <1>2 DEF PointsOK
<1>6. IsFiniteSet(us)
  <2> HIDE DEF g, us, low
  <2> QED
    BY <1>3, <1>4, ImageIsFinite
<1>7. LowestU(P) = LeastOf(us)
  BY DEF LowestU
<1> HIDE DEF us
<1>8. LeastOf(us) \in us
  BY <1>5, <1>6, FiniteHasLeast
<1> QED
  BY <1>5, <1>7, <1>8

LeavesRoom(second, P) == second = None \/ (second \in Int /\ \E l \in P : l.u < second)

LEMMA SecondIs ==
  ASSUME NEW g, NEW P, PointsOK(P), NEW rows
  PROVE  LeavesRoom(SecondColumn(g, P, rows), P)
<1> DEFINE row(q) == GreatestOf({v \in rows : v <= q.v})
           needed == Least(ColumnSplit, OrientedW(g) \div 4)
           opens(q) == \E l \in P : /\ row(l) = row(q) /\ q.u - l.u >= needed /\ l.u < q.u
                                    /\ ~\E m \in P : row(m) = row(q) /\ l.u < m.u /\ m.u < q.u
           us == {q.u : q \in {c \in P : opens(c)}}
<1>1. SecondColumn(g, P, rows) = LeastOf(us)
  BY DEF SecondColumn
<1>2. \A x \in us : x \in Int /\ \E l \in P : l.u < x
  BY DEF PointsOK
<1> HIDE DEF us
<1>3. LeastOf(us) \in us \/ LeastOf(us) = None
  BY LeastOfIs
<1> QED
  BY <1>1, <1>2, <1>3 DEF LeavesRoom

LEMMA ColumnsAre ==
  ASSUME NEW g, Sheet(g), NEW b, BandOK(b)
  PROVE  ColumnsOf(g, b) = None \/ (ColumnsOf(g, b).boundary \in Int /\ ColumnsOf(g, b).u \in Int)
<1> DEFINE P == StartsOf(g, b)
           rows == RowStarts({q.v : q \in P})
           second == SecondColumn(g, P, rows)
           left == {q \in P : q.u < second}
<1>1. PointsOK(P)
  BY StartsAre
<1>2. ColumnsOf(g, b) = TwoColumns(P, second)
  BY DEF ColumnsOf
<1>3. second = None \/ (second \in Int /\ \E l \in P : l.u < second)
  <2> HIDE DEF P, rows
  <2>1. LeavesRoom(SecondColumn(g, P, rows), P)
    BY <1>1, SecondIs
  <2> QED
    BY <2>1 DEF LeavesRoom
<1> HIDE DEF P, second
<1>4. CASE second = None
  BY <1>2, <1>4 DEF TwoColumns
<1>5. CASE second # None
  <2>1. second \in Int /\ left # {} /\ left \subseteq P
    BY <1>3, <1>5
  <2>2. PointsOK(left)
    BY <1>1, <2>1, FS_Subset DEF PointsOK
  <2> HIDE DEF left
  <2>3. LowestU(left) \in Int
    BY <2>1, <2>2, LowestIs
  <2>4. TwoColumns(P, second) = [boundary |-> second, u |-> LowestU(left)]
    BY <1>5 DEF TwoColumns, left
  <2> QED
    BY <1>2, <2>1, <2>3, <2>4
<1> QED
  BY <1>4, <1>5

LEMMA TextLeftIs ==
  ASSUME NEW g, Sheet(g), NEW bands, \A b \in bands : BandOK(b)
  PROVE  PageTextLeftU(g, bands) \in Int
<1> DEFINE us == {Spot(g, s.x, s.y).x : s \in UNION {b.starts : b \in bands}}
<1>1. \A u \in us : u \in Int
  BY SpotIs DEF BandOK
<1>2. PageTextLeftU(g, bands) = Greatest(EdgeMargin, Otherwise(LeastOf(us), EdgeMargin))
  BY DEF PageTextLeftU
<1> HIDE DEF us
<1>3. LeastOf(us) \in us \/ LeastOf(us) = None
  BY LeastOfIs
<1>4. Otherwise(LeastOf(us), EdgeMargin) \in Int
  BY <1>1, <1>3, Lengths DEF Otherwise
<1> QED
  BY <1>2, <1>4, Lengths DEF Greatest

\* A box that adapts to a column has a width.
LEMMA InColumnIs ==
  ASSUME NEW g, Sheet(g), NEW bands, \A b \in bands : BandOK(b), NEW band,
         NEW boundary \in Int \cup {None}, NEW u, NEW w \in Nat
  PROVE  InColumn(g, bands, band, boundary, u, w).w \in Nat
<1> DEFINE left == PageTextLeftU(g, bands)
           right == IF boundary # None THEN boundary - HalfGap ELSE OrientedW(g) - EdgeMargin
           center == ColumnCenterU(g, band, boundary)
           box == CenteredBetween(left, right, center, w)
           width == Least(w, right - left)
<1>1. left \in Int
  BY TextLeftIs
<1>2. right \in Int
  BY Lengths DEF OrientedW, Sheet
<1>3. InColumn(g, bands, band, boundary, u, w) = Otherwise(box, [u |-> ClampBlockU(g, u, w), w |-> w])
  BY DEF InColumn, CenteredWithinColumn
<1> HIDE DEF left, right, center
<1>4. width \in Int
  BY <1>1, <1>2 DEF Least
<1>5. box = None \/ (box.w = width /\ ~(width < MinLegible))
  <2>1. CASE center = None \/ right <= left \/ width < MinLegible
    <3>1. box = None
      BY <2>1 DEF CenteredBetween
    <3> QED
      BY <3>1
  <2>2. CASE ~(center = None \/ right <= left \/ width < MinLegible)
    <3>1. box = [u |-> Greatest(left, Least(center - width \div 2, right - width)), w |-> width]
      BY <2>2 DEF CenteredBetween
    <3> HIDE DEF box
    <3>2. box.w = width
      BY <3>1
    <3> QED
      BY <2>2, <3>2
  <2> QED
    BY <2>1, <2>2
<1> HIDE DEF width, box
<1>6. box # None => box.w \in Nat
  BY <1>4, <1>5, Lengths
<1> QED
  BY <1>3, <1>6 DEF Otherwise

LEMMA OverColumnsIs ==
  ASSUME NEW g, Sheet(g), NEW bands, \A b \in bands : BandOK(b), NEW block, NEW columns,
         columns = None \/ (columns.boundary \in Int /\ columns.u \in Int), NEW w \in Nat
  PROVE  OverColumns(g, bands, block, columns, w).w \in Nat
<1>1. CASE columns = None
  <2>1. OverColumns(g, bands, block, columns, w) = InColumn(g, bands, block.band, None, block.u, w)
    BY <1>1 DEF OverColumns
  <2>2. None \in Int \cup {None}
    OBVIOUS
  <2> QED
    BY <2>1, <2>2, InColumnIs
<1>2. CASE columns # None
  <2> DEFINE width == WidthWithinColumn(w, columns.u, columns.boundary)
  <2>1. OverColumns(g, bands, block, columns, w) = InColumn(g, bands, block.band, columns.boundary, columns.u, width)
    BY <1>2 DEF OverColumns
  <2>2. width \in Nat
    BY <1>2, Lengths DEF WidthWithinColumn, Greatest
  <2>3. columns.boundary \in Int \cup {None}
    BY <1>2
  <2> HIDE DEF width
  <2> QED
    BY <2>1, <2>2, <2>3, InColumnIs
<1> QED
  BY <1>1, <1>2

LEMMA BlockBoxIs ==
  ASSUME NEW g, Sheet(g), NEW bands, \A b \in bands : BandOK(b), NEW gapV, NEW w \in Nat, NEW byDefault \in BOOLEAN
  PROVE  BlockBox(g, bands, gapV, w, byDefault) = None \/ BlockBox(g, bands, gapV, w, byDefault).w \in Nat
<1> DEFINE block == SignatureBlock(g, bands, gapV)
<1>1. CASE gapV = None
  BY <1>1 DEF BlockBox
<1>2. CASE gapV # None
  <2>1. BlockBox(g, bands, gapV, w, byDefault) = OverBlock(g, bands, block, w, byDefault)
    BY <1>2 DEF BlockBox
  <2>2. CASE block = None
    BY <2>1, <2>2 DEF OverBlock
  <2>3. CASE block # None /\ byDefault
    <3>1. block.band \in bands
      <4> DEFINE tall(b) == RectToCanonical(g, [x |-> b.x, y |-> b.y, w |-> 1, h |-> b.h])
                 below   == {b \in bands : b.x # None /\ Top(tall(b)) <= gapV}
                 highest == {b \in below : \A c \in below : tall(c).y <= tall(b).y}
      <4>1. block = IF highest = {} THEN None
                    ELSE LET b == CHOOSE b \in highest : TRUE IN [u |-> tall(b).x, band |-> b]
        BY DEF SignatureBlock
      <4> HIDE DEF tall, block
      <4>2. highest # {}
        BY <2>3, <4>1
      <4>3. block.band \in highest
        BY <4>1, <4>2
      <4> QED
        BY <4>3
    <3>2. ColumnsOf(g, block.band) = None \/ (ColumnsOf(g, block.band).boundary \in Int /\ ColumnsOf(g, block.band).u \in Int)
      BY <3>1, ColumnsAre
    <3>3. OverBlock(g, bands, block, w, byDefault) = OverColumns(g, bands, block, ColumnsOf(g, block.band), w)
      BY <2>3 DEF OverBlock
    <3> HIDE DEF block
    <3> QED
      BY <2>1, <3>2, <3>3, OverColumnsIs
  <2>4. CASE block # None /\ ~byDefault
    <3>1. OverBlock(g, bands, block, w, byDefault) = [u |-> ClampBlockU(g, block.u, w), w |-> w]
      BY <2>4 DEF OverBlock
    <3> QED
      BY <2>1, <3>1
  <2> QED
    BY <2>2, <2>3, <2>4
<1> QED
  BY <1>1, <1>2

LEMMA AntiOverlapSearchIs ==
  ASSUME NEW d, PaperOK(d), NEW a, a = None \/ a.v \in Int, NEW p \in DOMAIN d.pages,
         NEW boxW \in Nat, NEW boxH \in Nat, NEW byDefault \in BOOLEAN
  PROVE  Search(AntiOverlapSearch(d, a, p, boxW, boxH, byDefault))
<1> DEFINE g == d.pages[p]
           w == Least(boxW, (6 * OrientedW(g)) \div 10)
           h == Least(boxH, OrientedH(g) \div 5)
           onPage == Obstacles(d, p)
           reserved == ReservedGapV(onPage, h)
           box == BlockBox(g, Bands(d, p), reserved, w, byDefault)
           beside == {o \in onPage : o.x < box.u + box.w + HalfGap /\ o.x + o.w > box.u - HalfGap}
           lower == IF beside = onPage THEN None ELSE ReservedGapV(beside, h)
           s == AntiOverlapSearch(d, a, p, boxW, boxH, byDefault)
<1>1. Sheet(g)
  BY SheetOfPage
<1>2. OrientedW(g) \in Nat /\ OrientedH(g) \in Nat
  BY <1>1 DEF Sheet, OrientedW, OrientedH
<1>3. w \in Nat /\ h \in Nat
  BY <1>2 DEF Least
<1>4. Rectangles(onPage)
  BY ObstaclesAre
<1>5. CASE a # None /\ a.page = p
  <2>1. s = [w |-> w, h |-> h, u |-> a.u, v |-> a.v, aware |-> TRUE]
    BY <1>5 DEF AntiOverlapSearch
  <2> QED
    BY <1>3, <1>5, <2>1 DEF Search
<1>6. CASE ~(a # None /\ a.page = p)
  <2>1. s = OverReserved(d, p, onPage, box, reserved, w, h)
    BY <1>6 DEF AntiOverlapSearch
  <2> HIDE DEF w, h, onPage, g
  <2>2. reserved \in Int \cup {None}
    BY <1>4, ReservedGapIs
  <2>3. Rectangles(beside)
    BY <1>4 DEF Rectangles
  <2> HIDE DEF beside
  <2>4. lower \in Int \cup {None}
    BY <2>3, ReservedGapIs
  <2> HIDE DEF reserved
  <2>5. box = None \/ box.w \in Nat
    BY <1>1, <1>3, BandsAre, BlockBoxIs
  <2> HIDE DEF box, lower, s
  <2>6. CASE box = None
    <3>1. s = [w |-> w, h |-> h, u |-> None, v |-> None, aware |-> Bands(d, p) # {}]
      BY <2>1, <2>6 DEF OverReserved
    <3> QED
      BY <1>3, <3>1 DEF Search, s
  <2>7. CASE box # None
    <3>1. s = [w |-> box.w, h |-> h, u |-> box.u, aware |-> TRUE, v |-> Otherwise(lower, reserved)]
      BY <2>1, <2>7 DEF OverReserved, lower, beside
    <3>2. Otherwise(lower, reserved) \in Int \cup {None}
      BY <2>2, <2>4 DEF Otherwise
    <3>3. s.w = box.w /\ s.h = h /\ s.v = Otherwise(lower, reserved)
      BY <3>1
    <3> QED
      BY <1>3, <2>5, <2>7, <3>2, <3>3 DEF Search, s
  <2> QED
    BY <2>6, <2>7
<1> QED
  BY <1>5, <1>6

LEMMA LastPageSearchIs ==
  ASSUME NEW d, PaperOK(d), d.pages # <<>>, NEW boxW \in Nat, NEW boxH \in Nat, NEW byDefault \in BOOLEAN
  PROVE  Search(LastPageSearch(d, boxW, boxH, byDefault)) /\ Last(d.pages) = d.pages[Len(d.pages)]
<1> DEFINE g == Last(d.pages)
           bands == Bands(d, Len(d.pages))
           reserved == ReservedGapV(TextBandRects(g, bands), boxH)
           box == Otherwise(BlockBox(g, bands, reserved, boxW, byDefault), [u |-> CenteredU(g, boxW), w |-> boxW])
           s == LastPageSearch(d, boxW, boxH, byDefault)
<1>1. g = d.pages[Len(d.pages)] /\ Len(d.pages) \in DOMAIN d.pages
  BY DEF Last, PaperOK
<1>2. Sheet(g)
  BY <1>1, SheetOfPage
<1>3. s = [w |-> box.w, h |-> boxH, u |-> box.u, v |-> reserved, aware |-> TRUE]
  BY DEF LastPageSearch
<1>4. \A b \in bands : BandOK(b)
  BY BandsAre
<1> HIDE DEF g, bands
<1>5. Rectangles(TextBandRects(g, bands))
  BY <1>2, <1>4, TextIs
<1>6. reserved \in Int \cup {None}
  BY <1>5, ReservedGapIs
<1> HIDE DEF reserved
<1>7. BlockBox(g, bands, reserved, boxW, byDefault) = None \/ BlockBox(g, bands, reserved, boxW, byDefault).w \in Nat
  BY <1>2, <1>4, BlockBoxIs
<1>8. box.w \in Nat
  BY <1>7 DEF Otherwise
<1> HIDE DEF box, s
<1>9. s.w = box.w /\ s.h = boxH /\ s.v = reserved
  BY <1>3
<1> QED
  BY <1>1, <1>6, <1>8, <1>9 DEF Search, s, g

-----------------------------------------------------------------------------
(* What is offered.                                                        *)

Good(d, q) ==
  q # None /\ q.status = "ok" =>
    /\ q.page \in DOMAIN d.pages /\ Rectangle(q.rect) /\ q.source \in Sources
    /\ q.source # "empty-field" =>
         /\ ClearOnPage(d, q.page, q.rect)
         /\ VisibleSigRejection(q.rect, d.pages[q.page]) = None

LEMMA ReviewIsGood ==
  ASSUME NEW d, NEW p, NEW reason, NEW alsoFits
  PROVE  Good(d, Review(p, reason, alsoFits))
BY DEF Good, Review

LEMMA SettledIsGood ==
  ASSUME NEW d, PaperOK(d), NEW p \in DOMAIN d.pages, NEW r, Rectangle(r),
         ClearOnPage(d, p, RectFromCanonical(d.pages[p], r)), NEW source \in Sources, NEW clearance
  PROVE  /\ Rejected(d, p, r) = None => Good(d, Ok(d, p, r, source, clearance))
         /\ \A alsoFits : Good(d, Settled(d, p, r, source, clearance, alsoFits))
<1>1. Rectangle(RectFromCanonical(d.pages[p], r))
  BY SheetOfPage, FromCanonicalIs
<1>2. Rejected(d, p, r) = None => Good(d, Ok(d, p, r, source, clearance))
  BY <1>1 DEF Rejected, Good, Ok
<1>3. ASSUME NEW alsoFits
      PROVE  Good(d, Settled(d, p, r, source, clearance, alsoFits))
  BY <1>2, ReviewIsGood DEF Settled
<1> QED
  BY <1>2, <1>3

LEMMA ClampIs ==
  ASSUME NEW g, Sheet(g), NEW onPage, NEW c, Rectangle(c), IsFree(c, onPage),
         DOMAIN c = {"x", "y", "w", "h", "u", "v"}
  PROVE  \/ ClampAndRevalidate(g, onPage, c) = None
         \/ /\ Rectangle(ClampAndRevalidate(g, onPage, c))
            /\ IsFree(ClampAndRevalidate(g, onPage, c), onPage)
<1> DEFINE x == Clamp(c.x, c.w, OrientedW(g))
           y == Clamp(c.y, c.h, OrientedH(g))
           r == ClampRect(g, c)
<1>1. OrientedW(g) \in Nat /\ OrientedH(g) \in Nat
  BY DEF Sheet, OrientedW, OrientedH
<1>2. x \in Int /\ y \in Int
  BY <1>1, Lengths DEF Rectangle, Clamp, Greatest
<1>3. r = [c EXCEPT !.x = x, !.y = y]
  BY DEF ClampRect
<1> HIDE DEF x, y, r
<1>4. r.x = x /\ r.y = y /\ r.w = c.w /\ r.h = c.h
  BY <1>3
<1>5. Rectangle(r)
  BY <1>2, <1>4 DEF Rectangle
<1>6. ClampAndRevalidate(g, onPage, c) = IF r # c /\ ~IsFree(r, onPage) THEN None ELSE r
  BY DEF ClampAndRevalidate, r
<1> QED
  BY <1>5, <1>6

LEMMA TryAnchorIsGood ==
  ASSUME NEW d, PaperOK(d), NEW a, a.v \in Int, NEW w \in Nat, NEW h \in Nat, NEW tolerance
  PROVE  Good(d, TryAnchor(d, a, w, h, tolerance))
<1>1. CASE a.page \notin DOMAIN d.pages
  BY <1>1 DEF TryAnchor, Good
<1>2. CASE a.page \in DOMAIN d.pages
  <2> DEFINE g == d.pages[a.page]
             onPage == Obstacles(d, a.page)
             s == [w |-> w, h |-> h, u |-> a.u, v |-> a.v, aware |-> TRUE]
             slots == Slots(g, onPage, s)
             near == {c \in slots : \A e \in slots : Distance(c.y, a.v) <= Distance(e.y, a.v)}
             best == First(near)
             r == ClampAndRevalidate(g, onPage, best)
  <2>1. TryAnchor(d, a, w, h, tolerance) = Anchored(d, a, w, h, onPage, best, tolerance)
    BY <1>2 DEF TryAnchor
  <2>2. Sheet(g) /\ Search(s)
    BY <1>2, SheetOfPage DEF Search
  <2>3. best \in near \/ best = None
    <3> HIDE DEF near
    <3> QED
      BY FirstIs
  <2>4. best \in slots \/ best = None
    BY <2>3
  <2> HIDE DEF best, near
  <2>5. CASE best # None /\ r # None /\ Rejected(d, a.page, r) = None
    <3>1. IsFree(best, onPage) /\ Rectangle(best) /\ DOMAIN best = {"x", "y", "w", "h", "u", "v"}
      BY <2>2, <2>4, <2>5, SlotIs
    <3>2. Rectangle(r) /\ IsFree(r, onPage)
      BY <2>2, <2>5, <3>1, ClampIs
    <3>3. ClearOnPage(d, a.page, RectFromCanonical(g, r))
      BY <1>2, <3>2, FreeIsClear
    <3>4. "text-anchor" \in Sources
      BY DEF Sources
    <3>5. Good(d, Ok(d, a.page, r, "text-anchor", Clearance(r, onPage)))
      BY <1>2, <2>5, <3>2, <3>3, <3>4, SettledIsGood
    <3>6. Good(d, None)
      BY DEF Good
    <3>7. \/ Anchored(d, a, w, h, onPage, best, tolerance) = None
          \/ Anchored(d, a, w, h, onPage, best, tolerance) = Ok(d, a.page, r, "text-anchor", Clearance(r, onPage))
      BY DEF Anchored
    <3> QED
      BY <2>1, <3>5, <3>6, <3>7
  <2>6. CASE ~(best # None /\ r # None /\ Rejected(d, a.page, r) = None)
    <3>1. Anchored(d, a, w, h, onPage, best, tolerance) = None
      BY <2>6 DEF Anchored
    <3> QED
      BY <2>1, <3>1 DEF Good
  <2> QED
    BY <2>5, <2>6
<1> QED
  BY <1>1, <1>2

LEMMA RescueIsGood ==
  ASSUME NEW d, PaperOK(d), NEW a, a = None \/ a.v \in Int, NEW w \in Nat, NEW h \in Nat
  PROVE  Good(d, RescueWithGenericAnchor(d, a, w, h))
<1>1. CASE a = None \/ a.kind # "firma-label"
  BY <1>1 DEF RescueWithGenericAnchor, Good
<1>2. CASE ~(a = None \/ a.kind # "firma-label")
  <2> DEFINE tolerance == 2 * h
  <2>1. RescueWithGenericAnchor(d, a, w, h) = TryAnchor(d, a, w, h, tolerance)
    BY <1>2 DEF RescueWithGenericAnchor
  <2> HIDE DEF tolerance
  <2> QED
    BY <1>2, <2>1, TryAnchorIsGood
<1> QED
  BY <1>1, <1>2

LEMMA AntiOverlapIsGood ==
  ASSUME NEW d, PaperOK(d), NEW a, a = None \/ a.v \in Int, NEW p \in DOMAIN d.pages,
         NEW w \in Nat, NEW h \in Nat, NEW byDefault \in BOOLEAN
  PROVE  /\ Good(d, AntiOverlap(d, a, p, w, h, byDefault))
         /\ AntiOverlap(d, a, p, w, h, byDefault).page = p
<1> DEFINE g == d.pages[p]
           onPage == Obstacles(d, p)
           s == AntiOverlapSearch(d, a, p, w, h, byDefault)
           slots == Slots(g, onPage, s)
           inside(c) == ClampAndRevalidate(g, onPage, c)
           able == {c \in slots : inside(c) # None}
           valid == First(able)
           q == AntiOverlap(d, a, p, w, h, byDefault)
<1>1. q = BesideStamps(d, p, onPage, slots, w, h)
  BY DEF AntiOverlap
<1>2. Sheet(g) /\ Search(s)
  BY SheetOfPage, AntiOverlapSearchIs
<1>3. valid \in able \/ valid = None
  <2> HIDE DEF able
  <2> QED
    BY FirstIs
<1> HIDE DEF s
<1>4. CASE valid = None
  <2>1. q = Review(p, "no_free_slot", PagesWithRoom(d, w, h, p))
    BY <1>1, <1>4 DEF BesideStamps
  <2>2. Review(p, "no_free_slot", PagesWithRoom(d, w, h, p)).page = p
    BY DEF Review
  <2> QED
    BY <2>1, <2>2, ReviewIsGood
<1>5. CASE valid # None
  <2> DEFINE r == inside(valid)
  <2>1. valid \in slots /\ r # None
    BY <1>3, <1>5
  <2>2. q = Settled(d, p, r, "anti-overlap", Clearance(r, onPage), {})
    BY <1>1, <1>5 DEF BesideStamps
  <2> HIDE DEF valid, able
  <2>3. IsFree(valid, onPage) /\ Rectangle(valid) /\ DOMAIN valid = {"x", "y", "w", "h", "u", "v"}
    BY <1>2, <2>1, SlotIs
  <2>4. Rectangle(r) /\ IsFree(r, onPage)
    BY <1>2, <2>1, <2>3, ClampIs
  <2>5. ClearOnPage(d, p, RectFromCanonical(g, r)) /\ "anti-overlap" \in Sources
    BY <2>4, FreeIsClear DEF Sources
  <2>6. Good(d, q)
    BY <2>2, <2>4, <2>5, SettledIsGood
  <2>7. q.page = p
    BY <2>2 DEF Settled, Review, Ok
  <2> QED
    BY <2>6, <2>7
<1> QED
  BY <1>4, <1>5

\* A page without stamps is clear where its text is.
LEMMA ClearOfText ==
  ASSUME NEW d, PaperOK(d), NEW p \in DOMAIN d.pages, Stamps(d, p) = {}, NEW r, Rectangle(r),
         IsFree(r, TextBandRects(d.pages[p], Bands(d, p)))
  PROVE  ClearOnPage(d, p, RectFromCanonical(d.pages[p], r))
<1>1. Sheet(d.pages[p]) /\ \A b \in Bands(d, p) : BandOK(b)
  BY SheetOfPage, BandsAre
<1>2. \A b \in Bands(d, p) : ~RectsOverlap(RectFromCanonical(d.pages[p], r), BandRect(d.pages[p], b), HalfGap)
  BY <1>1, FreeIsClearOfText
<1> QED
  BY <1>2 DEF ClearOnPage

LEMMA LastPageIsGood ==
  ASSUME NEW d, PaperOK(d), d.pages # <<>>, Stamps(d, Len(d.pages)) = {},
         NEW a, a = None \/ a.v \in Int, NEW w \in Nat, NEW h \in Nat, NEW byDefault \in BOOLEAN
  PROVE  Good(d, PlaceOnLastPage(d, a, w, h, byDefault))
<1> DEFINE p == Len(d.pages)
           g == d.pages[p]
           text == TextBandRects(g, Bands(d, p))
           s == LastPageSearch(d, w, h, byDefault)
           slot == First(Slots(g, text, s))
           q == PlaceOnLastPage(d, a, w, h, byDefault)
           rescue == RescueWithGenericAnchor(d, a, w, h)
           review == Review(p, "no_free_slot", PagesWithRoom(d, w, h, p))
           source == IF slot.y = s.v THEN "reserved-gap" ELSE "free-space"
           settled == Settled(d, p, slot, source, Clearance(slot, text), PagesWithRoom(d, w, h, p))
<1>1. p \in DOMAIN d.pages
  BY DEF PaperOK
<1>2. Sheet(g) /\ Search(s)
  BY <1>1, SheetOfPage, LastPageSearchIs
<1>3. CASE text = {}
  BY <1>3 DEF PlaceOnLastPage, Good
<1>4. CASE text # {}
  <2>1. q = IF slot = None THEN Otherwise(rescue, review) ELSE settled
    BY <1>4 DEF PlaceOnLastPage
  <2> HIDE DEF settled, s
  <2>2. CASE slot = None
    <3>1. Good(d, rescue) /\ Good(d, review)
      BY RescueIsGood, ReviewIsGood
    <3>2. q = Otherwise(rescue, review)
      BY <2>1, <2>2
    <3> HIDE DEF rescue, review, q
    <3>3. Good(d, q)
      BY <3>1, <3>2 DEF Otherwise
    <3> QED
      BY <3>3 DEF q
  <2>3. CASE slot # None
    <3>1. slot \in Slots(g, text, s)
      BY <2>3, FirstIs
    <3> HIDE DEF slot
    <3>2. IsFree(slot, text) /\ Rectangle(slot)
      BY <1>2, <3>1, SlotIs
    <3>3. ClearOnPage(d, p, RectFromCanonical(g, slot))
      BY <1>1, <3>2, ClearOfText
    <3>4. source \in Sources
      BY DEF Sources
    <3> HIDE DEF source
    <3>5. Good(d, settled)
      BY <1>1, <3>2, <3>3, <3>4, SettledIsGood DEF settled
    <3>6. q = settled
      BY <2>1, <2>3 DEF slot
    <3> HIDE DEF q
    <3>7. Good(d, q)
      BY <3>5, <3>6
    <3> QED
      BY <3>7 DEF q
  <2> QED
    BY <2>2, <2>3
<1> QED
  BY <1>3, <1>4

LEMMA FooterIsGood ==
  ASSUME NEW d, PaperOK(d), d.pages # <<>>, Stamps(d, Len(d.pages)) = {}, Bands(d, Len(d.pages)) = {},
         NEW w \in Nat, NEW h \in Nat
  PROVE  Good(d, FooterOfLastPage(d, w, h))
<1> DEFINE p == Len(d.pages)
           g == d.pages[p]
           r == DefaultFooter(g, w, h)
<1>1. p \in DOMAIN d.pages /\ Last(d.pages) = g
  BY DEF PaperOK, Last
<1>2. OrientedW(g) \in Nat
  BY <1>1, SheetOfPage DEF Sheet, OrientedW
<1>3. CenteredU(g, w) \in Int
  BY <1>2, Lengths DEF CenteredU, Greatest, Least
<1>4. Rectangle(r)
  BY <1>3, Lengths DEF DefaultFooter, Rectangle
<1>5. ClearOnPage(d, p, RectFromCanonical(g, r))
  BY DEF ClearOnPage
<1>6. "default-footer" \in Sources
  BY DEF Sources
<1>7. FooterOfLastPage(d, w, h) = Settled(d, p, r, "default-footer", None, {})
  BY <1>1 DEF FooterOfLastPage
<1> HIDE DEF p, r
<1> QED
  BY <1>1, <1>4, <1>5, <1>6, <1>7, SettledIsGood DEF p

\* The last page that is signed, if any is.
LEMMA SignedPageIs ==
  ASSUME NEW d, PaperOK(d)
  PROVE  /\ SignedPage(d) = None => \A p : Stamps(d, p) = {}
         /\ SignedPage(d) # None => /\ SignedPage(d) \in DOMAIN d.pages
                                    /\ SignedPage(d) # Len(d.pages) => Stamps(d, Len(d.pages)) = {}
<1> DEFINE S == {s.page : s \in Range(d.stamps)}
           N == Len(d.pages)
<1>1. N \in Nat /\ DOMAIN d.pages = 1..N
  BY DEF PaperOK
<1>2. S \subseteq 1..N
  BY <1>1, StampIs
<1>3. SignedPage(d) = GreatestOf(S)
  BY DEF SignedPage
<1>4. ASSUME S # {}
      PROVE  \E x \in S : \A y \in S : y <= x
  <2> HIDE DEF S
  <2>1. N \in Nat /\ S \subseteq Nat /\ \A x \in S : x <= N
    BY <1>1, <1>2
  <2> HIDE DEF N
  <2> QED
    BY <1>4, <2>1, LargestIn
<1>5. S = {} => \A p : Stamps(d, p) = {}
  BY DEF Stamps
<1>6. S # {} => SignedPage(d) \in S /\ \A y \in S : y <= SignedPage(d)
  <2> HIDE DEF S
  <2> QED
    BY <1>3, <1>4, GreatestOfIs
<1>7. SignedPage(d) = None => S = {}
  BY <1>1, <1>2, <1>6, Lengths
<1>8. SignedPage(d) # None => S # {}
  <2>1. S = {} => GreatestOf(S) = None
    BY DEF GreatestOf
  <2> QED
    BY <1>3, <2>1
<1>9. ASSUME SignedPage(d) # None, SignedPage(d) # N
      PROVE  Stamps(d, N) = {}
  <2>1. N \notin S
    <3>1. SignedPage(d) \in 1..N /\ \A y \in S : y <= SignedPage(d)
      BY <1>2, <1>6, <1>8, <1>9
    <3> HIDE DEF S
    <3> QED
      BY <1>1, <1>9, <3>1
  <2> QED
    BY <2>1 DEF Stamps
<1>10. SignedPage(d) # None => SignedPage(d) \in DOMAIN d.pages
  BY <1>1, <1>2, <1>6, <1>8
<1> QED
  BY <1>5, <1>7, <1>9, <1>10

LEMMA OfferedIsGood ==
  ASSUME NEW d, PaperOK(d), d.pages # <<>>, NEW a, a = None \/ a.v \in Int,
         NEW w \in Nat, NEW h \in Nat, NEW byDefault \in BOOLEAN
  PROVE  Good(d, Offered(d, a, w, h, byDefault))
<1> DEFINE signed == SignedPage(d)
           found == AntiOverlap(d, a, signed, w, h, byDefault)
           rescue == RescueWithGenericAnchor(d, a, w, h)
           last == PlaceOnLastPage(d, a, w, h, byDefault)
           preferred == IF a # None /\ a.kind # "firma-label" THEN TryAnchor(d, a, w, h, 1) ELSE None
           other == IF signed # None THEN OnSignedDocument(d, found, rescue, last)
                    ELSE IF Bands(d, Len(d.pages)) # {} THEN last
                    ELSE FooterOfLastPage(d, w, h)
<1>1. Offered(d, a, w, h, byDefault) = Otherwise(preferred, other)
  BY DEF Offered
<1>2. Good(d, preferred)
  <2>1. Good(d, None)
    BY DEF Good
  <2>2. a # None => Good(d, TryAnchor(d, a, w, h, 1))
    BY TryAnchorIsGood
  <2> QED
    BY <2>1, <2>2
<1>3. CASE signed # None
  <2>1. signed \in DOMAIN d.pages
    BY <1>3, SignedPageIs
  <2> HIDE DEF signed
  <2>2. Good(d, found) /\ found.page = signed
    BY <2>1, AntiOverlapIsGood
  <2>3. Good(d, rescue)
    BY RescueIsGood
  <2>4. signed # Len(d.pages) => Good(d, last)
    BY <1>3, SignedPageIs, LastPageIsGood DEF signed
  <2> HIDE DEF found, rescue, last
  <2>5. OnSignedDocument(d, found, rescue, last) \in {found, rescue} \/
        (OnSignedDocument(d, found, rescue, last) = last /\ found.page # Len(d.pages))
    BY DEF OnSignedDocument, Otherwise
  <2>6. Good(d, OnSignedDocument(d, found, rescue, last))
    BY <2>2, <2>3, <2>4, <2>5
  <2>7. other = OnSignedDocument(d, found, rescue, last)
    BY <1>3
  <2> HIDE DEF other, preferred
  <2> QED
    BY <1>1, <1>2, <2>6, <2>7 DEF Otherwise
<1>4. CASE signed = None
  <2>1. Stamps(d, Len(d.pages)) = {}
    BY <1>4, SignedPageIs
  <2>2. Good(d, last)
    BY <2>1, LastPageIsGood
  <2>3. Bands(d, Len(d.pages)) = {} => Good(d, FooterOfLastPage(d, w, h))
    BY <2>1, FooterIsGood
  <2> HIDE DEF last
  <2>4. Good(d, other)
    BY <1>4, <2>2, <2>3
  <2> HIDE DEF other, preferred
  <2> QED
    BY <1>1, <1>2, <2>4 DEF Otherwise
<1> QED
  BY <1>3, <1>4

LEMMA FieldIsGood ==
  ASSUME NEW d, PaperOK(d), d.fields # <<>>
  PROVE  Good(d, EmptyField(d))
<1> DEFINE f == Head(d.fields)
           g == d.pages[f.page]
           q == [status |-> "ok", page |-> f.page, rect |-> [x |-> f.x, y |-> f.y, w |-> f.w, h |-> f.h],
                 source |-> "empty-field", clearance |-> None]
<1>1. f \in [page : DOMAIN d.pages, x : Int, y : Int, w : Nat, h : Nat]
  <2> DEFINE F == [page : DOMAIN d.pages, x : Int, y : Int, w : Nat, h : Nat]
  <2>1. d.fields \in Seq(F)
    BY DEF PaperOK
  <2> HIDE DEF F
  <2>2. Head(d.fields) \in F
    BY <2>1, HeadTailProperties
  <2> QED
    BY <2>2 DEF F
<1> HIDE DEF f
<1>2. f.page \in DOMAIN d.pages /\ f.x \in Int /\ f.y \in Int /\ f.w \in Nat /\ f.h \in Nat
  BY <1>1
<1>3. Good(d, q)
  BY <1>2 DEF Good, Rectangle, Sources
<1>4. EmptyField(d) = IF VisibleSigRejection(f, g) # None THEN Review(f.page, VisibleSigRejection(f, g), {}) ELSE q
  BY DEF EmptyField, f
<1> HIDE DEF q, g
<1> QED
  BY <1>3, <1>4, ReviewIsGood

LEMMA AskedIs ==
  ASSUME NEW a \in Anchors \cup {None}
  PROVE  /\ a = None \/ a.v \in Int
         /\ AskedW(a) \in Nat /\ AskedH(a) \in Nat /\ ByDefault(a) \in BOOLEAN
<1>1. a \in Anchors => /\ a.v \in Int /\ a.w \in Nat \cup {None} /\ a.h \in Nat \cup {None}
                       /\ (a.w = None) = (a.h = None)
  BY AnchorsAssumption
<1>2. SigBoxW \in Nat /\ SigBoxH \in Nat
  BY Lengths
<1>3. ByDefault(a) \in BOOLEAN
  BY DEF ByDefault
<1>4. CASE ByDefault(a)
  BY <1>1, <1>2, <1>3, <1>4 DEF AskedW, AskedH
<1>5. CASE ~ByDefault(a)
  <2>1. a \in Anchors /\ a.w # None
    BY <1>5 DEF ByDefault
  <2> QED
    BY <1>1, <1>3, <1>5, <2>1 DEF AskedW, AskedH
<1> QED
  BY <1>4, <1>5

\* Whatever the document and the position preferred.
LEMMA AnalysisIsGood ==
  ASSUME NEW d, PaperOK(d), NEW a \in Anchors \cup {None}
  PROVE  Good(d, AnalyzeForPreflight(d, a))
<1> DEFINE b == SanitizedAnchor(d, a)
           q == ComputeAutoPlacement(d, a)
<1>1. CASE d.pages = <<>>
  BY <1>1, ReviewIsGood DEF AnalyzeForPreflight
<1>2. CASE d.pages # <<>>
  <2>1. b = None \/ b.v \in Int
    BY AskedIs DEF SanitizedAnchor
  <2> HIDE DEF b
  <2>2. AskedW(a) \in Nat /\ AskedH(a) \in Nat /\ ByDefault(a) \in BOOLEAN
    BY AskedIs
  <2>3. Good(d, Offered(d, b, AskedW(a), AskedH(a), ByDefault(a)))
    BY <1>2, <2>1, <2>2, OfferedIsGood
  <2>4. Good(d, q)
    <3>1. q = IF d.fields # <<>> THEN EmptyField(d) ELSE Offered(d, b, AskedW(a), AskedH(a), ByDefault(a))
      BY DEF ComputeAutoPlacement, b
    <3> HIDE DEF q
    <3> QED
      BY <2>3, <3>1, FieldIsGood
  <2> HIDE DEF q
  <2>5. Good(d, Screened(d, q))
    BY <2>4, ReviewIsGood DEF Screened
  <2> QED
    BY <1>2, <2>5 DEF AnalyzeForPreflight, q
<1> QED
  BY <1>1, <1>2

-----------------------------------------------------------------------------
(* One signature after the other.                                          *)

LEMMA OverlapIsMutual ==
  ASSUME NEW r, Rectangle(r), NEW o, Rectangle(o), NEW pad \in Nat
  PROVE  RectsOverlap(r, o, pad) <=> RectsOverlap(o, r, pad)
BY DEF RectsOverlap, Rectangle

LEMMA PapersAre ==
  ASSUME NEW d \in Papers
  PROVE  PaperOK(d) /\ Len(d.stamps) <= MaxStamps /\ \A i \in DOMAIN d.stamps : d.stamps[i].source = "other"
<1> DEFINE Others == [page : DOMAIN d.pages, x : Int, y : Int, w : Nat, h : Nat, source : {"other"}]
<1>1. IsPaper(d) /\ Len(d.stamps) <= MaxStamps
  BY PapersAssumption
<1>2. d.stamps \in Seq(Others)
  BY <1>1 DEF IsPaper
<1>3. Others \subseteq StampsOf(d)
  BY DEF StampsOf, Sources
<1>4. \A s \in Others : s.source = "other"
  OBVIOUS
<1> HIDE DEF Others
<1>5. d.stamps \in Seq(StampsOf(d)) /\ \A i \in DOMAIN d.stamps : d.stamps[i].source = "other"
  BY <1>2, <1>3, <1>4
<1>6. \A l \in d.lines : LineOK(l)
  <2> SUFFICES ASSUME NEW l \in d.lines
               PROVE  LineOK(l)
    OBVIOUS
  <2>1. {l.page, l.y, l.h} \subseteq Int /\ {l.x, l.end} \subseteq Int \cup {None}
    BY <1>1 DEF IsPaper
  <2> QED
    BY <2>1 DEF LineOK
<1>7. /\ {"pages", "lines", "stamps", "fields"} \subseteq DOMAIN d
      /\ d.pages \in Seq(Sheets) /\ IsFiniteSet(d.lines)
      /\ d.fields \in Seq([page : DOMAIN d.pages, x : Int, y : Int, w : Nat, h : Nat])
      /\ d.pages = <<>> => d.failure \in {"encrypted", "unreadable"}
  BY <1>1 DEF IsPaper
<1> QED
  BY <1>1, <1>5, <1>6, <1>7 DEF PaperOK

StampedOn(d, q) ==
  [page |-> q.page, x |-> q.rect.x, y |-> q.rect.y, w |-> q.rect.w, h |-> q.rect.h, source |-> q.source]
Countersigned(d, q) == [d EXCEPT !.stamps = Append(d.stamps, StampedOn(d, q))]

LEMMA SignedIsPaper ==
  ASSUME NEW d, PaperOK(d), NEW q, q # None, q.status = "ok", Good(d, q)
  PROVE  /\ PaperOK(Countersigned(d, q))
         /\ Countersigned(d, q).stamps = Append(d.stamps, StampedOn(d, q))
         /\ StampedOn(d, q) \in StampsOf(d)
<1> DEFINE n == StampedOn(d, q)
           e == Countersigned(d, q)
<1>1. q.page \in DOMAIN d.pages /\ Rectangle(q.rect) /\ q.source \in Sources
  BY DEF Good
<1>2. n \in StampsOf(d)
  BY <1>1 DEF StampedOn, StampsOf, Rectangle
<1> HIDE DEF n
<1>3. d.stamps \in Seq(StampsOf(d)) /\ {"pages", "lines", "stamps", "fields"} \subseteq DOMAIN d
  BY DEF PaperOK
<1>4. Append(d.stamps, n) \in Seq(StampsOf(d))
  BY <1>2, <1>3, AppendProperties
<1> DEFINE both == Append(d.stamps, n)
<1>5. e = [d EXCEPT !.stamps = both]
  BY DEF Countersigned, n
<1> HIDE DEF both, e
<1>6. /\ DOMAIN e = DOMAIN d /\ e.pages = d.pages /\ e.lines = d.lines
      /\ e.fields = d.fields /\ e.stamps = both
  BY <1>3, <1>5
<1>7. StampsOf(e) = StampsOf(d)
  BY <1>6 DEF StampsOf
<1>8. PaperOK(e)
  <2>1. d.pages # <<>>
    BY <1>1
  <2> QED
    BY <1>4, <1>6, <1>7, <2>1 DEF PaperOK, both
<1> QED
  BY <1>2, <1>6, <1>8 DEF e, n, both

ApartFrom(s, t) ==
  s.page = t.page /\ t.source \notin {"other", "empty-field"} => ~RectsOverlap(s, t, HalfGap)
AllApart(stamps) == \A i, j \in DOMAIN stamps : i < j => ApartFrom(stamps[i], stamps[j])

LEMMA SignedStaysApart ==
  ASSUME NEW d, PaperOK(d), AllApart(d.stamps), NEW q, q # None, q.status = "ok", Good(d, q)
  PROVE  AllApart(Countersigned(d, q).stamps)
<1> DEFINE n == StampedOn(d, q)
           both == Countersigned(d, q).stamps
<1>1. both = Append(d.stamps, n) /\ d.stamps \in Seq(StampsOf(d)) /\ n \in StampsOf(d)
  BY SignedIsPaper DEF PaperOK
<1>2. ASSUME NEW i \in DOMAIN d.stamps
      PROVE  ApartFrom(d.stamps[i], n)
  <2> DEFINE s == d.stamps[i]
  <2> SUFFICES ASSUME s.page = n.page, n.source \notin {"other", "empty-field"}
               PROVE  ~RectsOverlap(s, n, HalfGap)
    BY DEF ApartFrom
  <2>1. n.page = q.page /\ n.source = q.source
    BY DEF StampedOn
  <2>2. s \in Range(d.stamps) /\ s.page = q.page
    BY <2>1 DEF Range
  <2>3. ~RectsOverlap(q.rect, s, HalfGap)
    BY <2>1, <2>2 DEF Good, ClearOnPage, Stamps
  <2>4. Rectangle(s) /\ Rectangle(q.rect) /\ HalfGap \in Nat
    BY <2>2, StampIs, Lengths DEF Good
  <2> HIDE DEF s
  <2>5. ~RectsOverlap(s, q.rect, HalfGap)
    BY <2>3, <2>4, OverlapIsMutual
  <2>6. RectsOverlap(s, n, HalfGap) <=> RectsOverlap(s, q.rect, HalfGap)
    BY DEF RectsOverlap, StampedOn
  <2> QED
    BY <2>5, <2>6 DEF s
<1> HIDE DEF n, both
<1>3. /\ DOMAIN both = 1..(Len(d.stamps) + 1) /\ both[Len(d.stamps) + 1] = n
      /\ \A i \in DOMAIN d.stamps : both[i] = d.stamps[i]
      /\ DOMAIN d.stamps = 1..Len(d.stamps) /\ Len(d.stamps) \in Nat
  BY <1>1
<1>4. ASSUME NEW i \in DOMAIN both, NEW j \in DOMAIN both, i < j
      PROVE  ApartFrom(both[i], both[j])
  <2>1. i \in DOMAIN d.stamps
    BY <1>3, <1>4
  <2>2. CASE j \in DOMAIN d.stamps
    BY <1>3, <1>4, <2>1, <2>2 DEF AllApart
  <2>3. CASE j \notin DOMAIN d.stamps
    <3>1. j = Len(d.stamps) + 1
      BY <1>3, <2>3
    <3> QED
      BY <1>2, <1>3, <2>1, <3>1
  <2> QED
    BY <2>2, <2>3
<1>5. AllApart(both)
  BY <1>4 DEF AllApart
<1> QED
  BY <1>5 DEF both

PlacementOK ==
  /\ PaperOK(paper) /\ Len(paper.stamps) <= MaxStamps
  /\ anchor \in Anchors \cup {None}
  /\ Good(paper, analysis)
  /\ AllApart(paper.stamps)

LEMMA PlacementStarts == PlacementInit => PlacementOK
<1> HAVE PlacementInit
<1>1. /\ PaperOK(paper) /\ Len(paper.stamps) <= MaxStamps
      /\ \A i \in DOMAIN paper.stamps : paper.stamps[i].source = "other"
  BY PapersAre DEF PlacementInit
<1>2. AllApart(paper.stamps)
  BY <1>1 DEF AllApart, ApartFrom
<1>3. anchor \in Anchors \cup {None} /\ Good(paper, analysis)
  BY DEF PlacementInit, Good
<1> QED
  BY <1>1, <1>2, <1>3 DEF PlacementOK

LEMMA SignKeeps ==
  ASSUME PlacementOK, Sign
  PROVE  PlacementOK'
<1> USE DEF PlacementOK
<1>1. analysis # None /\ analysis.status = "ok" /\ Len(paper.stamps) < MaxStamps
  BY DEF Sign
<1>2. paper' = Countersigned(paper, analysis) /\ anchor' = None /\ analysis' = None
  BY DEF Sign, Countersigned, StampedOn
<1>3. /\ PaperOK(paper') /\ paper'.stamps = Append(paper.stamps, StampedOn(paper, analysis))
      /\ AllApart(paper'.stamps)
  BY <1>1, <1>2, SignedIsPaper, SignedStaysApart
<1>4. Len(paper'.stamps) <= MaxStamps
  <2>1. paper.stamps \in Seq(StampsOf(paper)) /\ StampedOn(paper, analysis) \in StampsOf(paper)
    BY <1>1, SignedIsPaper DEF PaperOK
  <2>2. Len(paper'.stamps) = Len(paper.stamps) + 1 /\ Len(paper.stamps) \in Nat
    BY <1>3, <2>1
  <2> QED
    BY <1>1, <2>2, Lengths
<1>5. anchor' \in Anchors \cup {None} /\ Good(paper', analysis')
  BY <1>2 DEF Good
<1> QED
  BY <1>3, <1>4, <1>5

LEMMA PlacementKeeps == PlacementOK /\ [PlacementNext]_placementVars => PlacementOK'
<1> SUFFICES ASSUME PlacementOK, [PlacementNext]_placementVars
             PROVE  PlacementOK'
  OBVIOUS
<1>1. CASE Analyze
  <2>1. Good(paper, AnalyzeForPreflight(paper, anchor))
    BY AnalysisIsGood DEF PlacementOK
  <2>2. paper' = paper /\ anchor' = anchor /\ Good(paper', analysis')
    BY <1>1, <2>1 DEF Analyze
  <2> QED
    BY <2>2 DEF PlacementOK
<1>2. CASE Propagate
  <2>1. paper' = paper /\ anchor' \in Anchors /\ Good(paper', analysis')
    BY <1>2 DEF Propagate, Good
  <2> QED
    BY <2>1 DEF PlacementOK
<1>3. CASE Sign
  BY <1>3, SignKeeps
<1>4. CASE UNCHANGED placementVars
  BY <1>4 DEF PlacementOK, placementVars
<1> QED
  BY <1>1, <1>2, <1>3, <1>4 DEF PlacementNext

\* For any documents, signed over and over, and any position preferred: what the
\* search places is clear of the stamps and of the known text of its page, a
\* signature may be written there, and no stamp it placed lies on another.
THEOREM PlacementInvariance == PlacementSpec => []PlacementInv
<1>1. PlacementOK => PlacementInv
  <2> SUFFICES ASSUME PlacementOK
               PROVE  PlacementInv
    OBVIOUS
  <2>1. PlacementTypeOK
    BY DEF PlacementOK, PlacementTypeOK, Placed, Good
  <2>2. PlacedIsClear
    BY DEF PlacementOK, PlacedIsClear, Searched, Placed, Good
  <2>3. StampsStayApart
    BY DEF PlacementOK, StampsStayApart, AllApart, ApartFrom
  <2> QED
    BY <2>1, <2>2, <2>3 DEF PlacementInv
<1> QED
  BY <1>1, PlacementStarts, PlacementKeeps, PTL DEF PlacementSpec

-----------------------------------------------------------------------------
(* The space left for a signature: a stamp there stands on the block.      *)

\* There and back.
LEMMA RoundTrip ==
  ASSUME NEW g, Sheet(g), NEW r, Rectangle(r), NEW f, f = RectFromCanonical(g, r)
  PROVE  /\ RectToCanonical(g, f).x = r.x /\ RectToCanonical(g, f).y = r.y
         /\ RectToCanonical(g, f).w = r.w /\ RectToCanonical(g, f).h = r.h
<1>1. /\ g.x \in Int /\ g.y \in Int /\ g.w \in Nat /\ g.h \in Nat
      /\ r.x \in Int /\ r.y \in Int /\ r.w \in Nat /\ r.h \in Nat
      /\ g.rotate \in {0, 90, 180, 270}
  BY DEF Sheet, Rectangle
<1>2. Rectangle(f)
  BY FromCanonicalIs
<1> DEFINE q == RectToCanonical(g, f)
<1>3. CASE g.rotate = 0
  <2>1. f.x = g.x + r.x /\ f.y = g.y + r.y /\ f.w = r.w /\ f.h = r.h
    BY <1>3, FromCanonicalIs
  <2>2. q.x = f.x - g.x /\ q.y = f.y - g.y /\ q.w = f.w /\ q.h = f.h
    BY <1>2, <1>3, ToCanonicalIs
  <2> HIDE DEF q
  <2>3. q.x = r.x /\ q.y = r.y /\ q.w = r.w /\ q.h = r.h
    BY <1>1, <2>1, <2>2
  <2> QED
    BY <2>3 DEF q
<1>4. CASE g.rotate = 90
  <2>1. f.x = g.x + g.w - r.y - r.h /\ f.y = g.y + r.x /\ f.w = r.h /\ f.h = r.w
    BY <1>4, FromCanonicalIs
  <2>2. q.x = f.y - g.y /\ q.y = g.x + g.w - f.x - f.w /\ q.w = f.h /\ q.h = f.w
    BY <1>2, <1>4, ToCanonicalIs
  <2> HIDE DEF q
  <2>3. q.x = r.x /\ q.y = r.y /\ q.w = r.w /\ q.h = r.h
    BY <1>1, <2>1, <2>2
  <2> QED
    BY <2>3 DEF q
<1>5. CASE g.rotate = 180
  <2>1. f.x = g.x + g.w - r.x - r.w /\ f.y = g.y + g.h - r.y - r.h /\ f.w = r.w /\ f.h = r.h
    BY <1>5, FromCanonicalIs
  <2>2. q.x = g.x + g.w - f.x - f.w /\ q.y = g.y + g.h - f.y - f.h /\ q.w = f.w /\ q.h = f.h
    BY <1>2, <1>5, ToCanonicalIs
  <2> HIDE DEF q
  <2>3. q.x = r.x /\ q.y = r.y /\ q.w = r.w /\ q.h = r.h
    BY <1>1, <2>1, <2>2
  <2> QED
    BY <2>3 DEF q
<1>6. CASE g.rotate = 270
  <2>1. f.x = g.x + r.y /\ f.y = g.y + g.h - r.x - r.w /\ f.w = r.h /\ f.h = r.w
    BY <1>6, FromCanonicalIs
  <2>2. q.x = g.y + g.h - f.y - f.h /\ q.y = f.x - g.x /\ q.w = f.h /\ q.h = f.w
    BY <1>2, <1>6, ToCanonicalIs
  <2> HIDE DEF q
  <2>3. q.x = r.x /\ q.y = r.y /\ q.w = r.w /\ q.h = r.h
    BY <1>1, <2>1, <2>2
  <2> QED
    BY <2>3 DEF q
<1> QED
  BY <1>1, <1>3, <1>4, <1>5, <1>6

\* A band is as wide as the page; on a page turned to one side, the reader sees it
\* from the bottom to the top.
LEMMA BandIsAsWide ==
  ASSUME NEW g, Sheet(g), NEW b, BandOK(b), NEW q, q = RectToCanonical(g, BandRect(g, b))
  PROVE  /\ Rectangle(q)
         /\ Across(g) => q.y = 0
         /\ ~Across(g) => q.x = 0 /\ q.w = OrientedW(g)
<1> DEFINE r == BandRect(g, b)
<1>1. r.x = g.x /\ r.w = g.w /\ r.y = b.y /\ r.h = b.h
  BY DEF BandRect
<1>2. Rectangle(r)
  BY BandRectIs
<1> HIDE DEF r
<1>3. g.x \in Int /\ g.w \in Nat /\ g.rotate \in {0, 90, 180, 270}
  BY DEF Sheet
<1>4. /\ Rectangle(q)
      /\ g.rotate = 0 => q.x = r.x - g.x /\ q.w = r.w
      /\ g.rotate = 90 => q.y = g.x + g.w - r.x - r.w
      /\ g.rotate = 180 => q.x = g.x + g.w - r.x - r.w /\ q.w = r.w
      /\ g.rotate = 270 => q.y = r.x - g.x
  BY <1>2, ToCanonicalIs DEF r
<1>5. CASE Across(g)
  BY <1>1, <1>3, <1>4, <1>5 DEF Across
<1>6. CASE ~Across(g)
  BY <1>1, <1>3, <1>4, <1>6 DEF Across, OrientedW
<1> QED
  BY <1>4, <1>5, <1>6

LEMMA TextIsAsWide ==
  ASSUME NEW g, Sheet(g), NEW bands, \A b \in bands : BandOK(b), NEW o \in TextBandRects(g, bands)
  PROVE  /\ Rectangle(o)
         /\ Across(g) => o.y = 0
         /\ ~Across(g) => o.x = 0 /\ o.w = OrientedW(g)
<1>1. PICK b \in bands : \E row : o = Obstacle(RectToCanonical(g, BandRect(g, b)), row)
  BY DEF TextBandRects
<1>2. PICK row : o = Obstacle(RectToCanonical(g, BandRect(g, b)), row)
  BY <1>1
<1> DEFINE q == RectToCanonical(g, BandRect(g, b))
<1>3. /\ Rectangle(q)
      /\ Across(g) => q.y = 0
      /\ ~Across(g) => q.x = 0 /\ q.w = OrientedW(g)
  BY BandIsAsWide
<1> HIDE DEF q
<1>4. o = Obstacle(q, row)
  BY <1>2 DEF q
<1>5. o.x = q.x /\ o.y = q.y /\ o.w = q.w /\ Rectangle(o)
  BY <1>3, <1>4, ObstacleIs
<1> QED
  BY <1>3, <1>5

\* The top of the block is that of a text, and there is text higher than another.
LEMMA BlockTopReads ==
  ASSUME NEW onPage, NEW h, NEW top, top = BlockTop(onPage, h), top # None
  PROVE  /\ \E o \in onPage : Top(o) = top
         /\ \E a, c \in onPage : c.y > a.y
<1> DEFINE body  == {r \in onPage : Top(r) > FooterStrip \/ r.row}
           starts == {r.y : r \in body}
           start == LeastOf(starts)
           rest  == {r \in onPage : r.y > start} \cup {r \in body : r.y = start}
           highs == {r.y : r \in {q \in Begins(rest, BlockGap) : q.y > start}}
           above == LeastOf(highs)
           tops  == {Top(r) : r \in {q \in rest : q.y < above}}
           most  == GreatestOf(tops)
<1>1. top = IF start = None \/ above = None \/ most = None \/ above - most < h + Gap THEN None ELSE most
  BY DEF BlockTop
<1>2. rest \subseteq onPage
  OBVIOUS
<1>3. start \in starts \/ start = None
  <2> HIDE DEF starts
  <2> QED
    BY LeastOfIs
<1>4. above \in highs \/ above = None
  <2> HIDE DEF highs
  <2> QED
    BY LeastOfIs
<1>5. most \in tops \/ most = None
  <2> HIDE DEF tops
  <2> QED
    BY GreatestOfIs
<1> HIDE DEF start, above, most
<1>6. start # None /\ above # None /\ most # None /\ top = most
  BY <1>1
<1>7. \E o \in onPage : Top(o) = top
  <2> HIDE DEF rest
  <2> QED
    BY <1>2, <1>5, <1>6
<1>8. PICK a \in onPage : a.y = start
  BY <1>3, <1>6
<1>9. PICK c \in Begins(rest, BlockGap) : c.y > start
  BY <1>4, <1>6
<1>10. c \in onPage
  <2> HIDE DEF rest
  <2> QED
    BY <1>2, <1>9 DEF Begins
<1> QED
  BY <1>7, <1>8, <1>9, <1>10

LEMMA LeastIs ==
  ASSUME NEW S, S \subseteq Int, NEW m \in S, \A x \in S : m <= x
  PROVE  LeastOf(S) = m
<1>1. LeastOf(S) = CHOOSE x \in S : \A y \in S : x <= y
  BY DEF LeastOf
<1>2. LeastOf(S) \in S /\ \A y \in S : LeastOf(S) <= y
  BY <1>1
<1> HIDE DEF LeastOf
<1>3. LeastOf(S) \in Int /\ m \in Int /\ LeastOf(S) <= m /\ m <= LeastOf(S)
  BY <1>2
<1> DEFINE l == LeastOf(S)
<1> HIDE DEF l
<1>4. l \in Int /\ m \in Int /\ l <= m /\ m <= l
  BY <1>3 DEF l
<1>5. l = m
  BY <1>4
<1> QED
  BY <1>5 DEF l

LEMMA SeparationIs ==
  ASSUME NEW r, Rectangle(r), NEW o, Rectangle(o)
  PROVE  /\ Separation(r, o) \in Int
         /\ ~RectsOverlap(r, o, HalfGap) => HalfGap <= Separation(r, o)
         /\ \A pad \in Nat : o.x <= r.x /\ r.x + r.w <= o.x + o.w /\ Top(o) + pad = r.y => Separation(r, o) = pad
<1>1. /\ r.x \in Int /\ r.y \in Int /\ r.w \in Nat /\ r.h \in Nat
      /\ o.x \in Int /\ o.y \in Int /\ o.w \in Nat /\ o.h \in Nat /\ HalfGap \in Nat
  BY Lengths DEF Rectangle
<1> DEFINE a == o.x - (r.x + r.w)
           b == r.x - (o.x + o.w)
           c == o.y - (r.y + r.h)
           d == r.y - (o.y + o.h)
           s == Separation(r, o)
<1>2. s = Greatest(Greatest(a, b), Greatest(c, d))
  BY DEF Separation
<1>3. a \in Int /\ b \in Int /\ c \in Int /\ d \in Int
  BY <1>1
<1>4. ~RectsOverlap(r, o, HalfGap) => HalfGap <= a \/ HalfGap <= b \/ HalfGap <= c \/ HalfGap <= d
  BY <1>1 DEF RectsOverlap
<1>5. ASSUME NEW pad \in Nat, o.x <= r.x, r.x + r.w <= o.x + o.w, Top(o) + pad = r.y
      PROVE  a <= 0 /\ b <= 0 /\ c <= 0 /\ d = pad
  BY <1>1, <1>5 DEF Top
<1> HIDE DEF a, b, c, d, s
<1>6. s \in Int /\ a <= s /\ b <= s /\ c <= s /\ d <= s /\ s \in {a, b, c, d}
  BY <1>2, <1>3 DEF Greatest
<1>7. ~RectsOverlap(r, o, HalfGap) => HalfGap <= s
  BY <1>1, <1>3, <1>4, <1>6
<1>8. ASSUME NEW pad \in Nat, o.x <= r.x, r.x + r.w <= o.x + o.w, Top(o) + pad = r.y
      PROVE  s = pad
  <2>1. a <= 0 /\ b <= 0 /\ c <= 0 /\ d = pad
    BY <1>5, <1>8
  <2> QED
    BY <1>3, <1>6, <2>1
<1> QED
  BY <1>6, <1>7, <1>8 DEF s

\* What is placed in the space left for it: c is the place, as the reader sees it.
LEMMA StandsOnText ==
  ASSUME NEW g, Sheet(g), NEW bands, \A b \in bands : BandOK(b), NEW text, text = TextBandRects(g, bands),
         NEW c, Rectangle(c), IsFree(c, text), 0 <= c.x, c.x + c.w <= OrientedW(g),
         NEW h, ReservedGapV(text, h) = c.y
  PROVE  Clearance(c, text) = HalfGap /\ \E o \in text : Top(o) + HalfGap = c.y
<1> DEFINE top == BlockTop(text, h)
           S == {Separation(c, o) : o \in text}
<1>1. c.y = IF top = None THEN None ELSE top + HalfGap
  BY DEF ReservedGapV
<1>2. c.y \in Int /\ None \notin Int /\ HalfGap \in Nat /\ c.x \in Int /\ c.w \in Nat
  BY Lengths DEF Rectangle
<1>3. top # None /\ c.y = top + HalfGap
  BY <1>1, <1>2
<1>4. /\ \E o \in text : Top(o) = top
      /\ \E a, e \in text : e.y > a.y
  BY <1>3, BlockTopReads
<1> HIDE DEF top
<1>5. \A o \in text : /\ Rectangle(o)
                      /\ Across(g) => o.y = 0
                      /\ ~Across(g) => o.x = 0 /\ o.w = OrientedW(g)
  BY TextIsAsWide
<1>6. ~Across(g)
  <2> SUFFICES ASSUME Across(g)
               PROVE  FALSE
    OBVIOUS
  <2>1. PICK a \in text, e \in text : e.y > a.y
    BY <1>4
  <2>2. a.y = 0 /\ e.y = 0
    BY <1>5, <2>1
  <2> QED
    BY <2>1, <2>2
<1>7. PICK o \in text : Top(o) = top
  BY <1>4
<1>8. Rectangle(o) /\ o.x = 0 /\ o.w = OrientedW(g) /\ o.w \in Nat
  BY <1>5, <1>6, <1>7 DEF Rectangle
<1>9. Separation(c, o) = HalfGap
  <2>1. o.x <= c.x /\ c.x + c.w <= o.x + o.w /\ Top(o) + HalfGap = c.y
    BY <1>2, <1>3, <1>7, <1>8
  <2> QED
    BY <1>2, <1>8, <2>1, SeparationIs
<1>10. \A e \in text : Separation(c, e) \in Int /\ HalfGap <= Separation(c, e)
  <2> TAKE e \in text
  <2>1. Rectangle(e) /\ ~RectsOverlap(c, e, HalfGap)
    BY <1>5 DEF IsFree
  <2> QED
    BY <2>1, SeparationIs
<1>11. S \subseteq Int /\ HalfGap \in S /\ \A x \in S : HalfGap <= x
  BY <1>7, <1>9, <1>10
<1> HIDE DEF S
<1>12. LeastOf(S) = HalfGap
  BY <1>11, LeastIs
<1>13. Clearance(c, text) = HalfGap
  BY <1>12 DEF Clearance, S
<1> QED
  BY <1>3, <1>7, <1>13

-----------------------------------------------------------------------------
(* What a search finds: the place it prefers among those it tries that are *)
(* free.                                                                   *)

FitsIn(g, onPage, s) ==
  {u \in EdgeMargin..(OrientedW(g) - EdgeMargin - s.w) :
     u \in {EdgeMargin, s.u} \/ \E o \in onPage : u = o.x + o.w + Gap}
Highest(g, s) == OrientedH(g) - EdgeMargin - s.h
Heights(g, onPage, s) == VerticalCandidates(onPage, Highest(g, s), s) \cup ({s.v} \ {None})
RankOf(x, preferred) == IF x = preferred THEN 0 ELSE x + 1
Tried(g, s, u, v) ==
  [x |-> u, y |-> Least(v, Highest(g, s)), w |-> s.w, h |-> s.h, u |-> RankOf(u, s.u), v |-> RankOf(v, s.v)]
FreeOf(g, onPage, s) ==
  {c \in {Tried(g, s, u, v) : u \in FitsIn(g, onPage, s), v \in Heights(g, onPage, s)} : IsFree(c, onPage)}

\* Those found after each of the first n turns.
Apart(free, found) == {c \in free : \A d \in found : ~RectsOverlap(c, d, 0)}
IsFound(f, free, n) ==
  f = [m \in 0..n |-> IF m = 0 THEN {} ELSE f[m - 1] \cup Foremost(Apart(free, f[m - 1]))]

LEMMA FoundGrows ==
  ASSUME NEW n \in Nat, NEW free, NEW f \in [0..n -> SUBSET free], IsFound(f, free, n)
  PROVE  \E t \in [0..(n + 1) -> SUBSET free] : IsFound(t, free, n + 1)
<1> DEFINE v == f[n] \cup Foremost(Apart(free, f[n]))
           t == [m \in 0..(n + 1) |-> IF m = n + 1 THEN v ELSE f[m]]
<1>1. v \in SUBSET free
  <2>1. f[n] \in SUBSET free
    OBVIOUS
  <2>2. Foremost(Apart(free, f[n])) \subseteq free
    BY DEF Foremost, Apart
  <2> QED
    BY <2>1, <2>2
<1>2. t \in [0..(n + 1) -> SUBSET free]
  <2> HIDE DEF v
  <2> QED
    BY <1>1
<1>3. \A m \in 0..(n + 1) : t[m] = IF m = 0 THEN {} ELSE t[m - 1] \cup Foremost(Apart(free, t[m - 1]))
  <2> TAKE m \in 0..(n + 1)
  <2>1. CASE m = n + 1
    <3>1. t[m] = v /\ t[m - 1] = f[n] /\ m # 0
      <4> HIDE DEF v
      <4> QED
        BY <2>1
    <3> HIDE DEF t
    <3> QED
      BY <2>1, <3>1
  <2>2. CASE m # n + 1
    <3>1. m \in 0..n
      BY <2>2
    <3>2. f[m] = IF m = 0 THEN {} ELSE f[m - 1] \cup Foremost(Apart(free, f[m - 1]))
      BY <3>1 DEF IsFound
    <3>3. t[m] = f[m] /\ (m # 0 => t[m - 1] = f[m - 1])
      <4> HIDE DEF v
      <4> QED
        BY <2>2, <3>1
    <3> HIDE DEF t
    <3> QED
      BY <3>2, <3>3
  <2> QED
    BY <2>1, <2>2
<1>4. IsFound(t, free, n + 1)
  <2>1. t = [m \in 0..(n + 1) |-> t[m]]
    OBVIOUS
  <2> HIDE DEF t
  <2> QED
    BY <1>3, <2>1 DEF IsFound
<1> QED
  BY <1>2, <1>4

LEMMA FoundExists ==
  ASSUME NEW free
  PROVE  \A n \in Nat : \E f \in [0..n -> SUBSET free] : IsFound(f, free, n)
<1> DEFINE B == {n \in Nat : ~ \E f \in [0..n -> SUBSET free] : IsFound(f, free, n)}
<1> SUFFICES ASSUME B # {}
             PROVE  FALSE
  OBVIOUS
<1>1. B \in SUBSET Nat
  OBVIOUS
<1> HIDE DEF B
<1>2. PICK n \in B : \A j \in B : n <= j
  BY <1>1, SmallestIn
<1>3. CASE n = 0
  <2> DEFINE f == [m \in 0..0 |-> {}]
  <2>1. f \in [0..0 -> SUBSET free]
    OBVIOUS
  <2>2. f = [m \in 0..0 |-> IF m = 0 THEN {} ELSE f[m - 1] \cup Foremost(Apart(free, f[m - 1]))]
    OBVIOUS
  <2> HIDE DEF f
  <2> QED
    BY <1>2, <1>3, <2>1, <2>2 DEF B, IsFound
<1>4. CASE n # 0
  <2> DEFINE k == n - 1
  <2>1. n \in Nat /\ k \in Nat /\ k + 1 = n /\ k < n
    BY <1>1, <1>2, <1>4
  <2>2. k \notin B
    BY <1>2, <2>1
  <2>3. PICK f \in [0..k -> SUBSET free] : IsFound(f, free, k)
    BY <2>1, <2>2 DEF B
  <2> HIDE DEF k
  <2>4. \E t \in [0..(k + 1) -> SUBSET free] : IsFound(t, free, k + 1)
    BY <2>1, <2>3, FoundGrows
  <2> QED
    BY <1>2, <2>1, <2>4 DEF B
<1> QED
  BY <1>3, <1>4

\* What was found first is there at the end.
LEMMA FoundKeeps ==
  ASSUME NEW free, NEW n \in Nat \ {0}, NEW f, IsFound(f, free, n)
  PROVE  Foremost(free) \subseteq f[n]
<1> DEFINE B == {m \in 1..n : ~(Foremost(free) \subseteq f[m])}
<1> SUFFICES ASSUME B # {}
             PROVE  FALSE
  <2>1. n \in 1..n
    OBVIOUS
  <2> QED
    BY <2>1
<1>1. B \in SUBSET Nat
  OBVIOUS
<1>2. \A m \in 0..n : f[m] = IF m = 0 THEN {} ELSE f[m - 1] \cup Foremost(Apart(free, f[m - 1]))
  BY DEF IsFound
<1> HIDE DEF B
<1>3. PICK m \in B : \A j \in B : m <= j
  BY <1>1, SmallestIn
<1>4. m \in 1..n /\ m \in 0..n /\ m # 0 /\ m \in Nat /\ ~(Foremost(free) \subseteq f[m])
  BY <1>3 DEF B
<1>5. f[m] = f[m - 1] \cup Foremost(Apart(free, f[m - 1]))
  BY <1>2, <1>4
<1>6. CASE m = 1
  <2>1. 0 \in 0..n /\ m - 1 = 0
    BY <1>6
  <2>2. f[m - 1] = {}
    BY <1>2, <2>1
  <2>3. Apart(free, f[m - 1]) = free
    BY <2>2 DEF Apart
  <2> QED
    BY <1>4, <1>5, <2>3
<1>7. CASE m # 1
  <2>1. m - 1 \in 1..n /\ ~(m <= m - 1)
    BY <1>4, <1>7
  <2>2. Foremost(free) \subseteq f[m - 1]
    BY <1>3, <2>1 DEF B
  <2> QED
    BY <1>4, <1>5, <2>2
<1> QED
  BY <1>6, <1>7

LEMMA SlotsAre ==
  ASSUME NEW g, NEW onPage, NEW s, onPage # {}
  PROVE  /\ Slots(g, onPage, s) \subseteq FreeOf(g, onPage, s)
         /\ Foremost(FreeOf(g, onPage, s)) \subseteq Slots(g, onPage, s)
<1> DEFINE free == FreeOf(g, onPage, s)
           f == CHOOSE t : IsFound(t, free, MaxSlots)
<1>1. Slots(g, onPage, s) = free \cap f[MaxSlots]
  BY DEF Slots, FreeOf, FitsIn, Heights, Highest, Tried, RankOf, IsFound, Apart
<1>2. MaxSlots \in Nat \ {0}
  BY LengthsAssumption
<1> HIDE DEF free
<1>3. \E t : IsFound(t, free, MaxSlots)
  BY <1>2, FoundExists
<1>4. IsFound(f, free, MaxSlots)
  BY <1>3
<1> HIDE DEF f
<1>5. Foremost(free) \subseteq f[MaxSlots]
  BY <1>2, <1>4, FoundKeeps
<1>6. Foremost(free) \subseteq free
  BY DEF Foremost
<1> QED
  BY <1>1, <1>5, <1>6 DEF free

\* Of some slots there is a first one.
Ranked(S) == \A c \in S : c.u \in Nat /\ c.v \in Nat

LEMMA ForemostIs ==
  ASSUME NEW S, Ranked(S), S # {}
  PROVE  Foremost(S) # {}
<1> DEFINE V == {c.v : c \in S}
<1>1. V \in SUBSET Nat /\ V # {}
  BY DEF Ranked
<1> HIDE DEF V
<1>2. PICK v \in V : \A n \in V : v <= n
  BY <1>1, SmallestIn
<1> DEFINE U == {c.u : c \in {e \in S : e.v = v}}
<1>3. U \in SUBSET Nat /\ U # {}
  BY <1>2 DEF Ranked, V
<1> HIDE DEF U
<1>4. PICK u \in U : \A n \in U : u <= n
  BY <1>3, SmallestIn
<1>5. PICK c \in S : c.v = v /\ c.u = u
  BY <1>4 DEF U
<1>6. \A d \in S : c.v < d.v \/ (c.v = d.v /\ c.u <= d.u)
  <2> TAKE d \in S
  <2>1. d.v \in Nat /\ v \in Nat /\ v <= d.v
    BY <1>1, <1>2 DEF Ranked, V
  <2>2. CASE d.v = v
    <3>1. u <= d.u
      BY <1>4, <2>2 DEF U
    <3> QED
      BY <1>5, <2>2, <3>1
  <2>3. CASE d.v # v
    BY <1>5, <2>1, <2>3
  <2> QED
    BY <2>2, <2>3
<1> QED
  BY <1>5, <1>6 DEF Foremost

\* What a search tries.
LEMMA TriedIs ==
  ASSUME NEW g, Sheet(g), NEW onPage, NEW s, Search(s), NEW c \in FreeOf(g, onPage, s)
  PROVE  \E u \in FitsIn(g, onPage, s), v \in Heights(g, onPage, s) :
           /\ c = Tried(g, s, u, v) /\ IsFree(c, onPage)
           /\ c.x = u /\ c.y = Least(v, Highest(g, s)) /\ c.w = s.w /\ c.h = s.h
           /\ c.u \in Nat /\ c.v \in Nat /\ u \in Int /\ v \in Int
<1>1. PICK u \in FitsIn(g, onPage, s), v \in Heights(g, onPage, s) : c = Tried(g, s, u, v) /\ IsFree(c, onPage)
  BY DEF FreeOf
<1>2. /\ c.x = u /\ c.y = Least(v, Highest(g, s)) /\ c.w = s.w /\ c.h = s.h
      /\ c.u = RankOf(u, s.u) /\ c.v = RankOf(v, s.v)
  BY <1>1 DEF Tried
<1>3. EdgeMargin \in Nat /\ OrientedW(g) \in Nat /\ s.w \in Nat /\ s.v \in Int \cup {None} /\ Highest(g, s) \in Int
  BY Lengths DEF Sheet, OrientedW, OrientedH, Search, Highest
<1>4. u \in Nat
  BY <1>3 DEF FitsIn
<1>5. c.u \in Nat
  BY <1>2, <1>4 DEF RankOf
<1>6. v \in Int /\ (v # s.v => v \in Nat)
  <2>1. VerticalCandidates(onPage, Highest(g, s), s) \subseteq EdgeMargin..Highest(g, s)
    BY DEF VerticalCandidates
  <2> QED
    BY <1>3, <2>1 DEF Heights
<1>7. c.v \in Nat
  BY <1>2, <1>6 DEF RankOf
<1> QED
  BY <1>1, <1>2, <1>4, <1>5, <1>6, <1>7

LEMMA FreeAreRanked ==
  ASSUME NEW g, Sheet(g), NEW onPage, NEW s, Search(s)
  PROVE  Ranked(FreeOf(g, onPage, s)) /\ None \notin FreeOf(g, onPage, s)
<1>1. \A c \in FreeOf(g, onPage, s) : c.u \in Nat /\ c.v \in Nat
  BY TriedIs
<1>2. \A c \in FreeOf(g, onPage, s) : c \in Slot
  <2> TAKE c \in FreeOf(g, onPage, s)
  <2>1. PICK u \in FitsIn(g, onPage, s), v \in Heights(g, onPage, s) :
          /\ c = Tried(g, s, u, v)
          /\ c.x = u /\ c.y = Least(v, Highest(g, s)) /\ c.w = s.w /\ c.h = s.h
          /\ c.u \in Nat /\ c.v \in Nat /\ u \in Int /\ v \in Int
    BY TriedIs
  <2>2. Highest(g, s) \in Int /\ s.w \in Nat /\ s.h \in Nat
    BY Lengths DEF Sheet, OrientedH, Search, Highest
  <2>3. Least(v, Highest(g, s)) \in Int
    BY <2>1, <2>2 DEF Least
  <2>4. RankOf(u, s.u) \in Nat /\ RankOf(v, s.v) \in Nat
    <3>1. c.u = RankOf(u, s.u) /\ c.v = RankOf(v, s.v)
      BY <2>1 DEF Tried
    <3> QED
      BY <2>1, <3>1
  <2> QED
    BY <2>1, <2>2, <2>3, <2>4 DEF Tried, Slot
<1>3. None \notin Slot
  BY LengthsAssumption DEF Slot
<1> QED
  BY <1>1, <1>2, <1>3 DEF Ranked

\* A search that finds nothing had nothing free to try.
LEMMA NothingFound ==
  ASSUME NEW g, Sheet(g), NEW onPage, onPage # {}, NEW s, Search(s),
         Slots(g, onPage, s) = {} \/ First(Slots(g, onPage, s)) = None
  PROVE  FreeOf(g, onPage, s) = {}
<1> DEFINE slots == Slots(g, onPage, s)
           free == FreeOf(g, onPage, s)
<1>1. slots \subseteq free /\ Foremost(free) \subseteq slots
  BY SlotsAre
<1>2. Ranked(free) /\ None \notin free
  BY FreeAreRanked
<1> HIDE DEF slots, free
<1>3. Ranked(slots)
  BY <1>1, <1>2 DEF Ranked
<1>4. CASE slots = {}
  <2>1. Foremost(free) = {}
    BY <1>1, <1>4
  <2>2. free = {}
    BY <1>2, <2>1, ForemostIs
  <2> QED
    BY <2>2 DEF free
<1>5. CASE slots # {}
  <2>1. Foremost(slots) # {}
    BY <1>3, <1>5, ForemostIs
  <2>2. First(slots) \in Foremost(slots)
    BY <2>1 DEF First
  <2>3. Foremost(slots) \subseteq slots
    BY DEF Foremost
  <2>4. First(slots) # None
    BY <1>1, <1>2, <2>2, <2>3
  <2> QED
    BY <1>5, <2>4 DEF slots
<1> QED
  BY <1>4, <1>5

-----------------------------------------------------------------------------
(* A place with room slides to one the search tries: to the left as far as *)
(* an obstacle or the margin, then down.                                   *)

\* Where a slide ends: the margin, or the last stop before the beginning.
StopsAt(stops, x, u) ==
  /\ u \in EdgeMargin..x /\ (u = EdgeMargin \/ u \in stops)
  /\ \A n \in stops : n <= x => n <= u

LEMMA LastStop ==
  ASSUME NEW stops, stops \subseteq Int, NEW x \in Int, EdgeMargin <= x
  PROVE  \E u : StopsAt(stops, x, u)
<1> DEFINE S == {u \in EdgeMargin..x : u = EdgeMargin \/ u \in stops}
<1>1. EdgeMargin \in Nat /\ x \in Nat
  BY Lengths
<1>2. S \in SUBSET Nat /\ EdgeMargin \in S /\ \A n \in S : n <= x
  BY <1>1
<1> HIDE DEF S
<1>3. PICK u \in S : \A n \in S : n <= u
  BY <1>1, <1>2, LargestIn
<1>4. u \in EdgeMargin..x /\ (u = EdgeMargin \/ u \in stops)
  BY <1>3 DEF S
<1>5. \A n \in stops : n <= x => n <= u
  <2> SUFFICES ASSUME NEW n \in stops, n <= x
               PROVE  n <= u
    OBVIOUS
  <2>1. n \in Int /\ u \in Int /\ EdgeMargin <= u
    BY <1>1, <1>4
  <2>2. CASE n < EdgeMargin
    BY <1>1, <2>1, <2>2
  <2>3. CASE EdgeMargin <= n
    <3>1. n \in S
      BY <1>1, <2>1, <2>3 DEF S
    <3> QED
      BY <1>3, <3>1
  <2> QED
    BY <1>1, <2>1, <2>2, <2>3
<1> QED
  BY <1>4, <1>5 DEF StopsAt

Same(r, t) == r.w = t.w /\ r.h = t.h

LEMMA SlidesLeft ==
  ASSUME NEW onPage, Rectangles(onPage), NEW r, Rectangle(r), EdgeMargin <= r.x, Roomy(r, onPage)
  PROVE  \E u \in EdgeMargin..r.x :
           /\ u = EdgeMargin \/ \E o \in onPage : u = o.x + o.w + Gap
           /\ \A t : Rectangle(t) /\ Same(t, r) /\ t.x = u /\ t.y = r.y => IsFree(t, onPage)
<1> DEFINE stops == {o.x + o.w + Gap : o \in onPage}
<1>1. Gap \in Nat /\ HalfGap \in Nat /\ Gap >= HalfGap /\ EdgeMargin \in Nat
  BY Lengths DEF Gap
<1>2. stops \subseteq Int /\ r.x \in Int
  BY <1>1 DEF Rectangles, Rectangle
<1> HIDE DEF stops
<1>3. PICK u \in EdgeMargin..r.x : (u = EdgeMargin \/ u \in stops) /\ \A n \in stops : n <= r.x => n <= u
  <2> DEFINE x == r.x
  <2>1. x \in Int /\ EdgeMargin <= x
    BY <1>2
  <2> HIDE DEF x
  <2>2. PICK u : StopsAt(stops, x, u)
    BY <1>2, <2>1, LastStop
  <2> QED
    BY <2>2 DEF x, StopsAt
<1>4. ASSUME NEW t, Rectangle(t), Same(t, r), t.x = u, t.y = r.y, NEW o \in onPage
      PROVE  ~RectsOverlap(t, o, HalfGap)
  <2>1. Rectangle(o) /\ ~RectsOverlap(r, o, HalfGap)
    BY DEF Rectangles, Roomy, IsFree
  <2>2. o.x + o.w <= r.x => o.x + o.w + Gap <= u
    <3> SUFFICES ASSUME o.x + o.w <= r.x
                 PROVE  o.x + o.w + Gap <= u
      OBVIOUS
    <3>1. r.x - (o.x + o.w) >= Gap
      BY DEF Roomy
    <3>2. o.x + o.w + Gap \in stops
      BY DEF stops
    <3>3. o.x + o.w + Gap <= r.x
      BY <1>1, <1>2, <2>1, <3>1 DEF Rectangle
    <3> QED
      BY <1>3, <3>2, <3>3
  <2>3. /\ r.x \in Int /\ r.y \in Int /\ r.w \in Nat /\ r.h \in Nat
        /\ o.x \in Int /\ o.y \in Int /\ o.w \in Nat /\ o.h \in Nat
        /\ u \in Int /\ u <= r.x /\ t.w = r.w /\ t.h = r.h
    BY <1>1, <1>3, <1>4, <2>1 DEF Rectangle, Same
  <2> QED
    BY <1>1, <1>4, <2>1, <2>2, <2>3 DEF RectsOverlap
<1>5. \A t : Rectangle(t) /\ Same(t, r) /\ t.x = u /\ t.y = r.y => IsFree(t, onPage)
  BY <1>4 DEF IsFree
<1>6. u = EdgeMargin \/ \E o \in onPage : u = o.x + o.w + Gap
  BY <1>3 DEF stops
<1> QED
  BY <1>3, <1>5, <1>6

LEMMA SlidesDown ==
  ASSUME NEW onPage, Rectangles(onPage), NEW r, Rectangle(r), EdgeMargin <= r.y, IsFree(r, onPage)
  PROVE  \E v \in EdgeMargin..r.y :
           /\ v = EdgeMargin \/ \E o \in onPage : v = Top(o) + HalfGap
           /\ \A t : Rectangle(t) /\ Same(t, r) /\ t.x = r.x /\ t.y = v => IsFree(t, onPage)
<1> DEFINE stops == {Top(o) + HalfGap : o \in onPage}
<1>1. HalfGap \in Nat /\ EdgeMargin \in Nat
  BY Lengths
<1>2. stops \subseteq Int /\ r.y \in Int
  BY <1>1 DEF Rectangles, Rectangle, Top
<1> HIDE DEF stops
<1>3. PICK v \in EdgeMargin..r.y : (v = EdgeMargin \/ v \in stops) /\ \A n \in stops : n <= r.y => n <= v
  <2> DEFINE y == r.y
  <2>1. y \in Int /\ EdgeMargin <= y
    BY <1>2
  <2> HIDE DEF y
  <2>2. PICK v : StopsAt(stops, y, v)
    BY <1>2, <2>1, LastStop
  <2> QED
    BY <2>2 DEF y, StopsAt
<1>4. ASSUME NEW t, Rectangle(t), Same(t, r), t.x = r.x, t.y = v, NEW o \in onPage
      PROVE  ~RectsOverlap(t, o, HalfGap)
  <2>1. Rectangle(o) /\ ~RectsOverlap(r, o, HalfGap)
    BY DEF Rectangles, IsFree
  <2>2. o.y + o.h + HalfGap <= r.y => o.y + o.h + HalfGap <= v
    <3>1. o.y + o.h + HalfGap \in stops
      BY DEF stops, Top
    <3> QED
      BY <1>3, <3>1
  <2>3. /\ r.x \in Int /\ r.y \in Int /\ r.w \in Nat /\ r.h \in Nat
        /\ o.x \in Int /\ o.y \in Int /\ o.w \in Nat /\ o.h \in Nat
        /\ v \in Int /\ v <= r.y /\ t.w = r.w /\ t.h = r.h
    BY <1>1, <1>3, <1>4, <2>1 DEF Rectangle, Same
  <2> QED
    BY <1>1, <1>4, <2>1, <2>2, <2>3 DEF RectsOverlap
<1>5. \A t : Rectangle(t) /\ Same(t, r) /\ t.x = r.x /\ t.y = v => IsFree(t, onPage)
  BY <1>4 DEF IsFree
<1>6. v = EdgeMargin \/ \E o \in onPage : v = Top(o) + HalfGap
  BY <1>3 DEF stops
<1> QED
  BY <1>3, <1>5, <1>6

\* If any place has room, one that the search tries is free.
LEMMA RoomIsFound ==
  ASSUME NEW g, Sheet(g), NEW onPage, Rectangles(onPage), NEW s, Search(s), s.aware,
         NEW r \in Places(g, s.w, s.h), Roomy(r, onPage)
  PROVE  FreeOf(g, onPage, s) # {}
<1>1. /\ EdgeMargin \in Nat /\ OrientedW(g) \in Nat /\ OrientedH(g) \in Nat /\ s.w \in Nat /\ s.h \in Nat
      /\ Highest(g, s) \in Int /\ Highest(g, s) = OrientedH(g) - EdgeMargin - s.h
  BY Lengths DEF Sheet, OrientedW, OrientedH, Search, Highest
<1>2. PICK x \in EdgeMargin..(OrientedW(g) - EdgeMargin - s.w), y \in EdgeMargin..(OrientedH(g) - EdgeMargin - s.h) :
        r = [x |-> x, y |-> y, w |-> s.w, h |-> s.h]
  BY DEF Places
<1>3. Rectangle(r) /\ r.x = x /\ r.y = y /\ r.w = s.w /\ r.h = s.h /\ EdgeMargin <= r.x /\ EdgeMargin <= r.y
  BY <1>1, <1>2 DEF Rectangle
<1>4. PICK u \in EdgeMargin..r.x :
        /\ u = EdgeMargin \/ \E o \in onPage : u = o.x + o.w + Gap
        /\ \A t : Rectangle(t) /\ Same(t, r) /\ t.x = u /\ t.y = r.y => IsFree(t, onPage)
  BY <1>3, SlidesLeft
<1> DEFINE t == [x |-> u, y |-> r.y, w |-> s.w, h |-> s.h]
<1>5. Rectangle(t) /\ Same(t, r) /\ t.x = u /\ t.y = r.y /\ t.w = s.w /\ t.h = s.h
  BY <1>1, <1>3, <1>4 DEF Rectangle, Same
<1> HIDE DEF t
<1>6. IsFree(t, onPage)
  BY <1>4, <1>5
<1>7. PICK v \in EdgeMargin..t.y :
        /\ v = EdgeMargin \/ \E o \in onPage : v = Top(o) + HalfGap
        /\ \A q : Rectangle(q) /\ Same(q, t) /\ q.x = t.x /\ q.y = v => IsFree(q, onPage)
  BY <1>3, <1>5, <1>6, SlidesDown
<1> DEFINE c == Tried(g, s, u, v)
<1>8. v \in EdgeMargin..Highest(g, s) /\ v \in Int /\ u \in Int
  BY <1>1, <1>2, <1>3, <1>4, <1>5, <1>7
<1>9. c.x = u /\ c.y = v /\ c.w = s.w /\ c.h = s.h
  <2>1. Least(v, Highest(g, s)) = v
    BY <1>1, <1>8 DEF Least
  <2> QED
    BY <2>1 DEF Tried
<1>10. u \in FitsIn(g, onPage, s)
  BY <1>1, <1>2, <1>3, <1>4 DEF FitsIn
<1>11. v \in Heights(g, onPage, s)
  BY <1>7, <1>8 DEF Heights, VerticalCandidates
<1> HIDE DEF c
<1>12. Rectangle(c) /\ Same(c, t) /\ c.x = t.x
  BY <1>1, <1>5, <1>8, <1>9 DEF Rectangle, Same
<1>13. IsFree(c, onPage)
  BY <1>7, <1>9, <1>12
<1> QED
  BY <1>10, <1>11, <1>13 DEF FreeOf, c

\* A slot inside the margins is not moved.
Inside(g, c) ==
  /\ Rectangle(c) /\ c = [x |-> c.x, y |-> c.y, w |-> c.w, h |-> c.h, u |-> c.u, v |-> c.v]
  /\ EdgeMargin <= c.x /\ c.x + c.w <= OrientedW(g) - EdgeMargin
  /\ EdgeMargin <= c.y /\ c.y + c.h <= OrientedH(g) - EdgeMargin

LEMMA InsideStays ==
  ASSUME NEW g, Sheet(g), NEW c, Inside(g, c)
  PROVE  ClampRect(g, c) = c
<1>1. /\ EdgeMargin \in Nat /\ OrientedW(g) \in Nat /\ OrientedH(g) \in Nat
      /\ c.x \in Int /\ c.y \in Int /\ c.w \in Nat /\ c.h \in Nat
  BY Lengths DEF Sheet, OrientedW, OrientedH, Inside, Rectangle
<1>2. Clamp(c.x, c.w, OrientedW(g)) = c.x
  BY <1>1 DEF Inside, Clamp, Greatest
<1>3. Clamp(c.y, c.h, OrientedH(g)) = c.y
  BY <1>1 DEF Inside, Clamp, Greatest
<1>4. ClampRect(g, c) = [c EXCEPT !.x = c.x, !.y = c.y]
  BY <1>2, <1>3 DEF ClampRect
<1>5. c = [x |-> c.x, y |-> c.y, w |-> c.w, h |-> c.h, u |-> c.u, v |-> c.v]
  BY DEF Inside
<1> QED
  BY <1>4, <1>5

LEMMA SlotIsInside ==
  ASSUME NEW g, Sheet(g), NEW onPage, NEW s, Search(s), s.v = None \/ s.v >= EdgeMargin,
         s.v = None \/ EdgeMargin <= Highest(g, s), NEW c \in FreeOf(g, onPage, s)
  PROVE  Inside(g, c)
<1>1. PICK u \in FitsIn(g, onPage, s), v \in Heights(g, onPage, s) :
        /\ c = Tried(g, s, u, v)
        /\ c.x = u /\ c.y = Least(v, Highest(g, s)) /\ c.w = s.w /\ c.h = s.h
        /\ c.u \in Nat /\ c.v \in Nat /\ u \in Int /\ v \in Int
  BY TriedIs
<1>2. /\ EdgeMargin \in Nat /\ OrientedW(g) \in Nat /\ OrientedH(g) \in Nat /\ s.w \in Nat /\ s.h \in Nat
      /\ Highest(g, s) \in Int /\ Highest(g, s) = OrientedH(g) - EdgeMargin - s.h
  BY Lengths DEF Sheet, OrientedW, OrientedH, Search, Highest
<1>3. EdgeMargin <= u /\ u + s.w <= OrientedW(g) - EdgeMargin
  BY <1>1, <1>2 DEF FitsIn
<1>4. EdgeMargin <= v /\ EdgeMargin <= Highest(g, s)
  <2>1. VerticalCandidates(onPage, Highest(g, s), s) \subseteq EdgeMargin..Highest(g, s)
    BY DEF VerticalCandidates
  <2>2. v \in EdgeMargin..Highest(g, s) \/ (v = s.v /\ s.v # None)
    BY <2>1 DEF Heights
  <2>3. CASE v \in EdgeMargin..Highest(g, s)
    BY <1>2, <2>3
  <2>4. CASE v = s.v /\ s.v # None
    BY <2>4
  <2> QED
    BY <2>2, <2>3, <2>4
<1>5. /\ Least(v, Highest(g, s)) \in Int
      /\ EdgeMargin <= Least(v, Highest(g, s)) /\ Least(v, Highest(g, s)) <= Highest(g, s)
  BY <1>1, <1>2, <1>4 DEF Least
<1>6. c = [x |-> c.x, y |-> c.y, w |-> c.w, h |-> c.h, u |-> c.u, v |-> c.v]
  BY <1>1 DEF Tried
<1>7. /\ c.x \in Int /\ c.y \in Int /\ c.w \in Nat /\ c.h \in Nat
      /\ EdgeMargin <= c.x /\ c.x + c.w <= OrientedW(g) - EdgeMargin
      /\ EdgeMargin <= c.y /\ c.y + c.h <= OrientedH(g) - EdgeMargin
  BY <1>1, <1>2, <1>3, <1>5
<1> QED
  BY <1>6, <1>7 DEF Inside, Rectangle

-----------------------------------------------------------------------------
(* What the placements say: that a page is full, or that a signature is in *)
(* the space left for it.                                                  *)

LEMMA NoneIsNoRefusal ==
  /\ None # "rect_too_small" /\ None # "rect_out_of_media_box" /\ None # "rect_outside_visible_area"
BY LengthsAssumption DEF Refusals

\* What can be signed is in the visible area of the page.
LEMMA SignableIsInside ==
  ASSUME NEW g, Sheet(g), NEW r, Rectangle(r), VisibleSigRejection(RectFromCanonical(g, r), g) = None
  PROVE  /\ 0 <= r.x /\ r.x + r.w <= OrientedW(g)
         /\ 0 <= r.y /\ r.y + r.h <= OrientedH(g)
<1> DEFINE f == RectFromCanonical(g, r)
<1>1. /\ ~(f.w < MinWidth \/ f.h < MinHeight)
      /\ ~(f.x < 0 \/ f.y < 0 \/ f.x + f.w > g.mediaW \/ f.y + f.h > g.mediaH)
      /\ ~(f.x < g.x \/ f.y < g.y \/ f.x + f.w > g.x + g.w \/ f.y + f.h > g.y + g.h)
  <2> HIDE DEF f
  <2>1. VisibleSigRejection(f, g) = None
    BY DEF f
  <2> QED
    BY <2>1, NoneIsNoRefusal, Zenon DEF VisibleSigRejection
<1>2. /\ Rectangle(f)
      /\ g.rotate = 0 => f.x = g.x + r.x /\ f.y = g.y + r.y /\ f.w = r.w /\ f.h = r.h
      /\ g.rotate = 90 => f.x = g.x + g.w - r.y - r.h /\ f.y = g.y + r.x /\ f.w = r.h /\ f.h = r.w
      /\ g.rotate = 180 => f.x = g.x + g.w - r.x - r.w /\ f.y = g.y + g.h - r.y - r.h /\ f.w = r.w /\ f.h = r.h
      /\ g.rotate = 270 => f.x = g.x + r.y /\ f.y = g.y + g.h - r.x - r.w /\ f.w = r.h /\ f.h = r.w
  BY FromCanonicalIs
<1> HIDE DEF f
<1>3. /\ g.x \in Int /\ g.y \in Int /\ g.w \in Nat /\ g.h \in Nat /\ g.rotate \in {0, 90, 180, 270}
      /\ r.x \in Int /\ r.y \in Int /\ r.w \in Nat /\ r.h \in Nat
      /\ f.x \in Int /\ f.y \in Int /\ f.w \in Nat /\ f.h \in Nat
  BY <1>2 DEF Sheet, Rectangle
<1>4. g.x <= f.x /\ g.y <= f.y /\ f.x + f.w <= g.x + g.w /\ f.y + f.h <= g.y + g.h
  BY <1>1, <1>3
<1>5. CASE g.rotate \in {90, 270}
  <2>1. OrientedW(g) = g.h /\ OrientedH(g) = g.w
    BY <1>5 DEF Across, OrientedW, OrientedH
  <2> QED
    BY <1>2, <1>3, <1>4, <1>5, <2>1
<1>6. CASE g.rotate \notin {90, 270}
  <2>1. OrientedW(g) = g.w /\ OrientedH(g) = g.h
    BY <1>6 DEF Across, OrientedW, OrientedH
  <2> QED
    BY <1>2, <1>3, <1>4, <1>6, <2>1
<1> QED
  BY <1>5, <1>6

LEMMA CanonicalReads ==
  ASSUME NEW g, NEW r, NEW t, r.x = t.x, r.y = t.y, r.w = t.w, r.h = t.h
  PROVE  RectFromCanonical(g, r) = RectFromCanonical(g, t)
BY DEF RectFromCanonical

LEMMA RoomIs ==
  ASSUME NEW d, PaperOK(d), NEW p \in DOMAIN d.pages, NEW c, Rectangle(c), IsFree(c, Obstacles(d, p)),
         Rejected(d, p, c) = None
  PROVE  HasRoom(d, p, c.w, c.h)
<1> DEFINE g == d.pages[p]
           onPage == Obstacles(d, p)
           r == [x |-> c.x, y |-> c.y, w |-> c.w, h |-> c.h]
<1>1. Sheet(g)
  BY SheetOfPage
<1>2. 0 <= c.x /\ c.x + c.w <= OrientedW(g) /\ 0 <= c.y /\ c.y + c.h <= OrientedH(g)
  BY <1>1, SignableIsInside DEF Rejected
<1>3. c.x \in 0..OrientedW(g) /\ c.y \in 0..OrientedH(g)
  <2>1. OrientedW(g) \in Nat /\ OrientedH(g) \in Nat /\ c.x \in Int /\ c.y \in Int /\ c.w \in Nat /\ c.h \in Nat
    BY <1>1 DEF Sheet, OrientedW, OrientedH, Rectangle
  <2> QED
    BY <1>2, <2>1
<1>4. IsFree(r, onPage)
  BY DEF IsFree, RectsOverlap
<1>5. Rejected(d, p, r) = None
  BY CanonicalReads DEF Rejected
<1> QED
  BY <1>3, <1>4, <1>5 DEF HasRoom

\* Where a page is offered, the box fits and can be signed.
LEMMA PagesHaveRoom ==
  ASSUME NEW d, PaperOK(d), NEW w \in Nat, NEW h \in Nat, NEW except, NEW p \in PagesWithRoom(d, w, h, except)
  PROVE  HasRoom(d, p, w, h)
<1> DEFINE g == d.pages[p]
           onPage == Obstacles(d, p)
           s == [w |-> w, h |-> h, u |-> CenteredU(g, w), v |-> None, aware |-> Bands(d, p) # {}]
           r == IF onPage = {} THEN DefaultFooter(g, w, h) ELSE First(Slots(g, onPage, s))
           c == ClampRect(g, r)
<1>1. p \in DOMAIN d.pages /\ r # None /\ Rejected(d, p, c) = None
  BY DEF PagesWithRoom
<1>2. Sheet(g) /\ Search(s)
  BY <1>1, SheetOfPage DEF Search
<1>3. CASE onPage = {}
  <2>1. r = [x |-> CenteredU(g, w), y |-> EdgeMargin, w |-> w, h |-> h]
    BY <1>3 DEF DefaultFooter
  <2>2. EdgeMargin \in Nat /\ OrientedW(g) \in Nat /\ OrientedH(g) \in Nat
    BY <1>2, Lengths DEF Sheet, OrientedW, OrientedH
  <2>3. CenteredU(g, w) \in Int
    BY <2>2 DEF CenteredU, Greatest, Least
  <2> HIDE DEF r
  <2>4. r.x \in Int /\ r.y \in Int /\ r.w = w /\ r.h = h
    BY <2>1, <2>2, <2>3
  <2>5. Clamp(r.x, r.w, OrientedW(g)) \in Int /\ Clamp(r.y, r.h, OrientedH(g)) \in Int
    BY <2>2, <2>4 DEF Clamp, Greatest
  <2>6. /\ c.x = Clamp(r.x, r.w, OrientedW(g)) /\ c.y = Clamp(r.y, r.h, OrientedH(g))
        /\ c.w = w /\ c.h = h
    <3>1. c = [r EXCEPT !.x = Clamp(r.x, r.w, OrientedW(g)), !.y = Clamp(r.y, r.h, OrientedH(g))]
      BY DEF ClampRect
    <3>2. DOMAIN r = {"x", "y", "w", "h"}
      BY <2>1
    <3> HIDE DEF c
    <3> QED
      BY <2>4, <3>1, <3>2
  <2> HIDE DEF c
  <2>7. Rectangle(c)
    BY <2>5, <2>6 DEF Rectangle
  <2>8. IsFree(c, onPage)
    BY <1>3 DEF IsFree
  <2>9. HasRoom(d, p, c.w, c.h)
    BY <1>1, <2>7, <2>8, RoomIs
  <2> QED
    BY <2>6, <2>9
<1>4. CASE onPage # {}
  <2> DEFINE slots == Slots(g, onPage, s)
  <2>1. r = First(slots)
    BY <1>4
  <2> HIDE DEF s
  <2>2. slots \subseteq FreeOf(g, onPage, s)
    BY <1>4, SlotsAre
  <2> HIDE DEF slots, r
  <2>3. r \in FreeOf(g, onPage, s)
    BY <1>1, <2>1, <2>2, FirstIs
  <2>4. s.v = None /\ s.w = w /\ s.h = h
    BY DEF s
  <2>5. Inside(g, r)
    BY <1>2, <2>3, <2>4, SlotIsInside
  <2>6. c = r
    BY <1>2, <2>5, InsideStays
  <2>7. IsFree(r, onPage) /\ r.w = w /\ r.h = h
    BY <1>2, <2>3, <2>4, TriedIs
  <2>8. Rectangle(r)
    BY <2>5 DEF Inside
  <2> HIDE DEF c
  <2>9. HasRoom(d, p, r.w, r.h)
    BY <1>1, <2>6, <2>7, <2>8, RoomIs
  <2> QED
    BY <2>7, <2>9
<1> QED
  BY <1>3, <1>4

\* The page is as full as it is said to be. s is the search that found nothing.
Full(d, s, w, h, q) ==
  /\ NothingIsRoomy(d.pages[q.page], s, Obstacles(d, q.page))
  /\ \A p \in q.alsoFits : HasRoom(d, p, w, h)

OnBlock(d, q) ==
  /\ q.clearance = HalfGap
  /\ \E b \in TextBandRects(d.pages[q.page], Bands(d, q.page)) :
       Top(b) + HalfGap = RectToCanonical(d.pages[q.page], q.rect).y

SaysFull(q)     == q # None /\ q.status = "needs_review" /\ q.reason = "no_free_slot"
SaysReserved(q) == q # None /\ q.status = "ok" /\ q.source = "reserved-gap"

\* Neither of both.
Plain(q) == ~SaysFull(q) /\ ~SaysReserved(q)

SearchOn(d, a, p, w, h, byDefault) ==
  IF d.stamps # <<>> THEN AntiOverlapSearch(d, a, p, w, h, byDefault) ELSE LastPageSearch(d, w, h, byDefault)

Honest(d, a, w, h, byDefault, q) ==
  /\ SaysFull(q) => Full(d, SearchOn(d, a, q.page, w, h, byDefault), w, h, q)
  /\ SaysReserved(q) => OnBlock(d, q)

LEMMA PlainIsHonest ==
  ASSUME NEW q, Plain(q)
  PROVE  \A d, a, w, h, byDefault : Honest(d, a, w, h, byDefault, q)
BY DEF Plain, Honest

LEMMA RefusalIsPlain ==
  ASSUME NEW f, NEW g
  PROVE  /\ VisibleSigRejection(f, g) = None \/ VisibleSigRejection(f, g) \in Refusals
         /\ \A p, alsoFits : VisibleSigRejection(f, g) # None => Plain(Review(p, VisibleSigRejection(f, g), alsoFits))
<1>1. VisibleSigRejection(f, g) = None \/ VisibleSigRejection(f, g) \in Refusals
  BY DEF VisibleSigRejection, Refusals
<1>2. \A p, alsoFits, reason : reason \in Refusals => Plain(Review(p, reason, alsoFits))
  BY DEF Plain, SaysFull, SaysReserved, Review, Refusals
<1> HIDE DEF VisibleSigRejection
<1> QED
  BY <1>1, <1>2

LEMMA SettledIsPlain ==
  ASSUME NEW d, NEW p, NEW r, NEW source, source # "reserved-gap", NEW clearance, NEW alsoFits
  PROVE  Plain(Settled(d, p, r, source, clearance, alsoFits)) /\ Plain(Ok(d, p, r, source, clearance))
<1> DEFINE g == d.pages[p]
           f == RectFromCanonical(g, r)
           reason == VisibleSigRejection(f, g)
<1>1. Plain(Ok(d, p, r, source, clearance))
  BY DEF Plain, SaysFull, SaysReserved, Ok
<1>2. reason # None => Plain(Review(p, reason, alsoFits))
  BY RefusalIsPlain
<1>3. Settled(d, p, r, source, clearance, alsoFits) =
        IF reason # None THEN Review(p, reason, alsoFits) ELSE Ok(d, p, r, source, clearance)
  BY DEF Settled, Rejected
<1> HIDE DEF reason
<1> QED
  BY <1>1, <1>2, <1>3

LEMMA NonePlain == Plain(None)
BY DEF Plain, SaysFull, SaysReserved

LEMMA AnchorIsPlain ==
  ASSUME NEW d, NEW a, NEW w, NEW h, NEW tolerance
  PROVE  Plain(TryAnchor(d, a, w, h, tolerance))
<1>1. \A p, onPage, best : Plain(Anchored(d, a, w, h, onPage, best, tolerance))
  <2> TAKE p, onPage, best
  <2> DEFINE r == ClampAndRevalidate(d.pages[a.page], onPage, best)
             q == Ok(d, a.page, r, "text-anchor", Clearance(r, onPage))
  <2>1. Anchored(d, a, w, h, onPage, best, tolerance) \in {None, q}
    BY DEF Anchored
  <2>2. Plain(q)
    BY SettledIsPlain
  <2> HIDE DEF q
  <2> QED
    BY <2>1, <2>2, NonePlain
<1>2. TryAnchor(d, a, w, h, tolerance) = None \/
      \E onPage, best : TryAnchor(d, a, w, h, tolerance) = Anchored(d, a, w, h, onPage, best, tolerance)
  BY DEF TryAnchor
<1> QED
  BY <1>1, <1>2, NonePlain

LEMMA RescueIsPlain ==
  ASSUME NEW d, NEW a, NEW w, NEW h
  PROVE  Plain(RescueWithGenericAnchor(d, a, w, h))
BY AnchorIsPlain, NonePlain DEF RescueWithGenericAnchor

\* A page is full when the search finds nothing, or nothing that is free once it is
\* inside the margins.
LEMMA NothingLeft ==
  ASSUME NEW g, Sheet(g), NEW onPage, Rectangles(onPage), onPage # {}, NEW s, Search(s), NEW able,
         able = {c \in Slots(g, onPage, s) : ClampAndRevalidate(g, onPage, c) # None}, First(able) = None
  PROVE  NothingIsRoomy(g, s, onPage)
<1> SUFFICES ASSUME s.aware, s.v = None \/ s.v >= EdgeMargin, NEW r \in Places(g, s.w, s.h), Roomy(r, onPage)
             PROVE  FALSE
  BY DEF NothingIsRoomy
<1> DEFINE slots == Slots(g, onPage, s)
           free == FreeOf(g, onPage, s)
<1>1. free # {}
  BY RoomIsFound
<1>2. EdgeMargin <= Highest(g, s)
  <2>1. \E v : v \in EdgeMargin..(OrientedH(g) - EdgeMargin - s.h)
    BY DEF Places
  <2>2. EdgeMargin \in Nat /\ OrientedH(g) - EdgeMargin - s.h \in Int
    BY Lengths DEF Sheet, OrientedH, Search
  <2> QED
    BY <2>1, <2>2 DEF Highest
<1>3. slots \subseteq free
  BY SlotsAre
<1>4. \A c \in slots : ClampAndRevalidate(g, onPage, c) = c
  <2> TAKE c \in slots
  <2>1. Inside(g, c)
    BY <1>2, <1>3, SlotIsInside
  <2>2. ClampRect(g, c) = c
    BY <2>1, InsideStays
  <2> QED
    BY <2>2 DEF ClampAndRevalidate
<1>5. None \notin free
  BY FreeAreRanked
<1> HIDE DEF slots, free
<1>6. able = slots
  BY <1>3, <1>4, <1>5 DEF slots
<1>7. free = {}
  BY <1>6, NothingFound DEF slots, free
<1> QED
  BY <1>1, <1>7

LEMMA AntiOverlapIsHonest ==
  ASSUME NEW d, PaperOK(d), d.stamps # <<>>, NEW a, a = None \/ a.v \in Int, NEW p \in DOMAIN d.pages,
         Obstacles(d, p) # {}, NEW w \in Nat, NEW h \in Nat, NEW byDefault \in BOOLEAN
  PROVE  Honest(d, a, w, h, byDefault, AntiOverlap(d, a, p, w, h, byDefault))
<1> DEFINE g == d.pages[p]
           onPage == Obstacles(d, p)
           s == AntiOverlapSearch(d, a, p, w, h, byDefault)
           slots == Slots(g, onPage, s)
           inside(c) == ClampAndRevalidate(g, onPage, c)
           able == {c \in slots : inside(c) # None}
           valid == First(able)
           q == AntiOverlap(d, a, p, w, h, byDefault)
           pages == PagesWithRoom(d, w, h, p)
<1>1. q = BesideStamps(d, p, onPage, slots, w, h)
  BY DEF AntiOverlap
<1>2. Sheet(g) /\ Search(s) /\ Rectangles(onPage)
  BY SheetOfPage, AntiOverlapSearchIs, ObstaclesAre
<1>3. CASE valid = None
  <2>1. q = Review(p, "no_free_slot", pages)
    BY <1>1, <1>3 DEF BesideStamps
  <2>2. q.page = p /\ q.alsoFits = pages /\ q.status = "needs_review"
    BY <2>1 DEF Review
  <2> HIDE DEF s
  <2>3. NothingIsRoomy(g, s, onPage)
    <3>1. able = {c \in Slots(g, onPage, s) : ClampAndRevalidate(g, onPage, c) # None}
      OBVIOUS
    <3> HIDE DEF able
    <3> QED
      BY <1>2, <1>3, <3>1, NothingLeft
  <2>4. SearchOn(d, a, q.page, w, h, byDefault) = s
    BY <2>2 DEF SearchOn, s
  <2>5. \A o \in pages : HasRoom(d, o, w, h)
    BY PagesHaveRoom
  <2> HIDE DEF q, pages
  <2>6. Full(d, s, w, h, q)
    <3>1. NothingIsRoomy(d.pages[q.page], s, Obstacles(d, q.page))
      BY <2>2, <2>3
    <3> QED
      BY <2>2, <2>5, <3>1 DEF Full
  <2>7. ~SaysReserved(q)
    BY <2>2 DEF SaysReserved
  <2> HIDE DEF s
  <2>8. Honest(d, a, w, h, byDefault, q)
    BY <2>4, <2>6, <2>7 DEF Honest
  <2> QED
    BY <2>8 DEF q
<1>4. CASE valid # None
  <2> DEFINE r == inside(valid)
             c == Clearance(r, onPage)
  <2>1. q = Settled(d, p, r, "anti-overlap", c, {})
    BY <1>1, <1>4 DEF BesideStamps
  <2> HIDE DEF r, c
  <2>2. Plain(q)
    BY <2>1, SettledIsPlain
  <2> HIDE DEF q
  <2> QED
    BY <2>2, PlainIsHonest DEF q
<1> QED
  BY <1>3, <1>4

\* On the last page, what is in the space left stands on the block; what is said to
\* be full is, if nobody signed before.
LEMMA LastPageIsHonest ==
  ASSUME NEW d, PaperOK(d), d.pages # <<>>, NEW a, a = None \/ a.v \in Int,
         NEW w \in Nat, NEW h \in Nat, NEW byDefault \in BOOLEAN
  PROVE  /\ SaysReserved(PlaceOnLastPage(d, a, w, h, byDefault)) => OnBlock(d, PlaceOnLastPage(d, a, w, h, byDefault))
         /\ d.stamps = <<>> => Honest(d, a, w, h, byDefault, PlaceOnLastPage(d, a, w, h, byDefault))
<1> DEFINE p == Len(d.pages)
           g == d.pages[p]
           bands == Bands(d, p)
           text == TextBandRects(g, bands)
           s == LastPageSearch(d, w, h, byDefault)
           slots == Slots(g, text, s)
           slot == First(slots)
           q == PlaceOnLastPage(d, a, w, h, byDefault)
           rescue == RescueWithGenericAnchor(d, a, w, h)
           pages == PagesWithRoom(d, w, h, p)
           review == Review(p, "no_free_slot", pages)
           source == IF slot.y = s.v THEN "reserved-gap" ELSE "free-space"
           clearance == Clearance(slot, text)
           settled == Settled(d, p, slot, source, clearance, pages)
<1> SUFFICES /\ SaysReserved(q) => OnBlock(d, q)
             /\ d.stamps = <<>> => Honest(d, a, w, h, byDefault, q)
  OBVIOUS
<1>1. p \in DOMAIN d.pages
  BY DEF PaperOK
<1>2. Sheet(g) /\ Search(s)
  BY <1>1, SheetOfPage, LastPageSearchIs
<1>3. \A b \in bands : BandOK(b)
  BY BandsAre
<1>4. CASE text = {}
  <2>1. q = None
    BY <1>4 DEF PlaceOnLastPage
  <2> HIDE DEF q
  <2>2. Plain(q)
    BY <2>1, NonePlain
  <2> QED
    BY <2>2, PlainIsHonest DEF Plain
<1>5. CASE text # {}
  <2>1. q = IF slot = None THEN Otherwise(rescue, review) ELSE settled
    BY <1>5 DEF PlaceOnLastPage
  <2>2. CASE slot = None
    <3>1. NothingIsRoomy(g, s, text)
      <4> HIDE DEF s, text
      <4>1. FreeOf(g, text, s) = {}
        BY <1>2, <1>5, <2>2, NothingFound
      <4>2. Rectangles(text)
        BY <1>2, <1>3, TextIs DEF text
      <4> QED
        BY <1>2, <4>1, <4>2, RoomIsFound DEF NothingIsRoomy
    <3>2. d.stamps = <<>> => Obstacles(d, p) = text /\ SearchOn(d, a, p, w, h, byDefault) = s
      <4> SUFFICES ASSUME d.stamps = <<>>
                   PROVE  Obstacles(d, p) = text /\ SearchOn(d, a, p, w, h, byDefault) = s
        OBVIOUS
      <4>1. Stamps(d, p) = {}
        BY DEF Stamps, Range
      <4>2. StampRects(d, p) = {}
        BY <4>1 DEF StampRects
      <4> QED
        BY <4>2 DEF Obstacles, SearchOn
    <3>3. \A o \in pages : HasRoom(d, o, w, h)
      BY PagesHaveRoom
    <3> HIDE DEF s, text, pages
    <3>4. review.page = p /\ review.alsoFits = pages /\ review.status = "needs_review"
      BY DEF Review
    <3>5. ~SaysReserved(review) /\ (d.stamps = <<>> => Honest(d, a, w, h, byDefault, review))
      <4> HIDE DEF review
      <4> QED
        BY <3>1, <3>2, <3>3, <3>4 DEF Honest, Full, SaysFull, SaysReserved
    <3>6. Plain(rescue)
      BY RescueIsPlain
    <3>7. q = Otherwise(rescue, review)
      BY <2>1, <2>2
    <3> HIDE DEF rescue, review, q
    <3>8. q = rescue \/ q = review
      BY <3>7 DEF Otherwise
    <3> QED
      BY <3>5, <3>6, <3>8, PlainIsHonest DEF Plain
  <2>3. CASE slot # None
    <3>1. slot \in slots /\ slots \subseteq FreeOf(g, text, s)
      <4>1. slots \subseteq FreeOf(g, text, s)
        <5> HIDE DEF s, text
        <5> QED
          BY <1>5, SlotsAre
      <4> HIDE DEF slots
      <4> QED
        BY <2>3, <4>1, FirstIs
    <3>2. q = settled
      BY <2>1, <2>3
    <3> HIDE DEF slot, slots, q, text, s
    <3>3. IsFree(slot, text) /\ Rectangle(slot)
      BY <1>2, <3>1, SlotIs DEF slots
    <3>4. CASE slot.y # s.v
      <4>1. source # "reserved-gap"
        BY <3>4
      <4> HIDE DEF source, clearance, pages
      <4>2. Plain(settled)
        BY <4>1, SettledIsPlain
      <4> HIDE DEF settled
      <4> QED
        BY <3>2, <4>2, PlainIsHonest DEF Plain
    <3>5. CASE slot.y = s.v
      <4>1. s.v = ReservedGapV(text, h)
        BY LastPageSearchIs DEF LastPageSearch, s, text
      <4>2. 0 <= slot.x /\ slot.x + slot.w <= OrientedW(g)
        <5>1. PICK u \in FitsIn(g, text, s) : slot.x = u /\ slot.w = s.w
          BY <1>2, <3>1, TriedIs
        <5>2. EdgeMargin \in Nat /\ OrientedW(g) \in Nat /\ s.w \in Nat
          BY <1>2, Lengths DEF Sheet, OrientedW, Search
        <5> QED
          BY <5>1, <5>2 DEF FitsIn
      <4>3. clearance = HalfGap /\ \E o \in text : Top(o) + HalfGap = slot.y
        <5>1. ReservedGapV(text, h) = slot.y
          BY <3>5, <4>1
        <5>2. text = TextBandRects(g, bands)
          BY DEF text
        <5> HIDE DEF g, bands
        <5> QED
          BY <1>2, <1>3, <3>3, <4>2, <5>1, <5>2, StandsOnText
      <4>4. Plain(settled) \/ settled = Ok(d, p, slot, source, clearance)
        <5> DEFINE reason == VisibleSigRejection(RectFromCanonical(g, slot), g)
        <5>1. settled = IF reason # None THEN Review(p, reason, pages) ELSE Ok(d, p, slot, source, clearance)
          BY DEF Settled, Rejected
        <5>2. reason # None => Plain(Review(p, reason, pages))
          BY RefusalIsPlain
        <5> HIDE DEF reason, settled
        <5> QED
          BY <5>1, <5>2
      <4>5. ASSUME settled = Ok(d, p, slot, source, clearance)
            PROVE  OnBlock(d, q) /\ ~SaysFull(q)
        <5>1. q.page = p /\ q.rect = RectFromCanonical(g, slot) /\ q.clearance = clearance /\ q.status = "ok"
          BY <3>2, <4>5 DEF Ok
        <5>2. RectToCanonical(g, q.rect).y = slot.y
          BY <1>2, <3>3, <5>1, RoundTrip
        <5>3. TextBandRects(d.pages[q.page], Bands(d, q.page)) = text
          BY <5>1 DEF text
        <5> QED
          BY <4>3, <5>1, <5>2, <5>3 DEF OnBlock, SaysFull
      <4> HIDE DEF settled
      <4> QED
        BY <3>2, <4>4, <4>5, PlainIsHonest DEF Plain, Honest
    <3> QED
      BY <3>4, <3>5
  <2> QED
    BY <2>2, <2>3
<1> QED
  BY <1>4, <1>5

\* A document is signed when there is a signature on the page taken for it.
LEMMA SignedIs ==
  ASSUME NEW d, PaperOK(d)
  PROVE  /\ SignedPage(d) = None => d.stamps = <<>>
         /\ SignedPage(d) # None => /\ d.stamps # <<>> /\ SignedPage(d) \in DOMAIN d.pages
                                    /\ Obstacles(d, SignedPage(d)) # {}
<1> DEFINE S == {s.page : s \in Range(d.stamps)}
           p == SignedPage(d)
<1>1. d.stamps \in Seq(StampsOf(d))
  BY DEF PaperOK
<1>2. ASSUME p = None, d.stamps # <<>>
      PROVE  FALSE
  <2>1. 1 \in DOMAIN d.stamps
    BY <1>1, <1>2
  <2>2. d.stamps[1] \in Stamps(d, d.stamps[1].page)
    BY <2>1 DEF Stamps, Range
  <2> QED
    BY <1>2, <2>2, SignedPageIs
<1>3. ASSUME p # None
      PROVE  d.stamps # <<>> /\ p \in DOMAIN d.pages /\ Obstacles(d, p) # {}
  <2>1. p \in S
    <3>1. p = GreatestOf(S)
      BY DEF SignedPage
    <3> HIDE DEF S, p
    <3> QED
      BY <1>3, <3>1, GreatestOfIs
  <2>2. PICK s \in Range(d.stamps) : s.page = p
    BY <2>1
  <2> HIDE DEF p
  <2>3. s \in Stamps(d, p)
    BY <2>2 DEF Stamps
  <2>4. Obstacles(d, p) # {}
    BY <2>3 DEF Obstacles, StampRects
  <2>5. d.stamps # <<>>
    BY <2>2 DEF Range
  <2>6. p \in DOMAIN d.pages
    BY <1>3, SignedPageIs DEF p
  <2> QED
    BY <2>4, <2>5, <2>6
<1> HIDE DEF p
<1> QED
  BY <1>2, <1>3 DEF p

LEMMA OfferedIsHonest ==
  ASSUME NEW d, PaperOK(d), d.pages # <<>>, NEW a, a = None \/ a.v \in Int,
         NEW w \in Nat, NEW h \in Nat, NEW byDefault \in BOOLEAN
  PROVE  Honest(d, a, w, h, byDefault, Offered(d, a, w, h, byDefault))
<1> DEFINE signed == SignedPage(d)
           found == AntiOverlap(d, a, signed, w, h, byDefault)
           rescue == RescueWithGenericAnchor(d, a, w, h)
           last == PlaceOnLastPage(d, a, w, h, byDefault)
           footer == FooterOfLastPage(d, w, h)
           preferred == IF a # None /\ a.kind # "firma-label" THEN TryAnchor(d, a, w, h, 1) ELSE None
           other == IF signed # None THEN OnSignedDocument(d, found, rescue, last)
                    ELSE IF Bands(d, Len(d.pages)) # {} THEN last
                    ELSE footer
           It(q) == Honest(d, a, w, h, byDefault, q)
<1>1. Offered(d, a, w, h, byDefault) = Otherwise(preferred, other)
  BY DEF Offered
<1>2. It(preferred)
  <2>1. preferred = None \/ preferred = TryAnchor(d, a, w, h, 1)
    OBVIOUS
  <2> HIDE DEF preferred
  <2>2. Plain(preferred)
    BY <2>1, AnchorIsPlain, NonePlain
  <2> QED
    BY <2>2, PlainIsHonest
<1>3. CASE signed # None
  <2>1. It(found)
    BY <1>3, SignedIs, AntiOverlapIsHonest
  <2>2. It(rescue)
    BY RescueIsPlain, PlainIsHonest
  <2>3. SaysReserved(last) => OnBlock(d, last)
    BY LastPageIsHonest
  <2>4. other = OnSignedDocument(d, found, rescue, last)
    BY <1>3
  <2> HIDE DEF found, rescue, last, other
  <2>5. other \in {found, rescue} \/ (other = last /\ SaysReserved(last) /\ ~SaysFull(last))
    BY <2>4 DEF OnSignedDocument, Otherwise, SaysReserved, SaysFull
  <2>6. It(other)
    <3>1. SaysReserved(last) /\ ~SaysFull(last) => It(last)
      BY <2>3 DEF Honest
    <3> QED
      BY <2>1, <2>2, <2>5, <3>1
  <2> HIDE DEF It, preferred
  <2>7. It(Otherwise(preferred, other))
    BY <1>2, <2>6 DEF Otherwise
  <2> QED
    BY <1>1, <2>7 DEF It
<1>4. CASE signed = None
  <2>1. d.stamps = <<>>
    BY <1>4, SignedIs
  <2>2. It(last)
    BY <2>1, LastPageIsHonest
  <2>3. It(footer)
    <3>1. Plain(footer)
      BY SettledIsPlain DEF FooterOfLastPage
    <3> QED
      BY <3>1, PlainIsHonest
  <2> HIDE DEF last, footer, It
  <2>4. It(other)
    BY <1>4, <2>2, <2>3
  <2> HIDE DEF other, preferred
  <2>5. It(Otherwise(preferred, other))
    BY <1>2, <2>4 DEF Otherwise
  <2> QED
    BY <1>1, <2>5 DEF It
<1> QED
  BY <1>3, <1>4

LEMMA FieldIsPlain ==
  ASSUME NEW d
  PROVE  Plain(EmptyField(d))
<1> DEFINE f == Head(d.fields)
           g == d.pages[f.page]
           reason == VisibleSigRejection(f, g)
           q == [status |-> "ok", page |-> f.page, rect |-> [x |-> f.x, y |-> f.y, w |-> f.w, h |-> f.h],
                 source |-> "empty-field", clearance |-> None]
<1>1. EmptyField(d) = IF reason # None THEN Review(f.page, reason, {}) ELSE q
  BY DEF EmptyField
<1>2. Plain(q)
  BY DEF Plain, SaysFull, SaysReserved
<1>3. reason # None => Plain(Review(f.page, reason, {}))
  BY RefusalIsPlain
<1> HIDE DEF reason, q
<1> QED
  BY <1>1, <1>2, <1>3

LEMMA AnalysisIsHonest ==
  ASSUME NEW d, PaperOK(d), NEW a \in Anchors \cup {None}
  PROVE  Honest(d, SanitizedAnchor(d, a), AskedW(a), AskedH(a), ByDefault(a), AnalyzeForPreflight(d, a))
<1> DEFINE b == SanitizedAnchor(d, a)
           w == AskedW(a)
           h == AskedH(a)
           byDefault == ByDefault(a)
           q == ComputeAutoPlacement(d, a)
           It(r) == Honest(d, b, w, h, byDefault, r)
<1>1. CASE d.pages = <<>>
  <2>1. d.failure \in {"encrypted", "unreadable"}
    BY <1>1 DEF PaperOK
  <2>2. Plain(Review(1, d.failure, {}))
    BY <2>1 DEF Plain, SaysFull, SaysReserved, Review
  <2>3. AnalyzeForPreflight(d, a) = Review(1, d.failure, {})
    BY <1>1 DEF AnalyzeForPreflight
  <2> QED
    BY <2>2, <2>3, PlainIsHonest
<1>2. CASE d.pages # <<>>
  <2>1. (b = None \/ b.v \in Int) /\ w \in Nat /\ h \in Nat /\ byDefault \in BOOLEAN
    BY AskedIs DEF SanitizedAnchor
  <2>2. q = IF d.fields # <<>> THEN EmptyField(d) ELSE Offered(d, b, w, h, byDefault)
    BY DEF ComputeAutoPlacement
  <2> HIDE DEF b, w, h, byDefault, q
  <2>3. It(Offered(d, b, w, h, byDefault))
    BY <1>2, <2>1, OfferedIsHonest
  <2>4. It(EmptyField(d))
    BY FieldIsPlain, PlainIsHonest
  <2> HIDE DEF It
  <2>5. It(q)
    BY <2>2, <2>3, <2>4
  <2>6. It(Screened(d, q))
    <3> DEFINE r == Review(q.page, "empty_field_conflicts_with_prior_signature", {})
    <3>1. Plain(r)
      BY DEF Plain, SaysFull, SaysReserved, Review
    <3>2. It(r)
      BY <3>1, PlainIsHonest DEF It
    <3>3. Screened(d, q) = q \/ Screened(d, q) = r
      BY DEF Screened
    <3> HIDE DEF r
    <3> QED
      BY <2>5, <3>2, <3>3
  <2>7. AnalyzeForPreflight(d, a) = Screened(d, q)
    BY <1>2 DEF AnalyzeForPreflight, q
  <2> QED
    BY <2>6, <2>7 DEF It, b, w, h, byDefault
<1> QED
  BY <1>1, <1>2

\* What is offered is what the analysis finds in the document as it is.
AnalysisIsCurrent == analysis = None \/ analysis = AnalyzeForPreflight(paper, anchor)

AnalysisOK == PlacementOK /\ AnalysisIsCurrent

LEMMA AnalysisKeeps == AnalysisOK /\ [PlacementNext]_placementVars => AnalysisOK'
<1> SUFFICES ASSUME AnalysisOK, [PlacementNext]_placementVars
             PROVE  AnalysisOK'
  OBVIOUS
<1>1. PlacementOK'
  BY PlacementKeeps DEF AnalysisOK
<1>2. CASE Analyze
  BY <1>1, <1>2 DEF AnalysisOK, AnalysisIsCurrent, Analyze
<1>3. CASE Propagate
  BY <1>1, <1>3 DEF AnalysisOK, AnalysisIsCurrent, Propagate
<1>4. CASE Sign
  BY <1>1, <1>4 DEF AnalysisOK, AnalysisIsCurrent, Sign
<1>5. CASE UNCHANGED placementVars
  BY <1>1, <1>5 DEF AnalysisOK, AnalysisIsCurrent, placementVars
<1> QED
  BY <1>2, <1>3, <1>4, <1>5 DEF PlacementNext

LEMMA AnalysisStarts == PlacementInit => AnalysisOK
BY PlacementStarts DEF PlacementInit, AnalysisOK, AnalysisIsCurrent

LEMMA CurrentIsHonest ==
  ASSUME AnalysisOK
  PROVE  Honest(paper, SanitizedAnchor(paper, anchor), AskedW(anchor), AskedH(anchor), ByDefault(anchor), analysis)
<1>1. CASE analysis = None
  BY <1>1, NonePlain, PlainIsHonest
<1>2. CASE analysis # None
  BY <1>2, AnalysisIsHonest DEF AnalysisOK, AnalysisIsCurrent, PlacementOK
<1> QED
  BY <1>1, <1>2

\* A page whose text is known is said to be full only if no place of the box between
\* its margins is free and a gap away from what is on its left (the position preferred
\* may not be below the margin), and every other page offered has room where a
\* signature may be written: for any pages, text, stamps, sizes and position
\* preferred. The search tries few places, but any with room slides to one of them,
\* to the left and then down.
THEOREM FullForGood == PlacementSpec => []FullMeansFull
<1>1. PlacementInit => AnalysisOK
  BY AnalysisStarts
<1>2. AnalysisOK /\ [PlacementNext]_placementVars => AnalysisOK'
  BY AnalysisKeeps
<1>3. AnalysisOK => FullMeansFull
  <2> SUFFICES ASSUME AnalysisOK, SaysFull(analysis)
               PROVE  /\ NothingIsRoomy(paper.pages[analysis.page], SearchOf(paper, anchor, analysis.page),
                                        Obstacles(paper, analysis.page))
                      /\ \A q \in analysis.alsoFits : HasRoom(paper, q, AskedW(anchor), AskedH(anchor))
    BY DEF FullMeansFull, SaysFull
  <2> DEFINE s == SearchOn(paper, SanitizedAnchor(paper, anchor), analysis.page, AskedW(anchor),
        AskedH(anchor),
                           ByDefault(anchor))
  <2>1. Full(paper, s, AskedW(anchor), AskedH(anchor), analysis)
    BY CurrentIsHonest DEF Honest
  <2>2. SearchOf(paper, anchor, analysis.page) = s
    BY DEF SearchOf, SearchOn
  <2> HIDE DEF s
  <2> QED
    BY <2>1, <2>2 DEF Full
<1> QED
  BY <1>1, <1>2, <1>3, PTL DEF PlacementSpec

\* A signature in the space that a document left for it stands right on the block of
\* text below, half a gap over a band, whatever the rotation and crop of the page and
\* the sizes: it is placed in the coordinates of the reader and written in those of the file.
THEOREM GapStandsForGood == PlacementSpec => []ReservedGapStandsOnTheBlock
<1>1. PlacementInit => AnalysisOK
  BY AnalysisStarts
<1>2. AnalysisOK /\ [PlacementNext]_placementVars => AnalysisOK'
  BY AnalysisKeeps
<1>3. AnalysisOK => ReservedGapStandsOnTheBlock
  <2> SUFFICES ASSUME AnalysisOK, Placed, analysis.source = "reserved-gap"
               PROVE  OnBlock(paper, analysis)
    BY DEF ReservedGapStandsOnTheBlock, OnBlock
  <2>1. SaysReserved(analysis)
    BY DEF Placed, SaysReserved
  <2> QED
    BY <2>1, CurrentIsHonest DEF Honest
<1> QED
  BY <1>1, <1>2, <1>3, PTL DEF PlacementSpec

=============================================================================
