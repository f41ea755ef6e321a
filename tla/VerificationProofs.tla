--------------------------- MODULE VerificationProofs ---------------------------
(***************************************************************************)
(* Theorems about a verification, for any number of requests, documents,   *)
(* signatures and revocations and every value of the limits: its admission *)
(* by verify-api, the document in the worker of the page, and the verdict  *)
(* on a signature.                                                         *)
(***************************************************************************)
EXTENDS VerifyAdmission, VerifyBus, SignatureVerdict, TLAPS, FiniteSetTheorems, SequenceTheorems,
        WellFoundedInduction

-----------------------------------------------------------------------------
(* The admission of requests.                                              *)

Keyed(r) == req[r].idem # NoIdemKey
SlotOf(r) == Slot(req[r].key, req[r].idem)
Requested == [key : ApiKeys, idem : IdemKeys \cup {NoIdemKey}, doc : Docs, at : 0..LastMinute]

AdmissionTypes ==
  /\ AdmissionTypeOK
  /\ IsFiniteSet(DOMAIN entries)
  /\ req \in [VerifyRequests -> Requested \cup {NoRequest}]
  /\ \A r \in VerifyRequests :
       IF step[r] = "new"
       THEN req[r] = NoRequest /\ chargedAt[r] = -1 /\ value[r] = NoValue
       ELSE req[r] \in Requested /\ req[r].at <= minute
  /\ \A r \in VerifyRequests : step[r] \in InProgress => req[r].at >= minute - 2

\* The buckets count what was charged in their windows.
DayOf(t) == {m \in 0..LastMinute : Day(m) = Day(t)}

BucketAt(k, w) ==
  /\ w <= minute
  /\ minuteUse[k].window = w /\ minuteUse[k].count = ChargedIn(k, {w})
  /\ dayUse[k].window = Day(w) /\ dayUse[k].count = ChargedIn(k, DayOf(w))
  /\ \A r \in VerifyRequests : req[r].key = k => chargedAt[r] <= w

PlanKept(k) ==
  \A t \in 0..LastMinute : ChargedIn(k, {t}) <= PerMinute /\ ChargedIn(k, DayOf(t)) <= PerDay

BucketsCount ==
  /\ \A r \in VerifyRequests : chargedAt[r] \in {-1, req[r].at}
  /\ \A k \in ApiKeys : (\E w \in 0..LastMinute : BucketAt(k, w)) /\ PlanKept(k)

\* A result is about the document of its request.
ResultsAreOwn ==
  \A r \in VerifyRequests :
    /\ step[r] \in {"new", "charged", "running", "refused"} => value[r] = NoValue
    /\ step[r] = "ended" => value[r].kind \in Kinds
    /\ value[r] # NoValue => value[r].doc = req[r].doc /\ value[r].at >= req[r].at

\* And so is what is stored, which expires no later than its result is old.
StoredIsOwn ==
  \A s \in DOMAIN entries :
    /\ entries[s].state = "done" => /\ entries[s].value.doc = entries[s].doc
                                    /\ entries[s].expires <= entries[s].value.at + MinutesPerDay
    /\ entries[s].place <= inserted
    /\ entries[s].expires <= minute + MinutesPerDay

AdmissionCore ==
  /\ AdmissionTypes /\ BucketsCount /\ ResultsAreOwn /\ StoredIsOwn
  /\ SlotsMatchRuns /\ OwnDocument /\ NoStuckReservation

\* As long as the store is not over its capacity.
NotFull == Cardinality(DOMAIN entries) <= MaxEntries

Holds(r) == SlotOf(r) \in DOMAIN entries /\ entries[SlotOf(r)].expires = req[r].at + MinutesPerDay

\* A request at work has its reservation, and one that was paid its answer,
\* for as long as answers are kept.
ReservedOrStored ==
  \A r \in VerifyRequests : Keyed(r) =>
    /\ step[r] \in InProgress => Holds(r) /\ entries[SlotOf(r)].state = "in_flight"
    /\ step[r] = "answered" /\ Paid(r) =>
         \/ minute >= req[r].at + MinutesPerDay
         \/ Holds(r) /\ entries[SlotOf(r)].state = "done"

\* Of the requests with one key, those that pay are a day apart.
Claims(r) == step[r] \in InProgress \/ (step[r] = "answered" /\ Paid(r))

ClaimsAreApart ==
  \A q, r \in VerifyRequests : Retries(q, r) /\ Claims(q) /\ Claims(r) /\ req[q].at <= req[r].at =>
    req[r].at >= req[q].at + MinutesPerDay

\* What was inserted later expires later.
OldestExpireFirst ==
  \A s, t \in DOMAIN entries : entries[s].place <= entries[t].place => entries[s].expires <= entries[t].expires

KeysCore == ReservedOrStored /\ ClaimsAreApart /\ OldestExpireFirst

-----------------------------------------------------------------------------

LEMMA LeastOf ==
  ASSUME NEW S \in SUBSET Nat, S # {}
  PROVE  \E m \in S : \A n \in S : m <= n
<1>1. PICK m \in S : \A n \in S : ~(<<n, m>> \in OpToRel(<, Nat))
  BY NatLessThanWellFounded, WFMin
<1>2. \A n \in S : n \in Nat /\ m \in Nat /\ ~(n < m)
  BY <1>1, Zenon DEF OpToRel
<1>3. \A n \in S : m <= n
  BY <1>2
<1> QED
  BY <1>1, <1>3

LEMMA DaysFollow ==
  ASSUME NEW t \in Nat, NEW u \in Nat, t <= u
  PROVE  Day(t) <= Day(u) /\ Day(t) \in Nat /\ Day(u) \in Nat
BY AdmissionAssumption DEF Day

\* What is charged to a key is a finite number of requests.
LEMMA ChargedIsFinite ==
  ASSUME NEW k, NEW minutes
  PROVE  IsFiniteSet({r \in VerifyRequests : req[r].key = k /\ chargedAt[r] \in minutes})
BY FS_Subset, AdmissionAssumption

-----------------------------------------------------------------------------
(* The store.                                                              *)

LEMMA EvictedIsPart ==
  ASSUME NEW es
  PROVE  /\ DOMAIN Evicted(es) \subseteq DOMAIN es
         /\ \A s \in DOMAIN Evicted(es) : Evicted(es)[s] = es[s]
<1>1. DOMAIN Swept(es) = Newest(es, Live(es)) /\ DOMAIN Swept(es) \subseteq DOMAIN es
  BY DEF Swept, Newest, Live
<1>2. \A s \in DOMAIN Swept(es) : Swept(es)[s] = es[s]
  BY DEF Swept
<1> QED
  BY <1>1, <1>2 DEF Evicted

\* As long as the store is not full, nothing leaves it before its time.
LEMMA EvictedKeeps ==
  ASSUME NEW es, IsFiniteSet(DOMAIN es), Cardinality(DOMAIN es) <= MaxEntries,
         NEW s \in DOMAIN es, es[s].expires > minute, es[s].place \in Nat
  PROVE  s \in DOMAIN Evicted(es)
<1>1. s \in Live(es) /\ IsFiniteSet(Live(es)) /\ Cardinality(Live(es)) <= Cardinality(DOMAIN es)
  BY FS_Subset DEF Live
<1> DEFINE later == {t \in Live(es) : es[t].place > es[s].place}
<1>2. later \subseteq Live(es) \ {s}
  OBVIOUS
<1>3. /\ IsFiniteSet(Live(es) \ {s})
      /\ Cardinality(Live(es) \ {s}) = Cardinality(Live(es)) - 1
  BY <1>1, FS_RemoveElement
<1>4. Cardinality(later) <= Cardinality(Live(es) \ {s}) /\ Cardinality(later) \in Nat
  BY <1>2, <1>3, FS_Subset, FS_CardinalityType
<1>5. Cardinality(DOMAIN es) \in Nat /\ Cardinality(Live(es)) \in Nat /\ MaxEntries \in Nat
  BY <1>1, FS_CardinalityType, AdmissionAssumption
<1>6. s \in Newest(es, Live(es))
  BY <1>1, <1>3, <1>4, <1>5 DEF Newest
<1> QED
  BY <1>6 DEF Evicted, Swept

\* What is left after a sweep has not expired, as long as the oldest expires first.
LEMMA EvictedIsFresh ==
  ASSUME NEW es, \A s \in DOMAIN es : es[s].place \in Nat /\ es[s].expires \in Nat, minute \in Nat,
         \A s, t \in DOMAIN es : es[s].place <= es[t].place => es[s].expires <= es[t].expires,
         NEW s \in DOMAIN Evicted(es)
  PROVE  Evicted(es)[s].expires > minute
<1>1. CASE Evicted(es) = Swept(es)
  BY <1>1 DEF Swept, Newest, Live
<1>2. CASE Evicted(es) = es /\ \A t \in DOMAIN es : IsOldest(es, t) => es[t].expires > minute
  <2> DEFINE places == {es[t].place : t \in DOMAIN es}
  <2>1. places \in SUBSET Nat /\ places # {}
    BY <1>2
  <2>2. PICK m \in places : \A n \in places : m <= n
    BY <2>1, LeastOf
  <2>3. PICK t \in DOMAIN es : es[t].place = m
    BY <2>2
  <2>4. IsOldest(es, t)
    BY <2>2, <2>3 DEF IsOldest
  <2>5. es[t].expires > minute /\ es[t].expires <= es[s].expires
    BY <1>2, <2>2, <2>3, <2>4
  <2> QED
    BY <1>2, <2>3, <2>5
<1> QED
  BY <1>1, <1>2 DEF Evicted

-----------------------------------------------------------------------------
(* The first facts.                                                        *)

LEMMA AdmissionInitCore == AdmissionInit => AdmissionCore /\ KeysCore
<1> SUFFICES ASSUME AdmissionInit PROVE AdmissionCore /\ KeysCore
  OBVIOUS
<1> USE AdmissionAssumption DEF AdmissionInit
<1>1. DOMAIN entries = {}
  OBVIOUS
<1>2. NoValue \in Values
  BY DEF NoValue, Values, Answers
<1>3. Day(0) = 0
  BY DEF Day
<1>4. AdmissionTypeOK
  <2>1. minute \in 0..LastMinute /\ inserted \in Nat
    OBVIOUS
  <2>2. /\ minuteUse \in [ApiKeys -> [window : 0..LastMinute, count : 0..PerMinute]]
        /\ dayUse \in [ApiKeys -> [window : Nat, count : 0..PerDay]]
        /\ slotsTaken \in [ApiKeys -> 0..MaxConcurrent]
    OBVIOUS
  <2>3. /\ step \in [VerifyRequests -> Steps]
        /\ value \in [VerifyRequests -> Values]
        /\ told \in [VerifyRequests -> Values]
        /\ chargedAt \in [VerifyRequests -> -1..LastMinute]
    BY <1>2 DEF Steps
  <2> QED
    BY <1>1, <2>1, <2>2, <2>3 DEF AdmissionTypeOK
<1>5. AdmissionTypes
  BY <1>1, <1>4, FS_EmptySet DEF AdmissionTypes, InProgress
<1>6. \A k, minutes : minutes \subseteq Nat => ChargedIn(k, minutes) = 0
  <2> SUFFICES ASSUME NEW k, NEW minutes \in SUBSET Nat PROVE ChargedIn(k, minutes) = 0
    OBVIOUS
  <2>1. {r \in VerifyRequests : req[r].key = k /\ chargedAt[r] \in minutes} = {}
    OBVIOUS
  <2> QED
    BY <2>1, FS_EmptySet DEF ChargedIn
<1>7. BucketsCount
  <2>1. \A t : DayOf(t) \subseteq Nat
    BY DEF DayOf
  <2>2. \A t \in 0..LastMinute : {t} \subseteq Nat
    OBVIOUS
  <2>3. ASSUME NEW k \in ApiKeys PROVE BucketAt(k, 0) /\ PlanKept(k)
    <3>1. ChargedIn(k, {0}) = 0 /\ ChargedIn(k, DayOf(0)) = 0
      BY <1>6, <2>1
    <3>2. \A t \in 0..LastMinute : ChargedIn(k, {t}) = 0 /\ ChargedIn(k, DayOf(t)) = 0
      BY <1>6, <2>1, <2>2
    <3>3. PlanKept(k)
      BY <3>2 DEF PlanKept
    <3>4. BucketAt(k, 0)
      <4>1. 0 <= minute /\ \A r \in VerifyRequests : chargedAt[r] <= 0
        OBVIOUS
      <4>2. /\ minuteUse[k].window = 0 /\ minuteUse[k].count = 0
            /\ dayUse[k].window = 0 /\ dayUse[k].count = 0
        OBVIOUS
      <4> QED
        BY <1>3, <3>1, <4>1, <4>2 DEF BucketAt
    <3> QED
      BY <3>3, <3>4
  <2> QED
    BY <2>3 DEF BucketsCount
<1>8. ResultsAreOwn /\ StoredIsOwn
  BY <1>1 DEF ResultsAreOwn, StoredIsOwn
<1>9. SlotsMatchRuns
  <2>1. \A k : {r \in VerifyRequests : step[r] = "running" /\ req[r].key = k} = {}
    OBVIOUS
  <2> QED
    BY <2>1, FS_EmptySet DEF SlotsMatchRuns
<1>10. OwnDocument /\ NoStuckReservation
  BY <1>1 DEF OwnDocument, NoStuckReservation
<1>11. KeysCore
  BY <1>1 DEF KeysCore, ReservedOrStored, ClaimsAreApart, OldestExpireFirst, Claims, InProgress
<1> QED
  BY <1>5, <1>7, <1>8, <1>9, <1>10, <1>11 DEF AdmissionCore

-----------------------------------------------------------------------------
(* The quota.                                                              *)

\* A charge adds one to what is charged to its key in its minute.
LEMMA ChargedAfter ==
  ASSUME AdmissionTypes, NEW r \in VerifyRequests, step[r] = "new", NEW key \in ApiKeys,
         NEW q \in Requested, q.key = key, req' = [req EXCEPT ![r] = q], Consume(r, key)
  PROVE  \A k : \A minutes \in SUBSET Nat :
           /\ ChargedIn(k, minutes) \in Nat
           /\ (k = key /\ HasQuota(key) /\ minute \in minutes) =>
                ChargedIn(k, minutes)' = ChargedIn(k, minutes) + 1
           /\ ~(k = key /\ HasQuota(key) /\ minute \in minutes) =>
                ChargedIn(k, minutes)' = ChargedIn(k, minutes)
<1> SUFFICES ASSUME NEW k, NEW minutes \in SUBSET Nat
             PROVE  /\ ChargedIn(k, minutes) \in Nat
                    /\ (k = key /\ HasQuota(key) /\ minute \in minutes) =>
                         ChargedIn(k, minutes)' = ChargedIn(k, minutes) + 1
                    /\ ~(k = key /\ HasQuota(key) /\ minute \in minutes) =>
                         ChargedIn(k, minutes)' = ChargedIn(k, minutes)
  OBVIOUS
<1> DEFINE C == {x \in VerifyRequests : req[x].key = k /\ chargedAt[x] \in minutes}
           D == {x \in VerifyRequests : req'[x].key = k /\ chargedAt'[x] \in minutes}
<1>1. /\ chargedAt' = [chargedAt EXCEPT ![r] = IF HasQuota(key) THEN minute ELSE -1]
      /\ chargedAt \in [VerifyRequests -> -1..LastMinute]
      /\ req \in [VerifyRequests -> Requested \cup {NoRequest}]
      /\ chargedAt[r] = -1 /\ minute \in Nat
  BY AdmissionAssumption DEF Consume, AdmissionTypes, AdmissionTypeOK
<1>2. r \notin C
  BY <1>1
<1>3. IsFiniteSet(C) /\ Cardinality(C) \in Nat
  BY ChargedIsFinite, FS_CardinalityType
<1>4. \A x \in VerifyRequests : x # r => (x \in D <=> x \in C)
  BY <1>1
<1>5. r \in D <=> k = key /\ HasQuota(key) /\ minute \in minutes
  BY <1>1
<1>6. CASE k = key /\ HasQuota(key) /\ minute \in minutes
  <2>1. D = C \cup {r}
    BY <1>4, <1>5, <1>6
  <2>2. Cardinality(D) = Cardinality(C) + 1
    BY <1>2, <1>3, <2>1, FS_AddElement
  <2> QED
    BY <1>3, <1>6, <2>2 DEF ChargedIn
<1>7. CASE ~(k = key /\ HasQuota(key) /\ minute \in minutes)
  <2>1. D = C
    BY <1>2, <1>4, <1>5, <1>7
  <2>2. Cardinality(D) = Cardinality(C)
    BY <2>1
  <2> QED
    BY <1>3, <1>7, <2>2 DEF ChargedIn
<1> QED
  BY <1>6, <1>7

\* Nothing was charged in a window the bucket has not seen.
LEMMA BucketsAreCounts ==
  ASSUME AdmissionTypes, BucketsCount, NEW key \in ApiKeys
  PROVE  /\ Count(minuteUse[key], minute) = ChargedIn(key, {minute})
         /\ Count(dayUse[key], Day(minute)) = ChargedIn(key, DayOf(minute))
<1>0. PICK w \in 0..LastMinute : BucketAt(key, w)
  BY DEF BucketsCount
<1>1. /\ minute \in 0..LastMinute /\ w \in 0..LastMinute /\ w <= minute
      /\ dayUse[key].window = Day(w) /\ LastMinute \in Nat
      /\ minuteUse[key].window = w /\ minuteUse[key].count = ChargedIn(key, {w})
      /\ dayUse[key].count = ChargedIn(key, DayOf(w))
      /\ \A x \in VerifyRequests : req[x].key = key => chargedAt[x] <= w
      /\ chargedAt \in [VerifyRequests -> -1..LastMinute]
  BY <1>0, AdmissionAssumption DEF AdmissionTypes, AdmissionTypeOK, BucketAt
<1>2. Count(minuteUse[key], minute) = ChargedIn(key, {minute})
  <2>1. CASE w = minute
    BY <1>1, <2>1 DEF Count
  <2>2. CASE w # minute
    <3>1. {x \in VerifyRequests : req[x].key = key /\ chargedAt[x] \in {minute}} = {}
      BY <1>1, <2>2
    <3> QED
      BY <1>1, <2>2, <3>1, FS_EmptySet DEF Count, ChargedIn
  <2> QED
    BY <2>1, <2>2
<1>3. Count(dayUse[key], Day(minute)) = ChargedIn(key, DayOf(minute))
  <2>1. CASE Day(w) = Day(minute)
    BY <1>1, <2>1 DEF Count, DayOf
  <2>2. CASE Day(w) # Day(minute)
    <3>1. ASSUME NEW x \in VerifyRequests, req[x].key = key, chargedAt[x] \in DayOf(minute)
          PROVE  FALSE
      <4>1. chargedAt[x] \in Nat /\ chargedAt[x] <= w /\ w \in Nat /\ minute \in Nat
            /\ Day(chargedAt[x]) = Day(minute)
        BY <1>1, <3>1 DEF DayOf
      <4>2. Day(chargedAt[x]) <= Day(w) /\ Day(w) <= Day(minute)
            /\ Day(w) \in Nat /\ Day(minute) \in Nat
        BY <1>1, <4>1, DaysFollow
      <4> QED
        BY <2>2, <4>1, <4>2
    <3>2. {x \in VerifyRequests : req[x].key = key /\ chargedAt[x] \in DayOf(minute)} = {}
      BY <3>1
    <3> QED
      BY <1>1, <2>2, <3>2, FS_EmptySet DEF Count, ChargedIn
  <2> QED
    BY <2>1, <2>2
<1> QED
  BY <1>2, <1>3

LEMMA ConsumeCounts ==
  ASSUME AdmissionTypes, BucketsCount, NEW r \in VerifyRequests, step[r] = "new",
         NEW key \in ApiKeys, NEW q \in Requested, q.key = key, q.at = minute,
         req' = [req EXCEPT ![r] = q], Consume(r, key), minute' = minute
  PROVE  /\ BucketsCount'
         /\ minuteUse' \in [ApiKeys -> [window : 0..LastMinute, count : 0..PerMinute]]
         /\ dayUse' \in [ApiKeys -> [window : Nat, count : 0..PerDay]]
         /\ chargedAt' \in [VerifyRequests -> -1..LastMinute]
<1> DEFINE one == IF HasQuota(key) THEN 1 ELSE 0
           perMinute == ChargedIn(key, {minute}) + one
           perDay == ChargedIn(key, DayOf(minute)) + one
<1>1. /\ minute \in 0..LastMinute /\ LastMinute \in Nat /\ PerMinute \in Nat /\ PerDay \in Nat
      /\ minuteUse \in [ApiKeys -> [window : 0..LastMinute, count : 0..PerMinute]]
      /\ dayUse \in [ApiKeys -> [window : Nat, count : 0..PerDay]]
      /\ chargedAt \in [VerifyRequests -> -1..LastMinute]
      /\ req \in [VerifyRequests -> Requested \cup {NoRequest}]
  BY AdmissionAssumption DEF AdmissionTypes, AdmissionTypeOK
<1>0. \A k : \A minutes \in SUBSET Nat :
        /\ ChargedIn(k, minutes) \in Nat
        /\ (k = key /\ HasQuota(key) /\ minute \in minutes) =>
             ChargedIn(k, minutes)' = ChargedIn(k, minutes) + 1
        /\ ~(k = key /\ HasQuota(key) /\ minute \in minutes) =>
             ChargedIn(k, minutes)' = ChargedIn(k, minutes)
  BY ChargedAfter
<1>2. /\ minuteUse' = [minuteUse EXCEPT ![key] = [window |-> minute, count |-> perMinute]]
      /\ dayUse' = [dayUse EXCEPT ![key] = [window |-> Day(minute), count |-> perDay]]
      /\ chargedAt' = [chargedAt EXCEPT ![r] = IF HasQuota(key) THEN minute ELSE -1]
  BY BucketsAreCounts DEF Consume
<1>3. HasQuota(key) <=> /\ ChargedIn(key, DayOf(minute)) < PerDay
                        /\ ChargedIn(key, {minute}) < PerMinute
  BY BucketsAreCounts DEF HasQuota
<1>4. {minute} \in SUBSET Nat /\ DayOf(minute) \in SUBSET Nat /\ minute \in DayOf(minute)
  BY <1>1 DEF DayOf
<1>41. ASSUME NEW k \in ApiKeys, NEW t \in 0..LastMinute
       PROVE  /\ {t} \in SUBSET Nat /\ DayOf(t) \in SUBSET Nat
              /\ ChargedIn(k, {t}) \in 0..PerMinute /\ ChargedIn(k, DayOf(t)) \in 0..PerDay
  <2>1. {t} \in SUBSET Nat /\ DayOf(t) \in SUBSET Nat
    BY <1>1 DEF DayOf
  <2>2. ChargedIn(k, {t}) \in Nat /\ ChargedIn(k, DayOf(t)) \in Nat
    BY <1>0, <2>1
  <2>3. ChargedIn(k, {t}) <= PerMinute /\ ChargedIn(k, DayOf(t)) <= PerDay
    BY DEF BucketsCount, PlanKept
  <2> HIDE DEF DayOf
  <2> QED
    BY <1>1, <2>1, <2>2, <2>3
<1>6. perMinute \in 0..PerMinute /\ perDay \in 0..PerDay
  <2>1. /\ ChargedIn(key, {minute}) \in 0..PerMinute /\ ChargedIn(key, DayOf(minute)) \in 0..PerDay
    BY <1>1, <1>41
  <2> QED
    BY <1>1, <1>3, <2>1
<1>7. Day(minute) \in Nat
  BY <1>1, DaysFollow
<1>8. /\ minuteUse' \in [ApiKeys -> [window : 0..LastMinute, count : 0..PerMinute]]
      /\ dayUse' \in [ApiKeys -> [window : Nat, count : 0..PerDay]]
      /\ chargedAt' \in [VerifyRequests -> -1..LastMinute]
  <2> HIDE DEF perMinute, perDay
  <2> QED
    BY <1>1, <1>2, <1>6, <1>7
<1>9. ASSUME NEW x \in VerifyRequests PROVE chargedAt'[x] \in {-1, req'[x].at}
  BY <1>1, <1>2 DEF BucketsCount
<1>10. ASSUME NEW k \in ApiKeys, NEW t \in 0..LastMinute
       PROVE  ChargedIn(k, {t})' <= PerMinute /\ ChargedIn(k, DayOf(t))' <= PerDay
  <2>1. minute \in DayOf(t) => DayOf(t) = DayOf(minute)
    BY <1>1 DEF DayOf
  <2>2. /\ {t} \in SUBSET Nat /\ DayOf(t) \in SUBSET Nat
        /\ ChargedIn(k, {t}) \in 0..PerMinute /\ ChargedIn(k, DayOf(t)) \in 0..PerDay
    BY <1>41
  <2>5. ChargedIn(k, {t})' <= PerMinute
    <3>1. CASE k = key /\ HasQuota(key) /\ minute = t
      <4>1. ChargedIn(k, {t})' = ChargedIn(k, {t}) + 1
        BY <1>0, <2>2, <3>1
      <4>2. ChargedIn(k, {t}) < PerMinute
        BY <1>3, <3>1
      <4> QED
        BY <1>1, <2>2, <4>1, <4>2
    <3>2. CASE ~(k = key /\ HasQuota(key) /\ minute \in {t})
      <4>1. ChargedIn(k, {t})' = ChargedIn(k, {t})
        BY <1>0, <2>2, <3>2
      <4> QED
        BY <1>1, <2>2, <4>1
    <3> QED
      BY <3>1, <3>2
  <2>6. ChargedIn(k, DayOf(t))' <= PerDay
    <3>1. CASE k = key /\ HasQuota(key) /\ minute \in DayOf(t)
      <4>1. ChargedIn(k, DayOf(t))' = ChargedIn(k, DayOf(t)) + 1
        BY <1>0, <2>2, <3>1
      <4>2. ChargedIn(k, DayOf(t)) < PerDay
        BY <1>3, <2>1, <3>1
      <4> QED
        BY <1>1, <2>2, <4>1, <4>2
    <3>2. CASE ~(k = key /\ HasQuota(key) /\ minute \in DayOf(t))
      <4>1. ChargedIn(k, DayOf(t))' = ChargedIn(k, DayOf(t))
        BY <1>0, <2>2, <3>2
      <4> QED
        BY <1>1, <2>2, <4>1
    <3> QED
      BY <3>1, <3>2
  <2> QED
    BY <2>5, <2>6
<1>11. ASSUME NEW k \in ApiKeys
       PROVE  \E w \in 0..LastMinute : BucketAt(k, w)'
  <2>1. CASE k = key
    <3>1. PICK m \in 0..LastMinute : m = minute
      BY <1>1
    <3>2. minuteUse'[k] = [window |-> m, count |-> perMinute]
          /\ dayUse'[k] = [window |-> Day(m), count |-> perDay]
      BY <1>1, <1>2, <2>1, <3>1
    <3>3. ChargedIn(key, {m}) \in Nat /\ ChargedIn(key, DayOf(m)) \in Nat
      BY <1>0, <1>4, <3>1
    <3>4. ChargedIn(k, {m})' = perMinute /\ ChargedIn(k, DayOf(m))' = perDay
      BY <1>0, <1>4, <2>1, <3>1, <3>3
    <3>5. \A x \in VerifyRequests : req'[x].key = k => chargedAt'[x] <= m
      <4>1. PICK w \in 0..LastMinute : BucketAt(key, w)
        BY DEF BucketsCount
      <4>2. w <= m /\ \A x \in VerifyRequests : req[x].key = key => chargedAt[x] <= w
        BY <3>1, <4>1 DEF BucketAt
      <4>3. \A x \in VerifyRequests : req[x].key = k => chargedAt[x] <= m
        BY <1>1, <2>1, <4>2
      <4> QED
        BY <1>1, <1>2, <3>1, <4>3
    <3> HIDE DEF perMinute, perDay
    <3>6. m <= minute'
      BY <1>1, <3>1
    <3>7. BucketAt(k, m)'
      BY <3>2, <3>4, <3>5, <3>6 DEF BucketAt
    <3> QED
      BY <3>7
  <2>2. CASE k # key
    <3>1. PICK m \in 0..LastMinute : BucketAt(k, m)
      BY DEF BucketsCount
    <3>2. minuteUse'[k] = minuteUse[k] /\ dayUse'[k] = dayUse[k]
      BY <1>1, <1>2, <2>2
    <3>3. ChargedIn(k, {m})' = ChargedIn(k, {m}) /\ ChargedIn(k, DayOf(m))' = ChargedIn(k, DayOf(m))
      BY <1>0, <1>41, <2>2
    <3>4. \A x \in VerifyRequests : req'[x].key = k => req[x].key = k /\ chargedAt'[x] = chargedAt[x]
      BY <1>1, <1>2, <2>2
    <3>5. BucketAt(k, m)'
      BY <3>1, <3>2, <3>3, <3>4 DEF BucketAt
    <3> QED
      BY <3>5
  <2> QED
    BY <2>1, <2>2
<1> QED
  BY <1>8, <1>9, <1>10, <1>11 DEF BucketsCount, PlanKept

\* The buckets still count when nothing is charged.
LEMMA BucketsStay ==
  ASSUME AdmissionTypes, BucketsCount, UNCHANGED quotaVars, minute' \in Nat, minute <= minute',
         \A x \in VerifyRequests : chargedAt[x] = -1 \/ req'[x] = req[x]
  PROVE  BucketsCount'
<1>1. /\ minuteUse' = minuteUse /\ dayUse' = dayUse /\ chargedAt' = chargedAt
      /\ minute \in Nat /\ LastMinute \in Nat
      /\ chargedAt \in [VerifyRequests -> -1..LastMinute]
  BY AdmissionAssumption DEF quotaVars, AdmissionTypes, AdmissionTypeOK
<1>2. \A k : \A minutes \in SUBSET Nat : ChargedIn(k, minutes)' = ChargedIn(k, minutes)
  <2> SUFFICES ASSUME NEW k, NEW minutes \in SUBSET Nat
               PROVE  ChargedIn(k, minutes)' = ChargedIn(k, minutes)
    OBVIOUS
  <2>1. {x \in VerifyRequests : req'[x].key = k /\ chargedAt'[x] \in minutes}
          = {x \in VerifyRequests : req[x].key = k /\ chargedAt[x] \in minutes}
    BY <1>1
  <2> QED
    BY <2>1 DEF ChargedIn
<1>3. \A t \in 0..LastMinute : {t} \in SUBSET Nat /\ DayOf(t) \in SUBSET Nat
  BY <1>1 DEF DayOf
<1>4. ASSUME NEW x \in VerifyRequests PROVE chargedAt'[x] \in {-1, req'[x].at}
  BY <1>1 DEF BucketsCount
<1>5. ASSUME NEW k \in ApiKeys, NEW t \in 0..LastMinute
      PROVE  ChargedIn(k, {t})' <= PerMinute /\ ChargedIn(k, DayOf(t))' <= PerDay
  <2>1. ChargedIn(k, {t})' = ChargedIn(k, {t}) /\ ChargedIn(k, DayOf(t))' = ChargedIn(k, DayOf(t))
    BY <1>2, <1>3
  <2> QED
    BY <2>1 DEF BucketsCount, PlanKept
<1>6. ASSUME NEW k \in ApiKeys PROVE \E w \in 0..LastMinute : BucketAt(k, w)'
  <2>1. PICK w \in 0..LastMinute : BucketAt(k, w)
    BY DEF BucketsCount
  <2>2. ChargedIn(k, {w})' = ChargedIn(k, {w}) /\ ChargedIn(k, DayOf(w))' = ChargedIn(k, DayOf(w))
    BY <1>2, <1>3
  <2>3. w <= minute'
    BY <1>1, <2>1 DEF BucketAt
  <2>4. ASSUME NEW x \in VerifyRequests, req'[x].key = k PROVE chargedAt'[x] <= w
    BY <1>1, <2>1, <2>4 DEF BucketAt
  <2>5. BucketAt(k, w)'
    BY <1>1, <2>1, <2>2, <2>3, <2>4 DEF BucketAt
  <2> QED
    BY <2>5
<1> QED
  BY <1>4, <1>5, <1>6 DEF BucketsCount, PlanKept

-----------------------------------------------------------------------------
(* What every step keeps, whether the store is full or not.                *)

\* The store after an entry is written.
LEMMA PutStores ==
  ASSUME NEW es, IsFiniteSet(DOMAIN es), DOMAIN es \subseteq ApiKeys \X IdemKeys,
         \A s \in DOMAIN es : es[s] \in StoredEntries /\ es[s].place <= inserted,
         inserted \in Nat, NEW slot \in ApiKeys \X IdemKeys, NEW doc \in Docs,
         NEW state \in {"in_flight", "done"}, NEW val \in Values, NEW when \in Nat,
         Put(es, slot, doc, state, val, when)
  PROVE  /\ DOMAIN entries' = DOMAIN es \cup {slot}
         /\ IsFiniteSet(DOMAIN entries') /\ DOMAIN entries' \subseteq ApiKeys \X IdemKeys
         /\ \A s \in DOMAIN es : s # slot => entries'[s] = es[s]
         /\ entries'[slot] = Entry(PlaceOf(es, slot), doc, state, val, when)
         /\ entries'[slot] \in StoredEntries
         /\ inserted' \in Nat /\ inserted <= inserted' /\ entries'[slot].place <= inserted'
<1>1. /\ entries' = [s \in DOMAIN es \cup {slot} |->
                   IF s = slot THEN Entry(PlaceOf(es, slot), doc, state, val, when) ELSE es[s]]
      /\ inserted' = IF slot \in DOMAIN es THEN inserted ELSE inserted + 1
  BY DEF Put
<1>2. PlaceOf(es, slot) \in Nat /\ PlaceOf(es, slot) <= inserted'
  BY <1>1 DEF PlaceOf, StoredEntries
<1>3. when + MinutesPerDay \in Nat
  BY AdmissionAssumption
<1>4. Entry(PlaceOf(es, slot), doc, state, val, when) \in StoredEntries
  BY <1>2, <1>3 DEF Entry, StoredEntries
<1>5. IsFiniteSet(DOMAIN es \cup {slot})
  BY FS_AddElement
<1>6. Entry(PlaceOf(es, slot), doc, state, val, when).place = PlaceOf(es, slot)
  BY DEF Entry
<1> QED
  BY <1>1, <1>2, <1>4, <1>5, <1>6

LEMMA TakeSlotCore ==
  ASSUME AdmissionCore, NEW r \in VerifyRequests, TakeSlot(r)
  PROVE  AdmissionCore'
<1>1. /\ step[r] = "charged"
      /\ \/ /\ slotsTaken[req[r].key] >= MaxConcurrent
            /\ step' = [step EXCEPT ![r] = "refused"] /\ slotsTaken' = slotsTaken
         \/ /\ ~(slotsTaken[req[r].key] >= MaxConcurrent)
            /\ step' = [step EXCEPT ![r] = "running"]
            /\ slotsTaken' = [slotsTaken EXCEPT ![req[r].key] = @ + 1]
      /\ minute' = minute /\ entries' = entries /\ inserted' = inserted
      /\ minuteUse' = minuteUse /\ dayUse' = dayUse /\ chargedAt' = chargedAt
      /\ req' = req /\ value' = value /\ told' = told
  BY DEF TakeSlot, storeVars, quotaVars
<1>2. /\ AdmissionTypes /\ AdmissionTypeOK /\ minute \in Nat
      /\ step \in [VerifyRequests -> Steps] /\ slotsTaken \in [ApiKeys -> 0..MaxConcurrent]
      /\ MaxConcurrent \in Nat /\ req[r] \in Requested /\ req[r].key \in ApiKeys
  BY <1>1, AdmissionAssumption DEF AdmissionCore, AdmissionTypes, AdmissionTypeOK, Requested
<1>3. \A x \in VerifyRequests : step'[x] = IF x = r THEN step'[r] ELSE step[x]
  BY <1>1, <1>2
<1>4. step'[r] \in {"running", "refused"} /\ step' \in [VerifyRequests -> Steps]
  BY <1>1, <1>2 DEF Steps
<1>5. slotsTaken' \in [ApiKeys -> 0..MaxConcurrent]
  BY <1>1, <1>2
<1>6. AdmissionTypes'
  <2>1. AdmissionTypeOK'
    BY <1>1, <1>2, <1>4, <1>5 DEF AdmissionTypeOK
  <2>2. \A x \in VerifyRequests : (step'[x] = "new" <=> step[x] = "new")
                               /\ (step'[x] \in InProgress => step[x] \in InProgress)
    BY <1>1, <1>3, <1>4 DEF InProgress
  <2> QED
    BY <1>1, <1>2, <2>1, <2>2 DEF AdmissionTypes
<1>7. BucketsCount'
  BY <1>1, <1>2, BucketsStay DEF AdmissionCore, quotaVars
<1>8. ResultsAreOwn'
  BY <1>1, <1>3, <1>4 DEF AdmissionCore, ResultsAreOwn
<1>9. StoredIsOwn'
  BY <1>1 DEF AdmissionCore, StoredIsOwn
<1>10. SlotsMatchRuns'
  <2> SUFFICES ASSUME NEW k \in ApiKeys
               PROVE  slotsTaken'[k] = Cardinality({x \in VerifyRequests : step'[x] = "running" /\ req'[x].key = k})
    BY DEF SlotsMatchRuns
  <2> DEFINE C == {x \in VerifyRequests : step[x] = "running" /\ req[x].key = k}
             D == {x \in VerifyRequests : step'[x] = "running" /\ req'[x].key = k}
  <2>1. slotsTaken[k] = Cardinality(C) /\ IsFiniteSet(C) /\ r \notin C
    BY <1>1, FS_Subset, AdmissionAssumption DEF AdmissionCore, SlotsMatchRuns
  <2>2. CASE step'[r] = "running" /\ k = req[r].key
    <3>1. D = C \cup {r} /\ slotsTaken'[k] = slotsTaken[k] + 1
      BY <1>1, <1>2, <1>3, <2>2
    <3>2. Cardinality(D) = Cardinality(C) + 1
      BY <2>1, <3>1, FS_AddElement
    <3> QED
      BY <2>1, <3>1, <3>2
  <2>3. CASE ~(step'[r] = "running" /\ k = req[r].key)
    <3>1. D = C /\ slotsTaken'[k] = slotsTaken[k]
      BY <1>1, <1>2, <1>3, <2>3
    <3> QED
      BY <2>1, <3>1
  <2> QED
    BY <2>2, <2>3
<1>11. OwnDocument' /\ NoStuckReservation'
  <2>1. \A x \in VerifyRequests : (step'[x] = "answered" => step[x] = "answered")
                               /\ (step[x] \in InProgress => step'[x] \in InProgress)
    BY <1>1, <1>3, <1>4 DEF InProgress
  <2> QED
    BY <1>1, <2>1 DEF AdmissionCore, OwnDocument, NoStuckReservation
<1> QED
  BY <1>6, <1>7, <1>8, <1>9, <1>10, <1>11 DEF AdmissionCore

LEMMA RunEndsCore ==
  ASSUME AdmissionCore, NEW r \in VerifyRequests, RunEnds(r)
  PROVE  AdmissionCore'
<1>1. PICK kind \in Kinds :
        /\ value' = [value EXCEPT ![r] = [kind |-> kind, doc |-> req[r].doc, at |-> minute]]
        /\ slotsTaken' = [slotsTaken EXCEPT ![req[r].key] = @ - 1]
  BY DEF RunEnds
<1>2. /\ step[r] = "running" /\ step' = [step EXCEPT ![r] = "ended"]
      /\ minute' = minute /\ entries' = entries /\ inserted' = inserted
      /\ minuteUse' = minuteUse /\ dayUse' = dayUse /\ chargedAt' = chargedAt
      /\ req' = req /\ told' = told
  BY DEF RunEnds, storeVars, quotaVars
<1>3. /\ AdmissionTypes /\ AdmissionTypeOK /\ minute \in Nat /\ minute \in 0..LastMinute
      /\ step \in [VerifyRequests -> Steps] /\ slotsTaken \in [ApiKeys -> 0..MaxConcurrent]
      /\ value \in [VerifyRequests -> Values]
      /\ MaxConcurrent \in Nat /\ req[r] \in Requested /\ req[r].key \in ApiKeys /\ req[r].doc \in Docs
      /\ req[r].at <= minute
  BY <1>2, AdmissionAssumption DEF AdmissionCore, AdmissionTypes, AdmissionTypeOK, Requested
<1>4. \A x \in VerifyRequests : step'[x] = (IF x = r THEN "ended" ELSE step[x])
                             /\ (x # r => value'[x] = value[x])
  BY <1>1, <1>2, <1>3
<1>5. step' \in [VerifyRequests -> Steps]
  BY <1>2, <1>3 DEF Steps
<1>6. value' \in [VerifyRequests -> Values]
      /\ value'[r] = [kind |-> kind, doc |-> req[r].doc, at |-> minute]
  BY <1>1, <1>3 DEF Values
<1>7. ASSUME NEW k \in ApiKeys
      PROVE  /\ slotsTaken'[k] = Cardinality({x \in VerifyRequests : step'[x] = "running" /\ req'[x].key = k})
             /\ slotsTaken'[k] \in 0..MaxConcurrent
  <2> DEFINE C == {x \in VerifyRequests : step[x] = "running" /\ req[x].key = k}
             D == {x \in VerifyRequests : step'[x] = "running" /\ req'[x].key = k}
  <2>1. slotsTaken[k] = Cardinality(C) /\ IsFiniteSet(C) /\ Cardinality(C) \in Nat
    BY FS_Subset, FS_CardinalityType, AdmissionAssumption DEF AdmissionCore, SlotsMatchRuns
  <2>2. CASE k = req[r].key
    <3>1. D = C \ {r} /\ r \in C /\ slotsTaken'[k] = slotsTaken[k] - 1
      BY <1>1, <1>2, <1>3, <1>4, <2>2
    <3>2. Cardinality(D) = Cardinality(C) - 1 /\ Cardinality(D) \in Nat
      BY <2>1, <3>1, FS_RemoveElement, FS_CardinalityType
    <3> QED
      BY <1>3, <2>1, <3>1, <3>2
  <2>3. CASE k # req[r].key
    <3>1. D = C /\ slotsTaken'[k] = slotsTaken[k]
      BY <1>1, <1>2, <1>3, <1>4, <2>3
    <3> QED
      BY <1>3, <2>1, <3>1
  <2> QED
    BY <2>2, <2>3
<1>8. slotsTaken' \in [ApiKeys -> 0..MaxConcurrent]
  BY <1>1, <1>3, <1>7
<1>9. AdmissionTypes'
  <2>1. AdmissionTypeOK'
    BY <1>2, <1>3, <1>5, <1>6, <1>8 DEF AdmissionTypeOK
  <2>2. \A x \in VerifyRequests : (step'[x] = "new" <=> step[x] = "new")
                               /\ (step'[x] \in InProgress => step[x] \in InProgress)
                               /\ (step'[x] = "new" => value'[x] = value[x])
    BY <1>2, <1>4 DEF InProgress
  <2> QED
    BY <1>2, <1>3, <2>1, <2>2 DEF AdmissionTypes
<1>10. BucketsCount'
  BY <1>2, <1>3, BucketsStay DEF AdmissionCore, quotaVars
<1>11. ResultsAreOwn'
  <2> SUFFICES ASSUME NEW x \in VerifyRequests
               PROVE  /\ step'[x] \in {"new", "charged", "running", "refused"} => value'[x] = NoValue
                      /\ step'[x] = "ended" => value'[x].kind \in Kinds
                      /\ value'[x] # NoValue => value'[x].doc = req'[x].doc /\ value'[x].at >= req'[x].at
    BY DEF ResultsAreOwn
  <2>1. CASE x = r
    BY <1>2, <1>3, <1>4, <1>6, <2>1
  <2>2. CASE x # r
    BY <1>2, <1>4, <2>2 DEF AdmissionCore, ResultsAreOwn
  <2> QED
    BY <2>1, <2>2
<1>12. StoredIsOwn'
  BY <1>2 DEF AdmissionCore, StoredIsOwn
<1>13. SlotsMatchRuns'
  BY <1>7 DEF SlotsMatchRuns
<1>14. OwnDocument' /\ NoStuckReservation'
  <2>1. \A x \in VerifyRequests : (step'[x] = "answered" => step[x] = "answered")
                               /\ (step[x] \in InProgress => step'[x] \in InProgress)
    BY <1>2, <1>4 DEF InProgress
  <2> QED
    BY <1>2, <2>1 DEF AdmissionCore, OwnDocument, NoStuckReservation
<1> QED
  BY <1>9, <1>10, <1>11, <1>12, <1>13, <1>14 DEF AdmissionCore

LEMMA RunsStay ==
  ASSUME SlotsMatchRuns, slotsTaken' = slotsTaken,
         \A x \in VerifyRequests : /\ step'[x] = "running" <=> step[x] = "running"
                                   /\ step[x] = "running" => req'[x] = req[x]
  PROVE  SlotsMatchRuns'
<1> SUFFICES ASSUME NEW k \in ApiKeys
             PROVE  slotsTaken'[k] = Cardinality({x \in VerifyRequests : step'[x] = "running" /\ req'[x].key = k})
  BY DEF SlotsMatchRuns
<1>1. {x \in VerifyRequests : step'[x] = "running" /\ req'[x].key = k}
        = {x \in VerifyRequests : step[x] = "running" /\ req[x].key = k}
  OBVIOUS
<1> QED
  BY <1>1 DEF SlotsMatchRuns

LEMMA MinutePassesCore ==
  ASSUME AdmissionCore, MinutePasses
  PROVE  AdmissionCore'
<1>1. /\ minute < LastMinute /\ minute' = minute + 1
      /\ \A x \in VerifyRequests : step[x] \in InProgress => req[x].at >= minute - 1
      /\ entries' = entries /\ inserted' = inserted
      /\ minuteUse' = minuteUse /\ dayUse' = dayUse /\ chargedAt' = chargedAt
      /\ slotsTaken' = slotsTaken /\ req' = req /\ step' = step /\ value' = value /\ told' = told
  BY DEF MinutePasses, storeVars, quotaVars
<1>2. /\ AdmissionTypes /\ AdmissionTypeOK /\ minute \in Nat /\ LastMinute \in Nat
      /\ MinutesPerDay \in Nat
      /\ \A x \in VerifyRequests : step[x] # "new" => req[x] \in Requested /\ req[x].at \in 0..LastMinute
  BY AdmissionAssumption DEF AdmissionCore, AdmissionTypes, AdmissionTypeOK, Requested
<1>3. minute' \in 0..LastMinute /\ minute' \in Nat /\ minute <= minute'
  BY <1>1, <1>2
<1>4. AdmissionTypes'
  <2>1. AdmissionTypeOK'
    BY <1>1, <1>2, <1>3 DEF AdmissionTypeOK
  <2>2. \A x \in VerifyRequests :
          IF step[x] = "new"
          THEN req[x] = NoRequest /\ chargedAt[x] = -1 /\ value[x] = NoValue
          ELSE req[x] \in Requested /\ req[x].at <= minute'
    BY <1>1, <1>2 DEF AdmissionTypes
  <2>3. \A x \in VerifyRequests : step[x] \in InProgress => req[x].at >= minute' - 2
    <3>1. \A x \in VerifyRequests : step[x] \in InProgress => req[x].at \in 0..LastMinute
      BY <1>2 DEF InProgress
    <3> QED
      BY <1>1, <1>2, <3>1
  <2> QED
    BY <1>1, <1>2, <2>1, <2>2, <2>3 DEF AdmissionTypes
<1>5. BucketsCount'
  BY <1>1, <1>2, <1>3, BucketsStay DEF AdmissionCore, quotaVars
<1>6. ResultsAreOwn'
  BY <1>1 DEF AdmissionCore, ResultsAreOwn
<1>7. StoredIsOwn'
  <2>1. \A s \in DOMAIN entries : entries[s].expires \in Nat /\ entries[s].expires <= minute + MinutesPerDay
    BY <1>2 DEF AdmissionCore, StoredIsOwn, AdmissionTypeOK, StoredEntries
  <2>2. \A s \in DOMAIN entries : entries[s].expires <= minute' + MinutesPerDay
    BY <1>1, <1>2, <2>1
  <2> QED
    BY <1>1, <2>2 DEF AdmissionCore, StoredIsOwn
<1>8. SlotsMatchRuns'
  BY <1>1, RunsStay DEF AdmissionCore
<1>9. OwnDocument' /\ NoStuckReservation'
  BY <1>1 DEF AdmissionCore, OwnDocument, NoStuckReservation
<1> QED
  BY <1>4, <1>5, <1>6, <1>7, <1>8, <1>9 DEF AdmissionCore

\* What an answer at the end of the work leaves in place.
LEMMA AnswerCore ==
  ASSUME AdmissionCore, NEW r \in VerifyRequests, step[r] \in {"ended", "refused"},
         NEW kind \in Answers \cup Kinds, NEW when \in 0..LastMinute,
         Answered(r, kind, req[r].doc, when),
         UNCHANGED <<minute, quotaVars, slotsTaken, req, value>>,
         IsFiniteSet(DOMAIN entries'), DOMAIN entries' \subseteq ApiKeys \X IdemKeys,
         \A s \in DOMAIN entries' : entries'[s] \in StoredEntries,
         inserted' \in Nat, StoredIsOwn',
         \A s \in DOMAIN entries' : entries'[s].state = "in_flight" =>
            s # SlotOf(r) /\ s \in DOMAIN entries /\ entries'[s] = entries[s]
  PROVE  AdmissionCore'
<1>1. /\ step' = [step EXCEPT ![r] = "answered"]
      /\ told' = [told EXCEPT ![r] = [kind |-> kind, doc |-> req[r].doc, at |-> when]]
      /\ minute' = minute /\ minuteUse' = minuteUse /\ dayUse' = dayUse /\ chargedAt' = chargedAt
      /\ slotsTaken' = slotsTaken /\ req' = req /\ value' = value
  BY DEF Answered, quotaVars
<1>2. /\ AdmissionTypes /\ AdmissionTypeOK /\ minute \in Nat
      /\ step \in [VerifyRequests -> Steps] /\ told \in [VerifyRequests -> Values]
      /\ req[r] \in Requested /\ req[r].doc \in Docs
  BY AdmissionAssumption DEF AdmissionCore, AdmissionTypes, AdmissionTypeOK, Requested
<1>3. \A x \in VerifyRequests : /\ step'[x] = (IF x = r THEN "answered" ELSE step[x])
                                /\ x # r => told'[x] = told[x]
  BY <1>1, <1>2
<1>4. step' \in [VerifyRequests -> Steps]
  BY <1>1, <1>2 DEF Steps
<1>5. told' \in [VerifyRequests -> Values] /\ told'[r].doc = req[r].doc
  <2>1. [kind |-> kind, doc |-> req[r].doc, at |-> when] \in Values
    BY <1>2 DEF Values
  <2> QED
    BY <1>1, <1>2, <2>1
<1>6. AdmissionTypes'
  <2>1. AdmissionTypeOK'
    BY <1>1, <1>2, <1>4, <1>5 DEF AdmissionTypeOK
  <2>2. \A x \in VerifyRequests : (step'[x] = "new" <=> step[x] = "new")
                               /\ (step'[x] \in InProgress => step[x] \in InProgress)
    BY <1>3 DEF InProgress
  <2> QED
    BY <1>1, <1>2, <2>1, <2>2 DEF AdmissionTypes
<1>7. BucketsCount'
  BY <1>1, <1>2, BucketsStay DEF AdmissionCore
<1>8. ResultsAreOwn'
  BY <1>1, <1>3 DEF AdmissionCore, ResultsAreOwn
<1>9. SlotsMatchRuns'
  <2>1. \A x \in VerifyRequests : step'[x] = "running" <=> step[x] = "running"
    BY <1>3
  <2> QED
    BY <1>1, <2>1, RunsStay DEF AdmissionCore
<1>10. OwnDocument'
  BY <1>1, <1>3, <1>5 DEF AdmissionCore, OwnDocument
<1>11. NoStuckReservation'
  <2> SUFFICES ASSUME NEW s \in DOMAIN entries', entries'[s].state = "in_flight"
               PROVE  \E x \in VerifyRequests : /\ step'[x] \in InProgress
                                                /\ Slot(req'[x].key, req'[x].idem) = s
                                                /\ req'[x].doc = entries'[s].doc
    BY DEF NoStuckReservation
  <2>1. PICK x \in VerifyRequests : /\ step[x] \in InProgress
                                    /\ Slot(req[x].key, req[x].idem) = s
                                    /\ req[x].doc = entries[s].doc
    BY DEF AdmissionCore, NoStuckReservation
  <2>2. x # r
    BY <2>1 DEF SlotOf
  <2> QED
    BY <1>1, <1>3, <2>1, <2>2
<1> QED
  BY <1>6, <1>7, <1>8, <1>9, <1>10, <1>11 DEF AdmissionCore

LEMMA RespondCore ==
  ASSUME AdmissionCore, NEW r \in VerifyRequests, Respond(r)
  PROVE  AdmissionCore'
<1> DEFINE q == req[r]
<1>1. /\ AdmissionTypes /\ AdmissionTypeOK /\ minute \in Nat /\ LastMinute \in Nat /\ MinutesPerDay \in Nat
      /\ step[r] = "ended" /\ value[r].kind # "threw"
      /\ q \in Requested /\ q.at <= minute /\ q.at \in Nat /\ q.key \in ApiKeys /\ q.doc \in Docs
      /\ q.idem \in IdemKeys \cup {NoIdemKey}
      /\ value[r] \in Values /\ value[r].kind \in Answers \cup Kinds /\ value[r].at \in 0..LastMinute
      /\ DOMAIN entries \subseteq ApiKeys \X IdemKeys /\ IsFiniteSet(DOMAIN entries) /\ inserted \in Nat
      /\ \A s \in DOMAIN entries : entries[s] \in StoredEntries
  BY AdmissionAssumption DEF AdmissionCore, AdmissionTypes, AdmissionTypeOK, Requested, Respond, Values
<1>2. value[r].kind \in Kinds /\ value[r].doc = q.doc /\ value[r].at >= q.at
  <2>1. value[r].kind \in Kinds
    BY <1>1 DEF AdmissionCore, ResultsAreOwn
  <2>2. value[r] # NoValue
    BY <2>1 DEF NoValue, Kinds
  <2> QED
    BY <2>1, <2>2 DEF AdmissionCore, ResultsAreOwn
<1>3. /\ Answered(r, value[r].kind, req[r].doc, value[r].at)
      /\ UNCHANGED <<minute, quotaVars, slotsTaken, req, value>> /\ minute' = minute
  BY <1>2 DEF Respond
<1>4. \A s \in DOMAIN entries : entries[s].place <= inserted
  BY DEF AdmissionCore, StoredIsOwn
<1>5. CASE q.idem = NoIdemKey
  <2>1. entries' = entries /\ inserted' = inserted
    BY <1>5 DEF Respond, storeVars
  <2>2. StoredIsOwn'
    BY <1>3, <2>1 DEF AdmissionCore, StoredIsOwn
  <2>3. SlotOf(r) \notin DOMAIN entries
    BY <1>1, <1>5, AdmissionAssumption DEF SlotOf, Slot
  <2> QED
    BY <1>1, <1>3, <2>1, <2>2, <2>3, AnswerCore
<1>6. CASE q.idem # NoIdemKey
  <2>1. Put(entries, SlotOf(r), q.doc, "done", value[r], q.at) /\ SlotOf(r) \in ApiKeys \X IdemKeys
    BY <1>1, <1>6 DEF Respond, SlotOf, Slot
  <2>2. /\ DOMAIN entries' = DOMAIN entries \cup {SlotOf(r)}
        /\ IsFiniteSet(DOMAIN entries') /\ DOMAIN entries' \subseteq ApiKeys \X IdemKeys
        /\ \A s \in DOMAIN entries : s # SlotOf(r) => entries'[s] = entries[s]
        /\ entries'[SlotOf(r)] = Entry(PlaceOf(entries, SlotOf(r)), q.doc, "done", value[r], q.at)
        /\ entries'[SlotOf(r)] \in StoredEntries
        /\ inserted' \in Nat /\ inserted <= inserted' /\ entries'[SlotOf(r)].place <= inserted'
    BY <1>1, <1>4, <2>1, PutStores
  <2>3. /\ entries'[SlotOf(r)].doc = q.doc /\ entries'[SlotOf(r)].value = value[r]
        /\ entries'[SlotOf(r)].state = "done" /\ entries'[SlotOf(r)].expires = q.at + MinutesPerDay
    BY <2>2 DEF Entry
  <2>4. StoredIsOwn'
    <3>1. ASSUME NEW s \in DOMAIN entries', s # SlotOf(r)
          PROVE  /\ s \in DOMAIN entries /\ entries'[s] = entries[s] /\ entries[s].place <= inserted'
      <4>1. s \in DOMAIN entries /\ entries'[s] = entries[s] /\ entries[s].place \in Nat
        BY <1>1, <2>2, <3>1 DEF StoredEntries
      <4> QED
        BY <1>1, <1>4, <2>2, <4>1
    <3>2. /\ entries'[SlotOf(r)].expires <= value[r].at + MinutesPerDay
          /\ entries'[SlotOf(r)].expires <= minute' + MinutesPerDay
      BY <1>1, <1>2, <1>3, <2>3
    <3> QED
      BY <1>2, <1>3, <2>2, <2>3, <3>1, <3>2 DEF AdmissionCore, StoredIsOwn
  <2>5. \A s \in DOMAIN entries' : entries'[s] \in StoredEntries
    BY <1>1, <2>2
  <2>6. \A s \in DOMAIN entries' : entries'[s].state = "in_flight" =>
            s # SlotOf(r) /\ s \in DOMAIN entries /\ entries'[s] = entries[s]
    BY <2>2, <2>3
  <2> QED
    BY <1>1, <1>3, <2>2, <2>4, <2>5, <2>6, AnswerCore
<1> QED
  BY <1>5, <1>6

LEMMA RejectCore ==
  ASSUME AdmissionCore, NEW r \in VerifyRequests, Reject(r)
  PROVE  AdmissionCore'
<1>1. /\ AdmissionTypes /\ AdmissionTypeOK /\ minute \in 0..LastMinute
      /\ step[r] \in {"ended", "refused"} /\ inserted' = inserted /\ inserted \in Nat /\ minute' = minute
      /\ req[r].key \in ApiKeys /\ req[r].idem \in IdemKeys \cup {NoIdemKey}
      /\ DOMAIN entries \subseteq ApiKeys \X IdemKeys /\ IsFiniteSet(DOMAIN entries)
      /\ \A s \in DOMAIN entries : entries[s] \in StoredEntries
  BY DEF AdmissionCore, AdmissionTypes, AdmissionTypeOK, Requested, Reject
<1>2. PICK kind \in {"rate_limited", "failed"} : Answered(r, kind, req[r].doc, minute)
  BY DEF Reject
<1>3. kind \in Answers \cup Kinds /\ UNCHANGED <<minute, quotaVars, slotsTaken, req, value>>
  BY DEF Answers, Reject
<1>4. /\ DOMAIN entries' \subseteq DOMAIN entries /\ SlotOf(r) \notin DOMAIN entries'
      /\ \A s \in DOMAIN entries' : entries'[s] = entries[s]
  <2>1. CASE req[r].idem = NoIdemKey
    BY <1>1, <2>1, AdmissionAssumption DEF Reject, SlotOf, Slot
  <2>2. CASE req[r].idem # NoIdemKey
    BY <2>2 DEF Reject, Dropped, SlotOf
  <2> QED
    BY <2>1, <2>2
<1>5. IsFiniteSet(DOMAIN entries') /\ DOMAIN entries' \subseteq ApiKeys \X IdemKeys
  BY <1>1, <1>4, FS_Subset
<1>6. StoredIsOwn'
  BY <1>1, <1>4 DEF AdmissionCore, StoredIsOwn
<1>7. /\ \A s \in DOMAIN entries' : entries'[s] \in StoredEntries
      /\ \A s \in DOMAIN entries' : entries'[s].state = "in_flight" =>
            s # SlotOf(r) /\ s \in DOMAIN entries /\ entries'[s] = entries[s]
  BY <1>1, <1>4
<1> QED
  BY <1>1, <1>2, <1>3, <1>5, <1>6, <1>7, AnswerCore

\* What the arrival of a request leaves in place.
LEMMA ArrivalCore ==
  ASSUME AdmissionCore, NEW r \in VerifyRequests, step[r] = "new",
         NEW q \in Requested, q.at = minute, req' = [req EXCEPT ![r] = q],
         minute' = minute, slotsTaken' = slotsTaken, value' = value,
         NEW next \in {"charged", "refused", "answered"}, step' = [step EXCEPT ![r] = next],
         told' \in [VerifyRequests -> Values],
         \A x \in VerifyRequests : x # r => told'[x] = told[x],
         next = "answered" => told'[r].doc = q.doc,
         BucketsCount',
         minuteUse' \in [ApiKeys -> [window : 0..LastMinute, count : 0..PerMinute]],
         dayUse' \in [ApiKeys -> [window : Nat, count : 0..PerDay]],
         chargedAt' \in [VerifyRequests -> -1..LastMinute],
         \A x \in VerifyRequests : x # r => chargedAt'[x] = chargedAt[x],
         IsFiniteSet(DOMAIN entries'), DOMAIN entries' \subseteq ApiKeys \X IdemKeys,
         \A s \in DOMAIN entries' : entries'[s] \in StoredEntries,
         inserted' \in Nat, StoredIsOwn',
         \A s \in DOMAIN entries' : entries'[s].state = "in_flight" =>
            \/ s \in DOMAIN entries /\ entries'[s] = entries[s]
            \/ next # "answered" /\ s = Slot(q.key, q.idem) /\ entries'[s].doc = q.doc
  PROVE  AdmissionCore'
<1>1. /\ AdmissionTypes /\ AdmissionTypeOK /\ minute \in Nat
      /\ step \in [VerifyRequests -> Steps] /\ req \in [VerifyRequests -> Requested \cup {NoRequest}]
      /\ req[r] = NoRequest /\ value[r] = NoValue
  BY AdmissionAssumption DEF AdmissionCore, AdmissionTypes, AdmissionTypeOK
<1>2. \A x \in VerifyRequests : /\ step'[x] = (IF x = r THEN next ELSE step[x])
                                /\ req'[x] = (IF x = r THEN q ELSE req[x])
  BY <1>1
<1>3. step' \in [VerifyRequests -> Steps] /\ req' \in [VerifyRequests -> Requested \cup {NoRequest}]
  BY <1>1 DEF Steps
<1>4. AdmissionTypes'
  <2>1. AdmissionTypeOK'
    BY <1>1, <1>3 DEF AdmissionTypeOK
  <2>2. ASSUME NEW x \in VerifyRequests
        PROVE  /\ IF step'[x] = "new"
                  THEN req'[x] = NoRequest /\ chargedAt'[x] = -1 /\ value'[x] = NoValue
                  ELSE req'[x] \in Requested /\ req'[x].at <= minute'
               /\ step'[x] \in InProgress => req'[x].at >= minute' - 2
    <3>1. CASE x = r
      <4>1. minute <= minute /\ minute >= minute - 2
        BY <1>1
      <4> QED
        BY <1>2, <3>1, <4>1
    <3>2. CASE x # r
      BY <1>1, <1>2, <3>2 DEF AdmissionTypes
    <3> QED
      BY <3>1, <3>2
  <2> QED
    BY <1>3, <2>1, <2>2 DEF AdmissionTypes
<1>5. ResultsAreOwn'
  <2> SUFFICES ASSUME NEW x \in VerifyRequests
               PROVE  /\ step'[x] \in {"new", "charged", "running", "refused"} => value'[x] = NoValue
                      /\ step'[x] = "ended" => value'[x].kind \in Kinds
                      /\ value'[x] # NoValue => value'[x].doc = req'[x].doc /\ value'[x].at >= req'[x].at
    BY DEF ResultsAreOwn
  <2>1. CASE x = r
    BY <1>1, <1>2, <2>1
  <2>2. CASE x # r
    BY <1>2, <2>2 DEF AdmissionCore, ResultsAreOwn
  <2> QED
    BY <2>1, <2>2
<1>6. SlotsMatchRuns'
  <2>1. \A x \in VerifyRequests : /\ step'[x] = "running" <=> step[x] = "running"
                                  /\ step[x] = "running" => req'[x] = req[x]
    BY <1>2
  <2> QED
    BY <2>1, RunsStay DEF AdmissionCore
<1>7. OwnDocument'
  BY <1>2 DEF AdmissionCore, OwnDocument
<1>8. NoStuckReservation'
  <2> SUFFICES ASSUME NEW s \in DOMAIN entries', entries'[s].state = "in_flight"
               PROVE  \E x \in VerifyRequests : /\ step'[x] \in InProgress
                                                /\ Slot(req'[x].key, req'[x].idem) = s
                                                /\ req'[x].doc = entries'[s].doc
    BY DEF NoStuckReservation
  <2>1. CASE s \in DOMAIN entries /\ entries'[s] = entries[s]
    <3>1. PICK x \in VerifyRequests : /\ step[x] \in InProgress
                                      /\ Slot(req[x].key, req[x].idem) = s
                                      /\ req[x].doc = entries[s].doc
      BY <2>1 DEF AdmissionCore, NoStuckReservation
    <3>2. x # r
      BY <3>1 DEF InProgress
    <3> QED
      BY <1>2, <2>1, <3>1, <3>2
  <2>2. CASE next # "answered" /\ s = Slot(q.key, q.idem) /\ entries'[s].doc = q.doc
    BY <1>2, <2>2 DEF InProgress
  <2> QED
    BY <2>1, <2>2
<1> QED
  BY <1>4, <1>5, <1>6, <1>7, <1>8 DEF AdmissionCore

LEMMA ArriveCore ==
  ASSUME AdmissionCore, NEW r \in VerifyRequests, Arrive(r)
  PROVE  AdmissionCore'
<1>1. PICK key \in ApiKeys, idem \in IdemKeys \cup {NoIdemKey}, doc \in Docs :
        LET slot == Slot(key, idem)
            kept == Evicted(entries)
        IN  /\ req' = [req EXCEPT ![r] = [key |-> key, idem |-> idem, doc |-> doc, at |-> minute]]
            /\ \/ /\ idem = NoIdemKey
                  /\ Consume(r, key)
                  /\ UNCHANGED <<storeVars, told>>
               \/ /\ idem # NoIdemKey /\ slot \notin DOMAIN kept
                  /\ Put(kept, slot, doc, "in_flight", NoValue, minute)
                  /\ Consume(r, key)
                  /\ UNCHANGED told
               \/ /\ idem # NoIdemKey /\ slot \in DOMAIN kept
                  /\ entries' = kept
                  /\ Replay(r, kept[slot], doc)
                  /\ UNCHANGED inserted
  BY DEF Arrive
<1> DEFINE q == [key |-> key, idem |-> idem, doc |-> doc, at |-> minute]
           slot == Slot(key, idem)
           kept == Evicted(entries)
<1>2. /\ step[r] = "new" /\ minute' = minute /\ slotsTaken' = slotsTaken /\ value' = value
      /\ req' = [req EXCEPT ![r] = q]
  BY <1>1 DEF Arrive
<1>3. /\ AdmissionTypes /\ AdmissionTypeOK /\ BucketsCount /\ minute \in 0..LastMinute /\ minute \in Nat
      /\ MinutesPerDay \in Nat
      /\ told \in [VerifyRequests -> Values] /\ step \in [VerifyRequests -> Steps]
      /\ chargedAt \in [VerifyRequests -> -1..LastMinute]
      /\ DOMAIN entries \subseteq ApiKeys \X IdemKeys /\ IsFiniteSet(DOMAIN entries) /\ inserted \in Nat
      /\ \A s \in DOMAIN entries : entries[s] \in StoredEntries
      /\ StoredIsOwn
  BY AdmissionAssumption DEF AdmissionCore, AdmissionTypes, AdmissionTypeOK
<1>4. q \in Requested /\ q.key = key /\ q.idem = idem /\ q.doc = doc /\ q.at = minute
  BY <1>3 DEF Requested
<1>5. /\ DOMAIN kept \subseteq DOMAIN entries /\ IsFiniteSet(DOMAIN kept)
      /\ \A s \in DOMAIN kept : kept[s] = entries[s]
  BY <1>3, EvictedIsPart, FS_Subset
<1>6. ASSUME Consume(r, key), UNCHANGED told
      PROVE  /\ BucketsCount'
             /\ minuteUse' \in [ApiKeys -> [window : 0..LastMinute, count : 0..PerMinute]]
             /\ dayUse' \in [ApiKeys -> [window : Nat, count : 0..PerDay]]
             /\ chargedAt' \in [VerifyRequests -> -1..LastMinute]
             /\ \A x \in VerifyRequests : x # r => chargedAt'[x] = chargedAt[x]
             /\ told' \in [VerifyRequests -> Values]
             /\ \A x \in VerifyRequests : x # r => told'[x] = told[x]
             /\ \E next \in {"charged", "refused"} : step' = [step EXCEPT ![r] = next]
  <2>1. /\ BucketsCount'
        /\ minuteUse' \in [ApiKeys -> [window : 0..LastMinute, count : 0..PerMinute]]
        /\ dayUse' \in [ApiKeys -> [window : Nat, count : 0..PerDay]]
        /\ chargedAt' \in [VerifyRequests -> -1..LastMinute]
    BY <1>2, <1>3, <1>4, <1>6, ConsumeCounts
  <2>2. \E next \in {"charged", "refused"} : step' = [step EXCEPT ![r] = next]
    BY <1>6 DEF Consume
  <2>3. chargedAt' = [chargedAt EXCEPT ![r] = IF HasQuota(key) THEN minute ELSE -1]
    BY <1>6 DEF Consume
  <2> QED
    BY <1>3, <1>6, <2>1, <2>2, <2>3
<1> HIDE DEF q, slot, kept
<1>7. CASE idem = NoIdemKey /\ Consume(r, key) /\ UNCHANGED <<storeVars, told>>
  <2>1. PICK next \in {"charged", "refused"} : step' = [step EXCEPT ![r] = next]
    BY <1>6, <1>7
  <2>2. entries' = entries /\ inserted' = inserted /\ UNCHANGED told
    BY <1>7 DEF storeVars
  <2>3. StoredIsOwn'
    BY <1>2, <1>3, <2>2 DEF StoredIsOwn
  <2>4. \A s \in DOMAIN entries' : s \in DOMAIN entries /\ entries'[s] = entries[s]
    BY <2>2
  <2>5. Consume(r, key)
    BY <1>7
  <2> QED
    BY <1>2, <1>3, <1>4, <1>6, <2>1, <2>2, <2>3, <2>4, <2>5, ArrivalCore
<1>8. CASE /\ idem # NoIdemKey /\ slot \notin DOMAIN kept
           /\ Put(kept, slot, doc, "in_flight", NoValue, minute)
           /\ Consume(r, key) /\ UNCHANGED told
  <2>1. PICK next \in {"charged", "refused"} : step' = [step EXCEPT ![r] = next]
    BY <1>6, <1>8
  <2>2. slot \in ApiKeys \X IdemKeys /\ NoValue \in Values /\ DOMAIN kept \subseteq ApiKeys \X IdemKeys
    <3>1. NoValue \in Values
      <4>1. 0 \in 0..LastMinute
        BY AdmissionAssumption
      <4> QED
        BY <4>1 DEF NoValue, Values, Answers
    <3> QED
      BY <1>3, <1>5, <1>8, <3>1 DEF slot, Slot
  <2>3. \A s \in DOMAIN kept : kept[s] \in StoredEntries /\ kept[s].place <= inserted
    BY <1>3, <1>5 DEF StoredIsOwn
  <2>4. /\ DOMAIN entries' = DOMAIN kept \cup {slot}
        /\ IsFiniteSet(DOMAIN entries') /\ DOMAIN entries' \subseteq ApiKeys \X IdemKeys
        /\ \A s \in DOMAIN kept : s # slot => entries'[s] = kept[s]
        /\ entries'[slot] = Entry(PlaceOf(kept, slot), doc, "in_flight", NoValue, minute)
        /\ entries'[slot] \in StoredEntries
        /\ inserted' \in Nat /\ inserted <= inserted' /\ entries'[slot].place <= inserted'
    BY <1>3, <1>5, <1>8, <2>2, <2>3, PutStores
  <2>5. entries'[slot].doc = doc /\ entries'[slot].state = "in_flight"
        /\ entries'[slot].expires = minute + MinutesPerDay
    BY <2>4 DEF Entry
  <2>6. ASSUME NEW s \in DOMAIN entries', s # slot
        PROVE  s \in DOMAIN entries /\ entries'[s] = entries[s] /\ entries'[s].place <= inserted'
    <3>1. s \in DOMAIN entries /\ entries'[s] = entries[s] /\ entries[s].place <= inserted
          /\ entries[s].place \in Nat
      BY <1>3, <1>5, <2>3, <2>4, <2>6 DEF StoredEntries
    <3> QED
      BY <1>3, <2>4, <3>1
  <2>7. StoredIsOwn'
    <3>1. entries'[slot].expires <= minute' + MinutesPerDay
      BY <1>2, <1>3, <2>5
    <3>2. \A s \in DOMAIN entries' : s # slot =>
            /\ entries'[s].state = "done" => /\ entries'[s].value.doc = entries'[s].doc
                                             /\ entries'[s].expires <= entries'[s].value.at + MinutesPerDay
            /\ entries'[s].expires <= minute' + MinutesPerDay
      BY <1>2, <1>3, <2>6 DEF StoredIsOwn
    <3> QED
      BY <2>4, <2>5, <2>6, <3>1, <3>2 DEF StoredIsOwn
  <2>8. /\ \A s \in DOMAIN entries' : entries'[s] \in StoredEntries
        /\ \A s \in DOMAIN entries' :
             \/ s \in DOMAIN entries /\ entries'[s] = entries[s]
             \/ next # "answered" /\ s = Slot(q.key, q.idem) /\ entries'[s].doc = q.doc
    BY <1>3, <1>4, <2>4, <2>5, <2>6 DEF slot
  <2>9. Consume(r, key) /\ UNCHANGED told
    BY <1>8
  <2>10. /\ BucketsCount'
         /\ minuteUse' \in [ApiKeys -> [window : 0..LastMinute, count : 0..PerMinute]]
         /\ dayUse' \in [ApiKeys -> [window : Nat, count : 0..PerDay]]
         /\ chargedAt' \in [VerifyRequests -> -1..LastMinute]
         /\ \A x \in VerifyRequests : x # r => chargedAt'[x] = chargedAt[x]
         /\ told' \in [VerifyRequests -> Values]
         /\ \A x \in VerifyRequests : x # r => told'[x] = told[x]
    BY <1>6, <2>9
  <2>11. \A s \in DOMAIN entries' : entries'[s] \in StoredEntries
    BY <2>8
  <2>12. \A s \in DOMAIN entries' : entries'[s].state = "in_flight" =>
             \/ s \in DOMAIN entries /\ entries'[s] = entries[s]
             \/ next # "answered" /\ s = Slot(q.key, q.idem) /\ entries'[s].doc = q.doc
    BY <2>8
  <2>13. /\ IsFiniteSet(DOMAIN entries') /\ DOMAIN entries' \subseteq ApiKeys \X IdemKeys
         /\ inserted' \in Nat /\ next \in {"charged", "refused", "answered"} /\ next # "answered"
    BY <2>1, <2>4
  <2> QED
    BY <1>2, <1>4, <2>1, <2>7, <2>10, <2>11, <2>12, <2>13, ArrivalCore
<1>9. CASE /\ idem # NoIdemKey /\ slot \in DOMAIN kept /\ entries' = kept
           /\ Replay(r, kept[slot], doc) /\ UNCHANGED inserted
  <2>1. kept[slot] = entries[slot] /\ slot \in DOMAIN entries /\ entries[slot] \in StoredEntries
    BY <1>3, <1>5, <1>9
  <2>2. PICK kind \in Answers \cup Kinds, when \in 0..LastMinute : Answered(r, kind, doc, when)
    <3>1. CASE IsConflict(kept[slot], doc)
      BY <1>3, <1>9, <3>1 DEF Replay, Answers
    <3>2. CASE ~IsConflict(kept[slot], doc) /\ kept[slot].state = "in_flight"
      BY <1>3, <1>9, <3>2 DEF Replay, Answers
    <3>3. CASE ~IsConflict(kept[slot], doc) /\ kept[slot].state # "in_flight"
      <4>1. Answered(r, kept[slot].value.kind, kept[slot].value.doc, kept[slot].value.at)
        BY <1>9, <3>3 DEF Replay
      <4>2. kept[slot].state = "done" /\ kept[slot].doc = doc /\ kept[slot].value \in Values
        BY <2>1, <3>3 DEF StoredEntries, IsConflict
      <4>3. kept[slot].value.doc = doc
        BY <1>3, <2>1, <4>2 DEF StoredIsOwn
      <4> QED
        BY <4>1, <4>2, <4>3 DEF Values
    <3> QED
      BY <3>1, <3>2, <3>3
  <2>3. /\ step' = [step EXCEPT ![r] = "answered"]
        /\ told' = [told EXCEPT ![r] = [kind |-> kind, doc |-> doc, at |-> when]]
    BY <2>2 DEF Answered
  <2>4. /\ told' \in [VerifyRequests -> Values] /\ told'[r].doc = doc
        /\ \A x \in VerifyRequests : x # r => told'[x] = told[x]
    <3>1. [kind |-> kind, doc |-> doc, at |-> when] \in Values
      BY DEF Values
    <3> QED
      BY <1>3, <2>3, <3>1
  <2>5. UNCHANGED quotaVars /\ minuteUse' = minuteUse /\ dayUse' = dayUse /\ chargedAt' = chargedAt
    BY <1>9 DEF Replay, quotaVars
  <2>6. BucketsCount'
    <3>1. \A x \in VerifyRequests : chargedAt[x] = -1 \/ req'[x] = req[x]
      BY <1>2, <1>3 DEF AdmissionTypes
    <3>2. minute' \in Nat /\ minute <= minute'
      BY <1>2, <1>3
    <3> QED
      BY <1>3, <2>5, <3>1, <3>2, BucketsStay
  <2>7. /\ minuteUse' \in [ApiKeys -> [window : 0..LastMinute, count : 0..PerMinute]]
        /\ dayUse' \in [ApiKeys -> [window : Nat, count : 0..PerDay]]
        /\ chargedAt' \in [VerifyRequests -> -1..LastMinute]
        /\ \A x \in VerifyRequests : x # r => chargedAt'[x] = chargedAt[x]
    BY <1>3, <2>5 DEF AdmissionTypeOK
  <2>8. /\ IsFiniteSet(DOMAIN entries') /\ DOMAIN entries' \subseteq ApiKeys \X IdemKeys
        /\ \A s \in DOMAIN entries' : s \in DOMAIN entries /\ entries'[s] = entries[s]
        /\ \A s \in DOMAIN entries' : entries'[s] \in StoredEntries
        /\ inserted' = inserted /\ inserted' \in Nat
    BY <1>3, <1>5, <1>9
  <2>9. StoredIsOwn'
    BY <1>2, <1>3, <2>8 DEF StoredIsOwn
  <2> QED
    BY <1>2, <1>3, <1>4, <2>3, <2>4, <2>6, <2>7, <2>8, <2>9, ArrivalCore
<1> QED
  BY <1>1, <1>7, <1>8, <1>9 DEF slot, kept

LEMMA AdmissionStepCore == AdmissionCore /\ [AdmissionNext]_admissionVars => AdmissionCore'
<1> SUFFICES ASSUME AdmissionCore, [AdmissionNext]_admissionVars PROVE AdmissionCore'
  OBVIOUS
<1>1. CASE MinutePasses
  BY <1>1, MinutePassesCore
<1>2. ASSUME NEW r \in VerifyRequests, Arrive(r) PROVE AdmissionCore'
  BY <1>2, ArriveCore
<1>3. ASSUME NEW r \in VerifyRequests, TakeSlot(r) PROVE AdmissionCore'
  BY <1>3, TakeSlotCore
<1>4. ASSUME NEW r \in VerifyRequests, RunEnds(r) PROVE AdmissionCore'
  BY <1>4, RunEndsCore
<1>5. ASSUME NEW r \in VerifyRequests, Respond(r) PROVE AdmissionCore'
  BY <1>5, RespondCore
<1>6. ASSUME NEW r \in VerifyRequests, Reject(r) PROVE AdmissionCore'
  BY <1>6, RejectCore
<1>7. CASE UNCHANGED admissionVars
  <2>1. /\ minute' = minute /\ entries' = entries /\ inserted' = inserted
        /\ minuteUse' = minuteUse /\ dayUse' = dayUse /\ chargedAt' = chargedAt
        /\ slotsTaken' = slotsTaken /\ req' = req /\ step' = step /\ value' = value /\ told' = told
    BY <1>7 DEF admissionVars, storeVars, quotaVars
  <2>2. AdmissionTypes /\ minute \in Nat
    BY AdmissionAssumption DEF AdmissionCore, AdmissionTypes, AdmissionTypeOK
  <2>3. BucketsCount'
    BY <2>1, <2>2, BucketsStay DEF AdmissionCore, quotaVars
  <2>4. SlotsMatchRuns'
    BY <2>1, RunsStay DEF AdmissionCore
  <2>5. AdmissionTypeOK'
    BY <2>1, <2>2 DEF AdmissionTypes, AdmissionTypeOK
  <2>6. AdmissionTypes'
    BY <2>1, <2>2, <2>5 DEF AdmissionTypes
  <2> QED
    BY <2>1, <2>3, <2>4, <2>6 DEF AdmissionCore, ResultsAreOwn, StoredIsOwn, OwnDocument, NoStuckReservation
<1> QED
  BY <1>1, <1>2, <1>3, <1>4, <1>5, <1>6, <1>7 DEF AdmissionNext

-----------------------------------------------------------------------------
(* What every step keeps as long as the store is not over its capacity.    *)

\* The facts about times and keys that the steps below use.
LEMMA RequestFacts ==
  ASSUME AdmissionCore, NEW x \in VerifyRequests
  PROVE  /\ minute \in Nat /\ minute \in 0..LastMinute /\ LastMinute \in Nat
         /\ MinutesPerDay \in Nat /\ MinutesPerDay >= 3
         /\ step[x] = "new" => ~Keyed(x) /\ chargedAt[x] = -1
         /\ step[x] # "new" => req[x] \in Requested /\ req[x].at \in Nat /\ req[x].at <= minute
         /\ step[x] \in InProgress => req[x].at >= minute - 2
<1>1. AdmissionTypes /\ AdmissionTypeOK /\ minute \in 0..LastMinute /\ LastMinute \in Nat
  BY AdmissionAssumption DEF AdmissionCore, AdmissionTypes, AdmissionTypeOK
<1>2. NoRequest.idem = NoIdemKey
  BY DEF NoRequest
<1>3. step[x] = "new" => ~Keyed(x) /\ chargedAt[x] = -1
  BY <1>1, <1>2 DEF AdmissionTypes, Keyed
<1>4. step[x] # "new" => req[x] \in Requested /\ req[x].at \in Nat /\ req[x].at <= minute
  BY <1>1 DEF AdmissionTypes, Requested
<1> QED
  BY <1>1, <1>3, <1>4, AdmissionAssumption DEF AdmissionTypes

\* Of the requests that share a key with one at work, none is at work, and none
\* was paid within the day.
LEMMA OthersAreDone ==
  ASSUME AdmissionCore, KeysCore, NEW r \in VerifyRequests, Keyed(r), step[r] \in InProgress,
         NEW x \in VerifyRequests, x # r, Keyed(x), SlotOf(x) = SlotOf(r)
  PROVE  /\ step[x] \notin InProgress
         /\ step[x] = "answered" /\ Paid(x) => minute >= req[x].at + MinutesPerDay
<1>1. Retries(x, r) /\ Retries(r, x) /\ Claims(r)
  BY DEF Retries, Keyed, SlotOf, Claims
<1>2. /\ minute \in Nat /\ MinutesPerDay \in Nat /\ MinutesPerDay >= 3
      /\ req[r].at \in Nat /\ req[r].at <= minute /\ req[r].at >= minute - 2
      /\ step[x] \in InProgress => /\ req[x].at \in Nat /\ req[x].at <= minute
                                   /\ req[x].at >= minute - 2
  BY RequestFacts DEF InProgress
<1>3. step[x] \notin InProgress
  <2> SUFFICES ASSUME step[x] \in InProgress PROVE FALSE
    OBVIOUS
  <2>1. Claims(x)
    BY DEF Claims
  <2>2. /\ req[x].at <= req[r].at => req[r].at >= req[x].at + MinutesPerDay
        /\ req[r].at <= req[x].at => req[x].at >= req[r].at + MinutesPerDay
    BY <1>1, <2>1 DEF KeysCore, ClaimsAreApart
  <2> QED
    BY <1>2, <2>2
<1>4. step[x] = "answered" /\ Paid(x) => minute >= req[x].at + MinutesPerDay
  BY DEF KeysCore, ReservedOrStored
<1> QED
  BY <1>3, <1>4

\* What the sweep keeps of the requests' entries.
LEMMA EvictedHolds ==
  ASSUME AdmissionCore, KeysCore, NotFull, NEW x \in VerifyRequests, Keyed(x)
  PROVE  /\ step[x] \in InProgress => SlotOf(x) \in DOMAIN Evicted(entries)
         /\ step[x] = "answered" /\ Paid(x) =>
              \/ minute >= req[x].at + MinutesPerDay
              \/ SlotOf(x) \in DOMAIN Evicted(entries)
<1>1. IsFiniteSet(DOMAIN entries) /\ \A s \in DOMAIN entries : entries[s] \in StoredEntries
  BY DEF AdmissionCore, AdmissionTypes, AdmissionTypeOK
<1>2. ASSUME SlotOf(x) \in DOMAIN entries, entries[SlotOf(x)].expires > minute
      PROVE  SlotOf(x) \in DOMAIN Evicted(entries)
  <2>1. entries[SlotOf(x)].place \in Nat
    BY <1>1, <1>2 DEF StoredEntries
  <2> QED
    BY <1>1, <1>2, <2>1, EvictedKeeps DEF NotFull
<1>3. /\ minute \in Nat /\ MinutesPerDay \in Nat /\ MinutesPerDay >= 3
      /\ step[x] # "new" => req[x].at \in Nat
      /\ step[x] \in InProgress => req[x].at >= minute - 2
  BY RequestFacts
<1>4. ASSUME step[x] \in InProgress PROVE SlotOf(x) \in DOMAIN Evicted(entries)
  <2>1. SlotOf(x) \in DOMAIN entries /\ entries[SlotOf(x)].expires = req[x].at + MinutesPerDay
    BY <1>4 DEF KeysCore, ReservedOrStored, Holds
  <2>2. req[x].at \in Nat /\ req[x].at >= minute - 2
    BY <1>3, <1>4 DEF InProgress
  <2> QED
    BY <1>2, <1>3, <2>1, <2>2
<1>5. ASSUME step[x] = "answered", Paid(x), ~(minute >= req[x].at + MinutesPerDay)
      PROVE  SlotOf(x) \in DOMAIN Evicted(entries)
  <2>1. SlotOf(x) \in DOMAIN entries /\ entries[SlotOf(x)].expires = req[x].at + MinutesPerDay
    BY <1>5 DEF KeysCore, ReservedOrStored, Holds
  <2> QED
    BY <1>2, <1>3, <1>5, <2>1
<1> QED
  BY <1>4, <1>5

\* A step that changes no entry and no claim.
LEMMA KeysStay ==
  ASSUME KeysCore, entries' = entries, inserted' = inserted, minute \in Nat, minute' \in Nat,
         minute <= minute', \A x \in VerifyRequests : Keyed(x) => req[x].at \in Nat, MinutesPerDay \in Nat,
         \A x \in VerifyRequests : Keyed(x)' =>
           /\ req'[x] = req[x]
           /\ step'[x] \in InProgress => step[x] \in InProgress
           /\ step'[x] = "answered" /\ Paid(x)' => step[x] = "answered" /\ Paid(x)
  PROVE  KeysCore'
<1>1. \A x \in VerifyRequests : Keyed(x)' =>
        /\ Keyed(x) /\ SlotOf(x)' = SlotOf(x) /\ (Holds(x) => Holds(x)')
        /\ Claims(x)' => Claims(x)
  BY DEF Keyed, SlotOf, Holds, Claims
<1>2. ReservedOrStored'
  BY <1>1 DEF KeysCore, ReservedOrStored
<1>3. ClaimsAreApart'
  <2> SUFFICES ASSUME NEW q \in VerifyRequests, NEW r \in VerifyRequests,
                      Retries(q, r)', Claims(q)', Claims(r)', req'[q].at <= req'[r].at
               PROVE  req'[r].at >= req'[q].at + MinutesPerDay
    BY DEF ClaimsAreApart
  <2>1. Keyed(q)' /\ Keyed(r)'
    BY DEF Retries, Keyed, Slot
  <2>2. Retries(q, r)
    BY <2>1 DEF Retries
  <2> QED
    BY <1>1, <2>1, <2>2 DEF KeysCore, ClaimsAreApart
<1>4. OldestExpireFirst'
  BY DEF KeysCore, OldestExpireFirst
<1> QED
  BY <1>2, <1>3, <1>4 DEF KeysCore

\* A request at work is answered.
LEMMA AnswerKeys ==
  ASSUME AdmissionCore, KeysCore, NEW r \in VerifyRequests, step[r] \in InProgress,
         step' = [step EXCEPT ![r] = "answered"],
         minute' = minute, req' = req, value' = value, chargedAt' = chargedAt,
         \A s \in DOMAIN entries : s # SlotOf(r) => s \in DOMAIN entries' /\ entries'[s] = entries[s],
         Keyed(r) /\ Paid(r) => /\ SlotOf(r) \in DOMAIN entries'
                                /\ entries'[SlotOf(r)].state = "done"
                                /\ entries'[SlotOf(r)].expires = req[r].at + MinutesPerDay,
         OldestExpireFirst'
  PROVE  KeysCore'
<1>1. \A x \in VerifyRequests :
        /\ step'[x] = IF x = r THEN "answered" ELSE step[x]
        /\ Keyed(x)' <=> Keyed(x)
        /\ Paid(x)' <=> Paid(x)
        /\ SlotOf(x)' = SlotOf(x)
        /\ Claims(x)' => Claims(x)
  <2>1. step \in [VerifyRequests -> Steps]
    BY DEF AdmissionCore, AdmissionTypes, AdmissionTypeOK
  <2>2. \A x \in VerifyRequests : step'[x] = IF x = r THEN "answered" ELSE step[x]
    BY <2>1
  <2> QED
    BY <2>2 DEF Keyed, Paid, SlotOf, Claims, InProgress
<1>2. ReservedOrStored'
  <2> SUFFICES ASSUME NEW x \in VerifyRequests, Keyed(x)
               PROVE  /\ step'[x] \in InProgress => Holds(x)' /\ (entries[SlotOf(x)].state)' = "in_flight"
                      /\ step'[x] = "answered" /\ Paid(x) =>
                           \/ minute' >= req'[x].at + MinutesPerDay
                           \/ Holds(x)' /\ (entries[SlotOf(x)].state)' = "done"
    BY <1>1 DEF ReservedOrStored
  <2>1. CASE x = r
    BY <1>1, <2>1 DEF InProgress, Holds
  <2>2. CASE x # r /\ SlotOf(x) # SlotOf(r)
    <3>1. Holds(x) => Holds(x)' /\ (entries[SlotOf(x)])' = entries[SlotOf(x)]
      BY <1>1, <2>2 DEF Holds
    <3> QED
      BY <1>1, <2>2, <3>1 DEF KeysCore, ReservedOrStored
  <2>3. CASE x # r /\ SlotOf(x) = SlotOf(r)
    <3>1. Keyed(r)
      BY <2>3 DEF Keyed, SlotOf, Slot
    <3> QED
      BY <1>1, <2>3, <3>1, OthersAreDone
  <2> QED
    BY <2>1, <2>2, <2>3
<1>3. ClaimsAreApart'
  <2>1. \A q, x \in VerifyRequests : Retries(q, x)' <=> Retries(q, x)
    BY DEF Retries
  <2> QED
    BY <1>1, <2>1 DEF KeysCore, ClaimsAreApart
<1> QED
  BY <1>2, <1>3 DEF KeysCore

LEMMA RespondKeys ==
  ASSUME AdmissionCore, KeysCore, NEW r \in VerifyRequests, Respond(r)
  PROVE  KeysCore'
<1>1. /\ step[r] = "ended" /\ step[r] \in InProgress /\ step' = [step EXCEPT ![r] = "answered"]
      /\ minute' = minute /\ req' = req /\ value' = value /\ chargedAt' = chargedAt
  BY DEF Respond, Answered, InProgress, quotaVars
<1>2. CASE ~Keyed(r)
  <2>1. entries' = entries /\ inserted' = inserted
    BY <1>2 DEF Respond, Keyed, storeVars
  <2>2. OldestExpireFirst'
    BY <2>1 DEF KeysCore, OldestExpireFirst
  <2> QED
    BY <1>1, <1>2, <2>1, <2>2, AnswerKeys
<1>3. CASE Keyed(r)
  <2>1. Put(entries, SlotOf(r), req[r].doc, "done", value[r], req[r].at)
    BY <1>3 DEF Respond, Keyed, SlotOf
  <2>2. SlotOf(r) \in DOMAIN entries /\ entries[SlotOf(r)].expires = req[r].at + MinutesPerDay
    BY <1>1, <1>3 DEF KeysCore, ReservedOrStored, Holds
  <2>3. /\ DOMAIN entries' = DOMAIN entries
        /\ \A s \in DOMAIN entries : s # SlotOf(r) => entries'[s] = entries[s]
        /\ entries'[SlotOf(r)].state = "done"
        /\ entries'[SlotOf(r)].place = entries[SlotOf(r)].place
        /\ entries'[SlotOf(r)].expires = req[r].at + MinutesPerDay
    BY <2>1, <2>2 DEF Put, Entry, PlaceOf
  <2>4. \A s \in DOMAIN entries : /\ entries'[s].place = entries[s].place
                                  /\ entries'[s].expires = entries[s].expires
    BY <2>2, <2>3
  <2>5. OldestExpireFirst'
    BY <2>3, <2>4 DEF KeysCore, OldestExpireFirst
  <2> QED
    BY <1>1, <2>2, <2>3, <2>5, AnswerKeys
<1> QED
  BY <1>2, <1>3

LEMMA RejectKeys ==
  ASSUME AdmissionCore, KeysCore, NEW r \in VerifyRequests, Reject(r)
  PROVE  KeysCore'
<1>1. /\ step[r] \in InProgress /\ step' = [step EXCEPT ![r] = "answered"]
      /\ minute' = minute /\ req' = req /\ value' = value /\ chargedAt' = chargedAt
  BY DEF Reject, Answered, InProgress, quotaVars
<1>2. ~Paid(r)
  <2>1. CASE step[r] = "refused"
    <3>1. value[r] = NoValue
      BY <2>1 DEF AdmissionCore, ResultsAreOwn
    <3> QED
      BY <3>1 DEF Paid, NoValue
  <2>2. CASE value[r].kind = "threw"
    BY <2>2 DEF Paid
  <2> QED
    BY <2>1, <2>2 DEF Reject
<1>3. /\ DOMAIN entries' \subseteq DOMAIN entries
      /\ \A s \in DOMAIN entries' : entries'[s] = entries[s]
      /\ \A s \in DOMAIN entries : s # SlotOf(r) => s \in DOMAIN entries'
  BY DEF Reject, Dropped, SlotOf
<1>4. OldestExpireFirst'
  BY <1>3 DEF KeysCore, OldestExpireFirst
<1> QED
  BY <1>1, <1>2, <1>3, <1>4, AnswerKeys

\* A request arrives: r's claim is new, the others' entries are still there.
LEMMA ArriveKeys ==
  ASSUME AdmissionCore, KeysCore, NotFull, NEW r \in VerifyRequests, Arrive(r)
  PROVE  KeysCore'
<1>1. PICK key \in ApiKeys, idem \in IdemKeys \cup {NoIdemKey}, doc \in Docs :
        LET slot == Slot(key, idem)
            kept == Evicted(entries)
        IN  /\ req' = [req EXCEPT ![r] = [key |-> key, idem |-> idem, doc |-> doc, at |-> minute]]
            /\ \/ /\ idem = NoIdemKey
                  /\ Consume(r, key)
                  /\ UNCHANGED <<storeVars, told>>
               \/ /\ idem # NoIdemKey /\ slot \notin DOMAIN kept
                  /\ Put(kept, slot, doc, "in_flight", NoValue, minute)
                  /\ Consume(r, key)
                  /\ UNCHANGED told
               \/ /\ idem # NoIdemKey /\ slot \in DOMAIN kept
                  /\ entries' = kept
                  /\ Replay(r, kept[slot], doc)
                  /\ UNCHANGED inserted
  BY DEF Arrive
<1> DEFINE q == [key |-> key, idem |-> idem, doc |-> doc, at |-> minute]
           slot == Slot(key, idem)
           kept == Evicted(entries)
<1>2. /\ step[r] = "new" /\ minute' = minute /\ value' = value /\ req' = [req EXCEPT ![r] = q]
      /\ ~Keyed(r) /\ value[r] = NoValue /\ chargedAt[r] = -1
  BY <1>1, RequestFacts DEF Arrive, AdmissionCore, ResultsAreOwn
<1>3. /\ step \in [VerifyRequests -> Steps] /\ req \in [VerifyRequests -> Requested \cup {NoRequest}]
      /\ chargedAt \in [VerifyRequests -> -1..LastMinute]
      /\ minute \in Nat /\ MinutesPerDay \in Nat /\ MinutesPerDay >= 3 /\ inserted \in Nat
      /\ \A s \in DOMAIN entries : entries[s] \in StoredEntries /\ entries[s].place <= inserted
                                   /\ entries[s].expires <= minute + MinutesPerDay
  BY RequestFacts DEF AdmissionCore, AdmissionTypes, AdmissionTypeOK, StoredIsOwn
<1>4. /\ DOMAIN kept \subseteq DOMAIN entries /\ \A s \in DOMAIN kept : kept[s] = entries[s]
  BY EvictedIsPart
<1>5. \E next \in {"charged", "refused", "answered"}, when \in Int :
        /\ step' = [step EXCEPT ![r] = next] /\ chargedAt' = [chargedAt EXCEPT ![r] = when]
  <2>1. CASE Consume(r, key)
    <3>1. CASE HasQuota(key)
      <4>1. step' = [step EXCEPT ![r] = "charged"] /\ chargedAt' = [chargedAt EXCEPT ![r] = minute]
        BY <2>1, <3>1 DEF Consume
      <4>2. minute \in Int
        BY <1>3
      <4> QED
        BY <4>1, <4>2
    <3>2. CASE ~HasQuota(key)
      <4>1. step' = [step EXCEPT ![r] = "refused"] /\ chargedAt' = [chargedAt EXCEPT ![r] = -1]
        BY <2>1, <3>2 DEF Consume
      <4>2. -1 \in Int
        OBVIOUS
      <4> QED
        BY <4>1, <4>2
    <3> QED
      BY <3>1, <3>2
  <2>2. CASE Replay(r, kept[slot], doc)
    <3>1. step' = [step EXCEPT ![r] = "answered"]
      BY <2>2 DEF Replay, Answered
    <3>2. chargedAt' = [chargedAt EXCEPT ![r] = chargedAt[r]] /\ chargedAt[r] \in Int
      BY <1>2, <1>3, <2>2 DEF Replay, quotaVars
    <3> QED
      BY <3>1, <3>2
  <2> QED
    BY <1>1, <2>1, <2>2
<1>6. PICK next \in {"charged", "refused", "answered"}, when \in Int :
        /\ step' = [step EXCEPT ![r] = next] /\ chargedAt' = [chargedAt EXCEPT ![r] = when]
  BY <1>5
<1>7. \A x \in VerifyRequests : x # r =>
        /\ step'[x] = step[x] /\ req'[x] = req[x] /\ chargedAt'[x] = chargedAt[x] /\ value'[x] = value[x]
        /\ Keyed(x)' <=> Keyed(x)
        /\ Paid(x)' <=> Paid(x)
        /\ SlotOf(x)' = SlotOf(x)
        /\ Claims(x)' <=> Claims(x)
  <2>1. \A x \in VerifyRequests : x # r =>
          /\ step'[x] = step[x] /\ req'[x] = req[x] /\ chargedAt'[x] = chargedAt[x] /\ value'[x] = value[x]
    BY <1>2, <1>3, <1>6
  <2> QED
    BY <2>1 DEF Keyed, Paid, SlotOf, Claims
<1>8. /\ step'[r] = next /\ req'[r] = q /\ ~Paid(r)' /\ SlotOf(r)' = slot
      /\ Keyed(r)' <=> idem # NoIdemKey
  BY <1>2, <1>3, <1>6 DEF Paid, NoValue, Keyed, SlotOf
<1> HIDE DEF q, slot, kept
<1>9. q.at = minute /\ q.key = key /\ q.idem = idem
  BY DEF q
\* If the slot was not found, who claimed it before was paid a day ago.
<1>10. ASSUME NEW x \in VerifyRequests, x # r, Keyed(x), Claims(x),
              SlotOf(x) = slot, slot \notin DOMAIN kept
       PROVE  /\ minute >= req[x].at + MinutesPerDay /\ req[x].at \in Nat
              /\ step[x] = "answered"
  <2>1. step[x] \notin InProgress
    BY <1>10, EvictedHolds DEF kept
  <2>2. step[x] = "answered" /\ Paid(x)
    BY <1>10, <2>1 DEF Claims
  <2>3. minute >= req[x].at + MinutesPerDay
    BY <1>10, <2>2, EvictedHolds DEF kept
  <2> QED
    BY <2>2, <2>3, RequestFacts
\* Whose slot it is not has what it had.
<1>11. ASSUME \A s \in DOMAIN kept : s # slot \/ slot \in DOMAIN kept => s \in DOMAIN entries' /\ entries'[s] = kept[s],
              NEW x \in VerifyRequests, x # r, Keyed(x),
              SlotOf(x) # slot \/ slot \in DOMAIN kept
       PROVE  /\ step'[x] \in InProgress => Holds(x)' /\ (entries[SlotOf(x)].state)' = "in_flight"
              /\ step'[x] = "answered" /\ Paid(x) =>
                   \/ minute' >= req'[x].at + MinutesPerDay
                   \/ Holds(x)' /\ (entries[SlotOf(x)].state)' = "done"
  <2>1. SlotOf(x) \in DOMAIN kept => /\ SlotOf(x) \in DOMAIN entries' /\ SlotOf(x) \in DOMAIN entries
                                     /\ entries'[SlotOf(x)] = entries[SlotOf(x)]
    BY <1>4, <1>11
  <2>2. SlotOf(x) \in DOMAIN kept => /\ Holds(x) => Holds(x)'
                                     /\ (entries[SlotOf(x)].state)' = entries[SlotOf(x)].state
    BY <1>7, <1>11, <2>1 DEF Holds
  <2>3. CASE step[x] \in InProgress
    <3>1. SlotOf(x) \in DOMAIN kept
      BY <1>11, <2>3, EvictedHolds DEF kept
    <3>2. Holds(x) /\ entries[SlotOf(x)].state = "in_flight"
      BY <1>11, <2>3 DEF KeysCore, ReservedOrStored
    <3> QED
      BY <1>7, <1>11, <2>2, <2>3, <3>1, <3>2 DEF InProgress
  <2>4. CASE step[x] = "answered" /\ Paid(x)
    <3>1. minute >= req[x].at + MinutesPerDay \/ SlotOf(x) \in DOMAIN kept
      BY <1>11, <2>4, EvictedHolds DEF kept
    <3>2. minute >= req[x].at + MinutesPerDay \/ (Holds(x) /\ entries[SlotOf(x)].state = "done")
      BY <1>11, <2>4 DEF KeysCore, ReservedOrStored
    <3> QED
      BY <1>2, <1>7, <1>11, <2>2, <2>4, <3>1, <3>2 DEF InProgress
  <2> QED
    BY <1>7, <1>11, <2>3, <2>4
\* Who asks without a key, or finds an entry, claims nothing.
<1>12. ASSUME NEW x \in VerifyRequests, NEW y \in VerifyRequests,
              Retries(x, y)', Claims(x)', Claims(y)', req'[x].at <= req'[y].at,
              \/ idem = NoIdemKey
              \/ next = "answered"
              \/ slot \notin DOMAIN kept
       PROVE  req'[y].at >= req'[x].at + MinutesPerDay
  <2>1. x # y /\ Keyed(x)' /\ Keyed(y)' /\ SlotOf(x)' = SlotOf(y)'
    BY <1>12 DEF Retries, Keyed, SlotOf, Slot
  <2>2. CASE x # r /\ y # r
    <3>1. Retries(x, y)
      BY <1>7, <1>12, <2>2 DEF Retries
    <3> QED
      BY <1>7, <1>12, <2>2, <3>1 DEF KeysCore, ClaimsAreApart
  <2>3. ASSUME x = r \/ y = r
        PROVE  /\ slot \notin DOMAIN kept
               /\ SlotOf(x)' = slot /\ SlotOf(y)' = slot
    <3>1. Keyed(r)' /\ Claims(r)' /\ SlotOf(x)' = slot /\ SlotOf(y)' = slot
      BY <1>8, <1>12, <2>1, <2>3
    <3>2. idem # NoIdemKey /\ next # "answered"
      BY <1>8, <3>1 DEF Claims, InProgress
    <3> QED
      BY <1>12, <3>1, <3>2
  <2>4. CASE y = r
    <3>1. x # r /\ Keyed(x) /\ Claims(x) /\ SlotOf(x) = slot
      BY <1>7, <1>12, <2>1, <2>3, <2>4
    <3>2. minute >= req[x].at + MinutesPerDay
      BY <1>10, <2>3, <2>4, <3>1
    <3> QED
      BY <1>7, <1>8, <1>9, <2>4, <3>1, <3>2
  <2>5. CASE x = r
    <3>1. y # r /\ Keyed(y) /\ Claims(y) /\ SlotOf(y) = slot
      BY <1>7, <1>12, <2>1, <2>3, <2>5
    <3>2. minute >= req[y].at + MinutesPerDay /\ req[y].at \in Nat
      BY <1>10, <2>3, <2>5, <3>1
    <3>3. minute <= req[y].at
      BY <1>7, <1>8, <1>9, <1>12, <2>5, <3>1
    <3> QED
      BY <1>3, <3>2, <3>3
  <2> QED
    BY <2>2, <2>4, <2>5
<1>13. CASE idem = NoIdemKey /\ Consume(r, key) /\ UNCHANGED <<storeVars, told>>
  <2>1. entries' = entries /\ inserted' = inserted
    BY <1>13 DEF storeVars
  <2>2. \A x \in VerifyRequests : Keyed(x)' => x # r
    BY <1>8, <1>13
  <2>3. \A x \in VerifyRequests : Keyed(x) => req[x].at \in Nat
    BY RequestFacts
  <2>4. \A x \in VerifyRequests : Keyed(x)' =>
           /\ req'[x] = req[x]
           /\ step'[x] \in InProgress => step[x] \in InProgress
           /\ step'[x] = "answered" /\ Paid(x)' => step[x] = "answered" /\ Paid(x)
    BY <1>7, <2>2
  <2>5. minute' \in Nat /\ minute <= minute'
    BY <1>2, <1>3
  <2> QED
    BY <1>3, <2>1, <2>3, <2>4, <2>5, KeysStay
<1>14. CASE /\ idem # NoIdemKey /\ slot \notin DOMAIN kept
            /\ Put(kept, slot, doc, "in_flight", NoValue, minute)
            /\ Consume(r, key) /\ UNCHANGED told
  <2>1. /\ DOMAIN entries' = DOMAIN kept \cup {slot} /\ inserted' = inserted + 1
        /\ \A s \in DOMAIN kept : s # slot => entries'[s] = kept[s]
        /\ entries'[slot] = Entry(inserted + 1, doc, "in_flight", NoValue, minute)
    BY <1>14 DEF Put, PlaceOf
  <2>2. /\ entries'[slot].place = inserted + 1 /\ entries'[slot].state = "in_flight"
        /\ entries'[slot].expires = minute + MinutesPerDay
    BY <2>1 DEF Entry
  <2>3. next \in {"charged", "refused"}
    <3>1. step'[r] \in {"charged", "refused"}
      BY <1>3, <1>14 DEF Consume
    <3> QED
      BY <1>8, <3>1
  <2>4. ReservedOrStored'
    <3> SUFFICES ASSUME NEW x \in VerifyRequests, Keyed(x)'
                 PROVE  /\ step'[x] \in InProgress => Holds(x)' /\ (entries[SlotOf(x)].state)' = "in_flight"
                        /\ step'[x] = "answered" /\ Paid(x)' =>
                             \/ minute' >= req'[x].at + MinutesPerDay
                             \/ Holds(x)' /\ (entries[SlotOf(x)].state)' = "done"
      BY DEF ReservedOrStored
    <3>1. CASE x = r
      <4>1. SlotOf(r)' = slot /\ slot \in DOMAIN entries' /\ req'[r].at = minute
        BY <1>8, <1>9, <2>1
      <4>2. Holds(r)' /\ (entries[SlotOf(r)].state)' = "in_flight"
        BY <2>2, <4>1 DEF Holds
      <4> QED
        BY <1>8, <3>1, <4>2
    <3>2. CASE x # r /\ SlotOf(x) # slot
      <4>1. Keyed(x) /\ (Paid(x)' <=> Paid(x))
        BY <1>7, <3>2
      <4>2. \A s \in DOMAIN kept : s # slot \/ slot \in DOMAIN kept => s \in DOMAIN entries' /\ entries'[s] = kept[s]
        BY <1>14, <2>1
      <4> QED
        BY <1>11, <3>2, <4>1, <4>2
    <3>3. CASE x # r /\ SlotOf(x) = slot
      <4>1. Keyed(x) /\ (Paid(x)' <=> Paid(x)) /\ step'[x] = step[x] /\ req'[x] = req[x]
        BY <1>7, <3>3
      <4>2. Claims(x) => step[x] = "answered" /\ minute >= req[x].at + MinutesPerDay
        BY <1>10, <1>14, <3>3, <4>1
      <4> QED
        BY <1>2, <4>1, <4>2 DEF Claims, InProgress
    <3> QED
      BY <3>1, <3>2, <3>3
  <2>5. ClaimsAreApart'
    BY <1>12, <1>14 DEF ClaimsAreApart
  <2>6. OldestExpireFirst'
    <3> SUFFICES ASSUME NEW s \in DOMAIN entries', NEW t \in DOMAIN entries',
                        entries'[s].place <= entries'[t].place
                 PROVE  entries'[s].expires <= entries'[t].expires
      BY DEF OldestExpireFirst
    <3>1. \A u \in DOMAIN entries' : u # slot =>
            /\ u \in DOMAIN entries /\ entries'[u] = entries[u]
            /\ entries[u].place \in Nat /\ entries[u].place <= inserted
            /\ entries[u].expires <= minute + MinutesPerDay
      BY <1>3, <1>4, <2>1 DEF StoredEntries
    <3>2. CASE s # slot /\ t # slot
      BY <3>1, <3>2 DEF KeysCore, OldestExpireFirst
    <3>3. CASE t = slot
      BY <1>3, <2>2, <3>1, <3>3
    <3>4. CASE s = slot /\ t # slot
      BY <1>3, <2>2, <3>1, <3>4
    <3> QED
      BY <3>2, <3>3, <3>4
  <2> QED
    BY <2>4, <2>5, <2>6 DEF KeysCore
<1>15. CASE /\ idem # NoIdemKey /\ slot \in DOMAIN kept /\ entries' = kept
            /\ Replay(r, kept[slot], doc) /\ UNCHANGED inserted
  <2>1. next = "answered"
    <3>1. step'[r] = "answered"
      BY <1>3, <1>15 DEF Replay, Answered
    <3> QED
      BY <1>8, <3>1
  <2>2. ReservedOrStored'
    <3> SUFFICES ASSUME NEW x \in VerifyRequests, Keyed(x)'
                 PROVE  /\ step'[x] \in InProgress => Holds(x)' /\ (entries[SlotOf(x)].state)' = "in_flight"
                        /\ step'[x] = "answered" /\ Paid(x)' =>
                             \/ minute' >= req'[x].at + MinutesPerDay
                             \/ Holds(x)' /\ (entries[SlotOf(x)].state)' = "done"
      BY DEF ReservedOrStored
    <3>1. CASE x = r
      BY <1>8, <2>1, <3>1 DEF InProgress
    <3>2. CASE x # r
      <4>1. Keyed(x) /\ (Paid(x)' <=> Paid(x))
        BY <1>7, <3>2
      <4> QED
        BY <1>11, <1>15, <3>2, <4>1
    <3> QED
      BY <3>1, <3>2
  <2>3. ClaimsAreApart'
    BY <1>12, <2>1 DEF ClaimsAreApart
  <2>4. OldestExpireFirst'
    BY <1>4, <1>15 DEF KeysCore, OldestExpireFirst
  <2> QED
    BY <2>2, <2>3, <2>4 DEF KeysCore
<1> QED
  BY <1>1, <1>13, <1>14, <1>15 DEF slot, kept

LEMMA KeysStep == AdmissionCore /\ KeysCore /\ NotFull /\ [AdmissionNext]_admissionVars => KeysCore'
<1> SUFFICES ASSUME AdmissionCore, KeysCore, NotFull, [AdmissionNext]_admissionVars PROVE KeysCore'
  OBVIOUS
<1>1. minute \in Nat /\ MinutesPerDay \in Nat /\ \A x \in VerifyRequests : Keyed(x) => req[x].at \in Nat
  <2>1. minute \in Nat /\ MinutesPerDay \in Nat
    BY AdmissionAssumption DEF AdmissionCore, AdmissionTypes, AdmissionTypeOK
  <2> QED
    BY <2>1, RequestFacts
<1>2. CASE MinutePasses
  <2>1. /\ minute' = minute + 1 /\ entries' = entries /\ inserted' = inserted
        /\ chargedAt' = chargedAt /\ req' = req /\ step' = step /\ value' = value
    BY <1>2 DEF MinutePasses, storeVars, quotaVars
  <2>2. minute' \in Nat /\ minute <= minute'
    BY <1>1, <2>1
  <2> QED
    BY <1>1, <2>1, <2>2, KeysStay DEF Keyed, Paid
<1>3. ASSUME NEW r \in VerifyRequests, Arrive(r) PROVE KeysCore'
  BY <1>3, ArriveKeys
<1>4. ASSUME NEW r \in VerifyRequests, TakeSlot(r) PROVE KeysCore'
  <2>1. /\ minute' = minute /\ entries' = entries /\ inserted' = inserted
        /\ chargedAt' = chargedAt /\ req' = req /\ value' = value
        /\ \E next \in {"running", "refused"} : step' = [step EXCEPT ![r] = next]
        /\ step[r] = "charged"
    BY <1>4 DEF TakeSlot, storeVars, quotaVars
  <2>2. \A x \in VerifyRequests : /\ step'[x] \in InProgress => step[x] \in InProgress
                                  /\ step'[x] = "answered" => step[x] = "answered"
    BY <2>1 DEF AdmissionCore, AdmissionTypes, AdmissionTypeOK, InProgress
  <2>3. minute <= minute'
    BY <1>1, <2>1
  <2> QED
    BY <1>1, <2>1, <2>2, <2>3, KeysStay DEF Keyed, Paid
<1>5. ASSUME NEW r \in VerifyRequests, RunEnds(r) PROVE KeysCore'
  <2>1. /\ minute' = minute /\ entries' = entries /\ inserted' = inserted
        /\ chargedAt' = chargedAt /\ req' = req
        /\ step' = [step EXCEPT ![r] = "ended"] /\ step[r] = "running"
        /\ \E v : value' = [value EXCEPT ![r] = v]
    BY <1>5 DEF RunEnds, storeVars, quotaVars
  <2>2. \A x \in VerifyRequests : /\ step'[x] \in InProgress => step[x] \in InProgress
                                  /\ step'[x] = "answered" => step[x] = "answered" /\ value'[x] = value[x]
    BY <2>1 DEF AdmissionCore, AdmissionTypes, AdmissionTypeOK, InProgress
  <2>3. minute <= minute'
    BY <1>1, <2>1
  <2> QED
    BY <1>1, <2>1, <2>2, <2>3, KeysStay DEF Keyed, Paid
<1>6. ASSUME NEW r \in VerifyRequests, Respond(r) PROVE KeysCore'
  BY <1>6, RespondKeys
<1>7. ASSUME NEW r \in VerifyRequests, Reject(r) PROVE KeysCore'
  BY <1>7, RejectKeys
<1>8. CASE UNCHANGED admissionVars
  <2>1. /\ minute' = minute /\ entries' = entries /\ inserted' = inserted
        /\ chargedAt' = chargedAt /\ req' = req /\ step' = step /\ value' = value
    BY <1>8 DEF admissionVars, storeVars, quotaVars
  <2>2. minute <= minute'
    BY <1>1, <2>1
  <2> QED
    BY <1>1, <2>1, <2>2, KeysStay DEF Keyed, Paid
<1> QED
  BY <1>2, <1>3, <1>4, <1>5, <1>6, <1>7, <1>8 DEF AdmissionNext

\* What follows for the plan, and for the requests that share a key.
LEMMA PlanFollows == AdmissionCore => PlanIsKept
<1> SUFFICES ASSUME AdmissionCore PROVE PlanIsKept
  OBVIOUS
<1>1. minute \in 0..LastMinute /\ LastMinute \in Nat
  BY AdmissionAssumption DEF AdmissionCore, AdmissionTypes, AdmissionTypeOK
<1>2. \A t \in 0..minute : t \in 0..LastMinute
  BY <1>1
<1> QED
  BY <1>2 DEF AdmissionCore, BucketsCount, PlanKept, PlanIsKept, DayOf

LEMMA KeysFollow == AdmissionCore /\ KeysCore => OneRunPerKey /\ PaidOnce
<1> SUFFICES ASSUME AdmissionCore, KeysCore, NEW q \in VerifyRequests, NEW r \in VerifyRequests, Retries(q, r)
             PROVE  /\ ~(step[q] \in {"charged", "running"} /\ step[r] \in {"charged", "running"})
                    /\ Paid(q) /\ Paid(r) /\ chargedAt[q] <= chargedAt[r]
                         => chargedAt[r] >= chargedAt[q] + MinutesPerDay
  BY DEF OneRunPerKey, PaidOnce
<1>1. /\ Keyed(q) /\ Keyed(r) /\ q # r /\ SlotOf(q) = SlotOf(r)
  BY DEF Retries, Keyed, SlotOf, Slot
<1>2. ~(step[q] \in {"charged", "running"} /\ step[r] \in {"charged", "running"})
  BY <1>1, OthersAreDone DEF InProgress
<1>3. ASSUME NEW x \in VerifyRequests, Paid(x) PROVE chargedAt[x] = req[x].at /\ Claims(x)
  <2>1. chargedAt[x] = req[x].at
    <3>1. chargedAt[x] \in {-1, req[x].at} /\ chargedAt[x] >= 0
      BY <1>3 DEF Paid, AdmissionCore, BucketsCount
    <3> QED
      BY <3>1
  <2>2. value[x] # NoValue
    BY <1>3 DEF Paid, NoValue
  <2>3. step[x] \in {"ended", "answered"}
    BY <2>2 DEF AdmissionCore, AdmissionTypes, AdmissionTypeOK, ResultsAreOwn, Steps
  <2> QED
    BY <1>3, <2>1, <2>3 DEF Claims, InProgress
<1> QED
  BY <1>2, <1>3 DEF KeysCore, ClaimsAreApart

-----------------------------------------------------------------------------
\* Whatever the size of the store, no key is charged beyond its plan in any
\* minute or day, every answer and every stored result is about its own
\* document, a reservation belongs to a request still at work, and a
\* concurrency slot to a run (routes/verify.ts, services/quota.ts and
\* services/idempotency.ts).
THEOREM AdmissionKeepsThePlan ==
  AdmissionSpec => [](AdmissionTypeOK /\ PlanIsKept /\ OwnDocument /\ NoStuckReservation /\ SlotsMatchRuns)
<1>1. AdmissionCore => AdmissionTypeOK /\ PlanIsKept /\ OwnDocument /\ NoStuckReservation /\ SlotsMatchRuns
  BY PlanFollows DEF AdmissionCore, AdmissionTypes
<1> QED
  BY <1>1, AdmissionInitCore, AdmissionStepCore, PTL DEF AdmissionSpec

\* As long as the store is not over its capacity, the requests that share
\* an Idempotency-Key run one at a time, and one of them pays within the TTL
\* (InMemoryIdempotencyStore.run, whose capacity rule drops reservations too).
THEOREM AdmissionInvariance == AdmissionSpec /\ []NotFull => []AdmissionInv
<1>1. AdmissionCore /\ KeysCore => AdmissionInv
  BY PlanFollows, KeysFollow DEF AdmissionInv, AdmissionCore, AdmissionTypes
<1> QED
  BY <1>1, AdmissionInitCore, AdmissionStepCore, KeysStep, PTL DEF AdmissionSpec

\* As long as the store is not over its capacity, no replay is older than the TTL,
\* though evictExpired looks at the age of the entry inserted first alone.
THEOREM ReplaysAreFresh == AdmissionSpec /\ []NotFull => ReplayIsFresh
<1>1. ASSUME AdmissionCore, KeysCore, [AdmissionNext]_admissionVars,
             NEW r \in VerifyRequests, step[r] = "new", step'[r] = "answered"
      PROVE  minute < told'[r].at + MinutesPerDay
  <2>1. /\ minute \in Nat /\ MinutesPerDay \in Nat /\ MinutesPerDay >= 3
        /\ step \in [VerifyRequests -> Steps] /\ told \in [VerifyRequests -> Values]
        /\ \A s \in DOMAIN entries : entries[s] \in StoredEntries
    BY <1>1, AdmissionAssumption DEF AdmissionCore, AdmissionTypes, AdmissionTypeOK
  <2>2. Arrive(r)
    <3>1. CASE UNCHANGED admissionVars
      BY <1>1, <3>1 DEF admissionVars
    <3>2. CASE MinutePasses
      BY <1>1, <3>2 DEF MinutePasses
    <3>3. ASSUME NEW x \in VerifyRequests, TakeSlot(x) \/ RunEnds(x) \/ Respond(x) \/ Reject(x)
          PROVE  FALSE
      <4>1. step[x] # "new" /\ \A y \in VerifyRequests : y # x => step'[y] = step[y]
        BY <2>1, <3>3 DEF TakeSlot, RunEnds, Respond, Reject, Answered
      <4> QED
        BY <1>1, <4>1
    <3>4. ASSUME NEW x \in VerifyRequests, Arrive(x), x # r PROVE FALSE
      <4>1. step'[r] = step[r]
        BY <2>1, <3>4 DEF Arrive, Consume, Replay, Answered
      <4> QED
        BY <1>1, <4>1
    <3> QED
      BY <1>1, <3>1, <3>2, <3>3, <3>4 DEF AdmissionNext
  <2>3. PICK slot, doc : slot \in DOMAIN Evicted(entries) /\ Replay(r, Evicted(entries)[slot], doc)
    <3>1. \A key : ~Consume(r, key)
      BY <1>1, <2>1 DEF Consume
    <3> QED
      BY <2>2, <3>1 DEF Arrive
  <2>4. /\ slot \in DOMAIN entries /\ Evicted(entries)[slot] = entries[slot]
        /\ entries[slot] \in StoredEntries /\ entries[slot].expires \in Nat
        /\ entries[slot].value.at \in Int
    <3>1. slot \in DOMAIN entries /\ Evicted(entries)[slot] = entries[slot]
      BY <2>3, EvictedIsPart
    <3>2. entries[slot].value.at \in 0..LastMinute /\ entries[slot].expires \in Nat
      BY <2>1, <3>1 DEF StoredEntries, Values
    <3> QED
      BY <2>1, <3>1, <3>2, AdmissionAssumption
  <2>5. entries[slot].expires > minute
    <3>1. \A s \in DOMAIN entries : entries[s].place \in Nat /\ entries[s].expires \in Nat
      BY <2>1 DEF StoredEntries
    <3>2. \A s, t \in DOMAIN entries : entries[s].place <= entries[t].place => entries[s].expires <= entries[t].expires
      BY <1>1 DEF KeysCore, OldestExpireFirst
    <3>3. Evicted(entries)[slot].expires > minute
      BY <2>1, <2>3, <3>1, <3>2, EvictedIsFresh
    <3> QED
      BY <2>4, <3>3
  <2>6. CASE told' = [told EXCEPT ![r] = [kind |-> entries[slot].value.kind, doc |-> entries[slot].value.doc,
                                          at |-> entries[slot].value.at]]
              /\ entries[slot].state # "in_flight"
    <3>1. entries[slot].state = "done"
      BY <2>4, <2>6 DEF StoredEntries
    <3>2. entries[slot].expires <= entries[slot].value.at + MinutesPerDay
      BY <1>1, <2>4, <3>1 DEF AdmissionCore, StoredIsOwn
    <3> QED
      BY <2>1, <2>4, <2>5, <2>6, <3>2
  <2>7. CASE \E kind : told' = [told EXCEPT ![r] = [kind |-> kind, doc |-> doc, at |-> minute]]
    BY <2>1, <2>7
  <2> QED
    BY <2>3, <2>4, <2>6, <2>7 DEF Replay, Answered
<1>2. AdmissionCore /\ KeysCore /\ [AdmissionNext]_admissionVars =>
        [\A r \in VerifyRequests :
           (step[r] = "new" /\ step'[r] = "answered") => minute < told'[r].at + MinutesPerDay]_admissionVars
  BY <1>1
<1> QED
  BY <1>2, AdmissionInitCore, AdmissionStepCore, KeysStep, PTL DEF AdmissionSpec, ReplayIsFresh

-----------------------------------------------------------------------------
(* The verification of a document.                                         *)

\* A result is posted once all is verified; a document is "valid" so far only
\* if its signature verified last is one that nothing unaccounted follows.
BusIInv ==
  /\ BusInv
  /\ Posted => Verified
  /\ worst = "valid" => done = 0 \/ (done \in Signatures /\ ~Unaccounted(done))
  /\ answer # "none" => engine = "nobody"

LEMMA FileIsSequence ==
  ASSUME file \in Pdfs
  PROVE  file \in Seq(Parts) /\ Len(file) \in 0..MaxParts
<1>1. PICK n \in 0..MaxParts : file \in [1..n -> Parts]
  BY DEF Pdfs
<1>2. file \in Seq(Parts) /\ Len(file) = n
  BY <1>1, BusAssumption
<1> QED
  BY <1>2

LEMMA OverallIsTyped ==
  ASSUME BusTypeOK
  PROVE  Overall \in {"valid", "warning", "invalid", "no_signature"}
BY DEF BusTypeOK, Overall

\* What a sound partial verdict becomes once all is verified.
LEMMA ValidIsAccounted ==
  ASSUME BusIInv, Verified, Overall = "valid"
  PROVE  Signatures # {} /\ file[Len(file)] # "bytes"
<1>1. worst = "valid" /\ Signatures # {}
  BY DEF Overall
<1>2. Len(file) \in Nat /\ done \in Nat
  BY FileIsSequence DEF BusIInv, BusInv, BusTypeOK
<1>3. done \in Signatures /\ ~Unaccounted(done)
  <2>1. PICK k \in Signatures : k <= done
    BY <1>1 DEF Verified
  <2>2. k \in 1..Len(file)
    BY DEF Signatures
  <2> QED
    BY <1>1, <1>2, <2>1, <2>2 DEF BusIInv
<1>4. Latest(done)
  BY DEF Latest, Verified
<1>5. ~Updated(done) \/ WrappedByStamp(done)
  BY <1>3, <1>4 DEF Unaccounted
<1>6. CASE ~Updated(done)
  <2>1. done = Len(file) /\ file[done] = "signature"
    BY <1>2, <1>3, <1>6 DEF Updated, Signatures
  <2> QED
    BY <2>1, <1>1
<1>7. CASE WrappedByStamp(done)
  BY <1>1, <1>7 DEF WrappedByStamp
<1> QED
  BY <1>5, <1>6, <1>7

LEMMA BusInitIInv == BusInit => BusIInv
<1> SUFFICES ASSUME BusInit PROVE BusIInv
  OBVIOUS
<1> USE BusAssumption DEF BusInit
<1>0. 0 \in 0..MaxParts /\ <<>> \in Seq({"progress", "result"})
  OBVIOUS
<1>1. BusTypeOK
  BY <1>0 DEF BusTypeOK
<1>2. ~Posted
  BY DEF Posted
<1> QED
  BY <1>1, <1>2 DEF BusIInv, BusInv, ValidAccountsForTheTail, OneEngine

LEMMA VerifySignatureStep == BusIInv /\ VerifySignature => BusIInv'
<1> SUFFICES ASSUME BusIInv, VerifySignature PROVE BusIInv'
  OBVIOUS
<1>1. PICK k \in Signatures, own \in {"valid", "warning", "invalid"} :
        /\ k > done /\ done' = k
        /\ worst' = Worse(worst, IF own = "valid" /\ Unaccounted(k) THEN "warning" ELSE own)
  BY DEF VerifySignature
<1>2. /\ engine \in {"worker", "main"} /\ answer = "none"
      /\ mail' = (IF engine = "worker" THEN Append(mail, "progress") ELSE mail)
      /\ UNCHANGED <<file, engine, loaded, booted, answer>>
  BY DEF VerifySignature, Computing, BusIInv
<1>3. file \in Pdfs /\ mail \in Seq({"progress", "result"})
      /\ worst \in {"valid", "warning", "invalid"} /\ Len(file) \in 0..MaxParts
      /\ done \in 0..MaxParts
  BY FileIsSequence DEF BusIInv, BusInv, BusTypeOK
<1>4. /\ worst' \in {"valid", "warning", "invalid"}
      /\ worst' = "valid" => ~Unaccounted(k)
  BY <1>1, <1>3 DEF Worse, Rank
<1>5. k \in 1..Len(file) /\ done' \in 0..MaxParts
  BY <1>1, <1>3, BusAssumption DEF Signatures
<1>6. mail' \in Seq({"progress", "result"})
  BY <1>2, <1>3
<1>7. BusTypeOK'
  BY <1>2, <1>4, <1>5, <1>6 DEF BusIInv, BusInv, BusTypeOK
<1>8. ~Verified
  BY <1>1, <1>3, <1>5 DEF Verified
<1>9. ~Posted'
  <2>1. ~Posted
    BY <1>8 DEF BusIInv
  <2> QED
    BY <2>1, <1>2, <1>3 DEF Posted
<1>10. (worst = "valid" => done = 0 \/ (done \in Signatures /\ ~Unaccounted(done)))'
  BY <1>1, <1>2, <1>4 DEF Signatures, Unaccounted, Updated, Latest, WrappedByStamp
<1>11. OneEngine'
  BY <1>2 DEF OneEngine, BusIInv, BusInv
<1> QED
  BY <1>2, <1>7, <1>9, <1>10, <1>11 DEF BusIInv, BusInv, ValidAccountsForTheTail

\* What the bus and the worker do to the messages.
LEMMA MailStep ==
  BusIInv /\ (WorkerBoots \/ WorkerAnswers \/ HearProgress) => BusIInv'
<1> SUFFICES ASSUME BusIInv, WorkerBoots \/ WorkerAnswers \/ HearProgress PROVE BusIInv'
  OBVIOUS
<1>1. /\ UNCHANGED <<file, engine, done, worst, answer>> /\ engine = "worker" /\ answer = "none"
      /\ loaded' \in BOOLEAN /\ booted' \in BOOLEAN
  BY DEF WorkerBoots, WorkerAnswers, HearProgress, engineVars, BusIInv, BusInv, BusTypeOK
<1>2. mail \in Seq({"progress", "result"})
  BY DEF BusIInv, BusInv, BusTypeOK
<1>3. mail' \in Seq({"progress", "result"}) /\ (Posted' => Verified)
  <2>1. CASE WorkerBoots
    BY <1>2, <2>1 DEF WorkerBoots, Posted, BusIInv
  <2>2. CASE WorkerAnswers
    BY <1>2, <2>2 DEF WorkerAnswers
  <2>3. CASE HearProgress
    <3>1. \A n \in 1..Len(mail') : mail'[n] = mail[n + 1] /\ n + 1 \in 1..Len(mail)
      BY <1>2, <2>3 DEF HearProgress
    <3> QED
      BY <1>2, <2>3, <3>1 DEF HearProgress, Posted, BusIInv
  <2> QED
    BY <2>1, <2>2, <2>3
<1>4. BusTypeOK'
  BY <1>1, <1>3 DEF BusIInv, BusInv, BusTypeOK
<1>5. Verified' <=> Verified
  BY <1>1 DEF Verified, Signatures
<1>6. (worst = "valid" => done = 0 \/ (done \in Signatures /\ ~Unaccounted(done)))'
  BY <1>1 DEF BusIInv, Signatures, Unaccounted, Updated, Latest, WrappedByStamp
<1> QED
  BY <1>1, <1>3, <1>4, <1>5, <1>6 DEF BusIInv, BusInv, ValidAccountsForTheTail, OneEngine

LEMMA RestartStep == BusIInv /\ (ScanThrows \/ Stillborn) => BusIInv'
<1>1. ASSUME BusIInv, ScanThrows PROVE BusIInv'
  <2>1. /\ UNCHANGED <<file, engine, loaded, mail, booted, answer>> /\ answer = "none"
        /\ done' = Len(file) /\ worst' = "invalid" /\ ~Posted
    BY <1>1 DEF ScanThrows, Computing, BusIInv
  <2>2. BusTypeOK'
    BY <1>1, <2>1, FileIsSequence DEF BusIInv, BusInv, BusTypeOK
  <2>3. ~Posted'
    BY <2>1 DEF Posted
  <2> QED
    BY <1>1, <2>1, <2>2, <2>3 DEF BusIInv, BusInv, ValidAccountsForTheTail, OneEngine
<1>2. ASSUME BusIInv, Stillborn PROVE BusIInv'
  <2>1. /\ UNCHANGED <<file, loaded, booted, answer>> /\ answer = "none" /\ ~booted
        /\ engine' = "main" /\ mail' = <<>> /\ done' = 0 /\ worst' = "valid"
    BY <1>2 DEF Stillborn, FallsBack, BusIInv
  <2>2. BusTypeOK'
    BY <1>2, <2>1, BusAssumption DEF BusIInv, BusInv, BusTypeOK
  <2>3. ~Posted'
    BY <2>1 DEF Posted
  <2> QED
    BY <1>2, <2>1, <2>2, <2>3 DEF BusIInv, BusInv, ValidAccountsForTheTail, OneEngine
<1> QED
  BY <1>1, <1>2

LEMMA SettleStep ==
  BusIInv /\ (HearResult \/ WorkerFails \/ WatchdogFires \/ MainThreadAnswers \/ MainThreadFails)
    => BusIInv'
<1> SUFFICES ASSUME BusIInv, HearResult \/ WorkerFails \/ WatchdogFires
                             \/ MainThreadAnswers \/ MainThreadFails
             PROVE  BusIInv'
  OBVIOUS
<1>1. /\ UNCHANGED <<file, loaded, booted, done, worst>> /\ engine' = "nobody" /\ mail' = <<>>
      /\ answer' \in {"timeout", "error", Overall}
  BY DEF HearResult, WorkerFails, WatchdogFires, MainThreadAnswers, MainThreadFails, Settles,
     engineVars
<1>2. answer' \notin {"timeout", "error"} => Verified /\ answer' = Overall
  <2>1. CASE HearResult
    <3>1. 1 \in 1..Len(mail) /\ mail[1] = "result"
      BY <2>1 DEF HearResult, BusIInv, BusInv, BusTypeOK
    <3>2. Posted
      BY <3>1 DEF Posted
    <3> QED
      BY <2>1, <3>2 DEF HearResult, Settles, BusIInv
  <2>2. CASE MainThreadAnswers
    BY <2>2 DEF MainThreadAnswers, Settles
  <2>3. CASE WorkerFails \/ WatchdogFires \/ MainThreadFails
    BY <2>3 DEF WorkerFails, WatchdogFires, MainThreadFails, Settles
  <2> QED
    BY <2>1, <2>2, <2>3
<1>3. BusTypeOK'
  BY <1>1, OverallIsTyped DEF BusIInv, BusInv, BusTypeOK
<1>4. (Verified' <=> Verified) /\ Signatures' = Signatures /\ ~Posted'
  BY <1>1 DEF Verified, Signatures, Posted
<1>5. ValidAccountsForTheTail'
  <2> SUFFICES ASSUME answer' = "valid" PROVE Signatures # {} /\ Verified /\ file[Len(file)] # "bytes"
    BY <1>1, <1>4 DEF ValidAccountsForTheTail
  <2> QED
    BY <1>2, ValidIsAccounted
<1>6. (worst = "valid" => done = 0 \/ (done \in Signatures /\ ~Unaccounted(done)))'
  BY <1>1 DEF BusIInv, Signatures, Unaccounted, Updated, Latest, WrappedByStamp
<1> QED
  BY <1>1, <1>3, <1>4, <1>5, <1>6 DEF BusIInv, BusInv, OneEngine

\* Of a document of any length, whether its worker boots, hangs, dies or answers:
\* one engine works on the answer, and "valid" accounts for every signature and
\* every byte after the last of them.
THEOREM BusInvariance == BusSpec => []BusInv
<1>1. BusIInv /\ [BusNext]_verifyVars => BusIInv'
  <2> SUFFICES ASSUME BusIInv, [BusNext]_verifyVars PROVE BusIInv'
    OBVIOUS
  <2>1. CASE BusNext
    BY <2>1, VerifySignatureStep, MailStep, RestartStep, SettleStep DEF BusNext
  <2>2. CASE UNCHANGED verifyVars
    <3> USE <2>2 DEF verifyVars, engineVars
    <3>1. BusTypeOK' /\ OneEngine'
      BY DEF BusIInv, BusInv, BusTypeOK, OneEngine
    <3>2. (Verified' <=> Verified) /\ Signatures' = Signatures /\ (Posted' <=> Posted)
      BY DEF Verified, Signatures, Posted
    <3>3. ValidAccountsForTheTail'
      BY <3>2 DEF BusIInv, BusInv, ValidAccountsForTheTail
    <3>4. (worst = "valid" => done = 0 \/ (done \in Signatures /\ ~Unaccounted(done)))'
      BY DEF BusIInv, Signatures, Unaccounted, Updated, Latest, WrappedByStamp
    <3> QED
      BY <3>1, <3>2, <3>3, <3>4 DEF BusIInv, BusInv
  <2> QED
    BY <2>1, <2>2
<1>2. BusIInv => BusInv
  BY DEF BusIInv
<1> QED
  BY <1>1, <1>2, BusInitIInv, PTL DEF BusSpec

-----------------------------------------------------------------------------
(* The verdict on one signature.                                           *)

VerdictTypes ==
  /\ VerdictTypeOK
  /\ links \in {1, 2} /\ link \in 1..3
  /\ expiry \in 1..Now /\ declared \in 0..Now
  /\ cut \in {"no", "budget", "deadline"}
  /\ signerEvidence \in BOOLEAN /\ skipped \in BOOLEAN /\ caSkipped \in BOOLEAN
  /\ dssPresent \in BOOLEAN /\ stamped \in BOOLEAN /\ askLive \in BOOLEAN
  /\ status # "none" => stage = "done"

\* The scan has read an entry at the link it speaks of.
IsRead(e) == e.link < link \/ (e.link = link /\ e \notin unread)

NothingBeforeTheScan ==
  /\ stage \in {"tsa", "chain", "dss"} =>
       /\ dss = {} /\ scope = {} /\ unread = {} /\ ~dssPresent /\ link = 1 /\ cut = "no"
       /\ signerRevoked = Never /\ caRevoked = Never /\ ~signerEvidence
  /\ scope # {} \/ stage = "scan" \/ cut # "no" => dssPresent
  /\ link > 1 => link - 1 \in Links

\* A revocation that was found is one the document proves.
RevocationsAreProven ==
  /\ signerRevoked # Never => \E e \in scope : Proven(e) /\ e.revoked = signerRevoked
  /\ caRevoked # Never => \E e \in scope : Proven(e) /\ e.revoked = caRevoked

\* None of those read is earlier than the one that was kept, unless the
\* deadline threw it away.
NoneOverlooked ==
  cut # "deadline" =>
    \A e \in scope : Proven(e) /\ IsRead(e) =>
      /\ e.link = 1 => signerRevoked <= e.revoked
      /\ e.link = 2 => caRevoked <= e.revoked

\* What could not be read is noted, for the link it may concern.
SkippedIsNoted ==
  \A e \in scope :
    (e.authentic /\ e.form \in {"large", "indirect"} /\ e.link \in Links /\ IsRead(e)) =>
      skipped /\ (e.link = 2 => caSkipped)

EvidenceIsAuthentic ==
  signerEvidence =>
    /\ cut = "no"
    /\ \E e \in scope : Proven(e) /\ e.link = 1 /\ (e.revoked # Never \/ Covers(e))

ScanRanToItsEnd ==
  (stage \in {"ocsp", "verdict", "done"} /\ cut = "no") => link \notin Links \/ scope = {}

PathWasChecked ==
  /\ stage \in {"tsa", "chain"} => path = "failed"
  /\ path = "ok" => PathHolds(Cutoff)

ResponderWasAsked ==
  /\ live = "revoked" <=> liveRevoked # Never
  /\ live # "unasked" => stage \in {"verdict", "done"}
  /\ stage \in {"verdict", "done"} /\ live = "unasked" => ~AsksLive

VerdictCore ==
  /\ VerdictTypes /\ NothingBeforeTheScan /\ RevocationsAreProven /\ NoneOverlooked
  /\ SkippedIsNoted /\ EvidenceIsAuthentic /\ ScanRanToItsEnd
  /\ PathWasChecked /\ ResponderWasAsked

VerdictIInv == VerdictCore /\ EarliestRevocationDecides /\ ValidWasChecked

\* What an entry may say.
LEMMA EntryTypes ==
  ASSUME VerdictTypes, NEW e \in scope
  PROVE  /\ e.link \in 0..2 /\ e.revoked \in 0..Never
         /\ e.kind = "ocsp" => e.form \notin {"partial", "indirect"}
         /\ e.kind \in {"ocsp", "crl"}
<1>1. e \in Entries
  BY VerdictAssumption DEF VerdictTypes, VerdictTypeOK
<1> QED
  BY <1>1 DEF Entries

LEMMA CutoffIsPast ==
  ASSUME VerdictTypes
  PROVE  Never \in Nat /\ Cutoff \in 1..Now /\ Cutoff < Never
BY VerdictAssumption DEF VerdictTypes, VerdictTypeOK, Cutoff, Never

LEMMA LinksOfThePath == VerdictTypes => Links \subseteq {1, 2} /\ (1 \in Links <=> Links # {})
BY DEF VerdictTypes, Links

LEMMA VerdictInitCore == VerdictInit => VerdictCore
<1> SUFFICES ASSUME VerdictInit PROVE VerdictCore
  OBVIOUS
<1> USE VerdictAssumption DEF VerdictInit
<1>0. expiry \in 1..Now /\ declared \in 0..Now /\ Never \in Nat /\ 0 \in 0..Now
  BY DEF Never
<1>1. VerdictTypes
  <2>1. VerdictTypeOK
    BY <1>0 DEF VerdictTypeOK
  <2>2. stamped \in BOOLEAN /\ askLive \in BOOLEAN /\ dssPresent \in BOOLEAN
        /\ signerEvidence \in BOOLEAN /\ skipped \in BOOLEAN /\ caSkipped \in BOOLEAN
    BY Zenon
  <2> QED
    BY <1>0, <2>1, <2>2 DEF VerdictTypes
<1>2. NothingBeforeTheScan
  BY DEF NothingBeforeTheScan
<1>3. RevocationsAreProven /\ NoneOverlooked /\ SkippedIsNoted
  BY DEF RevocationsAreProven, NoneOverlooked, SkippedIsNoted
<1>4. EvidenceIsAuthentic /\ ScanRanToItsEnd /\ PathWasChecked /\ ResponderWasAsked
  BY DEF EvidenceIsAuthentic, ScanRanToItsEnd, PathWasChecked, ResponderWasAsked, Never
<1> QED
  BY <1>1, <1>2, <1>3, <1>4 DEF VerdictCore

-----------------------------------------------------------------------------

\* Before the scan there is nothing to be wrong about.
LEMMA BeforeScanStep == VerdictCore /\ (VerifyTimestamp \/ ValidatePath \/ NoDss) => VerdictCore'
<1> SUFFICES ASSUME VerdictCore, VerifyTimestamp \/ ValidatePath \/ NoDss PROVE VerdictCore'
  OBVIOUS
<1> USE DEF givenVars, dssVars, scanVars, liveVars, endVars
<1>1. /\ stage \in {"tsa", "chain", "dss"} /\ stage' \in {"chain", "dss", "ocsp"}
      /\ UNCHANGED <<stamped, declared, expiry, anchor, links, askLive, dssVars, scanVars,
                     liveVars, endVars>>
  BY DEF VerifyTimestamp, ValidatePath, NoDss
<1>2. /\ dss' = {} /\ scope' = {} /\ unread' = {} /\ ~dssPresent' /\ link' = 1 /\ cut' = "no"
      /\ signerRevoked' = Never' /\ caRevoked' = Never' /\ ~signerEvidence'
  BY <1>1 DEF VerdictCore, NothingBeforeTheScan, Never
<1>3. path' \in {"ok", "declared", "failed"} /\ proof' \in 0..Now
  BY VerdictAssumption DEF VerdictCore, VerdictTypes, VerdictTypeOK, VerifyTimestamp,
     ValidatePath, NoDss
<1>4. VerdictTypes'
  BY <1>1, <1>3, VerdictAssumption DEF VerdictCore, VerdictTypes, VerdictTypeOK, Never
<1>5. NothingBeforeTheScan' /\ RevocationsAreProven' /\ NoneOverlooked' /\ SkippedIsNoted'
  BY <1>1, <1>2 DEF NothingBeforeTheScan, RevocationsAreProven, NoneOverlooked, SkippedIsNoted
<1>6. EvidenceIsAuthentic' /\ ScanRanToItsEnd'
  BY <1>2 DEF EvidenceIsAuthentic, ScanRanToItsEnd
<1>7. PathWasChecked'
  <2>1. CASE VerifyTimestamp
    BY <2>1 DEF VerifyTimestamp, VerdictCore, PathWasChecked
  <2>2. CASE ValidatePath
    BY <2>2 DEF ValidatePath, PathWasChecked, PathHolds, Cutoff
  <2>3. CASE NoDss
    BY <2>3 DEF NoDss, VerdictCore, PathWasChecked, PathHolds, Cutoff
  <2> QED
    BY <2>1, <2>2, <2>3
<1>8. ResponderWasAsked'
  BY <1>1 DEF VerdictCore, ResponderWasAsked, Never
<1> QED
  BY <1>4, <1>5, <1>6, <1>7, <1>8 DEF VerdictCore

LEMMA ExtractStep == VerdictCore /\ ExtractDss => VerdictCore'
<1> SUFFICES ASSUME VerdictCore, ExtractDss PROVE VerdictCore'
  OBVIOUS
<1> USE DEF ExtractDss, givenVars, dssVars, scanVars, liveVars, endVars
<1>1. /\ link' = 1 /\ cut' = "no" /\ dssPresent' /\ unread' = scope' /\ stage' = "scan"
      /\ signerRevoked' = Never' /\ caRevoked' = Never' /\ ~signerEvidence'
  BY DEF VerdictCore, NothingBeforeTheScan, Never
<1>1a. /\ dss' \subseteq Evidence /\ scope' \subseteq dss' /\ unread' \subseteq scope'
       /\ {signerRevoked, caRevoked, liveRevoked}' \subseteq (0..Never)'
  <2>1. dss' \subseteq Evidence
    BY DEF Embeddable
  <2>2. scope' \subseteq dss'
    BY DEF Scopes
  <2> QED
    BY <2>1, <2>2 DEF VerdictCore, VerdictTypes, VerdictTypeOK, Never
<1>2. VerdictTypes'
  BY <1>1, <1>1a DEF VerdictCore, VerdictTypes, VerdictTypeOK
<1>3. NothingBeforeTheScan' /\ RevocationsAreProven' /\ EvidenceIsAuthentic' /\ ScanRanToItsEnd'
  BY <1>1 DEF NothingBeforeTheScan, RevocationsAreProven, EvidenceIsAuthentic, ScanRanToItsEnd
<1>4. ASSUME NEW e \in scope', IsRead(e)' PROVE e.link \notin Links'
  <2>1. e.link < 1
    BY <1>1, <1>4 DEF IsRead
  <2> QED
    BY <1>2, <2>1 DEF Links, VerdictTypes
<1>5. NoneOverlooked' /\ SkippedIsNoted'
  BY <1>4 DEF NoneOverlooked, SkippedIsNoted, Proven
<1>6. PathWasChecked' /\ ResponderWasAsked'
  BY DEF VerdictCore, PathWasChecked, PathHolds, Cutoff, ResponderWasAsked, Never
<1> QED
  BY <1>2, <1>3, <1>5, <1>6 DEF VerdictCore

\* An entry is read: what it says of the link is kept, or noted as unread.
LEMMA ReadStep == VerdictCore /\ (\E e \in scope : ReadEntry(e)) => VerdictCore'
<1> SUFFICES ASSUME VerdictCore, NEW e \in scope, ReadEntry(e) PROVE VerdictCore'
  OBVIOUS
<1> USE DEF ReadEntry, givenVars, dssVars, scanVars, liveVars, endVars
<1>0. /\ e.link \in 0..2 /\ e.revoked \in 0..Never /\ link \in {1, 2} /\ link \in Links
      /\ signerRevoked \in 0..Never /\ caRevoked \in 0..Never /\ Never \in Nat
      /\ Links' = Links /\ Cutoff' = Cutoff /\ scope' = scope /\ Never' = Never
  BY EntryTypes, LinksOfThePath, CutoffIsPast
     DEF VerdictCore, VerdictTypes, VerdictTypeOK, Links, Cutoff, Never
<1>1. signerRevoked' \in 0..Never /\ caRevoked' \in 0..Never
  BY <1>0 DEF Earlier
<1>1a. signerEvidence' \in BOOLEAN /\ skipped' \in BOOLEAN /\ caSkipped' \in BOOLEAN
  BY ZenonT(20) DEF VerdictCore, VerdictTypes
<1>1b. VerdictTypeOK'
  BY <1>0, <1>1 DEF VerdictCore, VerdictTypes, VerdictTypeOK
<1>2. VerdictTypes'
  BY <1>0, <1>1a, <1>1b DEF VerdictCore, VerdictTypes
<1>3. NothingBeforeTheScan'
  BY <1>0 DEF VerdictCore, NothingBeforeTheScan
<1>4. \A f : Proven(f)' <=> Proven(f)
  BY <1>0 DEF Proven
<1>5. Speaks(e) => Proven(e)
  BY <1>0 DEF Speaks, Proven
<1>6. \A f \in scope : IsRead(f)' <=> IsRead(f) \/ (f = e /\ e.link = link)
  <2>1. \A f \in scope : f.link \in 0..2
    BY EntryTypes DEF VerdictCore
  <2> QED
    BY <1>0, <2>1 DEF IsRead
<1>7. RevocationsAreProven'
  BY <1>0, <1>4, <1>5 DEF VerdictCore, RevocationsAreProven, Earlier
<1>8. NoneOverlooked'
  <2>1. signerRevoked' <= signerRevoked /\ caRevoked' <= caRevoked
    BY <1>0 DEF Earlier
  <2>2. Proven(e) /\ e.link = link => Speaks(e)
    BY DEF Proven, Speaks
  <2>3. Speaks(e) => /\ link = 1 => signerRevoked' <= e.revoked
                     /\ link = 2 => caRevoked' <= e.revoked
    BY <1>0 DEF Earlier
  <2>4. ASSUME NEW f \in scope, Proven(f), IsRead(f)'
        PROVE  /\ f.link = 1 => signerRevoked' <= f.revoked
               /\ f.link = 2 => caRevoked' <= f.revoked
    <3>1. f.revoked \in 0..Never
      BY EntryTypes DEF VerdictCore
    <3>2. CASE IsRead(f)
      <4>1. /\ f.link = 1 => signerRevoked <= f.revoked
            /\ f.link = 2 => caRevoked <= f.revoked
        BY <2>4, <3>2 DEF VerdictCore, NoneOverlooked
      <4> QED
        BY <4>1, <3>1, <2>1, <1>0, <1>1
    <3>3. CASE f = e /\ e.link = link
      BY <3>3, <2>2, <2>3, <2>4
    <3> QED
      BY <1>6, <2>4, <3>2, <3>3
  <2> QED
    BY <2>4, <1>4, <1>0 DEF NoneOverlooked
<1>9. SkippedIsNoted'
  <2>1. ASSUME e.authentic, e.form \in {"large", "indirect"}, e.link = link
        PROVE  IsSkipped(e) /\ (link = 2 => ConcernsCa(e))
    BY <2>1, <1>0, EntryTypes DEF IsSkipped, ConcernsCa, VerdictCore
  <2>2. (skipped => skipped') /\ (caSkipped => caSkipped')
    OBVIOUS
  <2>3. ASSUME NEW f \in scope, f.authentic, f.form \in {"large", "indirect"}, f.link \in Links,
               IsRead(f)'
        PROVE  skipped' /\ (f.link = 2 => caSkipped')
    <3>1. CASE IsRead(f)
      BY <2>2, <2>3, <3>1 DEF VerdictCore, SkippedIsNoted
    <3>2. CASE f = e /\ e.link = link
      BY <2>1, <2>3, <3>2
    <3> QED
      BY <1>6, <2>3, <3>1, <3>2
  <2> QED
    BY <2>3, <1>0 DEF SkippedIsNoted
<1>10. EvidenceIsAuthentic'
  <2>1. \A f : Covers(f)' <=> Covers(f)
    BY <1>0 DEF Covers
  <2>2. CASE signerEvidence
    BY <2>1, <2>2, <1>4, <1>0 DEF VerdictCore, EvidenceIsAuthentic
  <2>3. CASE Speaks(e) /\ link = 1 /\ (e.revoked # Never \/ Favourable(e))
    BY <2>1, <2>3, <1>4, <1>5, <1>0 DEF EvidenceIsAuthentic, Speaks, Favourable
  <2>4. signerEvidence' => \/ signerEvidence
                           \/ Speaks(e) /\ link = 1 /\ (e.revoked # Never \/ Favourable(e))
    OBVIOUS
  <2> QED
    BY <2>2, <2>3, <2>4 DEF EvidenceIsAuthentic
<1>11. ScanRanToItsEnd'
  BY DEF ScanRanToItsEnd
<1>12. PathWasChecked' /\ ResponderWasAsked'
  BY <1>0 DEF VerdictCore, PathWasChecked, PathHolds, ResponderWasAsked
<1> QED
  BY <1>2, <1>3, <1>7, <1>8, <1>9, <1>10, <1>11, <1>12 DEF VerdictCore

LEMMA NextLinkStep == VerdictCore /\ NextLink => VerdictCore'
<1> SUFFICES ASSUME VerdictCore, NextLink PROVE VerdictCore'
  OBVIOUS
<1> USE DEF NextLink, givenVars, dssVars, scanVars, liveVars, endVars
<1>0. /\ link \in {1, 2} /\ link \in Links /\ Never' = Never
      /\ Links' = Links /\ Cutoff' = Cutoff /\ scope' = scope
  BY LinksOfThePath DEF VerdictCore, VerdictTypes, VerdictTypeOK, Links, Cutoff, Never
<1>1. VerdictTypes'
  BY <1>0 DEF VerdictCore, VerdictTypes, VerdictTypeOK
<1>2. NothingBeforeTheScan'
  BY <1>0 DEF VerdictCore, NothingBeforeTheScan
<1>3. \A f : (Proven(f)' <=> Proven(f)) /\ (Covers(f)' <=> Covers(f))
  BY <1>0 DEF Proven, Covers
<1>4. ASSUME NEW f \in scope PROVE IsRead(f)' => IsRead(f)
  <2>1. f.link \in 0..2
    BY EntryTypes DEF VerdictCore
  <2> QED
    BY <1>0, <2>1 DEF IsRead
<1>5. RevocationsAreProven' /\ EvidenceIsAuthentic'
  BY <1>0, <1>3 DEF VerdictCore, RevocationsAreProven, EvidenceIsAuthentic
<1>6. NoneOverlooked'
  BY <1>0, <1>3, <1>4 DEF VerdictCore, NoneOverlooked
<1>7. SkippedIsNoted'
  BY <1>0, <1>4 DEF VerdictCore, SkippedIsNoted
<1>8. ScanRanToItsEnd' /\ PathWasChecked' /\ ResponderWasAsked'
  BY <1>0 DEF VerdictCore, ScanRanToItsEnd, PathWasChecked, PathHolds, ResponderWasAsked
<1> QED
  BY <1>1, <1>2, <1>5, <1>6, <1>7, <1>8 DEF VerdictCore

\* However the scan ends, what it kept is proven, and a cut is remembered.
LEMMA ScanEndStep == VerdictCore /\ (BudgetTrips \/ LtvTimesOut \/ ScanEnds) => VerdictCore'
<1> SUFFICES ASSUME VerdictCore, BudgetTrips \/ LtvTimesOut \/ ScanEnds PROVE VerdictCore'
  OBVIOUS
<1> USE DEF givenVars, dssVars, scanVars, liveVars, endVars
<1>0. /\ stage = "scan" /\ stage' = "ocsp" /\ cut = "no"
      /\ UNCHANGED <<givenVars, path, dss, dssPresent, scope, link, unread, skipped, caSkipped,
                     live, liveRevoked, digest, status>>
      /\ cut' \in {"no", "budget", "deadline"} /\ (cut' # "no" => ~signerEvidence')
      /\ cut' = "no" => link \notin Links /\ signerEvidence' = signerEvidence
      /\ (signerRevoked' = signerRevoked /\ caRevoked' = caRevoked)
         \/ (cut' = "deadline" /\ signerRevoked' = Never /\ caRevoked' = Never)
  BY DEF BudgetTrips, LtvTimesOut, ScanEnds
<1>1. Links' = Links /\ Cutoff' = Cutoff /\ Never' = Never /\ Never \in Nat
  BY <1>0, CutoffIsPast DEF Links, Cutoff, Never, VerdictCore
<1>2. VerdictTypes'
  <2>1. signerEvidence' \in BOOLEAN
    BY <1>0 DEF BudgetTrips, LtvTimesOut, ScanEnds, VerdictCore, VerdictTypes
  <2>2. VerdictTypeOK'
    BY <1>0, <1>1 DEF VerdictCore, VerdictTypes, VerdictTypeOK
  <2>3. skipped' \in BOOLEAN /\ caSkipped' \in BOOLEAN /\ dssPresent' \in BOOLEAN
        /\ stamped' \in BOOLEAN /\ askLive' \in BOOLEAN
    BY <1>0 DEF VerdictCore, VerdictTypes
  <2>4. links' \in {1, 2} /\ link' \in 1..3 /\ expiry' \in 1..Now /\ declared' \in 0..Now
        /\ (status' # "none" => stage' = "done")
    BY <1>0 DEF VerdictCore, VerdictTypes
  <2> QED
    BY <1>0, <2>1, <2>2, <2>3, <2>4 DEF VerdictTypes
<1>3. dssPresent
  BY <1>0 DEF VerdictCore, NothingBeforeTheScan
<1>4. NothingBeforeTheScan'
  BY <1>0, <1>1, <1>3 DEF VerdictCore, NothingBeforeTheScan
<1>5. \A f : (Proven(f)' <=> Proven(f)) /\ (Covers(f)' <=> Covers(f)) /\ (IsRead(f)' <=> IsRead(f))
  BY <1>0, <1>1 DEF Proven, Covers, IsRead
<1>6. RevocationsAreProven' /\ EvidenceIsAuthentic'
  BY <1>0, <1>1, <1>5 DEF VerdictCore, RevocationsAreProven, EvidenceIsAuthentic
<1>7. NoneOverlooked'
  BY <1>0, <1>5 DEF VerdictCore, NoneOverlooked
<1>8. SkippedIsNoted'
  BY <1>0, <1>1, <1>5 DEF VerdictCore, SkippedIsNoted
<1>9. ScanRanToItsEnd'
  BY <1>0, <1>1 DEF ScanRanToItsEnd
<1>10. PathWasChecked' /\ ResponderWasAsked'
  BY <1>0, <1>1 DEF VerdictCore, PathWasChecked, PathHolds, ResponderWasAsked
<1> QED
  BY <1>2, <1>4, <1>6, <1>7, <1>8, <1>9, <1>10 DEF VerdictCore

LEMMA AnswerIsTyped ==
  ASSUME OcspAnswers, VerdictTypes
  PROVE  /\ live' \in {"unknown", "good", "revoked"} /\ liveRevoked' \in 0..Never
         /\ live' = "revoked" <=> liveRevoked' # Never
<1>1. PICK a \in Replies :
        /\ live' = CASE ~Usable(a) -> "unknown"
                     [] Usable(a) /\ a.revoked = Never -> "good"
                     [] OTHER -> "revoked"
        /\ liveRevoked' = IF Usable(a) THEN a.revoked ELSE Never
  BY DEF OcspAnswers
<1>2. a.revoked \in 0..Never /\ Never \in 0..Never
  BY CutoffIsPast, VerdictAssumption DEF LiveAnswers
<1>3. CASE ~Usable(a)
  BY <1>1, <1>2, <1>3
<1>4. CASE Usable(a) /\ a.revoked = Never
  BY <1>1, <1>2, <1>4
<1>5. CASE Usable(a) /\ a.revoked # Never
  BY <1>1, <1>2, <1>5
<1> QED
  BY <1>3, <1>4, <1>5

LEMMA OcspStep == VerdictCore /\ (SkipOcsp \/ OcspFails \/ OcspAnswers) => VerdictCore'
<1> SUFFICES ASSUME VerdictCore, SkipOcsp \/ OcspFails \/ OcspAnswers PROVE VerdictCore'
  OBVIOUS
<1> USE DEF givenVars, dssVars, scanVars, liveVars, endVars
<1>0. /\ stage = "ocsp" /\ stage' = "verdict"
      /\ UNCHANGED <<givenVars, path, dssVars, scanVars, endVars>>
  BY DEF SkipOcsp, OcspFails, OcspAnswers
<1>1. Links' = Links /\ Cutoff' = Cutoff /\ Never' = Never /\ (AsksLive' <=> AsksLive)
  BY <1>0 DEF Links, Cutoff, Never, AsksLive, Incomplete
<1>2. /\ live' \in {"unasked", "not_checked", "unknown", "good", "revoked"}
      /\ liveRevoked' \in 0..Never
      /\ live' = "revoked" <=> liveRevoked' # Never
      /\ live' = "unasked" => ~AsksLive
  <2>1. live = "unasked" /\ liveRevoked = Never /\ Never \in 0..Never
    BY <1>0, CutoffIsPast DEF VerdictCore, ResponderWasAsked
  <2>2. CASE SkipOcsp
    BY <2>1, <2>2 DEF SkipOcsp
  <2>3. CASE OcspFails
    BY <2>1, <2>3 DEF OcspFails
  <2>4. CASE OcspAnswers
    BY <2>4, AnswerIsTyped DEF VerdictCore
  <2> QED
    BY <2>2, <2>3, <2>4
<1>3. VerdictTypes'
  <2>1. VerdictTypeOK'
    BY <1>0, <1>1, <1>2 DEF VerdictCore, VerdictTypes, VerdictTypeOK
  <2> QED
    BY <1>0, <2>1 DEF VerdictCore, VerdictTypes
<1>4. NothingBeforeTheScan'
  BY <1>0, <1>1 DEF VerdictCore, NothingBeforeTheScan
<1>5. \A f : (Proven(f)' <=> Proven(f)) /\ (Covers(f)' <=> Covers(f)) /\ (IsRead(f)' <=> IsRead(f))
  BY <1>0, <1>1 DEF Proven, Covers, IsRead
<1>6. RevocationsAreProven' /\ EvidenceIsAuthentic'
  BY <1>0, <1>1, <1>5 DEF VerdictCore, RevocationsAreProven, EvidenceIsAuthentic
<1>7. NoneOverlooked' /\ SkippedIsNoted'
  BY <1>0, <1>1, <1>5 DEF VerdictCore, NoneOverlooked, SkippedIsNoted
<1>8. ScanRanToItsEnd' /\ PathWasChecked'
  BY <1>0, <1>1 DEF VerdictCore, ScanRanToItsEnd, PathWasChecked, PathHolds
<1>9. ResponderWasAsked'
  BY <1>0, <1>1, <1>2 DEF ResponderWasAsked
<1> QED
  BY <1>3, <1>4, <1>6, <1>7, <1>8, <1>9 DEF VerdictCore

LEMMA ConcludeStep == VerdictCore /\ Conclude => VerdictCore'
<1> SUFFICES ASSUME VerdictCore, Conclude PROVE VerdictCore'
  OBVIOUS
<1> USE DEF givenVars, dssVars, scanVars, liveVars, endVars
<1>0. /\ stage = "verdict" /\ stage' = "done" /\ status' \in {"valid", "warning", "invalid"}
      /\ UNCHANGED <<givenVars, path, dssVars, scanVars, liveVars>>
  BY DEF Conclude
<1>1. Links' = Links /\ Cutoff' = Cutoff /\ Never' = Never /\ (AsksLive' <=> AsksLive)
  BY <1>0 DEF Links, Cutoff, Never, AsksLive, Incomplete
<1>2. VerdictTypes'
  <2>1. VerdictTypeOK'
    BY <1>0, <1>1 DEF VerdictCore, VerdictTypes, VerdictTypeOK
  <2> QED
    BY <1>0, <2>1 DEF VerdictCore, VerdictTypes
<1>3. \A f : (Proven(f)' <=> Proven(f)) /\ (Covers(f)' <=> Covers(f)) /\ (IsRead(f)' <=> IsRead(f))
  BY <1>0, <1>1 DEF Proven, Covers, IsRead
<1>4. NothingBeforeTheScan'
  BY <1>0, <1>1 DEF VerdictCore, NothingBeforeTheScan
<1>5. RevocationsAreProven' /\ EvidenceIsAuthentic'
  BY <1>0, <1>1, <1>3 DEF VerdictCore, RevocationsAreProven, EvidenceIsAuthentic
<1>6. NoneOverlooked' /\ SkippedIsNoted'
  BY <1>0, <1>1, <1>3 DEF VerdictCore, NoneOverlooked, SkippedIsNoted
<1>7. ScanRanToItsEnd' /\ PathWasChecked'
  BY <1>0, <1>1 DEF VerdictCore, ScanRanToItsEnd, PathWasChecked, PathHolds
<1>8. ResponderWasAsked'
  BY <1>0, <1>1 DEF VerdictCore, ResponderWasAsked
<1> QED
  BY <1>2, <1>4, <1>5, <1>6, <1>7, <1>8 DEF VerdictCore

-----------------------------------------------------------------------------
(* What the conclusion rests on.                                           *)

LEMMA EmbeddedIsTheEarliest ==
  ASSUME VerdictCore, stage = "verdict"
  PROVE  /\ Embedded \in 0..Never
         /\ Embedded # Never => \E e \in scope : Proven(e) /\ e.revoked = Embedded
         /\ cut = "no" => \A e \in scope : Proven(e) => Embedded <= e.revoked
<1>1. signerRevoked \in 0..Never /\ caRevoked \in 0..Never /\ Never \in Nat
  BY CutoffIsPast DEF VerdictCore, VerdictTypes, VerdictTypeOK
<1>2. Embedded \in 0..Never /\ Embedded <= signerRevoked /\ Embedded <= caRevoked
      /\ Embedded \in {signerRevoked, caRevoked}
  BY <1>1 DEF Embedded, Earlier
<1>3. Embedded # Never => \E e \in scope : Proven(e) /\ e.revoked = Embedded
  BY <1>2 DEF VerdictCore, RevocationsAreProven
<1>4. ASSUME cut = "no", NEW e \in scope, Proven(e) PROVE Embedded <= e.revoked
  <2>1. e.link \in Links /\ e.link \in 1..links /\ links \in {1, 2} /\ link \in 1..3
        /\ Links = 1..links /\ e.revoked \in 0..Never
    BY <1>4, EntryTypes DEF Proven, Links, VerdictCore, VerdictTypes
  <2>2. link \notin 1..links
    BY <1>4, <2>1 DEF VerdictCore, ScanRanToItsEnd
  <2>3. IsRead(e)
    BY <2>1, <2>2 DEF IsRead
  <2>4. signerRevoked <= e.revoked \/ caRevoked <= e.revoked
    BY <1>4, <2>1, <2>3 DEF VerdictCore, NoneOverlooked
  <2> QED
    BY <2>1, <2>4, <1>1, <1>2
<1> QED
  BY <1>2, <1>3, <1>4

\* What was not read is noted once the scan is over.
LEMMA UnreadIsNoted ==
  ASSUME VerdictCore, stage = "verdict", path # "failed", NEW e \in scope,
         e.authentic, e.form \in {"large", "indirect"}, e.link \in 1..links
  PROVE  /\ Incomplete
         /\ e.link = 2 => CaIncomplete
<1>1. Links = 1..links /\ links \in {1, 2} /\ link \in 1..3
  BY DEF Links, VerdictCore, VerdictTypes
<1>2. CASE cut # "no"
  BY <1>1, <1>2 DEF Incomplete, CaIncomplete
<1>3. CASE cut = "no"
  <2>1. link \notin 1..links
    BY <1>1, <1>3 DEF VerdictCore, ScanRanToItsEnd
  <2>2. IsRead(e)
    BY <1>1, <2>1 DEF IsRead
  <2> QED
    BY <1>1, <2>2 DEF VerdictCore, SkippedIsNoted, Incomplete, CaIncomplete
<1> QED
  BY <1>2, <1>3

LEMMA DoubtsAre ==
  ASSUME NEW integrity, NEW base
  PROVE  /\ "weak_hash_sha1" \in Doubts(integrity, base) <=> integrity = "weak"
         /\ "signing_time_unproven" \in Doubts(integrity, base) <=> path = "declared"
         /\ "revoked_after_signing" \in Doubts(integrity, base) <=>
              \/ live = "revoked" /\ ~RevokedBeforeProof(liveRevoked)
              \/ base # "invalid" /\ Embedded # Never /\ ~RevokedBeforeProof(Embedded)
         /\ "revocation_unchecked" \in Doubts(integrity, base) <=>
              dssPresent /\ Incomplete /\ ~SignerSettled
<1>1. "weak_hash_sha1" \in Doubts(integrity, base) <=> integrity = "weak"
  BY DEF Doubts
<1>2. "signing_time_unproven" \in Doubts(integrity, base) <=> path = "declared"
  BY DEF Doubts
<1>3. "revoked_after_signing" \in Doubts(integrity, base) <=>
              \/ live = "revoked" /\ ~RevokedBeforeProof(liveRevoked)
              \/ base # "invalid" /\ Embedded # Never /\ ~RevokedBeforeProof(Embedded)
  BY DEF Doubts
<1>4. "revocation_unchecked" \in Doubts(integrity, base) <=>
              dssPresent /\ Incomplete /\ ~SignerSettled
  BY DEF Doubts
<1> QED
  BY <1>1, <1>2, <1>3, <1>4

LEMMA BaseStatusIs ==
  ASSUME NEW integrity, NEW unaccounted \in BOOLEAN
  PROVE  /\ (integrity # "altered" /\ path # "failed") =>
              (BaseStatus(integrity, unaccounted) = "invalid" <=>
                 live = "revoked" /\ RevokedBeforeProof(liveRevoked))
         /\ BaseStatus(integrity, unaccounted) = "valid" =>
              integrity # "altered" /\ path # "failed"
<1> DEFINE base == BaseStatus(integrity, unaccounted)
<1>1. CASE integrity = "altered"
  BY <1>1 DEF BaseStatus
<1>2. CASE integrity # "altered" /\ path = "failed"
  <2>1. base = IF anchor = "placeholder" THEN "warning" ELSE "invalid"
    BY <1>2 DEF BaseStatus
  <2> QED
    BY <1>2, <2>1
<1>3. CASE integrity # "altered" /\ path # "failed" /\ live = "revoked" /\ RevokedBeforeProof(liveRevoked)
  BY <1>3 DEF BaseStatus
<1>4. CASE integrity # "altered" /\ path # "failed" /\ ~(live = "revoked" /\ RevokedBeforeProof(liveRevoked))
  <2>1. base = IF unaccounted \/ live = "unknown" THEN "warning" ELSE "valid"
    BY <1>4 DEF BaseStatus
  <2> QED
    BY <1>4, <2>1
<1> QED
  BY <1>1, <1>2, <1>3, <1>4

LEMMA ConclusionHolds ==
  VerdictCore /\ Conclude => EarliestRevocationDecides' /\ ValidWasChecked'
<1> SUFFICES ASSUME VerdictCore, Conclude
             PROVE  EarliestRevocationDecides' /\ ValidWasChecked'
  OBVIOUS
<1>1. PICK integrity \in {"sound", "weak", "altered"}, unaccounted \in BOOLEAN :
        LET base == BaseStatus(integrity, unaccounted) IN
        /\ digest' = integrity
        /\ status' = IF base = "invalid" \/ (Embedded # Never /\ RevokedBeforeProof(Embedded))
                     THEN "invalid"
                     ELSE IF base = "valid" /\ Doubts(integrity, base) = {} THEN "valid" ELSE "warning"
  BY DEF Conclude
<1> DEFINE base == BaseStatus(integrity, unaccounted)
<1>2. /\ stage = "verdict" /\ stage' = "done"
      /\ UNCHANGED <<givenVars, path, dssVars, scanVars, liveVars>>
  BY DEF Conclude
<1>3. /\ ProvenRevocations' = ProvenRevocations /\ Cutoff' = Cutoff /\ Never' = Never
      /\ scope' = scope /\ links' = links /\ live' = live /\ cut' = cut /\ path' = path
      /\ anchor' = anchor /\ expiry' = expiry /\ dssPresent' = dssPresent
  BY <1>2 DEF ProvenRevocations, Proven, Links, Cutoff, Never, givenVars, dssVars, scanVars, liveVars
<1>4. /\ Never \in Nat /\ Cutoff \in 1..Now /\ Cutoff < Never /\ liveRevoked \in 0..Never
      /\ live = "revoked" <=> liveRevoked # Never
  BY CutoffIsPast DEF VerdictCore, VerdictTypes, VerdictTypeOK, ResponderWasAsked
<1>5. /\ Embedded \in 0..Never
      /\ Embedded # Never => Embedded \in ProvenRevocations
      /\ cut = "no" => \A e \in scope : Proven(e) => Embedded <= e.revoked
  BY <1>2, EmbeddedIsTheEarliest DEF ProvenRevocations
<1>6. liveRevoked \in ProvenRevocations
  BY DEF ProvenRevocations
<1>7. ASSUME NEW r \in ProvenRevocations, cut = "no" \/ r = liveRevoked
      PROVE  r \in 0..Never /\ (Embedded <= r \/ r = liveRevoked)
  <2>1. CASE r = liveRevoked
    BY <1>4, <2>1
  <2>2. CASE r # liveRevoked
    <3>1. PICK e \in scope : Proven(e) /\ r = e.revoked
      BY <2>2 DEF ProvenRevocations
    <3> QED
      BY <3>1, <2>2, <1>5, <1>7, EntryTypes DEF VerdictCore
  <2> QED
    BY <2>1, <2>2
<1>8. status' = "invalid" <=> base = "invalid" \/ (Embedded # Never /\ RevokedBeforeProof(Embedded))
  BY <1>1
<1>9. EarliestRevocationDecides'
  <2> SUFFICES ASSUME integrity # "altered", path # "failed"
               PROVE  /\ status' = "invalid" => \E r \in ProvenRevocations : r <= Cutoff
                      /\ (cut = "no" /\ \E r \in ProvenRevocations : r <= Cutoff) => status' = "invalid"
    BY <1>1, <1>3 DEF EarliestRevocationDecides
  <2>1. base = "invalid" <=> live = "revoked" /\ liveRevoked <= Cutoff
    BY BaseStatusIs DEF RevokedBeforeProof
  <2>2. ASSUME status' = "invalid" PROVE \E r \in ProvenRevocations : r <= Cutoff
    BY <2>1, <2>2, <1>5, <1>6, <1>8 DEF RevokedBeforeProof
  <2>3. ASSUME cut = "no", NEW r \in ProvenRevocations, r <= Cutoff PROVE status' = "invalid"
    <3>1. CASE r = liveRevoked
      BY <3>1, <2>1, <2>3, <1>4, <1>8
    <3>2. CASE Embedded <= r
      BY <3>2, <2>3, <1>4, <1>5, <1>7, <1>8 DEF RevokedBeforeProof
    <3> QED
      BY <3>1, <3>2, <1>7, <2>3
  <2> QED
    BY <2>2, <2>3
<1>10. ASSUME status' = "valid"
       PROVE  /\ integrity = "sound" /\ path = "ok"
              /\ live # "revoked" /\ Embedded = Never
              /\ dssPresent /\ Incomplete => SignerSettled
  <2>1. base = "valid" /\ Doubts(integrity, base) = {} /\ base # "invalid"
        /\ ~(Embedded # Never /\ RevokedBeforeProof(Embedded))
    BY <1>1, <1>10
  <2>2. integrity # "altered" /\ path # "failed" /\ ~(live = "revoked" /\ RevokedBeforeProof(liveRevoked))
    BY <2>1, BaseStatusIs
  <2>3. path \in {"ok", "declared", "failed"}
    BY DEF VerdictCore, VerdictTypes, VerdictTypeOK
  <2>4. integrity # "weak" /\ path # "declared" /\ ~(dssPresent /\ Incomplete /\ ~SignerSettled)
    BY <2>1, DoubtsAre
  <2>5. ~(live = "revoked" /\ ~RevokedBeforeProof(liveRevoked))
        /\ ~(base # "invalid" /\ Embedded # Never /\ ~RevokedBeforeProof(Embedded))
    BY <2>1, DoubtsAre
  <2> QED
    BY <2>1, <2>2, <2>3, <2>4, <2>5
<1>11. ASSUME status' = "valid", dssPresent, Incomplete
       PROVE  live = "good" /\ ~CaIncomplete
  BY <1>10, <1>11 DEF SignerSettled
<1>12. ValidWasChecked'
  <2> SUFFICES ASSUME status' = "valid"
        PROVE /\ integrity = "sound" /\ anchor = "accredited" /\ Cutoff <= expiry
              /\ \A r \in ProvenRevocations : r = Never \/ (cut # "no" /\ live = "good" /\ links = 1)
              /\ (\E e \in scope : e.form \in {"large", "indirect"} /\ e.authentic /\ e.link = 1) => live = "good"
              /\ (dssPresent /\ cut # "no") => live = "good"
              /\ (\E e \in scope : e.form \in {"large", "indirect"} /\ e.authentic /\ e.link = 2) => links = 1
    BY <1>1, <1>3 DEF ValidWasChecked
  <2>1. anchor = "accredited" /\ Cutoff <= expiry
    BY <1>10 DEF VerdictCore, PathWasChecked, PathHolds
  <2>2. links \in {1, 2} /\ path # "failed"
    BY <1>10 DEF VerdictCore, VerdictTypes
  <2>3. ASSUME cut # "no" PROVE live = "good" /\ links = 1
    <3>1. dssPresent /\ Incomplete
      BY <2>3 DEF Incomplete, VerdictCore, NothingBeforeTheScan
    <3> QED
      BY <3>1, <2>2, <2>3, <1>11 DEF CaIncomplete
  <2>4. ASSUME NEW r \in ProvenRevocations, r # Never, cut = "no" PROVE FALSE
    <3>1. r # liveRevoked
      BY <2>4, <1>4, <1>10
    <3> QED
      BY <3>1, <2>4, <1>4, <1>5, <1>7, <1>10
  <2>5. ASSUME NEW e \in scope, e.form \in {"large", "indirect"}, e.authentic, e.link \in 1..links
        PROVE  live = "good" /\ (e.link = 2 => links = 1)
    <3>1. Incomplete /\ (e.link = 2 => CaIncomplete) /\ dssPresent
      BY <2>2, <2>5, <1>2, UnreadIsNoted DEF VerdictCore, NothingBeforeTheScan
    <3> QED
      BY <3>1, <1>11
  <2> QED
    BY <2>1, <2>2, <2>3, <2>4, <2>5, <1>10
<1> QED
  BY <1>9, <1>12

LEMMA ResponderIsSilencedByEvidence == VerdictCore => OnlyEvidenceSilencesTheResponder
<1> SUFFICES ASSUME VerdictCore, stage = "done", askLive, stamped, path # "failed", live = "unasked"
             PROVE  /\ cut = "no"
                    /\ \E e \in scope : Proven(e) /\ e.link = 1
                         /\ (e.revoked # Never \/ e.until >= Cutoff \/ e.from >= Cutoff)
  BY DEF OnlyEvidenceSilencesTheResponder
<1>1. signerEvidence
  BY DEF VerdictCore, ResponderWasAsked, AsksLive
<1>2. cut = "no" /\ \E e \in scope : Proven(e) /\ e.link = 1 /\ (e.revoked # Never \/ Covers(e))
  BY <1>1 DEF VerdictCore, EvidenceIsAuthentic
<1>3. PICK e \in scope : Proven(e) /\ e.link = 1 /\ (e.revoked # Never \/ Covers(e))
  BY <1>2
<1>4. e \in Entries
  BY VerdictAssumption DEF VerdictCore, VerdictTypes, VerdictTypeOK
<1>5. e.until \in 1..Now /\ e.from \in 1..Now /\ Cutoff \in 1..Now
  BY <1>4, CutoffIsPast DEF Entries, VerdictCore
<1> QED
  BY <1>2, <1>3, <1>5, VerdictAssumption DEF Covers

\* Of one signature, whatever revocation data the document holds, in whatever
\* order it is read and wherever the scan is cut: the earliest proven revocation
\* decides, "valid" was checked, and only evidence silences the responder.
THEOREM VerdictInvariance == VerdictSpec => []VerdictInv
<1>1. VerdictInit => VerdictIInv
  BY VerdictInitCore DEF VerdictIInv, VerdictInit, EarliestRevocationDecides, ValidWasChecked
<1>2. VerdictIInv /\ [VerdictNext]_verdictVars => VerdictIInv'
  <2> SUFFICES ASSUME VerdictIInv, [VerdictNext]_verdictVars PROVE VerdictIInv'
    OBVIOUS
  <2>1. CASE VerifyTimestamp \/ ValidatePath \/ NoDss \/ ExtractDss
             \/ (\E e \in scope : ReadEntry(e)) \/ NextLink \/ BudgetTrips \/ LtvTimesOut
             \/ ScanEnds \/ SkipOcsp \/ OcspFails \/ OcspAnswers
    <3>1. VerdictCore'
      BY <2>1, BeforeScanStep, ExtractStep, ReadStep, NextLinkStep, ScanEndStep, OcspStep
         DEF VerdictIInv
    <3>2. stage' # "done"
      BY <2>1 DEF VerifyTimestamp, ValidatePath, NoDss, ExtractDss, ReadEntry, NextLink,
         BudgetTrips, LtvTimesOut, ScanEnds, SkipOcsp, OcspFails, OcspAnswers
    <3> QED
      BY <3>1, <3>2 DEF VerdictIInv, VerdictCore, VerdictTypes, EarliestRevocationDecides,
         ValidWasChecked
  <2>2. CASE Conclude
    BY <2>2, ConcludeStep, ConclusionHolds DEF VerdictIInv
  <2>3. CASE UNCHANGED verdictVars
    <3> USE <2>3 DEF verdictVars, givenVars, dssVars, scanVars, liveVars, endVars
    <3>1. Links' = Links /\ Cutoff' = Cutoff /\ Never' = Never
      BY DEF Links, Cutoff, Never
    <3>2. \A f : (Proven(f)' <=> Proven(f)) /\ (Covers(f)' <=> Covers(f)) /\ (IsRead(f)' <=> IsRead(f))
      BY <3>1 DEF Proven, Covers, IsRead
    <3>3. VerdictTypes' /\ NothingBeforeTheScan'
      BY <3>1 DEF VerdictIInv, VerdictCore, VerdictTypes, VerdictTypeOK, NothingBeforeTheScan
    <3>4. RevocationsAreProven' /\ NoneOverlooked' /\ SkippedIsNoted' /\ EvidenceIsAuthentic'
      BY <3>1, <3>2 DEF VerdictIInv, VerdictCore, RevocationsAreProven, NoneOverlooked,
         SkippedIsNoted, EvidenceIsAuthentic
    <3>5. ScanRanToItsEnd' /\ PathWasChecked' /\ ResponderWasAsked'
      BY <3>1 DEF VerdictIInv, VerdictCore, ScanRanToItsEnd, PathWasChecked, PathHolds,
         ResponderWasAsked, AsksLive, Incomplete
    <3>6. ProvenRevocations' = ProvenRevocations
      BY <3>2 DEF ProvenRevocations
    <3>7. EarliestRevocationDecides' /\ ValidWasChecked'
      BY <3>1, <3>6 DEF VerdictIInv, EarliestRevocationDecides, ValidWasChecked
    <3> QED
      BY <3>3, <3>4, <3>5, <3>7 DEF VerdictIInv, VerdictCore
  <2> QED
    BY <2>1, <2>2, <2>3 DEF VerdictNext
<1>3. VerdictIInv => VerdictInv
  BY ResponderIsSilencedByEvidence DEF VerdictIInv, VerdictInv, VerdictCore, VerdictTypes
<1> QED
  BY <1>1, <1>2, <1>3, PTL DEF VerdictSpec

=============================================================================
