--------------------------- MODULE VerifyAdmission ---------------------------
(***************************************************************************)
(* The admission of a verification (apps/verify-api/src/routes/verify.ts): *)
(* the idempotency store, the quota of the API key, and its concurrency    *)
(* slots, around a run of the worker pool (VerifyRunner).                  *)
(*                                                                         *)
(* A request that fails a shape check changes no state and is not modelled.*)
(* Everything up to the first await of a request is one step; between two  *)
(* awaits other requests may go on.                                        *)
(***************************************************************************)
EXTENDS Integers, FiniteSets

CONSTANTS
  VerifyRequests, \* calls of POST /v1/verify, retries included
  ApiKeys, IdemKeys, Docs,
  NoIdemKey,     \* the request has no Idempotency-Key
  PerMinute, PerDay, MaxConcurrent,   \* the plan of an API key
  MaxEntries,    \* maxEntries of the store
  MinutesPerDay, \* the length of a day; also ttlMs
  LastMinute     \* bound on the clock

ASSUME AdmissionAssumption ==
  /\ IsFiniteSet(VerifyRequests)
  /\ NoIdemKey \notin IdemKeys
  /\ {PerMinute, PerDay, MaxConcurrent, MaxEntries} \subseteq Nat \ {0}
  /\ MinutesPerDay \in Nat /\ MinutesPerDay >= 3  \* a verification ends before: MinutePasses
  /\ LastMinute \in Nat

VARIABLES
  minute,     \* the clock, in minutes
  entries,    \* InMemoryIdempotencyStore.entries; place: in the order of insertion
  inserted,   \* the last place given
  minuteUse, dayUse,   \* the buckets of InMemoryQuotaStore: [window, count]
  slotsTaken, \* concurrency slots taken, per API key
  req,        \* what every request asks for
  step,       \* the await it is at
  value,      \* what the work came to
  told,       \* what the client was told
  chargedAt   \* history: when the request was charged, -1 if it was not

storeVars == <<entries, inserted>>
quotaVars == <<minuteUse, dayUse, chargedAt>>
admissionVars == <<minute, storeVars, quotaVars, slotsTaken, req, step, value, told>>

\* The work either throws, or the engine answers: with a verdict, or with a
\* failure that classifyEngineFailure recognises afterwards.
Kinds   == {"verdict", "engine_error", "threw"}
NoValue == [kind |-> "none", doc |-> "none", at |-> 0]
Answers == {"none", "verdict", "engine_error", "failed",
            "conflict", "in_flight", "rate_limited"}
Steps   == {"new", "charged", "running", "ended", "refused", "answered"}

NoRequest == [key |-> "none", idem |-> NoIdemKey, doc |-> "none", at |-> 0]

AdmissionInit ==
  /\ minute = 0
  /\ entries = [slot \in {} |-> NoValue] /\ inserted = 0
  /\ minuteUse = [k \in ApiKeys |-> [window |-> 0, count |-> 0]]
  /\ dayUse = [k \in ApiKeys |-> [window |-> 0, count |-> 0]]
  /\ slotsTaken = [k \in ApiKeys |-> 0]
  /\ req = [r \in VerifyRequests |-> NoRequest]
  /\ step = [r \in VerifyRequests |-> "new"]
  /\ value = [r \in VerifyRequests |-> NoValue]
  /\ told = [r \in VerifyRequests |-> NoValue]
  /\ chargedAt = [r \in VerifyRequests |-> -1]

InProgress == {"charged", "running", "ended", "refused"}

-----------------------------------------------------------------------------
(* The idempotency store.                                                  *)

Day(t) == t \div MinutesPerDay

Slot(key, idem) == <<key, idem>>

DroppedNothing(es, slot) == es \* mutant: a failed attempt keeps its reservation
Dropped(es, slot) == [s \in DOMAIN es \ {slot} |-> es[s]]

Entry(place, doc, state, val, when) ==
  [place |-> place, doc |-> doc, state |-> state, value |-> val,
   expires |-> when + MinutesPerDay]

\* Map.set: in its old place, or last.
PlaceOf(es, slot) == IF slot \in DOMAIN es THEN es[slot].place ELSE inserted + 1

Put(es, slot, doc, state, val, when) ==
  /\ entries' = [s \in DOMAIN es \cup {slot} |->
                   IF s = slot THEN Entry(PlaceOf(es, slot), doc, state, val, when) ELSE es[s]]
  /\ inserted' = IF slot \in DOMAIN es THEN inserted ELSE inserted + 1

Live(es) == {s \in DOMAIN es : es[s].expires > minute}

\* At most MaxEntries of them, those inserted last.
Newest(es, slots) ==
  {s \in slots : Cardinality({t \in slots : es[t].place > es[s].place}) < MaxEntries}

Swept(es) == [s \in Newest(es, Live(es)) |-> es[s]]

IsOldest(es, s) == \A t \in DOMAIN es : es[s].place <= es[t].place

\* mutant: the sweep is skipped whatever the age of the oldest entry
EvictedLazily(es) == IF 2 * Cardinality(DOMAIN es) < MaxEntries THEN es ELSE Swept(es)

\* evictExpired
Evicted(es) ==
  IF /\ 2 * Cardinality(DOMAIN es) < MaxEntries
     /\ \A s \in DOMAIN es : IsOldest(es, s) => es[s].expires > minute
  THEN es ELSE Swept(es)

-----------------------------------------------------------------------------
(* The quota.                                                              *)

\* rollOver: the count of the current window.
Count(bucket, window) == IF bucket.window = window THEN bucket.count ELSE 0

HasQuota(key) ==
  /\ Count(dayUse[key], Day(minute)) < PerDay
  /\ Count(minuteUse[key], minute) < PerMinute

\* consume: both buckets roll over, and count the request if it is allowed.
Consume(r, key) ==
  LET one == IF HasQuota(key) THEN 1 ELSE 0
  IN  /\ minuteUse' = [minuteUse EXCEPT ![key] =
                         [window |-> minute, count |-> Count(@, minute) + one]]
      /\ dayUse' = [dayUse EXCEPT ![key] =
                      [window |-> Day(minute), count |-> Count(@, Day(minute)) + one]]
      /\ step' = [step EXCEPT ![r] = IF HasQuota(key) THEN "charged" ELSE "refused"]
      /\ chargedAt' = [chargedAt EXCEPT ![r] = IF HasQuota(key) THEN minute ELSE -1]

Answered(r, kind, doc, when) ==
  /\ step' = [step EXCEPT ![r] = "answered"]
  /\ told' = [told EXCEPT ![r] = [kind |-> kind, doc |-> doc, at |-> when]]

-----------------------------------------------------------------------------
(* The request.                                                            *)

IsConflict(e, doc) == e.doc # doc

\* The slot is taken: conflict, in flight, or a replay of the stored value.
Replay(r, e, doc) ==
  /\ IF IsConflict(e, doc) THEN Answered(r, "conflict", doc, minute)
     ELSE IF e.state = "in_flight" THEN Answered(r, "in_flight", doc, minute)
     ELSE Answered(r, e.value.kind, e.value.doc, e.value.at)
  /\ UNCHANGED quotaVars

Arrive(r) ==
  /\ step[r] = "new"
  /\ \E key \in ApiKeys, idem \in IdemKeys \cup {NoIdemKey}, doc \in Docs :
       LET slot == Slot(key, idem)
           kept == Evicted(entries)
       IN  /\ req' = [req EXCEPT ![r] = [key |-> key, idem |-> idem, doc |-> doc, at |-> minute]]
           /\ \/ /\ idem = NoIdemKey
                 /\ Consume(r, key)
                 /\ UNCHANGED <<storeVars, told>>
              \/ /\ idem # NoIdemKey /\ slot \notin DOMAIN kept
                 /\ Put(kept, slot, doc, "in_flight", NoValue, minute)
                 /\ Consume(r, key)
                 /\ UNCHANGED told
              \/ /\ idem # NoIdemKey /\ slot \in DOMAIN kept
                 /\ entries' = kept
                 /\ Replay(r, kept[slot], doc)
                 /\ UNCHANGED inserted
  /\ UNCHANGED <<minute, slotsTaken, value>>

\* acquireSlot
TakeSlot(r) ==
  /\ step[r] = "charged"
  /\ LET key == req[r].key
     IN  IF slotsTaken[key] >= MaxConcurrent
         THEN /\ step' = [step EXCEPT ![r] = "refused"]
              /\ UNCHANGED slotsTaken
         ELSE /\ step' = [step EXCEPT ![r] = "running"]
              /\ slotsTaken' = [slotsTaken EXCEPT ![key] = @ + 1]
  /\ UNCHANGED <<minute, storeVars, quotaVars, req, value, told>>

\* runner.run settles; the slot is released in the finally block.
RunEnds(r) ==
  /\ step[r] = "running"
  /\ \E kind \in Kinds :
       /\ value' = [value EXCEPT ![r] = [kind |-> kind, doc |-> req[r].doc, at |-> minute]]
       /\ slotsTaken' = [slotsTaken EXCEPT ![req[r].key] = @ - 1]
  /\ step' = [step EXCEPT ![r] = "ended"]
  /\ UNCHANGED <<minute, storeVars, quotaVars, req, told>>

\* The work resolved: the value is stored, then classified.
Respond(r) ==
  /\ step[r] = "ended" /\ value[r].kind # "threw"
  /\ LET q == req[r] IN
     IF q.idem = NoIdemKey THEN UNCHANGED storeVars
     ELSE Put(entries, Slot(q.key, q.idem), q.doc, "done", value[r], q.at)
  /\ Answered(r, value[r].kind, value[r].doc, value[r].at)
  /\ UNCHANGED <<minute, quotaVars, slotsTaken, req, value>>

\* The work rejected - no quota, no slot, or a failed run: the reservation is
\* dropped and the error goes to the client.
Reject(r) ==
  /\ step[r] = "refused" \/ (step[r] = "ended" /\ value[r].kind = "threw")
  /\ LET q == req[r]
     IN  entries' = IF q.idem = NoIdemKey THEN entries
                    ELSE Dropped(entries, Slot(q.key, q.idem))
  /\ Answered(r, IF step[r] = "refused" THEN "rate_limited" ELSE "failed", req[r].doc, minute)
  /\ UNCHANGED <<minute, inserted, quotaVars, slotsTaken, req, value>>

\* A verification outlives at most two minute boundaries (VERIFY_TIMEOUT_MS and
\* the runner's queue deadline are together 70 s), and never its entry's TTL.
MinutePasses ==
  /\ minute < LastMinute
  /\ \A r \in VerifyRequests : step[r] \in InProgress => req[r].at >= minute - 1
  /\ minute' = minute + 1
  /\ UNCHANGED <<storeVars, quotaVars, slotsTaken, req, step, value, told>>

AdmissionNext ==
  \/ MinutePasses
  \/ \E r \in VerifyRequests : Arrive(r) \/ TakeSlot(r) \/ RunEnds(r) \/ Respond(r) \/ Reject(r)

AdmissionSpec == AdmissionInit /\ [][AdmissionNext]_admissionVars

-----------------------------------------------------------------------------
Values == [kind : Kinds \cup Answers, doc : Docs \cup {"none"}, at : 0..LastMinute]

StoredEntries == [place : Nat, doc : Docs, state : {"in_flight", "done"}, value : Values, expires : Nat]

AdmissionTypeOK ==
  /\ minute \in 0..LastMinute
  /\ DOMAIN entries \subseteq ApiKeys \X IdemKeys
  /\ \A s \in DOMAIN entries : entries[s] \in StoredEntries
  /\ inserted \in Nat
  /\ minuteUse \in [ApiKeys -> [window : 0..LastMinute, count : 0..PerMinute]]
  /\ dayUse \in [ApiKeys -> [window : Nat, count : 0..PerDay]]
  /\ slotsTaken \in [ApiKeys -> 0..MaxConcurrent]
  /\ step \in [VerifyRequests -> Steps]
  /\ value \in [VerifyRequests -> Values]
  /\ told \in [VerifyRequests -> Values]
  /\ chargedAt \in [VerifyRequests -> -1..LastMinute]

ChargedIn(k, minutes) ==
  Cardinality({r \in VerifyRequests : req[r].key = k /\ chargedAt[r] \in minutes})

\* No key is charged for more than its plan allows in any minute or day of the
\* clock, however requests, refusals and window changes interleave.
PlanIsKept ==
  \A k \in ApiKeys : \A t \in 0..minute :
    /\ ChargedIn(k, {t}) <= PerMinute
    /\ ChargedIn(k, {m \in 0..LastMinute : Day(m) = Day(t)}) <= PerDay

\* "returning the first document's verdict for a second document would be a
\* silent wrong answer": what a client is told is about the document it sent.
OwnDocument ==
  \A r \in VerifyRequests : step[r] = "answered" => told[r].doc = req[r].doc

\* A reservation belongs to a request still at work: none is left behind to
\* answer every retry with in_flight until it expires.
NoStuckReservation ==
  \A s \in DOMAIN entries :
    entries[s].state = "in_flight" =>
      \E r \in VerifyRequests : /\ step[r] \in InProgress
                                /\ Slot(req[r].key, req[r].idem) = s
                                /\ req[r].doc = entries[s].doc

\* A slot is held by a verification that runs and by nothing else: no path, and
\* no order of ends, leaks one or gives one back twice.
SlotsMatchRuns ==
  \A k \in ApiKeys :
    slotsTaken[k] = Cardinality({r \in VerifyRequests : step[r] = "running" /\ req[r].key = k})

Retries(q, r) ==
  /\ q # r
  /\ Slot(req[q].key, req[q].idem) = Slot(req[r].key, req[r].idem)
  /\ req[q].idem # NoIdemKey

\* "Run work at most once per (keyId, idempotencyKey)".
OneRunPerKey ==
  \A q, r \in VerifyRequests : Retries(q, r) =>
    ~(step[q] \in {"charged", "running"} /\ step[r] \in {"charged", "running"})

\* The request was charged and its work came to an answer.
Paid(r) == chargedAt[r] >= 0 /\ value[r].kind \notin {"none", "threw"}

\* "A retry must not re-run the work nor charge twice": of the requests that
\* share a key, one pays for an answer within the TTL.
PaidOnce ==
  \A q, r \in VerifyRequests :
    (Retries(q, r) /\ Paid(q) /\ Paid(r) /\ chargedAt[q] <= chargedAt[r])
      => chargedAt[r] >= chargedAt[q] + MinutesPerDay

\* What every state of the admission satisfies.
AdmissionInv ==
  /\ AdmissionTypeOK /\ PlanIsKept /\ OwnDocument /\ NoStuckReservation
  /\ SlotsMatchRuns /\ PaidOnce /\ OneRunPerKey

\* A replay is never older than the TTL.
ReplayIsFresh ==
  [][\A r \in VerifyRequests :
       (step[r] = "new" /\ step'[r] = "answered") => minute < told'[r].at + MinutesPerDay]_admissionVars

\* "A failed attempt must NOT be cached: the client has to be able to retry a
\* transient failure".
FailuresAreRetryable ==
  \A s \in DOMAIN entries : entries[s].value.kind # "engine_error"
=============================================================================
