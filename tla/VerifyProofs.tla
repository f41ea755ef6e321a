---------------------------- MODULE VerifyProofs ----------------------------
(***************************************************************************)
(* The worker runner of verify-api, for any number of requests, workers    *)
(* and faults: what every state of it satisfies (RunnerInv), and that      *)
(* nobody is answered with the verdict on another's document (OwnVerdict). *)
(***************************************************************************)
EXTENDS VerifyRunner, TLAPS, FiniteSetTheorems, SequenceTheorems

USE RunnerAssumption DEF Settled, States, None, InHand

-----------------------------------------------------------------------------
(* Sequences and finite sets.                                              *)

\* The queue without its k-th waiter (indexOf and splice).
LEMMA RemoveAtProperties ==
  ASSUME NEW S, NEW s \in Seq(S), NEW k \in 1..Len(s)
  PROVE  /\ RemoveAt(s, k) \in Seq(S)
         /\ Len(RemoveAt(s, k)) = Len(s) - 1
         /\ \A j \in 1..(Len(s) - 1) : RemoveAt(s, k)[j] = s[IF j < k THEN j ELSE j + 1]
<1> DEFINE front == SubSeq(s, 1, k - 1)
           back  == SubSeq(s, k + 1, Len(s))
<1>1. Len(s) \in Nat /\ k \in Int
  OBVIOUS
<1>2. \A i \in 1..Len(s) : s[i] \in S
  BY ElementOfSeq
<1>3. /\ front \in Seq(S) /\ Len(front) = k - 1
      /\ \A i \in 1..(k - 1) : front[i] = s[i]
  <2>1. \A i \in 1..(k - 1) : s[i] \in S
    BY <1>1, <1>2
  <2>2. /\ front \in Seq(S) /\ Len(front) = IF 1 <= k - 1 THEN (k - 1) - 1 + 1 ELSE 0
        /\ \A i \in 1..((k - 1) - 1 + 1) : front[i] = s[1 + i - 1]
    BY <1>1, <2>1, SubSeqProperties, k - 1 \in Int
  <2> QED
    BY <1>1, <2>2
<1>4. /\ back \in Seq(S) /\ Len(back) = Len(s) - k
      /\ \A i \in 1..(Len(s) - k) : back[i] = s[k + i]
  <2>1. \A i \in (k + 1)..Len(s) : s[i] \in S
    BY <1>1, <1>2
  <2>2. /\ back \in Seq(S) /\ Len(back) = IF k + 1 <= Len(s) THEN Len(s) - (k + 1) + 1 ELSE 0
        /\ \A i \in 1..(Len(s) - (k + 1) + 1) : back[i] = s[k + 1 + i - 1]
    BY <1>1, <2>1, SubSeqProperties, k + 1 \in Int, Len(s) \in Int
  <2> QED
    BY <1>1, <2>2
<1> HIDE DEF front, back
<1>5. /\ front \o back \in Seq(S) /\ Len(front \o back) = Len(front) + Len(back)
      /\ \A i \in 1..(Len(front) + Len(back)) :
           (front \o back)[i] = IF i <= Len(front) THEN front[i] ELSE back[i - Len(front)]
  BY <1>3, <1>4, ConcatProperties
<1>6. RemoveAt(s, k) = front \o back
  BY DEF RemoveAt, front, back
<1>7. ASSUME NEW j \in 1..(Len(s) - 1)
      PROVE  (front \o back)[j] = s[IF j < k THEN j ELSE j + 1]
  <2>1. CASE j < k
    BY <1>1, <1>3, <1>4, <1>5, <2>1
  <2>2. CASE ~(j < k)
    <3>1. j - (k - 1) \in 1..(Len(s) - k) /\ k + (j - (k - 1)) = j + 1
      BY <1>1, <2>2
    <3>2. (front \o back)[j] = back[j - (k - 1)]
      BY <1>1, <1>3, <1>4, <1>5, <2>2
    <3> QED
      BY <1>4, <2>2, <3>1, <3>2
  <2> QED
    BY <2>1, <2>2
<1>8. Len(front \o back) = Len(s) - 1
  BY <1>1, <1>3, <1>4, <1>5
<1> QED
  BY <1>5, <1>6, <1>7, <1>8

LEMMA OneMore ==
  ASSUME NEW S, IsFiniteSet(S), NEW x
  PROVE  /\ IsFiniteSet(S \cup {x}) /\ Cardinality(S \cup {x}) \in Nat
         /\ Cardinality(S \cup {x}) <= Cardinality(S) + 1
         /\ x \notin S => Cardinality(S \cup {x}) = Cardinality(S) + 1
<1>1. Cardinality(S) \in Nat
  BY FS_CardinalityType
<1>2. IsFiniteSet(S \cup {x}) /\ Cardinality(S \cup {x}) = IF x \in S THEN Cardinality(S) ELSE Cardinality(S) + 1
  BY FS_AddElement
<1> QED
  BY <1>1, <1>2

\* A channel with one message in it.
LEMMA AtMostOneLong ==
  ASSUME NEW S, NEW s \in Seq(S), s # <<>>, Len(s) <= 1
  PROVE  Head(s) \in S /\ Tail(s) = <<>>
<1>1. Len(s) = 1
  <2>1. Len(s) \in Nat \ {0}
    BY EmptySeq
  <2>2. \A n \in Nat \ {0} : n <= 1 => n = 1
    OBVIOUS
  <2> QED
    BY <2>1, <2>2
<1>2. Head(s) \in S /\ Tail(s) \in Seq(S) /\ Len(Tail(s)) = 0
  BY <1>1, HeadTailProperties
<1>3. Tail(s) # <<>> => Len(Tail(s)) \in Nat \ {0}
  BY <1>2, EmptySeq
<1> QED
  BY <1>2, <1>3

LEMMA TwoSets ==
  ASSUME NEW A, IsFiniteSet(A), NEW B, IsFiniteSet(B), NEW R, R \subseteq A \cup B
  PROVE  /\ Cardinality(R) \in Nat /\ Cardinality(A) \in Nat /\ Cardinality(B) \in Nat
         /\ Cardinality(R) <= Cardinality(A) + Cardinality(B)
<1>1. /\ IsFiniteSet(A \cup B) /\ IsFiniteSet(A \cap B)
      /\ Cardinality(A \cup B) = Cardinality(A) + Cardinality(B) - Cardinality(A \cap B)
  BY FS_Union, FS_Intersection
<1>2. IsFiniteSet(R) /\ Cardinality(R) <= Cardinality(A \cup B)
  BY <1>1, FS_Subset
<1>3. /\ Cardinality(R) \in Nat /\ Cardinality(A) \in Nat /\ Cardinality(B) \in Nat
      /\ Cardinality(A \cup B) \in Nat /\ Cardinality(A \cap B) \in Nat
  BY <1>1, <1>2, FS_CardinalityType
<1> QED
  BY <1>1, <1>2, <1>3

\* The sets of the model are finite.
LEMMA Finite ==
  /\ Workers \subseteq Nat /\ IsFiniteSet(Workers) /\ Cardinality(Requests) \in Nat
  /\ Workers = 1..(Size + MaxFaults + Cardinality(Requests))
  /\ \A S \in SUBSET Workers : IsFiniteSet(S) /\ Cardinality(S) \in Nat
  /\ \A S \in SUBSET Requests : /\ IsFiniteSet(S) /\ Cardinality(S) \in Nat
                                /\ Cardinality(S) <= Cardinality(Requests)
<1>1. Cardinality(Requests) \in Nat
  BY FS_CardinalityType
<1>2. Workers \subseteq Nat /\ IsFiniteSet(Workers)
  BY <1>1, FS_Interval DEF Workers
<1>3. \A S \in SUBSET Workers : IsFiniteSet(S) /\ Cardinality(S) \in Nat
  BY <1>2, FS_Subset, FS_CardinalityType
<1>4. \A S \in SUBSET Requests : /\ IsFiniteSet(S) /\ Cardinality(S) \in Nat
                                 /\ Cardinality(S) <= Cardinality(Requests)
  BY FS_Subset, FS_CardinalityType
<1> QED
  BY <1>1, <1>2, <1>3, <1>4 DEF Workers

-----------------------------------------------------------------------------
(* Work is bounded by the pool.                                            *)

\* VERIFY_WORKERS bounds the documents being verified: each is on a thread of
\* the pool of its own.
LEMMA BoundedByPool ==
  ASSUME TypeOK, PoolIsAlive, ThreadsInv, OneDocumentPerThread
  PROVE  WorkIsBounded
<1> DEFINE P == {w \in Workers : work[w] # {}}
           U == UNION {work[w] : w \in Workers}
           f == [w \in P |-> CHOOSE r \in work[w] : TRUE]
<1>1. P \subseteq pool /\ pool \in SUBSET Workers
  BY DEF TypeOK, ThreadsInv
<1>2. \A w \in P : work[w] = {f[w]}
  BY DEF OneDocumentPerThread
<1>3. f \in Surjection(P, U)
  <2>1. f \in [P -> U]
    BY <1>2
  <2>2. \A r \in U : \E w \in P : f[w] = r
    BY <1>2
  <2> QED
    BY <2>1, <2>2 DEF Surjection
<1>4. IsFiniteSet(P) /\ Cardinality(P) <= Cardinality(pool)
  BY <1>1, Finite, FS_Subset
<1>5. Cardinality(U) <= Cardinality(P) /\ IsFiniteSet(U)
  BY <1>3, <1>4, FS_Surjection
<1>6. Cardinality(U) \in Nat /\ Cardinality(P) \in Nat /\ Cardinality(pool) \in Nat
  BY <1>1, <1>4, <1>5, Finite, FS_CardinalityType
<1> QED
  BY <1>4, <1>5, <1>6 DEF WorkIsBounded, PoolIsAlive

-----------------------------------------------------------------------------
(* The pieces of the handlers.                                             *)

\* The requests of js settle; the others are where they were.
LEMMA SettleStep ==
  ASSUME TypeOK, WaitersWait, OneRequestPerWorker,
         NEW js \in SUBSET Requests, NEW how \in Settled,
         \A r \in js : state[r] = "running", Settle(js, how), waiting' = waiting
  PROVE  /\ state' \in [Requests -> States] /\ entry' \in [Requests -> Workers \cup {0}]
         /\ WaitersWait' /\ OneRequestPerWorker'
         /\ \A r \in js : state'[r] = how
         /\ \A r \in Requests \ js : state'[r] = state[r] /\ entry'[r] = entry[r]
<1>1. /\ \A r \in js : state'[r] = how
      /\ \A r \in Requests \ js : state'[r] = state[r] /\ entry'[r] = entry[r]
  BY DEF Settle, TypeOK
<1>2. state' \in [Requests -> States] /\ entry' \in [Requests -> Workers \cup {0}]
  BY DEF Settle, TypeOK
<1>3. WaitersWait'
  <2>1. \A k \in DOMAIN waiting : waiting[k] \in Requests \ js
    BY ElementOfSeq DEF WaitersWait, TypeOK
  <2> QED
    BY <1>1, <2>1 DEF WaitersWait
<1>4. OneRequestPerWorker'
  BY <1>1 DEF OneRequestPerWorker
<1> QED
  BY <1>1, <1>2, <1>3, <1>4

\* The requests of js have settled, and w went to the first one waiting, if any.
Served(w, js, how) ==
  /\ state' \in [Requests -> States] /\ entry' \in [Requests -> Workers \cup {0}]
  /\ busy' \in [Workers -> BOOLEAN]
  /\ waiting' \in Seq(Requests) /\ Len(waiting') <= MaxQueue
  /\ WaitersWait' /\ OneRequestPerWorker'
  /\ \A r \in js : state'[r] = how
  /\ \A r \in Requests \ js :
       \/ state'[r] = state[r] /\ entry'[r] = entry[r]
       \/ state[r] = "waiting" /\ state'[r] = "granted" /\ entry'[r] = w
  /\ \A x \in Workers \ {w} : busy'[x] = busy[x]
  /\ busy'[w] <=> \E r \in Requests : state'[r] = "granted" /\ entry'[r] = w
  /\ waiting = <<>> => waiting' = <<>>
  /\ waiting # <<>> => busy'[w]

LEMMA ServeStep ==
  ASSUME TypeOK, WaitersWait, OneRequestPerWorker,
         NEW js \in SUBSET Requests, NEW how \in Settled, NEW w \in Workers,
         \A r \in js : state[r] = "running", Serve(w, js, how),
         \A r \in Requests \ js : InHand(r) => entry[r] # w
  PROVE  Served(w, js, how)
<1>1. CASE waiting = <<>>
  <2>1. Settle(js, how) /\ waiting' = waiting /\ busy' = [busy EXCEPT ![w] = FALSE]
    BY <1>1 DEF Serve
  <2>2. /\ state' \in [Requests -> States] /\ entry' \in [Requests -> Workers \cup {0}]
        /\ WaitersWait' /\ OneRequestPerWorker'
        /\ \A r \in js : state'[r] = how
        /\ \A r \in Requests \ js : state'[r] = state[r] /\ entry'[r] = entry[r]
    BY <2>1, SettleStep
  <2>3. ~\E r \in Requests : state'[r] = "granted" /\ entry'[r] = w
    BY <2>2
  <2> QED
    BY <1>1, <2>1, <2>2, <2>3 DEF TypeOK, Served
<1>2. CASE waiting # <<>>
  <2> DEFINE h == Head(waiting)
  <2>1. /\ state' = [r \in Requests |-> IF r \in js THEN how
                                        ELSE IF r = h THEN "granted" ELSE state[r]]
        /\ entry' = [r \in Requests |-> IF r \in js THEN 0 ELSE IF r = h THEN w ELSE entry[r]]
        /\ busy' = [busy EXCEPT ![w] = TRUE]
        /\ waiting' = Tail(waiting)
    BY <1>2 DEF Serve
  <2>2. /\ Len(waiting) \in Nat \ {0} /\ h = waiting[1] /\ h \in Requests
        /\ waiting' \in Seq(Requests) /\ Len(waiting') = Len(waiting) - 1
        /\ \A k \in 1..Len(waiting') : waiting'[k] = waiting[k + 1]
    BY <1>2, <2>1, HeadTailProperties, EmptySeq DEF TypeOK
  <2>3. DOMAIN waiting = 1..Len(waiting) /\ DOMAIN waiting' = 1..Len(waiting')
    BY <2>2 DEF TypeOK
  <2>4. state[h] = "waiting" /\ h \notin js
    BY <2>2, <2>3 DEF WaitersWait
  <2> HIDE DEF h
  <2>5. /\ state' \in [Requests -> States] /\ entry' \in [Requests -> Workers \cup {0}]
        /\ busy' \in [Workers -> BOOLEAN]
    BY <2>1 DEF TypeOK
  <2>6. /\ \A r \in js : state'[r] = how
        /\ state'[h] = "granted" /\ entry'[h] = w
        /\ \A r \in Requests \ js : r # h => state'[r] = state[r] /\ entry'[r] = entry[r]
    BY <2>1, <2>2, <2>4 DEF TypeOK
  <2>7. WaitersWait'
    <3>1. ASSUME NEW k \in DOMAIN waiting'
          PROVE  state'[waiting'[k]] = "waiting"
      <4>1. k + 1 \in DOMAIN waiting /\ 1 \in DOMAIN waiting /\ waiting'[k] = waiting[k + 1]
        BY <2>2, <2>3
      <4>2. waiting[k + 1] # h
        BY <2>2, <2>3, <4>1 DEF WaitersWait
      <4>3. state[waiting[k + 1]] = "waiting" /\ waiting[k + 1] \in Requests
        BY <2>3, <4>1, ElementOfSeq DEF WaitersWait, TypeOK
      <4> QED
        BY <2>6, <4>1, <4>2, <4>3
    <3>2. ASSUME NEW r \in Requests, state'[r] = "waiting"
          PROVE  \E k \in DOMAIN waiting' : waiting'[k] = r
      <4>1. r # h /\ state[r] = "waiting"
        BY <2>6, <3>2
      <4>2. PICK k \in DOMAIN waiting : waiting[k] = r
        BY <4>1 DEF WaitersWait
      <4>3. k # 1
        BY <2>2, <4>1, <4>2
      <4>4. k - 1 \in 1..Len(waiting') /\ (k - 1) + 1 = k
        BY <2>2, <2>3, <4>3
      <4>5. waiting'[k - 1] = r
        BY <2>2, <4>2, <4>4
      <4> QED
        BY <2>3, <4>4, <4>5
    <3>3. ASSUME NEW j \in DOMAIN waiting', NEW k \in DOMAIN waiting', waiting'[j] = waiting'[k]
          PROVE  j = k
      <4>1. j + 1 \in DOMAIN waiting /\ k + 1 \in DOMAIN waiting
        BY <2>2, <2>3
      <4>2. waiting[j + 1] = waiting[k + 1]
        BY <2>2, <2>3, <3>3
      <4>3. j + 1 = k + 1
        BY <4>1, <4>2 DEF WaitersWait
      <4> QED
        BY <2>3, <4>3
    <3> QED
      BY <3>1, <3>2, <3>3 DEF WaitersWait
  <2>8. OneRequestPerWorker'
    BY <2>2, <2>6 DEF OneRequestPerWorker
  <2>9. Len(waiting') <= MaxQueue
    BY <2>2 DEF TypeOK
  <2>10. busy'[w] /\ \A x \in Workers \ {w} : busy'[x] = busy[x]
    BY <2>1 DEF TypeOK
  <2> QED
    BY <1>2, <2>2, <2>4, <2>5, <2>6, <2>7, <2>8, <2>9, <2>10 DEF Served
<1> QED
  BY <1>1, <1>2

\* A step that neither spawns nor retires an entry: the accounts of the deaths
\* still balance, if it marks at most one fault, and counts it.
LEMMA CausesKept ==
  ASSUME TypeOK, TypeOK', DeathsHaveCauses, closed => closed',
         spawned' = spawned, respawning' = respawning, retired' = retired,
         closed' \/ (dying' = dying /\ TimedOut \subseteq TimedOut'),
         \/ Faulty' \subseteq Faulty /\ faults <= faults'
         \/ \E w \in Workers : Faulty' \subseteq Faulty \cup {w} /\ faults' = faults + 1
  PROVE  DeathsHaveCauses'
<1>1. Faulty \in SUBSET Workers /\ Faulty' \in SUBSET Workers
  BY DEF Faulty
<1>2. faults \in Nat /\ faults' \in Nat
  BY DEF TypeOK
<1>3. Cardinality(Faulty') <= faults'
  <2>1. CASE Faulty' \subseteq Faulty /\ faults <= faults'
    <3>1. Cardinality(Faulty') <= Cardinality(Faulty)
      BY <1>1, <2>1, Finite, FS_Subset
    <3> QED
      BY <1>1, <1>2, <2>1, <3>1, Finite DEF DeathsHaveCauses
  <2>2. CASE \E w \in Workers : Faulty' \subseteq Faulty \cup {w} /\ faults' = faults + 1
    <3>1. PICK w \in Workers : Faulty' \subseteq Faulty \cup {w} /\ faults' = faults + 1
      BY <2>2
    <3>2. /\ IsFiniteSet(Faulty \cup {w})
          /\ Cardinality(Faulty \cup {w}) <= Cardinality(Faulty) + 1
      BY <1>1, Finite, OneMore
    <3>3. Cardinality(Faulty') <= Cardinality(Faulty \cup {w})
      BY <3>1, <3>2, FS_Subset
    <3>4. Cardinality(Faulty \cup {w}) \in Nat
      BY <3>2, FS_CardinalityType
    <3> QED
      BY <1>1, <1>2, <3>1, <3>2, <3>3, <3>4, Finite DEF DeathsHaveCauses
  <2> QED
    BY <2>1, <2>2
<1>4. ASSUME ~closed'
      PROVE  /\ spawned' + respawning' = Size + Cardinality(Retired')
             /\ Cardinality(Terminated') <= Cardinality(TimedOut')
  <2>1. ~closed /\ Retired' = Retired /\ Terminated' = Terminated
    BY <1>4 DEF Retired, Terminated
  <2>2. TimedOut \subseteq TimedOut' /\ TimedOut' \in SUBSET Requests
    BY <1>4 DEF TimedOut
  <2>3. Cardinality(TimedOut) <= Cardinality(TimedOut')
    BY <2>2, Finite, FS_Subset
  <2>4. Cardinality(TimedOut) \in Nat /\ Cardinality(TimedOut') \in Nat
    BY <2>2, Finite
  <2>5. Terminated \in SUBSET Workers /\ Cardinality(Terminated) \in Nat
    BY Finite DEF Terminated
  <2> QED
    BY <2>1, <2>3, <2>4, <2>5 DEF DeathsHaveCauses
<1> QED
  BY <1>3, <1>4 DEF DeathsHaveCauses

-----------------------------------------------------------------------------
(* The invariant that is inductive.                                        *)

Core ==
  /\ TypeOK /\ WaitersWait /\ OneRequestPerWorker /\ NoForgottenWaiter /\ EntriesAreHeld
  /\ UnbornAreBlank /\ PoolIsAlive /\ OneReplacementPerDeath /\ NoWorkerIsLost
  /\ ThreadsInv /\ OneDocumentPerThread /\ OwnVerdict /\ DeathsHaveCauses

\* run goes on with the worker it was given.
LEMMA StartStep ==
  ASSUME Core, NEW r \in Requests, Start(r)
  PROVE  Core'
<1> USE DEF Core
<1>1. TypeOK'
  BY DEF Start, runnerVars, requestVars, threadVars, TypeOK
<1>2. WaitersWait'
  BY DEF Start, runnerVars, requestVars, threadVars, TypeOK, WaitersWait
<1>3. OneRequestPerWorker'
  BY DEF Start, runnerVars, requestVars, threadVars, TypeOK, OneRequestPerWorker
<1>4. NoForgottenWaiter'
  BY DEF Start, runnerVars, requestVars, threadVars, TypeOK, NoForgottenWaiter, Free
<1>5. EntriesAreHeld'
  BY DEF Start, runnerVars, requestVars, threadVars, TypeOK, EntriesAreHeld
<1>6. UnbornAreBlank'
  BY DEF Start, runnerVars, requestVars, threadVars, TypeOK, UnbornAreBlank
<1>7. PoolIsAlive'
  BY DEF Start, runnerVars, requestVars, threadVars, TypeOK, PoolIsAlive
<1>8. OneReplacementPerDeath'
  BY DEF Start, runnerVars, requestVars, threadVars, TypeOK, OneReplacementPerDeath
<1>9. NoWorkerIsLost'
  BY DEF Start, runnerVars, requestVars, threadVars, TypeOK, NoWorkerIsLost
<1>10. ThreadsInv'
  <2>1. ASSUME NEW w \in Workers, work'[w] # {}
        PROVE  thread[w] = "up" /\ w \in pool /\ busy[w]
    <3>1. CASE w = entry[r] /\ thread[w] = "up"
      BY <3>1 DEF Start, EntriesAreHeld
    <3>2. CASE ~(w = entry[r] /\ thread[w] = "up")
      <4>1. work'[w] = work[w]
        BY <3>2 DEF Start, TypeOK
      <4> QED
        BY <2>1, <4>1 DEF ThreadsInv
    <3> QED
      BY <3>1, <3>2
  <2> QED
    BY <2>1 DEF Start, runnerVars, ThreadsInv
<1>11. OneDocumentPerThread'
  <2> DEFINE v == entry[r]
  <2>1. /\ v \in Workers /\ busy[v] /\ work[v] = {} /\ outbox[v] = <<>>
        /\ state' = [state EXCEPT ![r] = "running"] /\ entry' = entry
        /\ outbox' = outbox /\ busy' = busy
    BY DEF Start, runnerVars, EntriesAreHeld, OneDocumentPerThread, TypeOK
  <2>2. work'[v] \subseteq {r} /\ \A w \in Workers \ {v} : work'[w] = work[w]
    BY <2>1 DEF Start, TypeOK
  <2>3. \A q \in Requests \ {r} : InHand(q) => entry[q] # v
    BY DEF Start, OneRequestPerWorker
  <2>4. \A q \in Requests : InHand(q) => entry[q] \in Workers
    BY DEF EntriesAreHeld, TypeOK, Workers
  <2> HIDE DEF v
  <2>5. ASSUME NEW w \in Workers
        PROVE  /\ \A p, q \in work'[w] : p = q
               /\ Len(outbox'[w]) <= 1
               /\ outbox'[w] # <<>> => work'[w] = {} /\ busy'[w]
    BY <2>1, <2>2 DEF OneDocumentPerThread
  <2>6. ASSUME NEW q \in Requests
        PROVE  /\ state'[q] = "granted" => work'[entry'[q]] = {} /\ outbox'[entry'[q]] = <<>>
               /\ state'[q] = "running" =>
                    /\ work'[entry'[q]] \subseteq {q}
                    /\ outbox'[entry'[q]] # <<>> => Head(outbox'[entry'[q]]) = q
    <3>1. CASE q = r
      BY <2>1, <2>2, <3>1 DEF TypeOK, v
    <3>2. CASE q # r
      BY <2>1, <2>2, <2>3, <2>4, <3>2 DEF TypeOK, OneDocumentPerThread
    <3> QED
      BY <3>1, <3>2
  <2> QED
    BY <2>5, <2>6 DEF OneDocumentPerThread
<1>12. OwnVerdict'
  BY DEF Start, runnerVars, requestVars, threadVars, TypeOK, OwnVerdict
<1>13. DeathsHaveCauses'
  <2>1. Faulty' = Faulty /\ TimedOut' = TimedOut
    BY DEF Start, Faulty, TimedOut, TypeOK, runnerVars
  <2>2. /\ spawned' = spawned /\ respawning' = respawning /\ retired' = retired
        /\ closed' = closed /\ dying' = dying /\ faults' = faults
    BY DEF Start, runnerVars
  <2>3. faults <= faults'
    BY <2>2 DEF TypeOK
  <2> QED
    BY <1>1, <2>1, <2>2, <2>3, CausesKept
<1> QED
  BY <1>1, <1>2, <1>3, <1>4, <1>5, <1>6, <1>7, <1>8, <1>9, <1>10, <1>11, <1>12, <1>13

\* close begins.
LEMMA CloseStep ==
  ASSUME Core, Close
  PROVE  Core'
<1> USE DEF Core
<1>1. TypeOK'
  BY DEF Close, runnerVars, requestVars, threadVars, TypeOK
<1>2. WaitersWait'
  BY DEF Close, runnerVars, requestVars, threadVars, TypeOK, WaitersWait
<1>3. OneRequestPerWorker'
  BY DEF Close, runnerVars, requestVars, threadVars, TypeOK, OneRequestPerWorker
<1>4. NoForgottenWaiter'
  BY DEF Close, runnerVars, requestVars, threadVars, TypeOK, NoForgottenWaiter, Free
<1>5. EntriesAreHeld'
  BY DEF Close, runnerVars, requestVars, threadVars, TypeOK, EntriesAreHeld
<1>6. UnbornAreBlank'
  BY DEF Close, TypeOK, UnbornAreBlank, PoolIsAlive
<1>7. PoolIsAlive'
  BY DEF Close, runnerVars, requestVars, threadVars, TypeOK, PoolIsAlive
<1>8. OneReplacementPerDeath'
  BY DEF Close, runnerVars, requestVars, threadVars, TypeOK, OneReplacementPerDeath
<1>9. NoWorkerIsLost'
  BY DEF Close, runnerVars, requestVars, threadVars, TypeOK, NoWorkerIsLost
<1>10. ThreadsInv'
  BY DEF Close, runnerVars, requestVars, threadVars, TypeOK, ThreadsInv
<1>11. OneDocumentPerThread'
  BY DEF Close, runnerVars, requestVars, threadVars, TypeOK, OneDocumentPerThread
<1>12. OwnVerdict'
  BY DEF Close, runnerVars, requestVars, threadVars, TypeOK, OwnVerdict
<1>13. DeathsHaveCauses'
  BY <1>1, CausesKept DEF Close, vars, runnerVars, requestVars, threadVars, TypeOK, Faulty, TimedOut
<1> QED
  BY <1>1, <1>2, <1>3, <1>4, <1>5, <1>6, <1>7, <1>8, <1>9, <1>10, <1>11, <1>12, <1>13

\* close ends.
LEMMA ClosedStep ==
  ASSUME Core, Closed
  PROVE  Core'
<1> USE DEF Core
<1>1. TypeOK'
  BY DEF Closed, runnerVars, requestVars, threadVars, TypeOK
<1>2. WaitersWait'
  BY DEF Closed, runnerVars, requestVars, threadVars, TypeOK, WaitersWait
<1>3. OneRequestPerWorker'
  BY DEF Closed, runnerVars, requestVars, threadVars, TypeOK, OneRequestPerWorker
<1>4. NoForgottenWaiter'
  BY DEF Closed, runnerVars, requestVars, threadVars, TypeOK, NoForgottenWaiter, Free
<1>5. EntriesAreHeld'
  BY DEF Closed, runnerVars, requestVars, threadVars, TypeOK, EntriesAreHeld, ThreadsInv
<1>6. UnbornAreBlank'
  BY DEF Closed, runnerVars, requestVars, threadVars, TypeOK, UnbornAreBlank
<1>7. PoolIsAlive'
  BY FS_EmptySet DEF Closed, runnerVars, requestVars, threadVars, TypeOK, PoolIsAlive
<1>8. OneReplacementPerDeath'
  BY DEF Closed, runnerVars, requestVars, threadVars, TypeOK, OneReplacementPerDeath
<1>9. NoWorkerIsLost'
  BY DEF Closed, runnerVars, requestVars, threadVars, TypeOK, NoWorkerIsLost
<1>10. ThreadsInv'
  BY DEF Closed, runnerVars, requestVars, threadVars, TypeOK, ThreadsInv
<1>11. OneDocumentPerThread'
  BY DEF Closed, runnerVars, requestVars, threadVars, TypeOK, OneDocumentPerThread
<1>12. OwnVerdict'
  BY DEF Closed, runnerVars, requestVars, threadVars, TypeOK, OwnVerdict
<1>13. DeathsHaveCauses'
  BY <1>1, CausesKept DEF Closed, vars, runnerVars, requestVars, threadVars, TypeOK, Faulty,
        TimedOut
<1> QED
  BY <1>1, <1>2, <1>3, <1>4, <1>5, <1>6, <1>7, <1>8, <1>9, <1>10, <1>11, <1>12, <1>13

\* An exit callback begins.
LEMMA ExitBeginsStep ==
  ASSUME Core, NEW w \in Workers, ExitBegins(w)
  PROVE  Core'
<1> USE DEF Core
<1>1. TypeOK'
  BY DEF ExitBegins, runnerVars, requestVars, threadVars, TypeOK
<1>2. WaitersWait'
  BY DEF ExitBegins, runnerVars, requestVars, threadVars, TypeOK, WaitersWait
<1>3. OneRequestPerWorker'
  BY DEF ExitBegins, runnerVars, requestVars, threadVars, TypeOK, OneRequestPerWorker
<1>4. NoForgottenWaiter'
  BY DEF ExitBegins, runnerVars, requestVars, threadVars, TypeOK, NoForgottenWaiter, Free
<1>5. EntriesAreHeld'
  BY DEF ExitBegins, runnerVars, requestVars, threadVars, TypeOK, EntriesAreHeld
<1>6. UnbornAreBlank'
  BY DEF ExitBegins, runnerVars, requestVars, threadVars, TypeOK, UnbornAreBlank
<1>7. PoolIsAlive'
  BY DEF ExitBegins, runnerVars, requestVars, threadVars, TypeOK, PoolIsAlive
<1>8. OneReplacementPerDeath'
  BY DEF ExitBegins, runnerVars, requestVars, threadVars, TypeOK, OneReplacementPerDeath
<1>9. NoWorkerIsLost'
  BY DEF ExitBegins, runnerVars, requestVars, threadVars, TypeOK, NoWorkerIsLost
<1>10. ThreadsInv'
  BY DEF ExitBegins, runnerVars, requestVars, threadVars, TypeOK, ThreadsInv
<1>11. OneDocumentPerThread'
  BY DEF ExitBegins, runnerVars, requestVars, threadVars, TypeOK, OneDocumentPerThread
<1>12. OwnVerdict'
  BY DEF ExitBegins, runnerVars, requestVars, threadVars, TypeOK, OwnVerdict
<1>13. DeathsHaveCauses'
  BY <1>1, CausesKept DEF ExitBegins, vars, runnerVars, requestVars, threadVars, TypeOK, Faulty,
        TimedOut
<1> QED
  BY <1>1, <1>2, <1>3, <1>4, <1>5, <1>6, <1>7, <1>8, <1>9, <1>10, <1>11, <1>12, <1>13

\* A thread answers.
LEMMA AnswerStep ==
  ASSUME Core, NEW w \in Workers, Answer(w)
  PROVE  Core'
<1> USE DEF Core
<1>1. TypeOK'
  BY DEF Answer, runnerVars, requestVars, threadVars, TypeOK
<1>2. WaitersWait'
  BY DEF Answer, runnerVars, requestVars, threadVars, TypeOK, WaitersWait
<1>3. OneRequestPerWorker'
  BY DEF Answer, runnerVars, requestVars, threadVars, TypeOK, OneRequestPerWorker
<1>4. NoForgottenWaiter'
  BY DEF Answer, runnerVars, requestVars, threadVars, TypeOK, NoForgottenWaiter, Free
<1>5. EntriesAreHeld'
  BY DEF Answer, runnerVars, requestVars, threadVars, TypeOK, EntriesAreHeld
<1>6. UnbornAreBlank'
  BY DEF Answer, runnerVars, requestVars, threadVars, TypeOK, UnbornAreBlank
<1>7. PoolIsAlive'
  BY DEF Answer, runnerVars, requestVars, threadVars, TypeOK, PoolIsAlive
<1>8. OneReplacementPerDeath'
  BY DEF Answer, runnerVars, requestVars, threadVars, TypeOK, OneReplacementPerDeath
<1>9. NoWorkerIsLost'
  BY DEF Answer, runnerVars, requestVars, threadVars, TypeOK, NoWorkerIsLost
<1>10. ThreadsInv'
  BY DEF Answer, runnerVars, requestVars, threadVars, TypeOK, ThreadsInv
<1>11. OneDocumentPerThread'
  <2>1. PICK a \in work[w] : /\ work' = [work EXCEPT ![w] = @ \ {a}]
                              /\ outbox' = [outbox EXCEPT ![w] = Append(@, a)]
    BY DEF Answer
  <2>2. a \in Requests /\ work[w] = {a} /\ outbox[w] = <<>> /\ busy[w]
    BY <2>1 DEF OneDocumentPerThread, ThreadsInv, TypeOK
  <2>3. /\ work'[w] = {} /\ outbox'[w] = <<a>>
        /\ \A v \in Workers \ {w} : work'[v] = work[v] /\ outbox'[v] = outbox[v]
    BY <2>1, <2>2 DEF TypeOK
  <2>4. Len(<<a>>) = 1 /\ Head(<<a>>) = a
    OBVIOUS
  <2>5. \A q \in Requests : InHand(q) => entry[q] \in Workers
    BY DEF EntriesAreHeld, TypeOK, Workers
  <2>6. state' = state /\ entry' = entry /\ busy' = busy
    BY DEF Answer, requestVars, runnerVars
  <2>7. ASSUME NEW v \in Workers
        PROVE  /\ \A p, q \in work'[v] : p = q
               /\ Len(outbox'[v]) <= 1
               /\ outbox'[v] # <<>> => work'[v] = {} /\ busy'[v]
    <3>1. CASE v = w
      <4>1. work'[v] = {} /\ Len(outbox'[v]) = 1 /\ busy'[v]
        BY <2>2, <2>3, <2>4, <2>6, <3>1
      <4> QED
        BY <4>1
    <3>2. CASE v # w
      <4>1. v \in Workers \ {w}
        BY <3>2
      <4> QED
        BY <2>3, <2>6, <4>1 DEF OneDocumentPerThread
    <3> QED
      BY <3>1, <3>2
  <2>8. ASSUME NEW q \in Requests
        PROVE  /\ state'[q] = "granted" => work'[entry'[q]] = {} /\ outbox'[entry'[q]] = <<>>
               /\ state'[q] = "running" =>
                    /\ work'[entry'[q]] \subseteq {q}
                    /\ outbox'[entry'[q]] # <<>> => Head(outbox'[entry'[q]]) = q
    <3>1. CASE InHand(q) /\ entry[q] = w
      <4>1. state[q] = "running" /\ a = q
        BY <2>2, <3>1 DEF OneDocumentPerThread
      <4> QED
        BY <2>3, <2>4, <2>6, <3>1, <4>1
    <3>2. CASE InHand(q) /\ entry[q] # w
      <4>1. entry[q] \in Workers \ {w}
        BY <2>5, <3>2
      <4>2. work'[entry[q]] = work[entry[q]] /\ outbox'[entry[q]] = outbox[entry[q]]
        BY <2>3, <4>1
      <4> QED
        BY <2>6, <4>2 DEF OneDocumentPerThread
    <3>3. CASE ~InHand(q)
      BY <2>6, <3>3
    <3> QED
      BY <3>1, <3>2, <3>3
  <2> QED
    BY <2>7, <2>8 DEF OneDocumentPerThread
<1>12. OwnVerdict'
  BY DEF Answer, runnerVars, requestVars, threadVars, TypeOK, OwnVerdict
<1>13. DeathsHaveCauses'
  BY <1>1, CausesKept DEF Answer, vars, runnerVars, requestVars, threadVars, TypeOK, Faulty,
        TimedOut
<1> QED
  BY <1>1, <1>2, <1>3, <1>4, <1>5, <1>6, <1>7, <1>8, <1>9, <1>10, <1>11, <1>12, <1>13

\* A thread crashes.
LEMMA CrashStep ==
  ASSUME Core, NEW w \in Workers, Crash(w)
  PROVE  Core'
<1> USE DEF Core
<1>1. TypeOK'
  BY DEF Crash, runnerVars, requestVars, threadVars, TypeOK
<1>2. WaitersWait'
  BY DEF Crash, runnerVars, requestVars, threadVars, TypeOK, WaitersWait
<1>3. OneRequestPerWorker'
  BY DEF Crash, runnerVars, requestVars, threadVars, TypeOK, OneRequestPerWorker
<1>4. NoForgottenWaiter'
  BY DEF Crash, runnerVars, requestVars, threadVars, TypeOK, NoForgottenWaiter, Free
<1>5. EntriesAreHeld'
  BY DEF Crash, runnerVars, requestVars, threadVars, TypeOK, EntriesAreHeld
<1>6. UnbornAreBlank'
  BY DEF Crash, runnerVars, requestVars, threadVars, TypeOK, UnbornAreBlank
<1>7. PoolIsAlive'
  BY DEF Crash, runnerVars, requestVars, threadVars, TypeOK, PoolIsAlive
<1>8. OneReplacementPerDeath'
  BY DEF Crash, runnerVars, requestVars, threadVars, TypeOK, OneReplacementPerDeath
<1>9. NoWorkerIsLost'
  BY DEF Crash, runnerVars, requestVars, threadVars, TypeOK, NoWorkerIsLost
<1>10. ThreadsInv'
  BY DEF Crash, runnerVars, requestVars, threadVars, TypeOK, ThreadsInv
<1>11. OneDocumentPerThread'
  BY DEF Crash, runnerVars, requestVars, threadVars, TypeOK, OneDocumentPerThread
<1>12. OwnVerdict'
  BY DEF Crash, runnerVars, requestVars, threadVars, TypeOK, OwnVerdict
<1>13. DeathsHaveCauses'
  BY <1>1, CausesKept DEF Crash, vars, runnerVars, requestVars, threadVars, TypeOK, Faulty, TimedOut
<1> QED
  BY <1>1, <1>2, <1>3, <1>4, <1>5, <1>6, <1>7, <1>8, <1>9, <1>10, <1>11, <1>12, <1>13

\* A thread ends.
LEMMA ExitStep ==
  ASSUME Core, NEW w \in Workers, Exit(w)
  PROVE  Core'
<1> USE DEF Core
<1>1. TypeOK'
  BY DEF Exit, runnerVars, requestVars, threadVars, TypeOK
<1>2. WaitersWait'
  BY DEF Exit, runnerVars, requestVars, threadVars, TypeOK, WaitersWait
<1>3. OneRequestPerWorker'
  BY DEF Exit, runnerVars, requestVars, threadVars, TypeOK, OneRequestPerWorker
<1>4. NoForgottenWaiter'
  BY DEF Exit, runnerVars, requestVars, threadVars, TypeOK, NoForgottenWaiter, Free
<1>5. EntriesAreHeld'
  BY DEF Exit, runnerVars, requestVars, threadVars, TypeOK, EntriesAreHeld
<1>6. UnbornAreBlank'
  BY DEF Exit, runnerVars, requestVars, threadVars, TypeOK, UnbornAreBlank
<1>7. PoolIsAlive'
  BY DEF Exit, runnerVars, requestVars, threadVars, TypeOK, PoolIsAlive
<1>8. OneReplacementPerDeath'
  BY DEF Exit, runnerVars, requestVars, threadVars, TypeOK, OneReplacementPerDeath
<1>9. NoWorkerIsLost'
  BY DEF Exit, runnerVars, requestVars, threadVars, TypeOK, NoWorkerIsLost
<1>10. ThreadsInv'
  BY DEF Exit, runnerVars, requestVars, threadVars, TypeOK, ThreadsInv
<1>11. OneDocumentPerThread'
  BY DEF Exit, runnerVars, requestVars, threadVars, TypeOK, OneDocumentPerThread
<1>12. OwnVerdict'
  BY DEF Exit, runnerVars, requestVars, threadVars, TypeOK, OwnVerdict
<1>13. DeathsHaveCauses'
  BY <1>1, CausesKept DEF Exit, vars, runnerVars, requestVars, threadVars, TypeOK, Faulty, TimedOut
<1> QED
  BY <1>1, <1>2, <1>3, <1>4, <1>5, <1>6, <1>7, <1>8, <1>9, <1>10, <1>11, <1>12, <1>13

\* The deadline of a waiter passes.
LEMMA QueueTimerStep ==
  ASSUME Core, NEW r \in Requests, QueueTimer(r)
  PROVE  Core'
<1> USE DEF Core
<1> PICK k \in DOMAIN waiting : waiting[k] = r /\ waiting' = RemoveAt(waiting, k)
  BY DEF QueueTimer
<1> DEFINE from(j) == IF j < k THEN j ELSE j + 1
<1>a. /\ state' = [state EXCEPT ![r] = "service_busy"]
      /\ UNCHANGED <<pool, busy, retired, respawning, closed, spawned, entry, verdict,
                     threadVars, draining, reported>>
  BY DEF QueueTimer
<1>b. /\ waiting \in Seq(Requests) /\ Len(waiting) \in Nat /\ k \in 1..Len(waiting)
      /\ DOMAIN waiting = 1..Len(waiting) /\ state[r] = "waiting"
      /\ waiting' \in Seq(Requests) /\ Len(waiting') = Len(waiting) - 1
  BY RemoveAtProperties DEF TypeOK, WaitersWait
<1>c. /\ DOMAIN waiting' = 1..(Len(waiting) - 1)
      /\ \A j \in 1..(Len(waiting) - 1) : waiting'[j] = waiting[from(j)]
  <2>1. \A j \in 1..(Len(waiting) - 1) :
          RemoveAt(waiting, k)[j] = waiting[IF j < k THEN j ELSE j + 1]
    BY <1>b, RemoveAtProperties
  <2>2. DOMAIN waiting' = 1..Len(waiting')
    BY <1>b
  <2> QED
    BY <1>b, <2>1, <2>2
<1>1. TypeOK'
  BY <1>a, <1>b DEF TypeOK, threadVars
<1>2. WaitersWait'
  <2>1. ASSUME NEW j \in DOMAIN waiting'
        PROVE  state'[waiting'[j]] = "waiting"
    <3>1. from(j) \in DOMAIN waiting /\ from(j) # k /\ waiting'[j] = waiting[from(j)]
      BY <1>b, <1>c, <2>1
    <3>2. waiting[from(j)] # r /\ waiting[from(j)] \in Requests
      BY <1>b, <3>1, ElementOfSeq DEF WaitersWait, TypeOK
    <3> QED
      BY <1>a, <3>1, <3>2 DEF WaitersWait, TypeOK
  <2>2. ASSUME NEW q \in Requests, state'[q] = "waiting"
        PROVE  \E j \in DOMAIN waiting' : waiting'[j] = q
    <3>1. q # r /\ state[q] = "waiting"
      BY <1>a, <2>2 DEF TypeOK
    <3>2. PICK n \in DOMAIN waiting : waiting[n] = q
      BY <3>1 DEF WaitersWait
    <3> DEFINE j == IF n < k THEN n ELSE n - 1
    <3>3. n # k
      BY <1>b, <3>1, <3>2
    <3>4. j \in 1..(Len(waiting) - 1) /\ from(j) = n
      BY <1>b, <1>c, <3>3
    <3> HIDE DEF j
    <3>5. waiting'[j] = q
      BY <1>c, <3>2, <3>4
    <3> QED
      BY <1>c, <3>4, <3>5
  <2>3. ASSUME NEW i \in DOMAIN waiting', NEW j \in DOMAIN waiting', waiting'[i] = waiting'[j]
        PROVE  i = j
    <3>1. /\ from(i) \in DOMAIN waiting /\ waiting'[i] = waiting[from(i)]
          /\ from(j) \in DOMAIN waiting /\ waiting'[j] = waiting[from(j)]
      BY <1>b, <1>c
    <3>2. from(i) = from(j)
      BY <2>3, <3>1 DEF WaitersWait
    <3> QED
      BY <1>b, <1>c, <3>2
  <2> QED
    BY <2>1, <2>2, <2>3 DEF WaitersWait
<1>3. OneRequestPerWorker'
  BY <1>a DEF OneRequestPerWorker, TypeOK
<1>4. NoForgottenWaiter'
  <2>1. waiting # <<>>
    BY <1>b
  <2> QED
    BY <1>a, <2>1 DEF NoForgottenWaiter, Free
<1>5. EntriesAreHeld'
  BY DEF QueueTimer, runnerVars, requestVars, threadVars, TypeOK, EntriesAreHeld
<1>6. UnbornAreBlank'
  BY DEF QueueTimer, runnerVars, requestVars, threadVars, TypeOK, UnbornAreBlank
<1>7. PoolIsAlive'
  BY DEF QueueTimer, runnerVars, requestVars, threadVars, TypeOK, PoolIsAlive
<1>8. OneReplacementPerDeath'
  BY DEF QueueTimer, runnerVars, requestVars, threadVars, TypeOK, OneReplacementPerDeath
<1>9. NoWorkerIsLost'
  <2>1. \A q \in Requests : InHand(q) => state'[q] = state[q] /\ entry'[q] = entry[q]
    BY <1>a, <1>b DEF TypeOK
  <2> QED
    BY <1>a, <2>1 DEF NoWorkerIsLost, threadVars
<1>10. ThreadsInv'
  BY DEF QueueTimer, runnerVars, requestVars, threadVars, TypeOK, ThreadsInv
<1>11. OneDocumentPerThread'
  BY DEF QueueTimer, runnerVars, requestVars, threadVars, TypeOK, OneDocumentPerThread
<1>12. OwnVerdict'
  BY DEF QueueTimer, runnerVars, requestVars, threadVars, TypeOK, OwnVerdict
<1>13. DeathsHaveCauses'
  <2>1. Faulty' = Faulty /\ TimedOut \subseteq TimedOut' /\ faults <= faults'
    BY <1>a, <1>b DEF Faulty, TimedOut, TypeOK, threadVars
  <2> QED
    BY <1>1, <1>a, <2>1, CausesKept DEF threadVars
<1> QED
  BY <1>1, <1>2, <1>3, <1>4, <1>5, <1>6, <1>7, <1>8, <1>9, <1>10, <1>11, <1>12, <1>13

\* The deadline of a verification passes: its worker is terminated.
LEMMA VerifyTimerStep ==
  ASSUME Core, NEW r \in Requests, VerifyTimer(r)
  PROVE  Core'
<1> USE DEF Core
<1> DEFINE w == entry[r]
<1>a. /\ w \in Workers /\ w \in 1..spawned /\ state[r] = "running" /\ dying' = [dying EXCEPT ![w] = TRUE]
      /\ UNCHANGED <<pool, busy, retired, waiting, respawning, closed, spawned, verdict, thread,
                     work, outbox, uncaught, faults, draining, reported>>
  BY DEF VerifyTimer, Kill, EntriesAreHeld, TypeOK, Workers
<1>b. /\ state' \in [Requests -> States] /\ entry' \in [Requests -> Workers \cup {0}]
      /\ WaitersWait' /\ OneRequestPerWorker' /\ state'[r] = "verify_timeout"
      /\ \A q \in Requests \ {r} : state'[q] = state[q] /\ entry'[q] = entry[q]
  <2>1. Settle({r}, "verify_timeout") /\ {r} \in SUBSET Requests
    BY DEF VerifyTimer
  <2>2. \A q \in {r} : state[q] = "running"
    BY <1>a
  <2>3. /\ state' \in [Requests -> States] /\ entry' \in [Requests -> Workers \cup {0}]
        /\ WaitersWait' /\ OneRequestPerWorker'
        /\ \A q \in {r} : state'[q] = "verify_timeout"
        /\ \A q \in Requests \ {r} : state'[q] = state[q] /\ entry'[q] = entry[q]
    BY <1>a, <2>1, <2>2, SettleStep
  <2> QED
    BY <2>3
<1> HIDE DEF w
<1>1. TypeOK'
  BY <1>a, <1>b DEF TypeOK
<1>2. WaitersWait'
  BY <1>b
<1>3. OneRequestPerWorker'
  BY <1>b
<1>4. NoForgottenWaiter'
  BY <1>a DEF NoForgottenWaiter, Free
<1>5. EntriesAreHeld'
  BY <1>a, <1>b DEF EntriesAreHeld
<1>6. UnbornAreBlank'
  BY <1>a DEF UnbornAreBlank, TypeOK
<1>7. PoolIsAlive'
  BY <1>a DEF PoolIsAlive, TypeOK
<1>8. OneReplacementPerDeath'
  BY <1>a DEF OneReplacementPerDeath
<1>9. NoWorkerIsLost'
  <2>1. ASSUME NEW x \in pool', busy'[x]
        PROVE  \/ \E q \in Requests : entry'[q] = x /\ InHand(q)'
               \/ dying'[x] \/ thread'[x] # "up"
    <3>1. x \in pool /\ x \in Workers /\ busy[x] /\ thread'[x] = thread[x]
      BY <1>a, <2>1 DEF TypeOK
    <3>2. CASE x = w
      BY <1>a, <3>2 DEF TypeOK
    <3>3. CASE x # w
      <4>1. dying'[x] = dying[x]
        BY <1>a, <3>1, <3>3 DEF TypeOK
      <4>2. \A q \in Requests : entry[q] = x => q # r
        BY <3>3 DEF w
      <4> QED
        BY <1>b, <3>1, <4>1, <4>2 DEF NoWorkerIsLost
    <3> QED
      BY <3>2, <3>3
  <2> QED
    BY <2>1 DEF NoWorkerIsLost
<1>10. ThreadsInv'
  BY <1>a DEF ThreadsInv
<1>11. OneDocumentPerThread'
  <2>1. \A q \in Requests : InHand(q)' => state'[q] = state[q] /\ entry'[q] = entry[q]
    BY <1>b
  <2>2. work' = work /\ outbox' = outbox /\ busy' = busy
    BY <1>a
  <2> QED
    BY <2>1, <2>2 DEF OneDocumentPerThread
<1>12. OwnVerdict'
  BY <1>a DEF OwnVerdict
<1>13. DeathsHaveCauses'
  <2>1. Faulty' \subseteq Faulty
    BY <1>a DEF Faulty, TypeOK
  <2>2. /\ Faulty' \in SUBSET Workers /\ Faulty \in SUBSET Workers
        /\ Terminated \in SUBSET Workers /\ Terminated' = Terminated \cup {w}
        /\ TimedOut \in SUBSET Requests /\ r \notin TimedOut /\ TimedOut' = TimedOut \cup {r}
    BY <1>a, <1>b DEF Faulty, Terminated, TimedOut, TypeOK
  <2>3. Cardinality(Faulty') <= Cardinality(Faulty)
    BY <2>1, <2>2, Finite, FS_Subset
  <2>4. Cardinality(Terminated') <= Cardinality(Terminated) + 1
    <3>1. IsFiniteSet(Terminated) /\ Cardinality(Terminated) \in Nat
      BY <2>2, Finite
    <3>2. Cardinality(Terminated \cup {w}) <= Cardinality(Terminated) + 1
      BY <3>1, OneMore
    <3> QED
      BY <2>2, <3>2
  <2>5. Cardinality(TimedOut') = Cardinality(TimedOut) + 1
    BY <2>2, Finite, FS_AddElement
  <2>6. /\ Cardinality(Faulty) \in Nat /\ Cardinality(Faulty') \in Nat
        /\ Cardinality(Terminated) \in Nat /\ Cardinality(TimedOut) \in Nat
    BY <2>2, Finite
  <2>7. Cardinality(Terminated') \in Nat
    BY <1>1, Finite DEF Terminated
  <2>8. Retired' = Retired
    BY <1>a DEF Retired
  <2>9. faults \in Nat
    BY DEF TypeOK
  <2> QED
    BY <1>a, <2>3, <2>4, <2>5, <2>6, <2>7, <2>8, <2>9 DEF DeathsHaveCauses
<1> QED
  BY <1>1, <1>2, <1>3, <1>4, <1>5, <1>6, <1>7, <1>8, <1>9, <1>10, <1>11, <1>12, <1>13

\* run rejects at once.
LEMMA RefusedStep ==
  ASSUME Core, NEW r \in Requests, NEW how \in {"refused", "service_busy"}, state[r] = "new",
         state' = [state EXCEPT ![r] = how], entry' = entry, waiting' = waiting, busy' = busy,
         UNCHANGED <<pool, retired, respawning, closed, spawned, verdict, threadVars,
                     draining, reported>>
  PROVE  Core'
<1> USE DEF Core
<1>a. /\ state' = [state EXCEPT ![r] = how] /\ state[r] = "new"
      /\ UNCHANGED <<pool, busy, retired, waiting, respawning, closed, spawned, entry, verdict,
                     threadVars, draining, reported>>
  OBVIOUS
<1>1. TypeOK'
  BY <1>a DEF threadVars, TypeOK
<1>2. WaitersWait'
  <2>1. \A k \in DOMAIN waiting : waiting[k] \in Requests /\ waiting[k] # r
    BY ElementOfSeq DEF WaitersWait, TypeOK
  <2> QED
    BY <1>a, <2>1 DEF WaitersWait, TypeOK
<1>3. OneRequestPerWorker'
  BY <1>a DEF threadVars, TypeOK, OneRequestPerWorker
<1>4. NoForgottenWaiter'
  BY <1>a DEF threadVars, TypeOK, NoForgottenWaiter, Free
<1>5. EntriesAreHeld'
  BY <1>a DEF threadVars, TypeOK, EntriesAreHeld
<1>6. UnbornAreBlank'
  BY <1>a DEF threadVars, TypeOK, UnbornAreBlank
<1>7. PoolIsAlive'
  BY <1>a DEF threadVars, TypeOK, PoolIsAlive
<1>8. OneReplacementPerDeath'
  BY <1>a DEF threadVars, TypeOK, OneReplacementPerDeath
<1>9. NoWorkerIsLost'
  <2>1. \A q \in Requests : InHand(q) => state'[q] = state[q] /\ entry'[q] = entry[q]
    BY <1>a DEF threadVars, TypeOK
  <2> QED
    BY <1>a, <2>1 DEF NoWorkerIsLost, threadVars
<1>10. ThreadsInv'
  BY <1>a DEF threadVars, TypeOK, ThreadsInv
<1>11. OneDocumentPerThread'
  BY <1>a DEF threadVars, TypeOK, OneDocumentPerThread
<1>12. OwnVerdict'
  BY <1>a DEF threadVars, TypeOK, OwnVerdict
<1>13. DeathsHaveCauses'
  <2>1. Faulty' = Faulty /\ TimedOut \subseteq TimedOut' /\ faults <= faults'
    BY <1>a DEF threadVars, Faulty, TimedOut, TypeOK, threadVars
  <2> QED
    BY <1>1, <1>a, <2>1, CausesKept DEF threadVars
<1> QED
  BY <1>1, <1>2, <1>3, <1>4, <1>5, <1>6, <1>7, <1>8, <1>9, <1>10, <1>11, <1>12, <1>13

\* run takes a free worker.
LEMMA GrantedStep ==
  ASSUME Core, NEW r \in Requests, NEW w \in Free, state[r] = "new", ~closed, Quiet,
         state' = [state EXCEPT ![r] = "granted"], entry' = [entry EXCEPT ![r] = w],
         busy' = [busy EXCEPT ![w] = TRUE], waiting' = waiting,
         UNCHANGED <<pool, retired, respawning, closed, spawned, verdict, threadVars,
                     draining, reported>>
  PROVE  Core'
<1> USE DEF Core
<1>a. /\ state' = [state EXCEPT ![r] = "granted"] /\ entry' = [entry EXCEPT ![r] = w]
      /\ busy' = [busy EXCEPT ![w] = TRUE]
      /\ state[r] = "new" /\ w \in Workers /\ w \in pool /\ ~busy[w] /\ ~retired[w]
      /\ w \in Free /\ ~closed
      /\ UNCHANGED <<pool, retired, waiting, respawning, closed, spawned, verdict, threadVars,
                     draining, reported>>
  BY DEF Free, TypeOK
<1>b. w \in 1..spawned /\ \A q \in Requests : InHand(q) => entry[q] # w
  BY <1>a DEF EntriesAreHeld, PoolIsAlive
<1>1. TypeOK'
  BY <1>a DEF threadVars, TypeOK
<1>2. WaitersWait'
  <2>1. \A k \in DOMAIN waiting : waiting[k] \in Requests /\ waiting[k] # r
    BY ElementOfSeq DEF WaitersWait, TypeOK
  <2> QED
    BY <1>a, <2>1 DEF WaitersWait, TypeOK
<1>3. OneRequestPerWorker'
  BY <1>a, <1>b DEF OneRequestPerWorker, TypeOK
<1>4. NoForgottenWaiter'
  <2>1. waiting = <<>>
    BY <1>a DEF NoForgottenWaiter
  <2> QED
    BY <1>a, <2>1 DEF NoForgottenWaiter
<1>5. EntriesAreHeld'
  BY <1>a, <1>b DEF EntriesAreHeld, PoolIsAlive, TypeOK, threadVars
<1>6. UnbornAreBlank'
  BY <1>a, <1>b DEF UnbornAreBlank, TypeOK, threadVars
<1>7. PoolIsAlive'
  BY <1>a DEF threadVars, TypeOK, PoolIsAlive
<1>8. OneReplacementPerDeath'
  BY <1>a DEF threadVars, TypeOK, OneReplacementPerDeath
<1>9. NoWorkerIsLost'
  <2>1. ASSUME NEW x \in pool', busy'[x]
        PROVE  \/ \E q \in Requests : entry'[q] = x /\ InHand(q)'
               \/ dying'[x] \/ thread'[x] # "up"
    <3>1. CASE x = w
      BY <1>a, <3>1 DEF TypeOK
    <3>2. CASE x # w
      <4>1. x \in pool /\ busy[x]
        BY <1>a, <2>1, <3>2 DEF TypeOK
      <4>2. \A q \in Requests : InHand(q) => state'[q] = state[q] /\ entry'[q] = entry[q]
        BY <1>a DEF threadVars, TypeOK
      <4> QED
        BY <1>a, <4>1, <4>2 DEF NoWorkerIsLost, threadVars
    <3> QED
      BY <3>1, <3>2
  <2> QED
    BY <2>1 DEF NoWorkerIsLost
<1>10. ThreadsInv'
  BY <1>a DEF threadVars, TypeOK, ThreadsInv
<1>11. OneDocumentPerThread'
  <2>1. work[w] = {} /\ outbox[w] = <<>>
    BY <1>a DEF ThreadsInv, OneDocumentPerThread
  <2>2. /\ state'[r] = "granted" /\ entry'[r] = w
        /\ \A q \in Requests \ {r} : state'[q] = state[q] /\ entry'[q] = entry[q]
        /\ work' = work /\ outbox' = outbox /\ \A x \in Workers : busy[x] => busy'[x]
    BY <1>a DEF threadVars, TypeOK, threadVars
  <2> QED
    BY <2>1, <2>2 DEF OneDocumentPerThread
<1>12. OwnVerdict'
  BY <1>a DEF threadVars, TypeOK, OwnVerdict
<1>13. DeathsHaveCauses'
  <2>1. Faulty' = Faulty /\ TimedOut \subseteq TimedOut' /\ faults <= faults'
    BY <1>a DEF Faulty, TimedOut, TypeOK, threadVars
  <2> QED
    BY <1>1, <1>a, <2>1, CausesKept DEF threadVars
<1> QED
  BY <1>1, <1>2, <1>3, <1>4, <1>5, <1>6, <1>7, <1>8, <1>9, <1>10, <1>11, <1>12, <1>13

\* run waits for a worker.
LEMMA QueuedStep ==
  ASSUME Core, NEW r \in Requests, state[r] = "new", ~closed, Free = {}, ~QueueFull,
         state' = [state EXCEPT ![r] = "waiting"], waiting' = Append(waiting, r),
         UNCHANGED <<busy, entry, pool, retired, respawning, closed, spawned, verdict,
                     threadVars, draining, reported>>
  PROVE  Core'
<1> USE DEF Core
<1>a. /\ state' = [state EXCEPT ![r] = "waiting"] /\ state[r] = "new" /\ ~closed /\ Free = {}
      /\ UNCHANGED <<pool, busy, retired, respawning, closed, spawned, entry, verdict,
                     threadVars, draining, reported>>
  OBVIOUS
<1>b. /\ Len(waiting) \in Nat /\ DOMAIN waiting = 1..Len(waiting) /\ ~QueueFull
      /\ waiting' \in Seq(Requests) /\ Len(waiting') = Len(waiting) + 1
      /\ DOMAIN waiting' = 1..(Len(waiting) + 1)
      /\ \A k \in 1..Len(waiting) : waiting'[k] = waiting[k]
      /\ waiting'[Len(waiting) + 1] = r
  BY AppendProperties DEF TypeOK
<1>1. TypeOK'
  <2>1. Len(waiting) + 1 <= MaxQueue
    BY <1>b DEF QueueFull
  <2> QED
    BY <1>a, <1>b, <2>1 DEF TypeOK, threadVars
<1>2. WaitersWait'
  <2>1. \A k \in 1..Len(waiting) : waiting[k] \in Requests /\ waiting[k] # r
    BY <1>a, <1>b, ElementOfSeq DEF WaitersWait, TypeOK
  <2>2. \A k \in 1..(Len(waiting) + 1) : k \in 1..Len(waiting) \/ k = Len(waiting) + 1
    BY <1>b
  <2>3. ASSUME NEW k \in 1..(Len(waiting) + 1)
        PROVE  state'[waiting'[k]] = "waiting"
    <3>1. CASE k \in 1..Len(waiting)
      <4>1. waiting'[k] = waiting[k] /\ state[waiting[k]] = "waiting"
        BY <1>b, <3>1 DEF WaitersWait
      <4> QED
        BY <1>a, <2>1, <3>1, <4>1 DEF TypeOK
    <3>2. CASE k = Len(waiting) + 1
      BY <1>a, <1>b, <3>2 DEF TypeOK
    <3> QED
      BY <2>2, <3>1, <3>2
  <2>4. ASSUME NEW q \in Requests, state'[q] = "waiting"
        PROVE  \E k \in 1..(Len(waiting) + 1) : waiting'[k] = q
    <3>1. CASE q = r
      BY <1>b, <3>1
    <3>2. CASE q # r
      <4>1. PICK k \in 1..Len(waiting) : waiting[k] = q
        BY <1>a, <1>b, <2>4, <3>2 DEF WaitersWait, TypeOK
      <4>2. k \in 1..(Len(waiting) + 1)
        BY <1>b
      <4> QED
        BY <1>b, <4>1, <4>2
    <3> QED
      BY <3>1, <3>2
  <2>5. ASSUME NEW j \in 1..(Len(waiting) + 1), NEW k \in 1..(Len(waiting) + 1),
               waiting'[j] = waiting'[k]
        PROVE  j = k
    BY <1>b, <2>1, <2>2, <2>5 DEF WaitersWait
  <2>6. DOMAIN waiting' = 1..(Len(waiting) + 1)
    BY <1>b
  <2> QED
    BY <2>3, <2>4, <2>5, <2>6 DEF WaitersWait
<1>3. OneRequestPerWorker'
  BY <1>a DEF threadVars, TypeOK, OneRequestPerWorker
<1>4. NoForgottenWaiter'
  BY <1>a DEF NoForgottenWaiter, Free
<1>5. EntriesAreHeld'
  BY <1>a DEF threadVars, TypeOK, EntriesAreHeld
<1>6. UnbornAreBlank'
  BY <1>a DEF threadVars, TypeOK, UnbornAreBlank
<1>7. PoolIsAlive'
  BY <1>a DEF threadVars, TypeOK, PoolIsAlive
<1>8. OneReplacementPerDeath'
  BY <1>a DEF threadVars, TypeOK, OneReplacementPerDeath
<1>9. NoWorkerIsLost'
  <2>1. \A q \in Requests : InHand(q) => state'[q] = state[q] /\ entry'[q] = entry[q]
    BY <1>a DEF threadVars, TypeOK
  <2> QED
    BY <1>a, <2>1 DEF NoWorkerIsLost, threadVars
<1>10. ThreadsInv'
  BY <1>a DEF threadVars, TypeOK, ThreadsInv
<1>11. OneDocumentPerThread'
  BY <1>a DEF threadVars, TypeOK, OneDocumentPerThread
<1>12. OwnVerdict'
  BY <1>a DEF threadVars, TypeOK, OwnVerdict
<1>13. DeathsHaveCauses'
  <2>1. Faulty' = Faulty /\ TimedOut \subseteq TimedOut' /\ faults <= faults'
    BY <1>a DEF Faulty, TimedOut, TypeOK, threadVars
  <2> QED
    BY <1>1, <1>a, <2>1, CausesKept DEF threadVars
<1> QED
  BY <1>1, <1>2, <1>3, <1>4, <1>5, <1>6, <1>7, <1>8, <1>9, <1>10, <1>11, <1>12, <1>13

\* A call of run.
LEMMA RunStep ==
  ASSUME Core, NEW r \in Requests, Run(r)
  PROVE  Core'
<1>1. /\ state[r] = "new" /\ Quiet
      /\ UNCHANGED <<pool, retired, respawning, closed, spawned, verdict, threadVars,
                     draining, reported>>
  BY DEF Run
<1>2. CASE closed /\ state' = [state EXCEPT ![r] = "refused"] /\ UNCHANGED <<busy, waiting, entry>>
  BY <1>1, <1>2, RefusedStep
<1>3. CASE \E w \in Free :
             /\ ~closed
             /\ state' = [state EXCEPT ![r] = "granted"]
             /\ entry' = [entry EXCEPT ![r] = w]
             /\ busy' = [busy EXCEPT ![w] = TRUE]
             /\ UNCHANGED waiting
  BY <1>1, <1>3, GrantedStep
<1>4. CASE /\ ~closed /\ Free = {} /\ QueueFull
           /\ state' = [state EXCEPT ![r] = "service_busy"]
           /\ UNCHANGED <<busy, waiting, entry>>
  BY <1>1, <1>4, RefusedStep
<1>5. CASE /\ ~closed /\ Free = {} /\ ~QueueFull
           /\ state' = [state EXCEPT ![r] = "waiting"]
           /\ waiting' = Append(waiting, r)
           /\ UNCHANGED <<busy, entry>>
  BY <1>1, <1>5, QueuedStep
<1> QED
  BY <1>2, <1>3, <1>4, <1>5 DEF Run

\* An answer is delivered.
LEMMA OnMessageStep ==
  ASSUME Core, NEW w \in 1..spawned, OnMessage(w)
  PROVE  Core'
<1> USE DEF Core
<1> DEFINE J == Job(w)
<1>a. /\ w \in Workers /\ w <= spawned /\ J \in SUBSET Requests
      /\ verdict' = [r \in Requests |-> IF r \in J THEN Head(outbox[w]) ELSE verdict[r]]
      /\ outbox' = [outbox EXCEPT ![w] = Tail(@)] /\ outbox[w] # <<>>
      /\ UNCHANGED <<pool, retired, respawning, closed, spawned, thread, dying, work,
                     uncaught, faults, draining, reported>>
  <2>1. w \in Workers /\ w <= spawned /\ w \in Nat
    BY Finite DEF TypeOK
  <2>2. J \in SUBSET Requests
    BY DEF Job
  <2> HIDE DEF J
  <2> QED
    BY <2>1, <2>2 DEF OnMessage, J
<1>p. w \in Workers /\ w \in Nat /\ spawned \in Nat /\ J \in SUBSET Requests
  BY Finite DEF TypeOK, Job
<1>q. \A r \in J : state[r] = "running" /\ entry[r] = w
  BY DEF Job
<1>b. \A r \in Requests \ J : J # {} /\ InHand(r) => entry[r] # w
  BY DEF OneRequestPerWorker, Job
<1>c. /\ work[w] = {} /\ outbox'[w] = <<>> /\ Head(outbox[w]) \in Requests
      /\ \A x \in Workers \ {w} : outbox'[x] = outbox[x]
      /\ outbox' \in [Workers -> Seq(Requests)]
  <2>0. outbox[w] \in Seq(Requests) /\ outbox[w] # <<>> /\ Len(outbox[w]) <= 1
    BY <1>a DEF OneDocumentPerThread, TypeOK
  <2>2. Tail(outbox[w]) = <<>> /\ Head(outbox[w]) \in Requests
    BY <2>0, AtMostOneLong
  <2> QED
    BY <1>a, <2>2 DEF OneDocumentPerThread, TypeOK
<1>d. /\ state' \in [Requests -> States] /\ entry' \in [Requests -> Workers \cup {0}]
      /\ busy' \in [Workers -> BOOLEAN]
      /\ waiting' \in Seq(Requests) /\ Len(waiting') <= MaxQueue
      /\ WaitersWait' /\ OneRequestPerWorker'
      /\ \A r \in J : state'[r] = "answered"
      /\ \A r \in Requests \ J :
           \/ state'[r] = state[r] /\ entry'[r] = entry[r]
           \/ J # {} /\ state[r] = "waiting" /\ state'[r] = "granted" /\ entry'[r] = w
      /\ \A x \in Workers \ {w} : busy'[x] = busy[x]
      /\ waiting = <<>> => waiting' = <<>>
  <2>1. CASE J = {}
    BY <2>1 DEF OnMessage, TypeOK, WaitersWait, OneRequestPerWorker
  <2>2. CASE J # {} /\ retired[w]
    <3>1. Settle(J, "answered") /\ busy' = busy /\ waiting' = waiting
      BY <2>2 DEF OnMessage, Release
    <3> HIDE DEF J
    <3>2. \A r \in J : state[r] = "running"
      BY <1>q
    <3>3. /\ state' \in [Requests -> States] /\ entry' \in [Requests -> Workers \cup {0}]
          /\ WaitersWait' /\ OneRequestPerWorker'
          /\ \A r \in J : state'[r] = "answered"
          /\ \A r \in Requests \ J : state'[r] = state[r] /\ entry'[r] = entry[r]
      BY <1>p, <3>1, <3>2, SettleStep
    <3> QED
      BY <3>1, <3>3 DEF TypeOK
  <2>3. CASE J # {} /\ ~retired[w]
    <3>1. Serve(w, J, "answered")
      BY <2>3 DEF OnMessage, Release
    <3> HIDE DEF J
    <3>2. /\ \A r \in J : state[r] = "running"
          /\ \A r \in Requests \ J : InHand(r) => entry[r] # w
      BY <1>b, <1>q, <2>3
    <3>3. Served(w, J, "answered")
      BY <1>p, <3>1, <3>2, ServeStep
    <3> QED
      BY <2>3, <3>3 DEF Served
  <2> QED
    BY <2>1, <2>2, <2>3
<1>e. /\ J = {} \/ retired[w] => busy' = busy /\ waiting' = waiting
      /\ \A r \in Requests : state'[r] = "granted" /\ state[r] # "granted" => busy'[w]
      /\ J # {} /\ ~retired[w] =>
           /\ busy'[w] <=> \E r \in Requests : state'[r] = "granted" /\ entry'[r] = w
           /\ waiting # <<>> => busy'[w]
  <2>1. CASE J = {}
    BY <2>1 DEF OnMessage
  <2>2. CASE J # {} /\ retired[w]
    BY <2>2 DEF OnMessage, Release, Settle
  <2>3. CASE J # {} /\ ~retired[w]
    <3>1. Serve(w, J, "answered")
      BY <2>3 DEF OnMessage, Release
    <3> HIDE DEF J
    <3>2. /\ \A r \in J : state[r] = "running"
          /\ \A r \in Requests \ J : InHand(r) => entry[r] # w
      BY <1>b, <1>q, <2>3
    <3>3. /\ busy'[w] <=> \E r \in Requests : state'[r] = "granted" /\ entry'[r] = w
          /\ waiting # <<>> => busy'[w]
      <4>1. Served(w, J, "answered")
        BY <1>p, <3>1, <3>2, ServeStep
      <4> QED
        BY <4>1 DEF Served
    <3> QED
      BY <1>d, <2>3, <3>3
  <2> QED
    BY <2>1, <2>2, <2>3
<1> HIDE DEF J
<1>1. TypeOK'
  BY <1>a, <1>c, <1>d DEF TypeOK
<1>2. WaitersWait'
  BY <1>d
<1>3. OneRequestPerWorker'
  BY <1>d
<1>4. NoForgottenWaiter'
  <2>1. ASSUME waiting' # <<>>
        PROVE  waiting # <<>> /\ ~closed /\ Free = {}
    BY <1>d, <2>1 DEF NoForgottenWaiter
  <2>2. ASSUME waiting' # <<>>, NEW x \in pool'
        PROVE  busy'[x] \/ retired'[x]
    <3>1. x \in pool /\ x \in Workers /\ (busy[x] \/ retired[x])
      BY <1>a, <2>1, <2>2 DEF Free, TypeOK
    <3> QED
      BY <1>a, <1>d, <1>e, <2>1, <2>2, <3>1
  <2> QED
    BY <1>a, <2>1, <2>2 DEF NoForgottenWaiter, Free
<1>5. EntriesAreHeld'
  <2>1. ASSUME NEW r \in Requests, InHand(r)'
        PROVE  /\ entry'[r] \in 1..spawned' /\ busy'[entry'[r]]
               /\ thread'[entry'[r]] = "up" => entry'[r] \in pool'
    <3>1. CASE state'[r] = state[r] /\ entry'[r] = entry[r] /\ r \notin J
      <4>1. /\ entry[r] \in 1..spawned /\ busy[entry[r]]
            /\ thread[entry[r]] = "up" => entry[r] \in pool
        BY <2>1, <3>1 DEF EntriesAreHeld
      <4>2. entry[r] = w => J = {}
        BY <1>b, <2>1, <3>1
      <4>3. busy'[entry[r]]
        BY <1>a, <1>d, <1>e, <4>1, <4>2 DEF TypeOK, Workers
      <4> QED
        BY <1>a, <3>1, <4>1, <4>3
    <3>2. CASE state'[r] = "granted" /\ entry'[r] = w /\ busy'[w] /\ J # {}
      <4>1. PICK j \in J : state[j] = "running" /\ entry[j] = w
        BY <1>q, <3>2
      <4>2. thread[w] = "up" => w \in pool
        BY <1>p, <4>1 DEF EntriesAreHeld
      <4> QED
        BY <1>a, <3>2, <4>2
    <3> QED
      BY <1>d, <1>e, <2>1, <3>1, <3>2
  <2> QED
    BY <2>1 DEF EntriesAreHeld
<1>6. UnbornAreBlank'
  <2>1. ASSUME NEW x \in Workers, x > spawned'
        PROVE  x # w /\ busy'[x] = busy[x] /\ outbox'[x] = outbox[x]
    <3>1. x # w
      BY <1>a, <1>p, <2>1, Finite
    <3> QED
      BY <1>a, <1>c, <1>d, <3>1
  <2> QED
    BY <1>a, <2>1 DEF UnbornAreBlank
<1>7. PoolIsAlive'
  BY <1>a DEF PoolIsAlive
<1>8. OneReplacementPerDeath'
  BY <1>a DEF OneReplacementPerDeath
<1>9. NoWorkerIsLost'
  <2>1. ASSUME NEW x \in pool', busy'[x]
        PROVE  \/ \E q \in Requests : entry'[q] = x /\ InHand(q)'
               \/ dying'[x] \/ thread'[x] # "up"
    <3>1. x \in pool /\ x \in Workers /\ dying' = dying /\ thread' = thread
      BY <1>a, <2>1 DEF TypeOK
    <3>2. CASE x = w /\ J # {}
      <4>1. CASE retired[w]
        BY <1>a, <3>1, <3>2, <4>1 DEF PoolIsAlive
      <4>2. CASE ~retired[w]
        BY <1>e, <2>1, <3>2, <4>2
      <4> QED
        BY <4>1, <4>2
    <3>3. CASE ~(x = w /\ J # {})
      <4>1. busy[x]
        BY <1>d, <1>e, <2>1, <3>1, <3>3
      <4>2. ASSUME NEW q \in Requests, entry[q] = x, InHand(q)
            PROVE  entry'[q] = x /\ InHand(q)'
        <5>1. q \notin J
          BY <1>q, <3>3, <4>2
        <5> QED
          BY <1>d, <4>2, <5>1
      <4> QED
        BY <3>1, <4>1, <4>2 DEF NoWorkerIsLost
    <3> QED
      BY <3>2, <3>3
  <2> QED
    BY <2>1 DEF NoWorkerIsLost
<1>10. ThreadsInv'
  <2>1. ASSUME NEW x \in Workers, work[x] # {}
        PROVE  busy'[x]
    <3>1. x # w /\ busy[x]
      BY <1>c, <2>1 DEF ThreadsInv
    <3> QED
      BY <1>d, <3>1
  <2> QED
    BY <1>a, <2>1 DEF ThreadsInv
<1>11. OneDocumentPerThread'
  <2>1. ASSUME NEW x \in Workers
        PROVE  /\ \A p, q \in work'[x] : p = q
               /\ Len(outbox'[x]) <= 1
               /\ outbox'[x] # <<>> => work'[x] = {} /\ busy'[x]
    <3>1. CASE x = w
      <4>1. work'[x] = {} /\ outbox'[x] = <<>> /\ Len(outbox'[x]) = 0
        BY <1>a, <1>c, <3>1
      <4> QED
        BY <4>1
    <3>2. CASE x # w
      <4>1. outbox'[x] = outbox[x] /\ busy'[x] = busy[x] /\ work'[x] = work[x]
        BY <1>a, <1>c, <1>d, <3>2
      <4> QED
        BY <4>1 DEF OneDocumentPerThread
    <3> QED
      BY <3>1, <3>2
  <2>2. ASSUME NEW r \in Requests
        PROVE  /\ state'[r] = "granted" => work'[entry'[r]] = {} /\ outbox'[entry'[r]] = <<>>
               /\ state'[r] = "running" =>
                    /\ work'[entry'[r]] \subseteq {r}
                    /\ outbox'[entry'[r]] # <<>> => Head(outbox'[entry'[r]]) = r
    <3>1. CASE state'[r] = state[r] /\ entry'[r] = entry[r] /\ InHand(r)
      <4>1. entry[r] \in Workers
        BY <3>1 DEF EntriesAreHeld, TypeOK, Workers
      <4>2. outbox'[entry[r]] = outbox[entry[r]] \/ (entry[r] = w /\ outbox'[entry[r]] = <<>>)
        BY <1>c, <4>1
      <4> QED
        BY <1>a, <3>1, <4>2 DEF OneDocumentPerThread
    <3>2. CASE state'[r] = "granted" /\ entry'[r] = w
      BY <1>a, <1>c, <3>2
    <3> QED
      BY <1>d, <3>1, <3>2
  <2> QED
    BY <2>1, <2>2 DEF OneDocumentPerThread
<1>12. OwnVerdict'
  <2>1. \A r \in J : Head(outbox[w]) = r
    BY <1>a, <1>p, <1>q DEF OneDocumentPerThread
  <2> QED
    BY <1>a, <2>1 DEF OwnVerdict
<1>13. DeathsHaveCauses'
  <2>1. TimedOut \subseteq TimedOut'
    BY <1>d, <1>q DEF TimedOut
  <2>2. Faulty' = Faulty /\ faults <= faults'
    BY <1>a DEF Faulty, TypeOK
  <2> QED
    BY <1>1, <1>a, <2>1, <2>2, CausesKept
<1> QED
  BY <1>1, <1>2, <1>3, <1>4, <1>5, <1>6, <1>7, <1>8, <1>9, <1>10, <1>11, <1>12, <1>13

-----------------------------------------------------------------------------
(* Deaths and replacements.                                                *)

\* The requests js, which ran on the entries `lost`, have settled; the entry in
\* `new`, if any, was spawned, and given to the first one waiting.
Renewed(lost, js, new) ==
  /\ \/ new = {} /\ spawned' = spawned
     \/ new = {spawned + 1} /\ spawned' = spawned + 1
  /\ new \subseteq Workers /\ (closed => new = {})
  /\ state' \in [Requests -> States] /\ entry' \in [Requests -> Workers \cup {0}]
  /\ busy' \in [Workers -> BOOLEAN]
  /\ waiting' \in Seq(Requests) /\ Len(waiting') <= MaxQueue
  /\ WaitersWait' /\ OneRequestPerWorker'
  /\ \A r \in js : state[r] = "running" /\ entry[r] \in lost /\ state'[r] = "worker_died"
  /\ \A r \in Requests \ js :
       \/ state'[r] = state[r] /\ entry'[r] = entry[r]
       \/ state[r] = "waiting" /\ state'[r] = "granted" /\ entry'[r] \in new
  /\ \A r \in Requests \ js : state[r] = "running" => entry[r] \notin lost
  /\ \A x \in Workers \ new : busy'[x] = busy[x] /\ thread'[x] = thread[x]
  /\ \A x \in new :
       /\ busy'[x] <=> \E r \in Requests : state'[r] = "granted" /\ entry'[r] = x
       /\ waiting # <<>> => busy'[x]
       /\ thread'[x] = "up" /\ x \in pool'
  /\ waiting = <<>> => waiting' = <<>>
  /\ \A x \in pool' : x \in new \/ (x \in pool /\ (x \in lost => closed))
  /\ \A x \in pool \ lost : x \in pool'
  /\ \A x \in Workers : retired'[x] <=> (retired[x] \/ x \in lost)
  /\ closed' = closed /\ dying' = dying /\ work' = work /\ verdict' = verdict

\* What the events of a death do besides: an answer may be lost, an error or
\* the exit be reported.
Dies(lost) ==
  /\ \A w \in lost : /\ w <= spawned /\ work[w] = {} /\ (Quiet \/ draining = w)
                     /\ outbox'[w] = outbox[w] \/ outbox'[w] = <<>>
                     /\ w \in reported' => thread[w] = "exited"
  /\ outbox' \in [Workers -> Seq(Requests)]
  /\ \A x \in Workers \ lost : outbox'[x] = outbox[x]
  /\ uncaught' \in [Workers -> BOOLEAN]
  /\ \A x \in Workers : uncaught'[x] => uncaught[x]
  /\ reported' \subseteq reported \cup lost
  /\ draining' \in {draining, 0}

\* What a renewal leaves as it was, but for the counts.
LEMMA RenewStep ==
  ASSUME Core, NEW lost \in SUBSET Workers, NEW js \in SUBSET Requests,
         NEW new, Renewed(lost, js, new), Dies(lost)
  PROVE  /\ NoForgottenWaiter' /\ EntriesAreHeld' /\ UnbornAreBlank' /\ NoWorkerIsLost'
         /\ ThreadsInv' /\ OneDocumentPerThread' /\ OwnVerdict'
         /\ pool' \subseteq 1..spawned' /\ pool' \in SUBSET Workers
         /\ ~closed' => \A w \in 1..spawned' : (w \in pool' <=> ~retired'[w])
         /\ closed' => \A w \in pool' : dying'[w]
         /\ TimedOut \subseteq TimedOut'
<1> USE DEF Core
<1>a. /\ spawned \in Nat /\ spawned' \in Nat /\ Workers \subseteq Nat /\ 1..spawned \subseteq Workers
      /\ spawned' = spawned \/ spawned' = spawned + 1
      /\ pool \subseteq Workers
  BY Finite DEF TypeOK, Renewed
<1>b. \A x \in new :
        /\ x \in Workers /\ x = spawned + 1 /\ x = spawned' /\ x \notin pool /\ x \notin lost
        /\ thread[x] = "unborn" /\ ~retired[x] /\ ~dying[x]
        /\ work[x] = {} /\ outbox[x] = <<>> /\ ~uncaught[x]
        /\ x \notin reported /\ draining # x
  <2>1. ASSUME NEW x \in new
        PROVE  x \in Workers /\ x = spawned + 1 /\ x = spawned' /\ x > spawned
    BY <1>a DEF Renewed
  <2>2. ASSUME NEW x \in new
        PROVE  x \notin pool /\ x \notin lost
    <3>1. x \notin 1..spawned /\ ~(x <= spawned)
      BY <1>a, <2>1
    <3> QED
      BY <3>1 DEF PoolIsAlive, Dies
  <2>3. ASSUME NEW x \in new
        PROVE  /\ thread[x] = "unborn" /\ ~retired[x] /\ ~dying[x]
               /\ work[x] = {} /\ outbox[x] = <<>>
    BY <2>1 DEF UnbornAreBlank
  <2>4. ASSUME NEW x \in new
        PROVE  ~uncaught[x] /\ x \notin reported /\ draining # x
    BY <2>1, <2>3 DEF ThreadsInv
  <2> QED
    BY <2>1, <2>2, <2>3, <2>4
<1>c. /\ \A r \in js : state[r] = "running" /\ entry[r] \in lost /\ state'[r] = "worker_died"
      /\ \A r \in Requests \ js :
           \/ state'[r] = state[r] /\ entry'[r] = entry[r]
           \/ state[r] = "waiting" /\ state'[r] = "granted" /\ entry'[r] \in new
  BY DEF Renewed
<1>d. /\ \A x \in Workers \ new : busy'[x] = busy[x] /\ thread'[x] = thread[x]
      /\ \A x \in new : /\ waiting # <<>> => busy'[x]
                        /\ thread'[x] = "up" /\ x \in pool'
      /\ \A x \in pool' : x \in new \/ (x \in pool /\ (x \in lost => closed))
      /\ \A x \in pool \ lost : x \in pool'
      /\ \A x \in Workers : retired'[x] <=> (retired[x] \/ x \in lost)
      /\ closed' = closed /\ dying' = dying /\ work' = work /\ verdict' = verdict
      /\ waiting = <<>> => waiting' = <<>>
  BY DEF Renewed
<1>e. /\ \A w \in lost : w <= spawned /\ work[w] = {} /\ (w \in reported' => thread[w] = "exited")
      /\ \A x \in Workers : outbox'[x] = outbox[x] \/ outbox'[x] = <<>>
      /\ \A x \in Workers : uncaught'[x] => uncaught[x]
      /\ reported' \subseteq reported \cup lost
      /\ draining' \in {draining, 0}
  BY DEF Dies
<1>f. \A x \in new : busy'[x] => \E r \in Requests : state'[r] = "granted" /\ entry'[r] = x
  BY DEF Renewed
<1>g. ASSUME NEW r \in Requests \ js, InHand(r), entry[r] \in lost
      PROVE  thread[entry[r]] = "exited"
  <2>1. (state[r] = "granted" /\ draining = entry[r]) \/ state[r] = "running" \/ Quiet
    BY <1>g DEF Dies
  <2>2. state[r] = "granted" => ~Quiet
    BY DEF Quiet
  <2>3. entry[r] \in Workers
    BY <1>g
  <2>4. state[r] # "running"
    BY <1>g DEF Renewed
  <2> QED
    BY <1>g, <2>1, <2>2, <2>3, <2>4 DEF ThreadsInv
<1>1. NoForgottenWaiter'
  <2>1. ASSUME waiting' # <<>>
        PROVE  waiting # <<>> /\ ~closed /\ Free = {}
    BY <1>d, <2>1 DEF NoForgottenWaiter
  <2>2. ASSUME waiting' # <<>>, NEW x \in pool'
        PROVE  busy'[x] \/ retired'[x]
    <3>1. CASE x \in new
      BY <1>d, <2>1, <2>2, <3>1
    <3>2. CASE x \notin new
      <4>1. x \in pool /\ x \in Workers \ new /\ (busy[x] \/ retired[x])
        BY <1>a, <1>d, <2>1, <2>2, <3>2 DEF Free
      <4> QED
        BY <1>d, <4>1
    <3> QED
      BY <3>1, <3>2
  <2> QED
    BY <1>d, <2>1, <2>2 DEF NoForgottenWaiter, Free
<1>2. EntriesAreHeld'
  <2>1. ASSUME NEW r \in Requests, InHand(r)'
        PROVE  /\ entry'[r] \in 1..spawned' /\ busy'[entry'[r]]
               /\ thread'[entry'[r]] = "up" => entry'[r] \in pool'
    <3>1. CASE r \notin js /\ state'[r] = state[r] /\ entry'[r] = entry[r]
      <4>1. /\ entry[r] \in 1..spawned /\ busy[entry[r]]
            /\ thread[entry[r]] = "up" => entry[r] \in pool
        BY <2>1, <3>1 DEF EntriesAreHeld
      <4>2. entry[r] \in Workers \ new /\ entry[r] \in 1..spawned'
        BY <1>a, <1>b, <4>1
      <4>3. thread[entry[r]] = "up" => entry[r] \notin lost
        BY <1>g, <2>1, <3>1
      <4> QED
        BY <1>d, <3>1, <4>1, <4>2, <4>3
    <3>2. CASE state'[r] = "granted" /\ entry'[r] \in new
      <4>1. busy'[entry'[r]]
        BY <3>2 DEF Renewed
      <4>2. entry'[r] \in 1..spawned'
        BY <1>a, <1>b, <3>2
      <4>3. entry'[r] \in pool'
        BY <1>d, <3>2
      <4> QED
        BY <4>1, <4>2, <4>3
    <3> QED
      BY <1>c, <2>1, <3>1, <3>2
  <2> QED
    BY <2>1 DEF EntriesAreHeld
<1>3. UnbornAreBlank'
  <2>1. ASSUME NEW x \in Workers, x > spawned'
        PROVE  x \in Workers \ new /\ x \notin lost /\ x > spawned
    BY <1>a, <1>b, <1>e, <2>1
  <2>2. ASSUME NEW x \in Workers, x > spawned'
        PROVE  /\ thread'[x] = "unborn" /\ ~busy'[x] /\ ~retired'[x] /\ ~dying'[x]
               /\ work'[x] = {} /\ outbox'[x] = <<>>
    BY <1>d, <1>e, <2>1, <2>2 DEF UnbornAreBlank
  <2> QED
    BY <2>2 DEF UnbornAreBlank
<1>4. NoWorkerIsLost'
  <2>1. ASSUME NEW x \in pool', busy'[x]
        PROVE  \/ \E q \in Requests : entry'[q] = x /\ InHand(q)'
               \/ dying'[x] \/ thread'[x] # "up"
    <3>1. CASE x \in new
      BY <1>f, <2>1, <3>1
    <3>2. CASE x \notin new /\ x \in lost
      BY <1>d, <2>1, <3>2 DEF PoolIsAlive
    <3>3. CASE x \notin new /\ x \notin lost
      <4>1. x \in pool /\ x \in Workers \ new /\ busy[x] /\ thread'[x] = thread[x]
        BY <1>a, <1>d, <2>1, <3>3
      <4>2. \A q \in Requests : entry[q] = x /\ InHand(q) => entry'[q] = x /\ InHand(q)'
        BY <1>c, <3>3
      <4> QED
        BY <1>d, <4>1, <4>2 DEF NoWorkerIsLost
    <3> QED
      BY <3>1, <3>2, <3>3
  <2> QED
    BY <2>1 DEF NoWorkerIsLost
<1>5. ThreadsInv'
  <2>1. ASSUME NEW x \in Workers, uncaught'[x]
        PROVE  thread'[x] \in {"crashed", "exited"}
    BY <1>b, <1>d, <1>e, <2>1 DEF ThreadsInv
  <2>2. ASSUME NEW x \in Workers, x \in reported' \/ draining' = x
        PROVE  thread'[x] = "exited"
    <3>1. x # 0
      BY DEF Workers
    <3>2. x \notin new /\ thread[x] = "exited"
      BY <1>b, <1>e, <2>2, <3>1 DEF ThreadsInv
    <3> QED
      BY <1>d, <3>2
  <2>3. ASSUME NEW x \in Workers, work'[x] # {}
        PROVE  thread'[x] = "up" /\ x \in pool' /\ busy'[x]
    <3>1. x \in Workers \ new /\ x \notin lost /\ thread[x] = "up" /\ x \in pool /\ busy[x]
      BY <1>b, <1>d, <1>e, <2>3 DEF ThreadsInv
    <3> QED
      BY <1>d, <3>1
  <2> QED
    BY <2>1, <2>2, <2>3 DEF ThreadsInv
<1>6. OneDocumentPerThread'
  <2>1. ASSUME NEW x \in Workers
        PROVE  /\ \A p, q \in work'[x] : p = q
               /\ Len(outbox'[x]) <= 1
               /\ outbox'[x] # <<>> => work'[x] = {} /\ busy'[x]
    <3>1. CASE outbox'[x] = <<>>
      <4>1. Len(outbox'[x]) = 0
        BY <3>1
      <4> QED
        BY <1>d, <3>1, <4>1 DEF OneDocumentPerThread
    <3>2. CASE outbox'[x] # <<>>
      <4>1. outbox'[x] = outbox[x] /\ x \in Workers \ new
        BY <1>b, <1>e, <3>2
      <4> QED
        BY <1>d, <3>2, <4>1 DEF OneDocumentPerThread
    <3> QED
      BY <3>1, <3>2
  <2>2. ASSUME NEW r \in Requests
        PROVE  /\ state'[r] = "granted" => work'[entry'[r]] = {} /\ outbox'[entry'[r]] = <<>>
               /\ state'[r] = "running" =>
                    /\ work'[entry'[r]] \subseteq {r}
                    /\ outbox'[entry'[r]] # <<>> => Head(outbox'[entry'[r]]) = r
    <3>1. CASE r \notin js /\ state'[r] = state[r] /\ entry'[r] = entry[r] /\ InHand(r)
      <4>1. entry[r] \in Workers
        BY <1>a, <3>1 DEF EntriesAreHeld
      <4>2. outbox'[entry[r]] = outbox[entry[r]] \/ outbox'[entry[r]] = <<>>
        BY <1>e, <4>1
      <4>3. /\ state[r] = "granted" => work[entry[r]] = {} /\ outbox[entry[r]] = <<>>
            /\ state[r] = "running" =>
                 /\ work[entry[r]] \subseteq {r}
                 /\ outbox[entry[r]] # <<>> => Head(outbox[entry[r]]) = r
        BY DEF OneDocumentPerThread
      <4>4. work'[entry[r]] = work[entry[r]]
        BY <1>d
      <4> QED
        BY <3>1, <4>2, <4>3, <4>4
    <3>2. CASE state'[r] = "granted" /\ entry'[r] \in new
      <4>1. work'[entry'[r]] = {}
        BY <1>b, <1>d, <3>2
      <4>2. outbox'[entry'[r]] = <<>>
        BY <1>b, <1>e, <3>2
      <4> QED
        BY <3>2, <4>1, <4>2
    <3> QED
      BY <1>c, <3>1, <3>2
  <2> QED
    BY <2>1, <2>2 DEF OneDocumentPerThread
<1>7. OwnVerdict'
  BY <1>d DEF OwnVerdict
<1>8. pool' \subseteq 1..spawned' /\ pool' \in SUBSET Workers
  <2>1. \A x \in pool' : x \in 1..spawned' /\ x \in Workers
    <3>1. \A x \in new : x \in 1..spawned' /\ x \in Workers
      BY <1>a, <1>b
    <3>2. \A x \in pool : x \in 1..spawned' /\ x \in Workers
      BY <1>a DEF PoolIsAlive
    <3> QED
      BY <1>d, <3>1, <3>2
  <2> QED
    BY <2>1
<1>9. ASSUME ~closed', NEW w \in 1..spawned'
      PROVE  w \in pool' <=> ~retired'[w]
  <2>1. CASE w \in new
    <3>1. w \in Workers /\ ~retired[w] /\ w \notin lost
      BY <1>b, <2>1
    <3>2. ~retired'[w] /\ w \in pool'
      BY <1>d, <2>1, <3>1
    <3> QED
      BY <3>2
  <2>2. CASE w \notin new
    <3>1. w \in 1..spawned /\ w \in Workers
      BY <1>a, <2>2 DEF Renewed
    <3>2. w \in pool <=> ~retired[w]
      BY <1>d, <1>9, <3>1 DEF PoolIsAlive
    <3> QED
      BY <1>d, <1>9, <2>2, <3>1, <3>2
  <2> QED
    BY <2>1, <2>2
<1>10. closed' => \A w \in pool' : dying'[w]
  <2>1. ASSUME closed', NEW w \in pool'
        PROVE  w \in pool
    BY <1>d, <2>1 DEF Renewed
  <2> QED
    BY <1>d, <2>1 DEF PoolIsAlive
<1>11. TimedOut \subseteq TimedOut'
  BY <1>c DEF TimedOut
<1> QED
  BY <1>1, <1>2, <1>3, <1>4, <1>5, <1>6, <1>7, <1>8, <1>9, <1>10, <1>11

\* The accounts of a death: another entry is retired, and either a fault has
\* just been counted, or its thread was already the victim of one or terminated.
LEMMA DeathCounts ==
  ASSUME Core, NEW w \in Workers, w <= spawned,
         retired' = [retired EXCEPT ![w] = TRUE], dying' = dying,
         \A x \in Workers : thread'[x] \in {"crashed", "exited"} => thread'[x] = thread[x],
         faults' \in 0..MaxFaults,
         \/ faults' = faults + 1
         \/ faults' = faults /\ (dying[w] \/ thread[w] \in {"crashed", "exited"})
  PROVE  /\ Retired' \in SUBSET Workers /\ Cardinality(Retired') \in Nat
         /\ Cardinality(Faulty') <= faults'
         /\ ~closed => Cardinality(Retired') <= MaxFaults + Cardinality(Requests)
         /\ Cardinality(Retired') = Cardinality(Retired) + IF retired[w] THEN 0 ELSE 1
<1> USE DEF Core
<1>1. /\ Retired \in SUBSET Workers /\ Retired' \in SUBSET Workers
      /\ Faulty \in SUBSET Workers /\ Faulty' \in SUBSET Workers
      /\ Terminated \in SUBSET Workers /\ TimedOut \in SUBSET Requests
  BY DEF Retired, Faulty, Terminated, TimedOut
<1>2. /\ Cardinality(Retired) \in Nat /\ Cardinality(Retired') \in Nat
      /\ Cardinality(Faulty) \in Nat /\ Cardinality(Faulty') \in Nat
      /\ Cardinality(Terminated) \in Nat /\ Cardinality(TimedOut) \in Nat
      /\ Cardinality(TimedOut) <= Cardinality(Requests) /\ Cardinality(Requests) \in Nat
      /\ IsFiniteSet(Retired) /\ IsFiniteSet(Faulty) /\ IsFiniteSet(Faulty')
      /\ IsFiniteSet(Terminated) /\ faults \in Nat /\ faults' \in Nat
  BY <1>1, Finite DEF TypeOK
<1>3. /\ Retired' = Retired \cup {w} /\ (w \in Retired <=> retired[w])
  BY DEF Retired, TypeOK
<1>4. Cardinality(Faulty') <= faults'
  <2>1. \A x \in Workers : (retired'[x] <=> (retired[x] \/ x = w)) /\ dying'[x] = dying[x]
    BY DEF TypeOK
  <2>2. CASE faults' = faults + 1
    <3>1. Faulty' \subseteq Faulty \cup {w}
      BY <2>1 DEF Faulty
    <3>2. Cardinality(Faulty') <= Cardinality(Faulty \cup {w})
      BY <1>2, <3>1, OneMore, FS_Subset
    <3>3. Cardinality(Faulty \cup {w}) <= Cardinality(Faulty) + 1 /\ Cardinality(Faulty \cup {w}) \in Nat
      BY <1>2, OneMore
    <3> QED
      BY <1>2, <2>2, <3>2, <3>3 DEF DeathsHaveCauses
  <2>3. CASE faults' = faults /\ (dying[w] \/ thread[w] \in {"crashed", "exited"})
    <3>1. Faulty' \subseteq Faulty
      BY <2>1, <2>3 DEF Faulty
    <3>2. Cardinality(Faulty') <= Cardinality(Faulty)
      BY <1>2, <3>1, FS_Subset
    <3> QED
      BY <1>2, <2>3, <3>2 DEF DeathsHaveCauses
  <2> QED
    BY <2>2, <2>3
<1>5. ASSUME ~closed
      PROVE  Cardinality(Retired') <= MaxFaults + Cardinality(Requests)
  <2>1. Retired' \subseteq Terminated \cup Faulty'
    BY DEF Retired, Terminated, Faulty
  <2>2. Cardinality(Retired') <= Cardinality(Terminated) + Cardinality(Faulty')
    BY <1>2, <2>1, TwoSets
  <2>5. Cardinality(Terminated) <= Cardinality(TimedOut)
    BY <1>5 DEF DeathsHaveCauses
  <2>6. faults' <= MaxFaults
    OBVIOUS
  <2> QED
    BY <1>2, <1>4, <2>2, <2>5, <2>6
<1>6. Cardinality(Retired') = Cardinality(Retired) + IF retired[w] THEN 0 ELSE 1
  <2>1. CASE retired[w]
    BY <1>2, <1>3, <2>1, Retired \cup {w} = Retired
  <2>2. CASE ~retired[w]
    BY <1>2, <1>3, <2>2, OneMore
  <2> QED
    BY <2>1, <2>2
<1> QED
  BY <1>1, <1>2, <1>4, <1>5, <1>6

\* onDeath, in the three events that call it: a message that cannot be read, an
\* uncaught error, the exit.
LEMMA DeathStep ==
  ASSUME Core, NEW w \in 1..spawned, OnDeath(w), Dies({w}),
         reported' \subseteq Workers, draining' \in Workers \cup {0}, faults' \in 0..MaxFaults,
         \/ faults' = faults + 1
         \/ faults' = faults /\ (dying[w] \/ thread[w] \in {"crashed", "exited"})
  PROVE  Core'
<1> USE DEF Core
<1> DEFINE J == Job(w)
           f == spawned + 1
<1>a. /\ w \in Workers /\ w <= spawned /\ Workers \subseteq Nat /\ spawned \in Nat
      /\ w \in Nat /\ pool \subseteq Workers
      /\ f # w /\ f \notin pool /\ respawning \in Nat
  <2>1. w \in Workers /\ w <= spawned /\ Workers \subseteq Nat /\ spawned \in Nat
    BY Finite DEF TypeOK
  <2>2. f \notin 1..spawned
    BY <2>1
  <2> QED
    BY <2>1, <2>2 DEF PoolIsAlive, TypeOK
<1>b. /\ retired' = [retired EXCEPT ![w] = TRUE]
      /\ closed' = closed /\ verdict' = verdict /\ dying' = dying /\ work' = work
  BY DEF OnDeath
<1>c. /\ J \in SUBSET Requests
      /\ \A r \in J : state[r] = "running" /\ entry[r] = w
      /\ \A r \in Requests \ J : state[r] = "running" => entry[r] # w
  BY DEF Job
<1>d. \A x \in Workers : thread'[x] \in {"crashed", "exited"} => thread'[x] = thread[x]
  BY DEF OnDeath, AddFresh, TypeOK
<1>e. /\ Retired' \in SUBSET Workers /\ Cardinality(Retired') \in Nat
      /\ Cardinality(Faulty') <= faults'
      /\ ~closed => Cardinality(Retired') <= MaxFaults + Cardinality(Requests)
      /\ Cardinality(Retired') = Cardinality(Retired) + IF retired[w] THEN 0 ELSE 1
  BY <1>a, <1>b, <1>d, DeathCounts
<1>f. /\ Cardinality(Retired) \in Nat /\ Cardinality(Requests) \in Nat
      /\ IsFiniteSet(pool) /\ Cardinality(pool) \in Nat /\ Cardinality(pool) <= Size
  BY <1>a, Finite DEF Retired, PoolIsAlive
<1>g. ~closed => /\ Cardinality(pool) + respawning = Size
                 /\ spawned + respawning = Size + Cardinality(Retired)
  BY DEF OneReplacementPerDeath, DeathsHaveCauses
<1>h. ~NeedsNoReplacement(w) => /\ ~closed /\ ~retired[w] /\ w \in pool
                                /\ Cardinality(Retired') = Cardinality(Retired) + 1
                                /\ f \in Workers
                                /\ Cardinality(pool \ {w}) = Cardinality(pool) - 1
                                /\ Cardinality((pool \ {w}) \cup {f}) = Cardinality(pool)
  <2> SUFFICES ASSUME ~NeedsNoReplacement(w)
               PROVE  /\ ~closed /\ ~retired[w] /\ w \in pool
                      /\ Cardinality(Retired') = Cardinality(Retired) + 1
                      /\ f \in Workers
                      /\ Cardinality(pool \ {w}) = Cardinality(pool) - 1
                      /\ Cardinality((pool \ {w}) \cup {f}) = Cardinality(pool)
    OBVIOUS
  <2>1. ~closed /\ ~retired[w] /\ w \in pool
    BY DEF NeedsNoReplacement, PoolIsAlive
  <2>2. Cardinality(Retired') = Cardinality(Retired) + 1
    BY <1>e, <1>f, <2>1
  <2>3. f \in Workers
    <3>1. f <= Size + MaxFaults + Cardinality(Requests)
      BY <1>a, <1>e, <1>f, <1>g, <2>1, <2>2
    <3> QED
      BY <1>a, <1>f, <3>1 DEF Workers
  <2>4. IsFiniteSet(pool \ {w}) /\ Cardinality(pool \ {w}) = Cardinality(pool) - 1
    BY <1>f, <2>1, FS_RemoveElement
  <2>5. Cardinality((pool \ {w}) \cup {f}) = Cardinality(pool)
    <3>1. f \notin pool \ {w}
      BY <1>a
    <3>2. Cardinality((pool \ {w}) \cup {f}) = Cardinality(pool \ {w}) + 1
      BY <2>4, <3>1, OneMore
    <3> QED
      BY <1>f, <2>4, <3>2
  <2> QED
    BY <2>1, <2>2, <2>3, <2>4, <2>5
<1> HIDE DEF J, f
<1>i. \A x \in Workers : retired'[x] <=> (retired[x] \/ x \in {w})
  BY <1>b DEF TypeOK
<1>j. ASSUME Settle(J, "worker_died"), busy' = busy, waiting' = waiting, spawned' = spawned,
             thread' = thread, pool' \subseteq pool, pool \ {w} \subseteq pool',
             w \in pool' => closed
      PROVE  Renewed({w}, J, {})
  <2>1. /\ state' \in [Requests -> States] /\ entry' \in [Requests -> Workers \cup {0}]
        /\ WaitersWait' /\ OneRequestPerWorker'
        /\ \A r \in J : state'[r] = "worker_died"
        /\ \A r \in Requests \ J : state'[r] = state[r] /\ entry'[r] = entry[r]
    <3>1. \A r \in J : state[r] = "running"
      BY <1>c
    <3> QED
      BY <1>c, <1>j, <3>1, SettleStep
  <2>2. /\ busy' \in [Workers -> BOOLEAN] /\ waiting' \in Seq(Requests) /\ Len(waiting') <= MaxQueue
    BY <1>j DEF TypeOK
  <2> QED
    BY <1>b, <1>c, <1>i, <1>j, <2>1, <2>2 DEF Renewed
<1>k. \E new : /\ Renewed({w}, J, new)
               /\ ~closed => /\ Cardinality(pool') + respawning' = Size
                             /\ spawned' + respawning' = Size + Cardinality(Retired')
               /\ Cardinality(pool') <= Size
               /\ respawning' \in 0..Size /\ spawned' \in Workers
               /\ thread' \in [Workers -> {"unborn", "up", "crashed", "exited"}]
  <2>1. CASE /\ NeedsNoReplacement(w) /\ Settle(J, "worker_died")
             /\ UNCHANGED <<pool, busy, waiting, respawning, spawned, thread>>
    <3>1. w \in pool => closed
      BY <1>a, <2>1 DEF NeedsNoReplacement, PoolIsAlive
    <3>2. Renewed({w}, J, {})
      BY <1>j, <2>1, <3>1
    <3>3. ~closed => Cardinality(Retired') = Cardinality(Retired)
      BY <1>e, <1>f, <2>1 DEF NeedsNoReplacement
    <3> QED
      BY <1>f, <1>g, <2>1, <3>2, <3>3 DEF TypeOK
  <2>2. CASE ~NeedsNoReplacement(w) /\ AddFresh({w}, J) /\ UNCHANGED respawning
    <3>1. /\ spawned' = f /\ thread' = [thread EXCEPT ![f] = "up"]
          /\ pool' = (pool \ {w}) \cup {f} /\ Serve(f, J, "worker_died")
      BY <2>2 DEF AddFresh, f
    <3>2. Served(f, J, "worker_died")
      <4>1. /\ \A r \in J : state[r] = "running"
            /\ \A r \in Requests \ J : InHand(r) => entry[r] # f
        BY <1>a, <1>c DEF EntriesAreHeld, f
      <4> QED
        BY <1>c, <1>h, <2>2, <3>1, <4>1, ServeStep
    <3>3. Renewed({w}, J, {f})
      <4>1. \A x \in Workers \ {f} : thread'[x] = thread[x]
        BY <3>1 DEF TypeOK
      <4>2. thread'[f] = "up" /\ f \in Workers /\ ~closed
        BY <1>h, <2>2, <3>1 DEF TypeOK
      <4>3. \A x \in pool' : x = f \/ (x \in pool /\ x # w)
        BY <3>1
      <4>4. f \in pool' /\ \A x \in pool \ {w} : x \in pool'
        BY <3>1
      <4>5. {f} = {spawned + 1} /\ spawned' = spawned + 1
        BY <3>1 DEF f
      <4> QED
        BY <1>b, <1>c, <1>i, <3>2, <4>1, <4>2, <4>3, <4>4, <4>5 DEF Renewed, Served
    <3>4. /\ Cardinality(pool') + respawning' = Size
          /\ spawned' + respawning' = Size + Cardinality(Retired')
      BY <1>a, <1>f, <1>g, <1>h, <2>2, <3>1 DEF f
    <3> QED
      BY <1>f, <1>h, <2>2, <3>1, <3>3, <3>4 DEF TypeOK
  <2>3. CASE /\ ~NeedsNoReplacement(w) /\ pool' = pool \ {w} /\ respawning' = respawning + 1
             /\ Settle(J, "worker_died") /\ UNCHANGED <<busy, waiting, spawned, thread>>
    <3>1. Renewed({w}, J, {})
      BY <1>j, <2>3
    <3>2. /\ ~closed /\ Cardinality(pool') = Cardinality(pool) - 1
          /\ Cardinality(Retired') = Cardinality(Retired) + 1
      BY <1>h, <2>3
    <3>3. Cardinality(pool') \in Nat
      BY <1>f, <2>3, FS_RemoveElement, FS_CardinalityType
    <3>4. /\ Cardinality(pool') + respawning' = Size
          /\ spawned' + respawning' = Size + Cardinality(Retired')
          /\ respawning' \in 0..Size /\ Cardinality(pool') <= Size
      BY <1>a, <1>f, <1>g, <2>3, <3>2, <3>3
    <3>5. spawned' \in Workers /\ thread' \in [Workers -> {"unborn", "up", "crashed", "exited"}]
      BY <2>3 DEF TypeOK
    <3> QED
      BY <3>1, <3>4, <3>5
  <2> QED
    BY <2>1, <2>2, <2>3 DEF OnDeath, J
<1>l. PICK new : /\ Renewed({w}, J, new)
                 /\ ~closed => /\ Cardinality(pool') + respawning' = Size
                               /\ spawned' + respawning' = Size + Cardinality(Retired')
                 /\ Cardinality(pool') <= Size
                 /\ respawning' \in 0..Size /\ spawned' \in Workers
                 /\ thread' \in [Workers -> {"unborn", "up", "crashed", "exited"}]
  BY <1>k
<1>m. /\ NoForgottenWaiter' /\ EntriesAreHeld' /\ UnbornAreBlank' /\ NoWorkerIsLost'
      /\ ThreadsInv' /\ OneDocumentPerThread' /\ OwnVerdict'
      /\ pool' \subseteq 1..spawned' /\ pool' \in SUBSET Workers
      /\ ~closed' => \A x \in 1..spawned' : (x \in pool' <=> ~retired'[x])
      /\ closed' => \A x \in pool' : dying'[x]
      /\ TimedOut \subseteq TimedOut'
  BY <1>a, <1>c, <1>l, RenewStep
<1>1. TypeOK'
  <2>1. /\ retired' \in [Workers -> BOOLEAN] /\ closed' \in BOOLEAN
        /\ verdict' \in [Requests -> Requests \cup {None}] /\ dying' \in [Workers -> BOOLEAN]
        /\ work' \in [Workers -> SUBSET Requests]
    BY <1>b DEF TypeOK
  <2>2. /\ busy' \in [Workers -> BOOLEAN] /\ waiting' \in Seq(Requests)
        /\ Len(waiting') <= MaxQueue /\ state' \in [Requests -> States]
        /\ entry' \in [Requests -> Workers \cup {0}]
    BY <1>l DEF Renewed
  <2>3. outbox' \in [Workers -> Seq(Requests)] /\ uncaught' \in [Workers -> BOOLEAN]
    BY DEF Dies
  <2> QED
    BY <1>l, <1>m, <2>1, <2>2, <2>3 DEF TypeOK
<1>2. WaitersWait' /\ OneRequestPerWorker'
  BY <1>l DEF Renewed
<1>3. PoolIsAlive'
  BY <1>l, <1>m DEF PoolIsAlive
<1>4. OneReplacementPerDeath'
  BY <1>b, <1>l DEF OneReplacementPerDeath
<1>5. DeathsHaveCauses'
  <2>1. ASSUME ~closed'
        PROVE  Cardinality(Terminated') <= Cardinality(TimedOut')
    <3>1. Terminated' = Terminated /\ Cardinality(Terminated) <= Cardinality(TimedOut)
      BY <1>b, <2>1 DEF Terminated, DeathsHaveCauses
    <3>2. TimedOut' \in SUBSET Requests /\ TimedOut \in SUBSET Requests /\ Terminated \in SUBSET Workers
      BY DEF TimedOut, Terminated
    <3>3. Cardinality(TimedOut) <= Cardinality(TimedOut')
      BY <1>m, <3>2, Finite, FS_Subset
    <3> QED
      BY <3>1, <3>2, <3>3, Finite
  <2> QED
    BY <1>b, <1>e, <1>l, <2>1 DEF DeathsHaveCauses
<1> QED
  BY <1>m, <1>1, <1>2, <1>3, <1>4, <1>5

\* A message that cannot be read.
LEMMA OnMessageErrorStep ==
  ASSUME Core, NEW w \in 1..spawned, OnMessageError(w)
  PROVE  Core'
<1>1. w \in Workers /\ w <= spawned /\ faults \in Nat
  BY Finite DEF Core, TypeOK
<1>2. /\ InCallback(w) /\ outbox[w] # <<>> /\ faults < MaxFaults /\ faults' = faults + 1
      /\ outbox' = [outbox EXCEPT ![w] = Tail(@)] /\ OnDeath(w)
      /\ uncaught' = uncaught /\ draining' = draining /\ reported' = reported
  BY DEF OnMessageError
<1>3. outbox[w] \in Seq(Requests) /\ Len(outbox[w]) <= 1 /\ work[w] = {}
  BY <1>1, <1>2 DEF Core, TypeOK, OneDocumentPerThread
<1>4. Tail(outbox[w]) = <<>>
  BY <1>2, <1>3, AtMostOneLong
<1>5. /\ outbox'[w] = <<>> /\ outbox' \in [Workers -> Seq(Requests)]
      /\ \A x \in Workers \ {w} : outbox'[x] = outbox[x]
  BY <1>1, <1>2, <1>4 DEF Core, TypeOK
<1>6. Dies({w})
  BY <1>1, <1>2, <1>3, <1>5 DEF Dies, InCallback, Core, TypeOK, ThreadsInv
<1>7. reported' \subseteq Workers /\ draining' \in Workers \cup {0} /\ faults' \in 0..MaxFaults
  BY <1>1, <1>2 DEF Core, TypeOK
<1> QED
  BY <1>2, <1>6, <1>7, DeathStep

\* An uncaught error.
LEMMA OnErrorStep ==
  ASSUME Core, NEW w \in 1..spawned, OnError(w)
  PROVE  Core'
<1>1. w \in Workers /\ w <= spawned
  BY Finite DEF Core, TypeOK
<1>2. /\ InCallback(w) /\ uncaught[w] /\ uncaught' = [uncaught EXCEPT ![w] = FALSE] /\ OnDeath(w)
      /\ outbox' = outbox /\ faults' = faults /\ draining' = draining /\ reported' = reported
  BY DEF OnError
<1>3. thread[w] \in {"crashed", "exited"} /\ work[w] = {}
  BY <1>1, <1>2 DEF Core, ThreadsInv
<1>4. Dies({w})
  BY <1>1, <1>2, <1>3 DEF Dies, InCallback, Core, TypeOK, ThreadsInv
<1>5. reported' \subseteq Workers /\ draining' \in Workers \cup {0} /\ faults' \in 0..MaxFaults
  BY <1>2 DEF Core, TypeOK
<1> QED
  BY <1>2, <1>3, <1>4, <1>5, DeathStep

\* The exit is reported.
LEMMA OnExitStep ==
  ASSUME Core, NEW w \in 1..spawned, OnExit(w)
  PROVE  Core'
<1>1. w \in Workers /\ w <= spawned
  BY Finite DEF Core, TypeOK
<1>2. /\ draining = w /\ draining' = 0 /\ reported' = reported \cup {w} /\ OnDeath(w)
      /\ outbox' = outbox /\ uncaught' = uncaught /\ faults' = faults
  BY DEF OnExit
<1>3. thread[w] = "exited" /\ work[w] = {}
  BY <1>1, <1>2 DEF Core, ThreadsInv
<1>4. Dies({w})
  BY <1>1, <1>2, <1>3 DEF Dies, Core, TypeOK
<1>5. reported' \subseteq Workers /\ draining' \in Workers \cup {0} /\ faults' \in 0..MaxFaults
  BY <1>1, <1>2 DEF Core, TypeOK
<1> QED
  BY <1>2, <1>3, <1>4, <1>5, DeathStep

\* A back-off ends: unless the runner was closed, a fresh worker is added.
LEMMA RespawnStep ==
  ASSUME Core, RespawnTimer
  PROVE  Core'
<1> USE DEF Core
<1> DEFINE f == spawned + 1
<1>a. /\ retired' = retired /\ closed' = closed /\ verdict' = verdict /\ dying' = dying
      /\ work' = work /\ outbox' = outbox /\ uncaught' = uncaught /\ faults' = faults
      /\ draining' = draining /\ reported' = reported
      /\ respawning > 0 /\ respawning' = respawning - 1
  BY DEF RespawnTimer
<1>b. /\ Workers \subseteq Nat /\ spawned \in Nat /\ pool \in SUBSET Workers /\ respawning \in 0..Size
      /\ faults \in Nat /\ faults <= MaxFaults /\ f \notin pool /\ f \notin 1..spawned
  <2>1. /\ Workers \subseteq Nat /\ spawned \in Nat /\ pool \in SUBSET Workers
        /\ respawning \in 0..Size /\ faults \in Nat /\ faults <= MaxFaults
    BY Finite DEF TypeOK
  <2>2. f \notin 1..spawned
    BY <2>1
  <2> QED
    BY <2>1, <2>2 DEF PoolIsAlive
<1>c. CASE closed
  <2>1. UNCHANGED <<pool, spawned, thread, state, entry, waiting, busy>>
    BY <1>c DEF RespawnTimer
  <2>2. respawning' \in 0..Size
    BY <1>a, <1>b
  <2>3. TypeOK'
    BY <1>a, <2>1, <2>2 DEF TypeOK
  <2>4. /\ WaitersWait' /\ OneRequestPerWorker' /\ NoForgottenWaiter' /\ EntriesAreHeld'
        /\ UnbornAreBlank' /\ PoolIsAlive'
    BY <1>a, <2>1 DEF WaitersWait, OneRequestPerWorker, NoForgottenWaiter, Free, EntriesAreHeld,
                      UnbornAreBlank, PoolIsAlive
  <2>5. /\ OneReplacementPerDeath' /\ NoWorkerIsLost' /\ ThreadsInv' /\ OneDocumentPerThread'
        /\ OwnVerdict' /\ DeathsHaveCauses'
    BY <1>a, <1>c, <2>1 DEF OneReplacementPerDeath, NoWorkerIsLost, ThreadsInv,
                            OneDocumentPerThread, OwnVerdict, DeathsHaveCauses, Faulty
  <2> QED
    BY <2>3, <2>4, <2>5
<1>d. CASE ~closed
  <2>1. /\ spawned' = f /\ thread' = [thread EXCEPT ![f] = "up"]
        /\ pool' = pool \cup {f} /\ Serve(f, {}, "worker_died")
    BY <1>d DEF RespawnTimer, AddFresh
  <2>2. /\ Retired \in SUBSET Workers /\ Terminated \in SUBSET Workers
        /\ Faulty \in SUBSET Workers /\ Faulty' \in SUBSET Workers
        /\ TimedOut \in SUBSET Requests /\ TimedOut' \in SUBSET Requests
    BY DEF Retired, Terminated, Faulty, TimedOut
  <2>3. /\ Cardinality(Retired) \in Nat /\ Cardinality(TimedOut) \in Nat
        /\ Cardinality(TimedOut) <= Cardinality(Requests) /\ Cardinality(Requests) \in Nat
        /\ IsFiniteSet(Terminated) /\ IsFiniteSet(Faulty) /\ Cardinality(Terminated) \in Nat
        /\ Cardinality(Faulty) \in Nat /\ Cardinality(Faulty') \in Nat
        /\ IsFiniteSet(pool) /\ Cardinality(pool) \in Nat
    BY <1>b, <2>2, Finite
  <2>4. Cardinality(Retired) <= MaxFaults + Cardinality(Requests)
    <3>1. Retired \subseteq Terminated \cup Faulty
      BY DEF Retired, Terminated, Faulty
    <3>2. Cardinality(Retired) <= Cardinality(Terminated) + Cardinality(Faulty)
      BY <2>3, <3>1, TwoSets
    <3>3. Cardinality(Terminated) <= Cardinality(TimedOut) /\ Cardinality(Faulty) <= faults
      BY <1>d DEF DeathsHaveCauses
    <3> QED
      BY <1>b, <2>3, <3>2, <3>3
  <2>5. /\ Cardinality(pool) + respawning = Size
        /\ spawned + respawning = Size + Cardinality(Retired)
    BY <1>d DEF OneReplacementPerDeath, DeathsHaveCauses
  <2>6. f \in Workers
    <3>1. f <= Size + MaxFaults + Cardinality(Requests)
      BY <1>a, <1>b, <2>3, <2>4, <2>5
    <3> QED
      BY <1>b, <3>1 DEF Workers
  <2>7. Served(f, {}, "worker_died")
    <3>1. \A r \in Requests \ {} : InHand(r) => entry[r] # f
      BY <1>b DEF EntriesAreHeld
    <3> HIDE DEF f
    <3> QED
      BY <2>1, <2>6, <3>1, ServeStep
  <2>8. Renewed({}, {}, {f})
    <3>1. \A x \in Workers \ {f} : thread'[x] = thread[x]
      BY <2>1 DEF TypeOK
    <3>2. thread'[f] = "up" /\ f \in Workers /\ ~closed
      BY <1>d, <2>1, <2>6 DEF TypeOK
    <3>3. f \in pool' /\ (\A x \in pool : x \in pool') /\ \A x \in pool' : x = f \/ x \in pool
      BY <2>1
    <3>4. {f} = {spawned + 1} /\ spawned' = spawned + 1
      BY <2>1
    <3> HIDE DEF f
    <3> QED
      BY <1>a, <2>7, <3>1, <3>2, <3>3, <3>4 DEF Renewed, Served
  <2>9. Dies({})
    BY <1>a DEF Dies, TypeOK
  <2>10. /\ NoForgottenWaiter' /\ EntriesAreHeld' /\ UnbornAreBlank' /\ NoWorkerIsLost'
         /\ ThreadsInv' /\ OneDocumentPerThread' /\ OwnVerdict'
         /\ pool' \subseteq 1..spawned' /\ pool' \in SUBSET Workers
         /\ ~closed' => \A x \in 1..spawned' : (x \in pool' <=> ~retired'[x])
         /\ closed' => \A x \in pool' : dying'[x]
         /\ TimedOut \subseteq TimedOut'
    BY <2>8, <2>9, RenewStep
  <2>11. Cardinality(pool') = Cardinality(pool) + 1
    BY <1>b, <2>1, <2>3, OneMore
  <2>12. /\ Cardinality(pool') + respawning' = Size /\ Cardinality(pool') <= Size
         /\ spawned' + respawning' = Size + Cardinality(Retired') /\ respawning' \in 0..Size
    <3>1. Retired' = Retired
      BY <1>a DEF Retired
    <3> QED
      BY <1>a, <1>b, <2>1, <2>3, <2>5, <2>11, <3>1
  <2>13. TypeOK'
    <3>1. thread' \in [Workers -> {"unborn", "up", "crashed", "exited"}] /\ spawned' \in Workers
      BY <2>1, <2>6 DEF TypeOK
    <3>2. /\ busy' \in [Workers -> BOOLEAN] /\ waiting' \in Seq(Requests)
          /\ Len(waiting') <= MaxQueue /\ state' \in [Requests -> States]
          /\ entry' \in [Requests -> Workers \cup {0}]
      BY <2>7 DEF Served
    <3> QED
      BY <1>a, <2>10, <2>12, <3>1, <3>2 DEF TypeOK
  <2>14. WaitersWait' /\ OneRequestPerWorker'
    BY <2>7 DEF Served
  <2>15. PoolIsAlive'
    BY <2>10, <2>12 DEF PoolIsAlive
  <2>16. OneReplacementPerDeath'
    BY <2>12 DEF OneReplacementPerDeath
  <2>17. DeathsHaveCauses'
    <3>1. Terminated' = Terminated /\ Cardinality(Terminated) <= Cardinality(TimedOut)
      BY <1>a, <1>d DEF Terminated, DeathsHaveCauses
    <3>2. Cardinality(TimedOut) <= Cardinality(TimedOut') /\ Cardinality(TimedOut') \in Nat
      BY <2>2, <2>10, Finite, FS_Subset
    <3>3. Faulty' \subseteq Faulty
      BY <1>a, <2>1 DEF Faulty, TypeOK
    <3>4. Cardinality(Faulty') <= Cardinality(Faulty)
      BY <2>3, <3>3, FS_Subset
    <3>5. Cardinality(Faulty) <= faults
      BY DEF DeathsHaveCauses
    <3> QED
      BY <1>a, <1>b, <2>3, <2>12, <3>1, <3>2, <3>4, <3>5 DEF DeathsHaveCauses
  <2> QED
    BY <2>10, <2>13, <2>14, <2>15, <2>16, <2>17
<1> QED
  BY <1>c, <1>d

-----------------------------------------------------------------------------
(* The invariant holds, and what follows from it.                          *)

LEMMA InitCore == Init => Core
<1> SUFFICES ASSUME Init PROVE Core
  OBVIOUS
<1>1. /\ Cardinality(Requests) \in Nat /\ Workers = 1..(Size + MaxFaults + Cardinality(Requests))
      /\ \A S \in SUBSET Workers : IsFiniteSet(S)
  BY Finite
<1>2. Size \in Workers /\ 1..Size \subseteq Workers
  BY <1>1
<1>3. IsFiniteSet(1..Size) /\ Cardinality(1..Size) = Size
  BY FS_Interval
<1>4. TypeOK
  <2>1. <<>> \in Seq(Requests) /\ Len(<<>>) = 0
    BY EmptySeq
  <2>2. 1..Size \subseteq Workers /\ Size \in Workers
    BY <1>2
  <2>3. /\ pool \subseteq Workers /\ busy \in [Workers -> BOOLEAN]
        /\ retired \in [Workers -> BOOLEAN] /\ closed \in BOOLEAN /\ spawned \in Workers
        /\ waiting \in Seq(Requests) /\ Len(waiting) <= MaxQueue /\ respawning \in 0..Size
    <3>1. pool \subseteq Workers /\ spawned \in Workers
      BY <2>2 DEF Init
    <3>2. waiting \in Seq(Requests) /\ Len(waiting) <= MaxQueue
      BY <2>1 DEF Init
    <3>3. busy \in [Workers -> BOOLEAN] /\ retired \in [Workers -> BOOLEAN]
      BY DEF Init
    <3>4. closed \in BOOLEAN /\ respawning = 0
      BY DEF Init
    <3>5. 0 \in 0..Size
      OBVIOUS
    <3> QED
      BY <3>1, <3>2, <3>3, <3>4, <3>5
  <2>4. /\ state \in [Requests -> States] /\ entry \in [Requests -> Workers \cup {0}]
        /\ verdict \in [Requests -> Requests \cup {None}]
        /\ thread \in [Workers -> {"unborn", "up", "crashed", "exited"}]
        /\ dying \in [Workers -> BOOLEAN] /\ work \in [Workers -> SUBSET Requests]
    BY DEF Init
  <2>5. /\ outbox \in [Workers -> Seq(Requests)] /\ uncaught \in [Workers -> BOOLEAN]
        /\ reported \subseteq Workers /\ draining \in Workers \cup {0} /\ faults \in 0..MaxFaults
    BY <2>1 DEF Init
  <2> QED
    BY <2>3, <2>4, <2>5 DEF TypeOK
<1>5. Retired = {} /\ Terminated = {} /\ TimedOut = {} /\ Faulty = {}
  BY DEF Init, Retired, Terminated, TimedOut, Faulty
<1>6. DeathsHaveCauses
  BY <1>5, FS_EmptySet DEF Init, DeathsHaveCauses
<1>7. PoolIsAlive /\ OneReplacementPerDeath
  BY <1>2, <1>3 DEF Init, PoolIsAlive, OneReplacementPerDeath
<1>8. WaitersWait /\ OneRequestPerWorker /\ NoForgottenWaiter /\ EntriesAreHeld
  BY DEF Init, WaitersWait, OneRequestPerWorker, NoForgottenWaiter, EntriesAreHeld
<1>9. UnbornAreBlank
  <2>1. \A w \in Workers : w > Size => ~(w <= Size)
    BY <1>1
  <2> QED
    BY <2>1 DEF Init, UnbornAreBlank
<1>10. NoWorkerIsLost /\ OwnVerdict
  BY <1>2 DEF Init, NoWorkerIsLost, OwnVerdict
<1>11. ThreadsInv
  <2>1. \A w \in Workers : w # 0
    BY <1>1
  <2> QED
    BY <2>1 DEF Init, ThreadsInv
<1>12. OneDocumentPerThread
  BY EmptySeq DEF Init, OneDocumentPerThread
<1> QED
  BY <1>4, <1>6, <1>7, <1>8, <1>9, <1>10, <1>11, <1>12 DEF Core

LEMMA NextCore == Core /\ [Next]_vars => Core'
<1> SUFFICES ASSUME Core, [Next]_vars
             PROVE  Core'
  OBVIOUS
<1>1. ASSUME NEW r \in Requests, Start(r) \/ QueueTimer(r) \/ VerifyTimer(r) \/ Run(r)
      PROVE  Core'
  BY <1>1, StartStep, QueueTimerStep, VerifyTimerStep, RunStep
<1>2. ASSUME NEW w \in 1..spawned,
             \/ OnMessage(w) \/ OnMessageError(w) \/ OnError(w) \/ OnExit(w)
      PROVE  Core'
  BY <1>2, OnMessageStep, OnMessageErrorStep, OnErrorStep, OnExitStep
<1>3. ASSUME NEW w \in 1..spawned, ExitBegins(w) \/ Answer(w) \/ Crash(w) \/ Exit(w)
      PROVE  Core'
  <2>1. w \in Workers
    BY Finite DEF Core, TypeOK
  <2> QED
    BY <1>3, <2>1, ExitBeginsStep, AnswerStep, CrashStep, ExitStep
<1>4. CASE Close \/ Closed \/ RespawnTimer
  BY <1>4, CloseStep, ClosedStep, RespawnStep
<1>5. CASE UNCHANGED vars
  <2> USE <1>5 DEF vars, runnerVars, requestVars, threadVars, Core
  <2>1. TypeOK' /\ WaitersWait' /\ OneRequestPerWorker'
    BY DEF TypeOK, WaitersWait, OneRequestPerWorker
  <2>2. NoForgottenWaiter' /\ EntriesAreHeld' /\ UnbornAreBlank'
    BY DEF NoForgottenWaiter, Free, EntriesAreHeld, UnbornAreBlank
  <2>3. PoolIsAlive' /\ OneReplacementPerDeath'
    BY DEF PoolIsAlive, OneReplacementPerDeath
  <2>4. NoWorkerIsLost' /\ ThreadsInv' /\ OwnVerdict'
    BY DEF NoWorkerIsLost, ThreadsInv, OwnVerdict
  <2>5. OneDocumentPerThread'
    BY DEF OneDocumentPerThread
  <2>6. DeathsHaveCauses'
    BY DEF DeathsHaveCauses, Retired, Terminated, TimedOut, Faulty
  <2> QED
    BY <2>1, <2>2, <2>3, <2>4, <2>5, <2>6
<1> QED
  BY <1>1, <1>2, <1>3, <1>4, <1>5 DEF Next, Loop

LEMMA CoreAlways == Spec => []Core
<1>1. Init => Core
  BY InitCore
<1>2. Core /\ [Next]_vars => Core'
  BY NextCore
<1> QED
  BY <1>1, <1>2, PTL DEF Spec

\* The runner, whatever dies, crashes, times out or answers late: exactly one
\* replacement per death, work bounded by the size of the pool, no worker lost
\* to it, nobody waiting while a worker is free, one request per worker.
THEOREM RunnerInvariance == Spec => []RunnerInv
<1>1. Core => RunnerInv
  BY BoundedByPool DEF Core, RunnerInv
<1> QED
  BY <1>1, CoreAlways, PTL

\* A request is answered with the verdict on its own document.
THEOREM VerdictsAreOwn == Spec => []OwnVerdict
<1>1. Core => OwnVerdict
  BY DEF Core
<1> QED
  BY <1>1, CoreAlways, PTL

=============================================================================
