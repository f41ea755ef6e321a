----------------------------- MODULE TokenBucket -----------------------------
(***************************************************************************)
(* The rate limiter kept in Redis (services/rate-limit.ts of               *)
(* apps/inbox-backend and apps/stats-backend, checkAndConsume): one        *)
(* bucket, the calls that spend from it, and the clocks they read.         *)
(*                                                                         *)
(* The script is atomic, but what time it is comes with the call: from the *)
(* clock of the replica that makes it, and a while before the script runs. *)
(* Redis forgets the bucket by a clock of its own. Tokens are counted in   *)
(* the ticks they take to refill, so that nothing is divided.              *)
(***************************************************************************)
EXTENDS Integers

CONSTANTS
  Callers,      \* calls of checkAndConsume, each any number of times
  PerToken,     \* ticks a token takes to refill: 1 / refillPerSec
  Full,         \* ticks the bucket takes to refill: capacity / refillPerSec
  MinTtl,       \* 60 seconds
  Lead, Lag,    \* how far ahead or behind the time of a call may be when it runs
  LastInstant,  \* bound: the clock stops here
  MaxRewound,   \* bound: nobody calls once the clocks went back this much
  Void

Buckets == [tokens : 0..Full, ts : Int, until : Int]
Windows == [since : Int, spent : Nat, rewound : Nat]

ASSUME BucketAssumption ==
  /\ PerToken \in Nat \ {0} /\ Full \in Nat /\ PerToken <= Full
  /\ MinTtl \in Nat /\ Lead \in Nat /\ Lag \in Nat /\ LastInstant \in Nat /\ MaxRewound \in Nat
  /\ Lead + Lag <= Full \/ Full + Lead + Lag <= MinTtl
  /\ Void \notin Int \cup Buckets \cup Windows

VARIABLES
  instant,   \* the clock of Redis
  stamp,     \* the time a call in flight says it is, or Void
  bucket,    \* tokens, ts and when the key expires; Void before the first call
  window,    \* history: what was spent since some call, or Void
  promised   \* history: when the last call refused was told to come back, or Void

bucketVars == <<instant, stamp, bucket, window, promised>>

BucketInit ==
  /\ instant = 0
  /\ stamp = [c \in Callers |-> Void]
  /\ bucket = Void /\ window = Void /\ promised = Void

\* mutant: the key lives as long as a token takes
TtlOfAToken == IF MinTtl > 2 * PerToken THEN MinTtl ELSE 2 * PerToken
Ttl == IF MinTtl > 2 * Full THEN MinTtl ELSE 2 * Full

Alive == bucket # Void /\ instant < bucket.until

\* Linear since ts; time that goes back refills nothing.
Refilled(s) ==
  LET tokens  == IF Alive THEN bucket.tokens ELSE Full
      elapsed == IF Alive /\ bucket.ts < s THEN s - bucket.ts ELSE 0
  IN IF tokens + elapsed > Full THEN Full ELSE tokens + elapsed

-----------------------------------------------------------------------------
\* Date.now() in the replica that calls.
Call(c) ==
  /\ stamp[c] = Void
  /\ window # Void => window.rewound < MaxRewound
  /\ \E s \in (instant - Lag)..(instant + Lead) : stamp' = [stamp EXCEPT ![c] = s]
  /\ UNCHANGED <<instant, bucket, window, promised>>

Spent(s)   == IF Refilled(s) >= PerToken THEN PerToken ELSE 0
Rewound(s) == IF s < bucket.ts THEN bucket.ts - s ELSE 0

\* The script: the bucket's time becomes the call's, earlier ones included.
Script(c) ==
  /\ stamp[c] # Void
  /\ LET s == stamp[c] IN
     /\ bucket' = [tokens |-> Refilled(s) - Spent(s), ts |-> s, until |-> instant + Ttl]
     /\ window' = IF window = Void THEN Void
                  ELSE [window EXCEPT !.spent = @ + Spent(s), !.rewound = @ + Rewound(s)]
     /\ promised' = IF Spent(s) = 0 THEN s + (PerToken - Refilled(s)) ELSE Void
  /\ stamp' = [stamp EXCEPT ![c] = Void]
  /\ UNCHANGED instant

\* From here on it is counted what is spent.
Watch ==
  /\ bucket # Void /\ window = Void
  /\ window' = [since |-> bucket.ts, spent |-> 0, rewound |-> 0]
  /\ UNCHANGED <<instant, stamp, bucket, promised>>

\* A call in flight is not older than Lag when it runs.
InstantPasses ==
  /\ instant < LastInstant
  /\ \A c \in Callers : stamp[c] # Void => instant - Lag < stamp[c]
  /\ instant' = instant + 1
  /\ UNCHANGED <<stamp, bucket, window, promised>>

BucketNext ==
  \/ \E c \in Callers : Call(c) \/ Script(c)
  \/ Watch \/ InstantPasses

BucketSpec == BucketInit /\ [][BucketNext]_bucketVars

-----------------------------------------------------------------------------
BucketTypeOK ==
  /\ instant \in Nat
  /\ stamp \in [Callers -> Int \cup {Void}]
  /\ bucket \in Buckets \cup {Void}
  /\ window \in Windows \cup {Void}
  /\ promised \in Int \cup {Void}

\* rate-limit.ts:16-41, from any call on, however calls overlap and whatever
\* Redis forgets meanwhile: what is let through is a full bucket and what the
\* calls' own time refilled. Clocks that go back are refilled twice.
NoMoreThanRefilled ==
  window # Void => window.spent <= Full + (bucket.ts - window.since) + window.rewound

\* A caller that waits as long as it was told is let through, if nobody was in
\* the meantime.
WaitIsEnough ==
  promised # Void => \A s \in {promised, promised + 1} : Refilled(s) >= PerToken

BucketInv == BucketTypeOK /\ NoMoreThanRefilled /\ WaitIsEnough

-----------------------------------------------------------------------------
\* Said of the code but not kept by it (README, section 5).

\* rate-limit.ts:8: "Lua script ensures atomicity - no race between concurrent
\* clients". Nor is there one between their clocks.
NoMoreThanTheLimit == window # Void => window.spent <= Full + (bucket.ts - window.since)
=============================================================================
