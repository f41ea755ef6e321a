----------------------------- MODULE UsageStats ------------------------------
(***************************************************************************)
(* The usage counters of the landing page (apps/stats-backend, routes/     *)
(* stats.ts and services/usage-stats.ts, series-read.ts; the inbox-backend *)
(* has the counters without the series): anonymous beacons, the totals     *)
(* cached by each replica, and the series that is read from the log.       *)
(*                                                                         *)
(* One kind of event stands for all of them: kinds share nothing but the   *)
(* answer they are read into. The limiter is TokenBucket; here it lets a   *)
(* beacon through or not. Every action ends at an await.                   *)
(***************************************************************************)
EXTENDS Integers, FiniteSets, Sequences

CONSTANTS
  Beacons, Visits, SeriesReads,  \* requests of the three routes
  Replicas,          \* processes, each with its cache, over one database
  CacheTtl,          \* how long a cached answer is served
  Period, Window, Span,  \* of the series: a bucket, the buckets, what is scanned
  MaxRead,           \* bound: ticks between a query of the totals and its answer
  MaxErrors, LastMoment, \* bounds: failed writes, the clock
  Nil

ASSUME UsageAssumption ==
  /\ IsFiniteSet(Beacons)
  /\ {CacheTtl, Period, Window} \subseteq Nat \ {0}
  /\ Span \in Nat /\ Span >= Window * Period
  /\ {MaxRead, MaxErrors, LastMoment} \subseteq Nat

VARIABLES
  moment,
  total,      \* the row of usage_counters
  log,        \* stats_events: when the row of a beacon was written, or Nil
  beaconAt, visitAt, seriesAt,  \* where the requests are
  home,       \* the replica a request came to
  statsCache,     \* per replica: the totals and when they were cached, or Nil
  read,       \* visits: the total that was read and when, or Nil
  told,       \* visits: the answer and when it was given, or Nil
  series,     \* series: the time it is for, the rows found, the total
  totalAt,    \* history: the total at the end of every tick
  errors

usageVars ==
  <<moment, total, log, beaconAt, visitAt, seriesAt, home, statsCache, read, told, series, totalAt, errors>>

NoSeries == [now |-> 0, at |-> 0, found |-> {}, total |-> 0]

UsageInit ==
  /\ moment = 0 /\ total = 0 /\ totalAt = <<>> /\ errors = 0
  /\ log = [b \in Beacons |-> Nil]
  /\ beaconAt = [b \in Beacons |-> "new"]
  /\ visitAt = [v \in Visits |-> "new"]
  /\ seriesAt = [q \in SeriesReads |-> "new"]
  /\ home \in [Beacons \cup Visits -> Replicas]
  /\ statsCache = [r \in Replicas |-> Nil]
  /\ read = [v \in Visits |-> Nil]
  /\ told = [v \in Visits |-> Nil]
  /\ series = [q \in SeriesReads |-> NoSeries]

-----------------------------------------------------------------------------
(* POST /api/stats/event                                                   *)

BeaconGoes(b, next) == beaconAt' = [beaconAt EXCEPT ![b] = next]

\* The limiter has nothing left: the answer is the same, nothing is counted.
Drop(b) ==
  /\ beaconAt[b] = "new"
  /\ BeaconGoes(b, "done")
  /\ UNCHANGED <<moment, total, log, visitAt, seriesAt, home, statsCache, read, told, series, totalAt, errors>>

\* The limiter lets it through, or is down. recordEvent: the total first, then
\* the row.
CountEvent(b) ==
  /\ beaconAt[b] = "new"
  /\ total' = total + 1
  /\ BeaconGoes(b, "log")
  /\ UNCHANGED <<moment, log, visitAt, seriesAt, home, statsCache, read, told, series, totalAt, errors>>

LogRow(b) ==
  /\ beaconAt[b] = "log"
  /\ log' = [log EXCEPT ![b] = moment]
  /\ BeaconGoes(b, "forget")
  /\ UNCHANGED <<moment, total, visitAt, seriesAt, home, statsCache, read, told, series, totalAt, errors>>

\* Either write may fail: the answer is an error and the cache is left alone.
RecordFails(b) ==
  /\ beaconAt[b] \in {"new", "log"}
  /\ errors < MaxErrors
  /\ errors' = errors + 1
  /\ BeaconGoes(b, "done")
  /\ UNCHANGED <<moment, total, log, visitAt, seriesAt, home, statsCache, read, told, series, totalAt>>

ForgetCache(b) ==
  /\ beaconAt[b] = "forget"
  /\ statsCache' = [statsCache EXCEPT ![home[b]] = Nil]
  /\ BeaconGoes(b, "done")
  /\ UNCHANGED <<moment, total, log, visitAt, seriesAt, home, read, told, series, totalAt, errors>>

-----------------------------------------------------------------------------
(* GET /api/stats                                                          *)

\* mutant: what is cached is served until an event comes
FreshForever(r) == statsCache[r] # Nil
Fresh(r) == statsCache[r] # Nil /\ moment - statsCache[r].at < CacheTtl

Answer(v, data) ==
  /\ told' = [told EXCEPT ![v] = [data |-> data, at |-> moment]]
  /\ visitAt' = [visitAt EXCEPT ![v] = "done"]

FromCache(v) ==
  /\ visitAt[v] = "new" /\ Fresh(home[v])
  /\ Answer(v, statsCache[home[v]].data)
  /\ UNCHANGED <<moment, total, log, beaconAt, seriesAt, home, statsCache, read, series, totalAt, errors>>

ReadTotals(v) ==
  /\ visitAt[v] = "new" /\ ~Fresh(home[v])
  /\ read' = [read EXCEPT ![v] = [data |-> total, at |-> moment]]
  /\ visitAt' = [visitAt EXCEPT ![v] = "read"]
  /\ UNCHANGED <<moment, total, log, beaconAt, seriesAt, home, statsCache, told, series, totalAt, errors>>

\* The cache is filled with what was read, whatever came meanwhile.
FillCache(v) ==
  /\ visitAt[v] = "read"
  /\ statsCache' = [statsCache EXCEPT ![home[v]] = [data |-> read[v].data, at |-> moment]]
  /\ Answer(v, read[v].data)
  /\ UNCHANGED <<moment, total, log, beaconAt, seriesAt, home, read, series, totalAt, errors>>

-----------------------------------------------------------------------------
(* GET /api/stats/series                                                   *)

PeriodOf(t)  == t \div Period
Periods(now) == (PeriodOf(now) - Window + 1)..PeriodOf(now)

\* The rows written since the span began, and those that fall in a bucket.
Scanned(now) == {b \in Beacons : log[b] # Nil /\ log[b] >= now - Span}
Bucketed(now) == {b \in Scanned(now) : PeriodOf(log[b]) \in Periods(now)}

StartSeries(q) ==
  /\ seriesAt[q] = "new"
  /\ series' = [series EXCEPT ![q].now = moment]
  /\ seriesAt' = [seriesAt EXCEPT ![q] = "rows"]
  /\ UNCHANGED <<moment, total, log, beaconAt, visitAt, home, statsCache, read, told, totalAt, errors>>

ReadRows(q) ==
  /\ seriesAt[q] = "rows"
  /\ series' = [series EXCEPT ![q].found = Bucketed(series[q].now), ![q].at = moment]
  /\ seriesAt' = [seriesAt EXCEPT ![q] = "totals"]
  /\ UNCHANGED <<moment, total, log, beaconAt, visitAt, home, statsCache, read, told, totalAt, errors>>

ReadSeriesTotals(q) ==
  /\ seriesAt[q] = "totals"
  /\ series' = [series EXCEPT ![q].total = total]
  /\ seriesAt' = [seriesAt EXCEPT ![q] = "done"]
  /\ UNCHANGED <<moment, total, log, beaconAt, visitAt, home, statsCache, read, told, totalAt, errors>>

-----------------------------------------------------------------------------
MomentPasses ==
  /\ moment < LastMoment
  /\ \A v \in Visits : visitAt[v] = "read" => moment - read[v].at < MaxRead
  /\ moment' = moment + 1
  /\ totalAt' = Append(totalAt, total)
  /\ UNCHANGED <<total, log, beaconAt, visitAt, seriesAt, home, statsCache, read, told, series, errors>>

UsageNext ==
  \/ \E b \in Beacons : Drop(b) \/ CountEvent(b) \/ LogRow(b) \/ RecordFails(b) \/ ForgetCache(b)
  \/ \E v \in Visits : FromCache(v) \/ ReadTotals(v) \/ FillCache(v)
  \/ \E q \in SeriesReads : StartSeries(q) \/ ReadRows(q) \/ ReadSeriesTotals(q)
  \/ MomentPasses

UsageSpec == UsageInit /\ [][UsageNext]_usageVars

-----------------------------------------------------------------------------
Totals == [data : 0..total, at : 0..moment]

UsageTypeOK ==
  /\ moment \in 0..LastMoment /\ errors \in 0..MaxErrors
  /\ total \in 0..Cardinality(Beacons)
  /\ totalAt \in Seq(Nat) /\ Len(totalAt) = moment
  /\ log \in [Beacons -> (0..moment) \cup {Nil}]
  /\ beaconAt \in [Beacons -> {"new", "log", "forget", "done"}]
  /\ visitAt \in [Visits -> {"new", "read", "done"}]
  /\ seriesAt \in [SeriesReads -> {"new", "rows", "totals", "done"}]
  /\ home \in [Beacons \cup Visits -> Replicas]
  /\ statsCache \in [Replicas -> Totals \cup {Nil}]
  /\ read \in [Visits -> Totals \cup {Nil}]
  /\ told \in [Visits -> Totals \cup {Nil}]
  /\ series \in [SeriesReads ->
       [now : 0..moment, at : 0..moment, found : SUBSET Beacons, total : 0..total]]

\* routes/stats.ts: an answer may be cached by a replica that hears of no other's
\* events, or by a reader that was overtaken by one, but it never lacks an event
\* counted longer ago than the cache lives and a read takes.
AnswerIsRecent ==
  \A v \in Visits : told[v] # Nil =>
    LET t == told[v].at - CacheTtl - MaxRead IN
    t >= 1 => totalAt[t] <= told[v].data

\* series-read.ts:66-110: an answer never shows more events in its buckets than in
\* its totals, whatever is recorded, or half recorded, while it reads them.
SeriesWithinTotals ==
  \A q \in SeriesReads : seriesAt[q] = "done" => Cardinality(series[q].found) <= series[q].total

\* series-read.ts:45-56: the scan reaches back to the beginning of the first
\* bucket: no event written before the scan is missing in its bucket.
NoBucketIsStarved ==
  \A q \in SeriesReads : seriesAt[q] \in {"totals", "done"} =>
    \A b \in Beacons :
      log[b] # Nil /\ log[b] < series[q].at /\ PeriodOf(log[b]) \in Periods(series[q].now)
        => b \in series[q].found

UsageInv == UsageTypeOK /\ AnswerIsRecent /\ SeriesWithinTotals /\ NoBucketIsStarved

-----------------------------------------------------------------------------
\* Said of the code but not kept by it (README, section 5).

\* routes/stats.ts:136: "cache = null; // next GET recomputes". A reader that
\* had its answer already fills the cache again.
NextGetRecomputes ==
  \A b \in Beacons : beaconAt[b] = "done" /\ log[b] # Nil /\ statsCache[home[b]] # Nil
    => statsCache[home[b]].data >= 1
=============================================================================
