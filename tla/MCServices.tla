----------------------------- MODULE MCServices -----------------------------
(***************************************************************************)
(* The services behind the applications, for TLC: the purchase of a        *)
(* certificate, the client of its provider, the usage counters (their      *)
(* totals, or their series) and the rate limiter. Each behaviour is of one *)
(* of them, the others never move.                                         *)
(***************************************************************************)
EXTENDS CertOrders, ProviderClient, TokenBucket, UsageStats, TLC, FiniteSets

VARIABLE topic  \* whose behaviour this is

ServicesInit ==
  /\ topic \in {"order", "client", "totals", "series", "bucket"}
  /\ Init /\ ClientInit /\ BucketInit /\ UsageInit
  \* One initial state of what never moves.
  /\ topic # "totals" => home = [x \in Beacons \cup Visits |-> CHOOSE r \in Replicas : TRUE]

\* The totals are told of one event, the series of all.
OneBeacon == Cardinality({b \in Beacons : beaconAt'[b] # "new"}) <= 1

\* A token is refused early, or it expires: of a behaviour with the first, only
\* the beginning.
OneWayToEnd == revoked' # {} => minute' < LastMinute

ServicesNext ==
  /\ UNCHANGED topic
  /\ \/ topic = "order" /\ Next /\ UNCHANGED <<clientVars, bucketVars, usageVars>>
     \/ topic = "client" /\ ClientNext /\ OneWayToEnd /\ UNCHANGED <<vars, bucketVars, usageVars>>
     \/ topic = "bucket" /\ BucketNext /\ UNCHANGED <<vars, clientVars, usageVars>>
     \/ /\ UsageNext /\ UNCHANGED <<vars, clientVars, bucketVars>>
        /\ \/ topic = "totals" /\ UNCHANGED seriesAt /\ OneBeacon
           \/ topic = "series" /\ UNCHANGED visitAt

\* The confirmations of an order are alike, and so are the readers of orders.
AlikeServices == Permutations(Calls) \cup Permutations(Gets)

ServicesSpec == ServicesInit /\ [][ServicesNext]_<<topic, vars, clientVars, bucketVars, usageVars>>
=============================================================================
