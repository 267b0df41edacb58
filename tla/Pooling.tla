------------------------------ MODULE Pooling -------------------------------
(***************************************************************************)
(* poolingService's two algorithms: greedy clustering of deliveries by     *)
(* their pickups, and the nearest-neighbour route through a pool's stops.  *)
(* Places are points of a line; deliveries are numbered by age.            *)
(***************************************************************************)
EXTENDS Naturals, Integers, SequencesExt

CONSTANTS
    PoolCandidates,  \* how many deliveries wait
    LastPlace,       \* places are 0..LastPlace
    Proximity,       \* maxProximityMeters
    MaxPoolSize

ASSUME PoolingAssumption == {PoolCandidates, LastPlace, Proximity} \subseteq Nat /\ MaxPoolSize \in Nat \ {0}

VARIABLES
    pickup, dropoff,  \* where each delivery starts and ends
    pools             \* what createPools returned: sequences of deliveries with their routes

poolingVars == <<pickup, dropoff, pools>>

Candidates == 1..PoolCandidates

Stops == [delivery: Candidates, type: {"pickup", "dropoff"}]

PoolingInit ==
    /\ pickup \in [Candidates -> 0..LastPlace]
    /\ dropoff \in [Candidates -> 0..LastPlace]
    /\ pools = <<>>

Distance(p, q) == IF p < q THEN q - p ELSE p - q

Place(stop) == IF stop.type = "pickup" THEN pickup[stop.delivery] ELSE dropoff[stop.delivery]

-----------------------------------------------------------------------------
(* createPools *)

Pooled(ps) == UNION {ToSet(ps[i]) : i \in DOMAIN ps}

Joins(seed, other, pool, used) ==
    /\ other \notin used \cup ToSet(pool)
    /\ Len(pool) < MaxPoolSize
    /\ Distance(pickup[seed], pickup[other]) <= Proximity

Cluster(seed, used) ==
    LET pool[n \in 0..PoolCandidates] ==
            IF n = 0 THEN <<seed>>
            ELSE IF Joins(seed, n, pool[n - 1], used) THEN Append(pool[n - 1], n) ELSE pool[n - 1]
    IN  pool[PoolCandidates]

Clusters ==
    LET found[seed \in 0..PoolCandidates] ==
            IF seed = 0 THEN <<>>
            ELSE IF seed \in Pooled(found[seed - 1]) THEN found[seed - 1]
            ELSE Append(found[seed - 1], Cluster(seed, Pooled(found[seed - 1])))
    IN  found[PoolCandidates]

-----------------------------------------------------------------------------
(* buildNearestNeighbourRoute *)

AllStops(pool) ==
    [i \in 1..(2 * Len(pool)) |-> [delivery |-> pool[(i + 1) \div 2], type |-> IF i % 2 = 1 THEN "pickup" ELSE "dropoff"]]

\* Mutant: any stop may come next.
MayComeNextAny(stop, sequence) == TRUE

MayComeNext(stop, sequence) ==
    stop.type = "dropoff" => [stop EXCEPT !.type = "pickup"] \in ToSet(sequence)

\* The first of the nearest stops that may come next; the first of all, if none may.
NearestIdx(sequence, remaining) ==
    LET eligible == {i \in DOMAIN remaining : MayComeNext(remaining[i], sequence)}
        away(i) == Distance(Place(Last(sequence)), Place(remaining[i]))
    IN IF eligible = {} THEN 1
       ELSE CHOOSE i \in eligible : \A j \in eligible : away(i) < away(j) \/ (away(i) = away(j) /\ i <= j)

VisitNext(route) ==
    LET i == NearestIdx(route.sequence, route.remaining)
    IN [sequence |-> Append(route.sequence, route.remaining[i]), remaining |-> RemoveAt(route.remaining, i)]

\* The route after each stop but the first.
Visited(stops) ==
    LET route[n \in 0..Len(stops) - 1] ==
            IF n = 0 THEN [sequence |-> <<Head(stops)>>, remaining |-> Tail(stops)] ELSE VisitNext(route[n - 1])
    IN  route

BuildNearestNeighbourRoute(pool) == Visited(AllStops(pool))[2 * Len(pool) - 1].sequence

CreatePools ==
    /\ pools = <<>>
    /\ pools' = [i \in DOMAIN Clusters |-> [deliveries |-> Clusters[i],
                                            routeSequence |-> BuildNearestNeighbourRoute(Clusters[i])]]
    /\ UNCHANGED <<pickup, dropoff>>

-----------------------------------------------------------------------------
(* Correctness *)

\* Every waiting delivery is in exactly one pool, no pool is too large, and all the pickups of a
\* pool are near its oldest delivery's.
PoolsPartitionTheDeliveries ==
    pools # <<>> =>
        /\ \A x \in Candidates :
            Cardinality({p \in (DOMAIN pools) \X (1..MaxPoolSize) :
                            p[2] <= Len(pools[p[1]].deliveries) /\ pools[p[1]].deliveries[p[2]] = x}) = 1
        /\ \A i \in DOMAIN pools :
            LET members == ToSet(pools[i].deliveries)
                oldest == CHOOSE x \in members : \A y \in members : x <= y
            IN /\ Cardinality(members) <= MaxPoolSize
               /\ \A x \in members : Distance(pickup[oldest], pickup[x]) <= Proximity

\* A route stops once at every pickup and every dropoff of its pool, and picks up before it drops off.
RoutesAreFeasible ==
    \A i \in DOMAIN pools :
        LET route == pools[i].routeSequence
        IN /\ Len(route) = 2 * Len(pools[i].deliveries)
           /\ ToSet(route) = [delivery: ToSet(pools[i].deliveries), type: {"pickup", "dropoff"}]
           /\ \A j, k \in DOMAIN route :
                route[j].delivery = route[k].delivery /\ route[j].type = "pickup" /\ route[k].type = "dropoff" => j < k

\* What createPools returns can be driven, whatever the places.
PoolsAreFeasible == PoolsPartitionTheDeliveries /\ RoutesAreFeasible
=============================================================================
