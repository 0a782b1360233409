------------------------------ MODULE Geometry ------------------------------
(***************************************************************************)
(* The geometry the matcher needs, on a straight road: places and stops    *)
(* are metres along it, so that a distance is a difference and a segment   *)
(* between two places meets the circle around a stop in the two points     *)
(* Radius metres on either side of it.                                     *)
(***************************************************************************)
EXTENDS Integers, Sequences

CONSTANTS
    StopAt,             \* StopAt[s]: the metre of the road where stop s is
    Points,             \* the metres where a vehicle may report its position
    Radius,             \* MATCH_ZONE_RADIUS_IN_METERS
    MaxSegment,         \* ESTIMATED_MATCHING_DISTANCE_UPPER_LIMIT_IN_METRES
    Scale,              \* intersection ratios are in Scale-ths
    NoCrossing

Abs(n) == IF n < 0 THEN -n ELSE n
Sign(n) == IF n < 0 THEN -1 ELSE 1

\* distance_from_stop: the distance between a position and a stop.
DistanceFromStop(p, s) == Abs(p - StopAt[s])

\* The two solutions of the quadratic, in order, as metres travelled from p towards q.
Solutions(p, q, s) ==
    LET along == (StopAt[s] - p) * Sign(q - p)
    IN <<along - Radius, along + Radius>>

\* The solutions that lie on the segment.
IntersectionRatios(p, q, s) ==
    IF p = q \/ Abs(q - p) > MaxSegment
    THEN <<>>
    ELSE SelectSeq(Solutions(p, q, s), LAMBDA t : 0 <= t /\ t <= Abs(q - p))

\* check_estimated_match wants two intersections, and takes the second as the exit.
ExitRatio(p, q, s) ==
    LET ratios == IntersectionRatios(p, q, s)
    IN IF Len(ratios) = 2 THEN (ratios[2] * Scale) \div Abs(q - p) ELSE NoCrossing

StopNumbers == 1 .. Len(StopAt)
DistanceTable == [p \in Points |-> [s \in StopNumbers |-> DistanceFromStop(p, s)]]
CrossingTable ==
    [p \in Points |-> [q \in Points |-> [s \in StopNumbers |-> ExitRatio(p, q, s)]]]
=============================================================================
