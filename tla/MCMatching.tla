----------------------------- MODULE MCMatching -----------------------------
(* The matcher on a straight road with four stops, for TLC. *)
EXTENDS MatchingEvidence, Sequences

CONSTANTS StopAt, MaxSegment

Road == INSTANCE Geometry

RoadDistance == Road!DistanceTable
RoadCrossing == Road!CrossingTable

\* Zones of the first two stops almost touch, that of stop 3 is crossed in one step.
StraightRoute == <<0, 100, 300, 450>>
\* The bus passes the place of its second stop on the way to the first and to the last.
LoopedRoute == <<0, 300, 100, 400>>

TwoHoursEarly == -7200
\* Stop 3 is timetabled two hours after an AVL time of 120: earlier matches of it are not written.
Timetabled == [s \in Stops |-> IF s = 3 THEN 7320 ELSE 0]

ASSUME BoundaryAssumption == ExitsAtBoundary
=============================================================================

