--------------------------- MODULE MCLiveMatching ---------------------------
(* Live matching of a journey that loses stops, for TLC. *)
EXTENDS LiveMatching

CONSTANTS StopAt, MaxSegment

Road == INSTANCE Geometry

RoadDistance == Road!DistanceTable
RoadCrossing == Road!CrossingTable
\* One place is in the zones of the first two stops, one in that of the last; stop 3 is
\* never driven to.
Detour == <<0, 100, 900, 300>>
TwoHoursEarly == -7200
Timetabled == [s \in Stops |-> IF s = 2 THEN 7260 ELSE 0]
=============================================================================
