-------------------------- MODULE MatchingEvidence --------------------------
(***************************************************************************)
(* The matcher with a record of what the vehicle was really seen doing, so *)
(* that a match can be compared with the positions it was made from.  The  *)
(* three variables only observe.                                           *)
(***************************************************************************)
EXTENDS Matching

CONSTANT MaxDisorderTicks   \* bound: as MaxTicks, from the first AVL that is late on

ASSUME DisorderAssumption == MaxDisorderTicks \in Nat

VARIABLES
    orderly,    \* no AVL was late and no newer extract changed the route so far
    outside,    \* AVLs in a row, 2 or more counted as 2, that were outside the zone of a stop
    lastSeen,   \* the last AVL inside the zone of a stop
    opened      \* stops that became potential matches at the AVL at hand

evidence == <<orderly, outside, lastSeen, opened>>
evidenceVars == <<vars, evidence>>

EvidenceInit ==
    /\ Init
    /\ orderly = TRUE
    /\ outside = [s \in Stops |-> 0]
    /\ lastSeen = [s \in Stops |-> NoAvl]
    /\ opened = {}

\* From here on there is nothing to observe.
Disorder ==
    /\ tick < MaxDisorderTicks
    /\ orderly' = FALSE
    /\ outside' = [s \in Stops |-> 0]
    /\ lastSeen' = [s \in Stops |-> NoAvl]
    /\ opened' = {}

Late(a) == lastAvl # NoAvl /\ a.time < lastAvl.time

ObservedReceive(a) ==
    /\ ReceiveAvl(a)
    /\ IF ~orderly \/ Late(a) THEN Disorder
       ELSE /\ outside' = [s \in Stops |-> CASE InZone(a, s) -> 0
                                           [] ~InZone(a, s) /\ outside[s] < 2 -> outside[s] + 1
                                           [] OTHER -> 2]
            /\ lastSeen' = [s \in Stops |-> IF InZone(a, s) THEN a ELSE lastSeen[s]]
            /\ opened' = (DOMAIN potential') \ Potentials
            /\ UNCHANGED orderly

EvidenceNext ==
    \/ \E a \in Avls : Arrives(a) /\ ObservedReceive(a)
    \/ \E a \in Avls : Arrives(a) /\ SkipRepeatedAvl(a) /\ UNCHANGED evidence
    \/ \E s \in Stops : Iterate(s) /\ UNCHANGED evidence
    \/ FinishAvl /\ UNCHANGED evidence
    \/ \E n \in RouteLengths : RefreshTimetable(n) /\ Disorder

EvidenceSpec == EvidenceInit /\ [][EvidenceNext]_evidenceVars

\* The matches made by a step of the loop.
Made == IF orderly /\ pc = "matching" THEN newMatches' \ newMatches ELSE {}

\* What distances and crossings have in common: a line that leaves a zone at its end ends there.
ExitsAtBoundary == \A p, q \in Points, s \in Stops :
    Crossing[p][q][s] = Scale => Distance[q][s] <= Radius

\* The vehicle is not in the zone of a stop that is matched in place of the one it left.
SelectedOutside == orderly =>
    \A s \in todo : Departing(s) => \A c \in Selected(SameTime(s)) : ~InZone(lastAvl, c)

-----------------------------------------------------------------------------
(* A match of an evidenced stop other than the final one is made only once  *)
(* the vehicle was outside its zone twice in a row since it was inside.     *)
TwoPingsOutside ==
    [][\A m \in Made : (m.est \/ m.stop = final \/ outside[m.stop] = 2)]_evidenceVars

(* An estimated match needs a second position: it is not made at the AVL    *)
(* whose segment crossed the zone, nor while the vehicle is in the zone.    *)
EstimateConfirmedLater ==
    [][\A m \in Made : (m.est => m.stop \notin opened /\ outside[m.stop] > 0)]_evidenceVars

(* The departure time written for an evidenced match is the time of the     *)
(* last AVL inside the zone of that stop, whatever happened in between.     *)
DepartureIsLastSighting ==
    [][\A m \in Made : (~m.est => lastSeen[m.stop] # NoAvl /\ lastSeen[m.stop].time = m.time)]_evidenceVars

(* Once the final stop of a journey that is not short is a saved match, it  *)
(* leaves the saved matches only if its row is wiped too: the pair "final   *)
(* stop forgotten, row kept" would let it be matched, and written, again.   *)
FinalStopKept ==
    [][(orderly /\ final > ShortJourney /\ final \in Matched /\ final \notin DOMAIN matched')
          => (final \in badMatches')]_evidenceVars

(* live_update_success wipes before it sets, so what one AVL both wipes and *)
(* sets ends up set: such a stop must then be one the history has matched.  *)
WipedThenSetIsSaved == orderly /\ pc = "idle" =>
    \A m \in newMatches : m.stop \in badMatches => m.stop \in Matched
=============================================================================
