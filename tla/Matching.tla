------------------------------ MODULE Matching ------------------------------
(***************************************************************************)
(* The stop matcher (matcher/matching.py, match_avl) for one journey: the  *)
(* route history of the journey, and how each vehicle position (an AVL     *)
(* record) turns stops into potential matches and potential matches into   *)
(* matches.                                                                *)
(*                                                                         *)
(* match_avl is one call, but its loop over the potential matches mutates  *)
(* the history it iterates over, so the loop is modelled iteration by      *)
(* iteration: ReceiveAvl is everything up to the loop, one action per      *)
(* branch of an iteration, FinishAvl is remove_matched_stops.              *)
(*                                                                         *)
(* Distances are metres and times are seconds.  Where a vehicle can be,    *)
(* and how a straight line between two places crosses the zone of a stop,  *)
(* are constants (module Geometry gives them for a straight road).         *)
(***************************************************************************)
EXTENDS Integers, FiniteSets

CONSTANTS
    Points,             \* the places a vehicle can report
    AvlTimes,           \* the recorded_at_time values it can report
    MaxStop,            \* the number of stops of the longest timetable of the journey
    RouteLengths,       \* the numbers of stops the timetable extract can have
    Distance,           \* Distance[p][s]: from place p to stop s
    Crossing,           \* Crossing[p][q][s]: where the line p-q leaves the zone of s
    NoCrossing,         \* ... when it does not both enter and leave it
    Scale,              \* Crossing is a fraction of the line, in Scale-ths
    Departure,          \* Departure[s]: when the timetable has the bus leave s
    Radius,             \* MATCH_ZONE_RADIUS_IN_METERS
    SavedMatchesLimit,  \* SAVED_MATCHES_LIMIT
    ShortJourney,       \* SHORT_JOURNEY_STOP_COUNT
    EstimateTimeLimit,  \* ESTIMATED_MATCHING_TIME_UPPER_LIMIT_IN_SECONDS
    FirstStopWindow,    \* the 5 minutes of check_update_first_stop
    EarlyLimit,         \* MATCHING_TIME_LOWER_LIMIT_IN_SECONDS
    NoAvl,              \* no AVL of the journey was seen yet
    MaxLateness,        \* bound: how far recorded times go back (a second vehicle)
    MaxTicks            \* bound: AVLs processed plus potential matches moved

Stops == 1 .. MaxStop
Avls == [point : Points, time : AvlTimes]

ASSUME StopsAssumption ==
    /\ MaxStop \in Nat \ {0}
    /\ RouteLengths \subseteq Stops
ASSUME GeometryAssumption ==
    /\ Scale \in Nat \ {0}
    /\ NoCrossing \notin 0 .. Scale
    /\ Distance \in [Points -> [Stops -> Nat]]
    /\ Crossing \in [Points -> [Points -> [Stops -> (0 .. Scale) \cup {NoCrossing}]]]
ASSUME TimesAssumption ==
    /\ AvlTimes \subseteq Int
    /\ Departure \in [Stops -> Int]
    /\ EarlyLimit \in Int /\ EstimateTimeLimit \in Int /\ FirstStopWindow \in Int
    /\ NoAvl \notin Avls
ASSUME LimitsAssumption ==
    /\ Radius \in Nat
    /\ SavedMatchesLimit \in Nat \ {0}
    /\ ShortJourney \in Nat
    /\ MaxTicks \in Nat /\ MaxLateness \in Nat

VARIABLES
    final,       \* get_final_stop_index: the length of the route in the extract
    matched,     \* route_history["matched_stops"]
    potential,   \* route_history["potential_matches"]
    lastAvl,     \* route_history["last_avl_*"]: during a call, the AVL at hand
    todo,        \* stops the loop over the potential matches has still to visit
    toDelete,    \* potential_matches_to_delete
    newMatches,  \* what match_avl returns for the database to set
    badMatches,  \* what match_avl returns for the database to wipe
    pc,          \* "idle" between two calls, "matching" inside the loop, "raised" after an error
    tick         \* orders the insertions into the two dictionaries

vars == <<final, matched, potential, lastAvl, todo, toDelete, newMatches, badMatches, pc, tick>>

(* A potential match.  "iso" tells how last_time_in_zone is written: an   *)
(* estimate as isoformat(), an AVL time as str(), so that the two never    *)
(* compare equal as strings; "since" orders the dictionary's insertions.   *)
Potential == [dist : Nat, time : Int, est : BOOLEAN, iso : BOOLEAN, since : Nat]
Match == [time : Int, est : BOOLEAN, since : Nat]
DbMatch == [stop : Stops, time : Int, est : BOOLEAN]

Matched == DOMAIN matched
Potentials == DOMAIN potential

InZone(a, s) == Distance[a.point][s] < Radius

CreatePotentialMatch(a, s) ==
    [dist |-> Distance[a.point][s], time |-> a.time, est |-> FALSE, iso |-> FALSE, since |-> tick]

-----------------------------------------------------------------------------
(* Steps 6 to 10: back at the first stop within five minutes of leaving it. *)

FirstStopRevisited(a) ==
    /\ 1 \in Matched
    /\ InZone(a, 1)
    /\ a.time - matched[1].time < FirstStopWindow

AfterFirstStop(a) == IF FirstStopRevisited(a) THEN Matched \ {1} ELSE Matched

-----------------------------------------------------------------------------
(* Steps 11 to 14: which stops become, or are again, potential matches, the *)
(* stops of M being matched and those of P potential.                       *)

Considered(M) == {s \in 1 .. final :
    /\ Cardinality(M) <= 1 \/ \E m \in M : m <= s
    /\ ~(Cardinality(M) <= 1 /\ final > ShortJourney /\ s > (3 * final) \div 4)
    /\ ~(s = final /\ final \in M)}

Evidenced(a, M) == {s \in Considered(M) : InZone(a, s)}

Crosses(a, s) ==
    /\ lastAvl # NoAvl
    /\ a.time - lastAvl.time <= EstimateTimeLimit
    /\ Crossing[lastAvl.point][a.point][s] # NoCrossing

ExitTime(a, s) ==
    lastAvl.time + (Crossing[lastAvl.point][a.point][s] * (a.time - lastAvl.time)) \div Scale

\* Mutant: a stop that is a potential match already is estimated all the same.
EstimatedAnew(a, M, P) == {s \in Considered(M) : s # final /\ s \notin M /\ ~InZone(a, s) /\ Crosses(a, s)}

Estimated(a, M, P) == {s \in Considered(M) :
    s # final /\ s \notin M \cup P /\ ~InZone(a, s) /\ Crosses(a, s)}

EstimatedMatch(a, s) ==
    [dist |-> Distance[a.point][s], time |-> ExitTime(a, s), est |-> TRUE, iso |-> TRUE, since |-> tick]

FindPotentialMatches(a) ==
    LET M == AfterFirstStop(a)
        fresh == Evidenced(a, M) \cup (IF FirstStopRevisited(a) THEN {1} ELSE {})
        estimated == Estimated(a, M, Potentials \cup fresh)
    IN [s \in Potentials \cup fresh \cup estimated |->
           IF s \in fresh
           THEN [CreatePotentialMatch(a, s) EXCEPT
                    !.since = IF s \in Potentials THEN potential[s].since ELSE tick]
           ELSE IF s \in estimated THEN EstimatedMatch(a, s) ELSE potential[s]]

-----------------------------------------------------------------------------
(* Steps 31, 32: of the potential matches with the same time as s, in the  *)
(* order of the dictionary, the loop of the code takes one whenever it is  *)
(* nearer to the first matched stop than what it holds, or whenever it     *)
(* holds that stop itself (a difference of 0 counts as none).              *)

LowestMatched == {m \in Matched : \A n \in Matched : m <= n}
HighestMatched == {m \in Matched : \A n \in Matched : m >= n}

SameTime(s) == {p \in Potentials \ toDelete :
    potential[p].time = potential[s].time /\ potential[p].iso = potential[s].iso}

Before(p, q) ==
    \/ potential[p].since < potential[q].since
    \/ potential[p].since = potential[q].since /\ p < q

ComparedWith(C, c) ==
    LET earlier == {p \in C : Before(p, c)}
        reset == {f \in LowestMatched \cap earlier : \A p \in C : Before(p, f) => p > f}
    IN {p \in earlier : \A f \in reset : Before(f, p)}

Taken(C) == {c \in C : \A p \in ComparedWith(C, c) : c < p}
Selected(C) == {c \in Taken(C) : \A d \in Taken(C) : ~Before(c, d)}
\* Mutant: only the next stop is spared, not the previous one.
DroppedPrevious(C, s) == {c \in C \ Taken(C) : c - s # 1}

Dropped(C, s) == {c \in C \ Taken(C) : c - s \notin {1, -1}}

-----------------------------------------------------------------------------
(* Steps 20 to 31: what becomes of the saved matches when stop s is matched *)
(* at time t.                                                               *)

WithNew(s, t) == [m \in Matched \cup {s} |->
    [time |-> IF m = s THEN t ELSE matched[m].time,
     since |-> IF m \in Matched THEN matched[m].since ELSE tick]]

IsLatest(m, d) ==
    /\ m \in DOMAIN d
    /\ \A n \in DOMAIN d \ {m} :
          \/ d[n].time < d[m].time
          \/ d[n].time = d[m].time /\ d[n].since < d[m].since

AboveAll(s) == \A m \in Matched : s > m
SavedAdjacent == \E l \in LowestMatched, h \in HighestMatched : h - l = 1

\* 29.2 to 31: s falls before the highest saved match, and is not before them all.
Overtaken(s) ==
    /\ \E h \in Matched : s < h
    /\ Cardinality(Matched) = 1 \/ \E l \in Matched : l < s

Rejected(s, t) ==
    /\ Matched # {}
    /\ \/ /\ \A m \in Matched : s <= m
          /\ Cardinality(Matched) = SavedMatchesLimit \/ SavedAdjacent
       \/ AboveAll(s) /\ ~IsLatest(s, WithNew(s, t))

\* Mutant: a stop above a full history evicts nothing.
EvictedBelowOnly(s, t) ==
    IF Matched = {} \/ ~Overtaken(s) THEN {}
    ELSE IF IsLatest(final, WithNew(s, t)) THEN LowestMatched ELSE HighestMatched

\* Mutant: the final stop gives way like any other.
EvictedFinal(s, t) ==
    IF Matched = {} THEN {}
    ELSE IF AboveAll(s) /\ IsLatest(s, WithNew(s, t)) /\ Cardinality(Matched) = SavedMatchesLimit
    THEN LowestMatched
    ELSE IF Overtaken(s) THEN HighestMatched ELSE {}

Evicted(s, t) ==
    LET latest == {m \in Matched \cup {s} : IsLatest(m, WithNew(s, t))}
    IN IF Matched = {} THEN {}
       ELSE IF AboveAll(s) /\ s \in latest /\ Cardinality(Matched) = SavedMatchesLimit
       THEN LowestMatched
       ELSE IF ~Overtaken(s) THEN {}
       ELSE IF final \in latest THEN LowestMatched
       ELSE HighestMatched

\* Of the stops removed, those whose row in the database is wiped as well.
Wiped(s, t) ==
    IF Overtaken(s) /\ ~IsLatest(final, WithNew(s, t))
    THEN Evicted(s, t) \cap 1 .. final
    ELSE {}

\* map_matched_stop_to_db: a match more than two hours early is not written.
Recorded(s, t) == t - Departure[s] >= EarlyLimit

(* The whole of move_potential_match_to_match: the stop s becomes a match  *)
(* with the time and kind of the potential match pm, unless it is rejected. *)
MovePotentialMatchToMatch(s, pm, dropped) ==
    LET kept == Matched \ Evicted(s, pm.time)
        saved == IF Rejected(s, pm.time) THEN kept ELSE kept \cup {s}
    IN /\ toDelete' = toDelete \cup dropped \cup {s}
       /\ matched' = [m \in saved |->
              IF m = s /\ ~Rejected(s, pm.time)
              THEN [time |-> pm.time, est |-> pm.est, since |-> WithNew(s, pm.time)[s].since]
              ELSE matched[m]]
       /\ badMatches' = badMatches \cup Wiped(s, pm.time)
       /\ newMatches' = IF Rejected(s, pm.time) \/ ~Recorded(s, pm.time)
                        THEN newMatches
                        ELSE newMatches \cup {[stop |-> s, time |-> pm.time, est |-> pm.est]}
       /\ tick' = tick + 1

-----------------------------------------------------------------------------
Init ==
    /\ final \in RouteLengths
    /\ matched = [s \in {} |-> s]
    /\ potential = [s \in {} |-> s]
    /\ lastAvl = NoAvl
    /\ todo = {}
    /\ toDelete = {}
    /\ newMatches = {}
    /\ badMatches = {}
    /\ pc = "idle"
    /\ tick = 0

\* Step 3: an AVL with the time of the last one is skipped.
SkipRepeatedAvl(a) ==
    /\ pc = "idle"
    /\ lastAvl # NoAvl /\ lastAvl.time = a.time
    /\ newMatches' = {}
    /\ badMatches' = {}
    /\ UNCHANGED <<final, matched, potential, lastAvl, todo, toDelete, pc, tick>>

\* Steps 4 to 14: the first stop is checked again, and potential matches found.
ReceiveAvl(a) ==
    /\ pc = "idle"
    /\ lastAvl # NoAvl => lastAvl.time # a.time
    /\ matched' = [m \in AfterFirstStop(a) |-> matched[m]]
    /\ potential' = FindPotentialMatches(a)
    /\ lastAvl' = a
    /\ todo' = DOMAIN potential'
    /\ toDelete' = {}
    /\ newMatches' = {}
    /\ badMatches' = Matched \ AfterFirstStop(a)
    /\ pc' = "matching"
    /\ tick' = tick + 1
    /\ UNCHANGED final

\* Mutant: the potential matches are visited in any order.
VisitUnsorted(s) == pc = "matching" /\ s \in todo

\* The next iteration of the loop over the sorted potential matches is for s.
Visit(s) ==
    /\ pc = "matching"
    /\ s \in todo
    /\ \A t \in todo : s <= t

\* The route of a newer extract has no such stop: the loop is left.
StopNotInRoute(s) ==
    /\ Visit(s)
    /\ s > final
    /\ todo' = {}
    /\ UNCHANGED <<final, matched, potential, lastAvl, toDelete, newMatches, badMatches, pc, tick>>

\* Step 17: still inside the zone of a stop other than the final one.
StillInZone(s) ==
    /\ Visit(s)
    /\ s < final /\ InZone(lastAvl, s)
    /\ todo' = todo \ {s}
    /\ potential' = [potential EXCEPT ![s].dist = Distance[lastAvl.point][s],
                                      ![s].time = lastAvl.time, ![s].iso = FALSE]
    /\ UNCHANGED <<final, matched, lastAvl, toDelete, newMatches, badMatches, pc, tick>>

\* Steps 18, 19: in the zone of the final stop.
FinalStopReached(s) ==
    /\ Visit(s)
    /\ s = final /\ InZone(lastAvl, s)
    /\ todo' = todo \ {s}
    /\ IF s \in Matched \/ Matched = {}
       THEN UNCHANGED <<matched, toDelete, newMatches, badMatches, tick>>
       ELSE MovePotentialMatchToMatch(s, potential[s], {})
    /\ UNCHANGED <<final, potential, lastAvl, pc>>

\* Mutant: the first position outside the zone is enough.
MovingAwayAtOnce(s) == Distance[lastAvl.point][s] > potential[s].dist

\* Mutant: a bus that keeps its distance moves away.
MovingAwayOrNot(s) ==
    potential[s].dist > Radius /\ Distance[lastAvl.point][s] >= potential[s].dist

MovingAway(s) ==
    /\ potential[s].dist > Radius
    /\ Distance[lastAvl.point][s] > potential[s].dist

\* Mutant: the time is kept up to date outside the zone as well.
NotYetLeftTime(s) ==
    /\ Visit(s)
    /\ s <= final /\ ~InZone(lastAvl, s) /\ ~MovingAway(s)
    /\ todo' = todo \ {s}
    /\ potential' = [potential EXCEPT ![s].dist = Distance[lastAvl.point][s], ![s].time = lastAvl.time]
    /\ UNCHANGED <<final, matched, lastAvl, toDelete, newMatches, badMatches, pc, tick>>

\* Steps 19, 34: outside the zone, but it was inside at the last AVL or comes nearer.
NotYetLeft(s) ==
    /\ Visit(s)
    /\ s <= final /\ ~InZone(lastAvl, s) /\ ~MovingAway(s)
    /\ todo' = todo \ {s}
    /\ potential' = [potential EXCEPT ![s].dist = Distance[lastAvl.point][s]]
    /\ UNCHANGED <<final, matched, lastAvl, toDelete, newMatches, badMatches, pc, tick>>

\* Steps 31 to 33: the bus has left the stop: it, or a stop with the same time, is matched.
StopLeft(s) ==
    /\ Visit(s)
    /\ s <= final /\ ~InZone(lastAvl, s) /\ MovingAway(s)
    /\ todo' = todo \ {s}
    /\ IF s \in toDelete
       THEN UNCHANGED <<matched, toDelete, newMatches, badMatches, tick>>
       ELSE \E c \in Selected(SameTime(s)) \cap 1 .. final :
                MovePotentialMatchToMatch(c, potential[s], Dropped(SameTime(s), s))
    /\ UNCHANGED <<final, potential, lastAvl, pc>>

\* The stop selected in its place is not in the route of a newer extract: only the stop that
\* was left was looked for, and route[stop_index] raises KeyError.  The call ends, and with
\* it its locals; what it did to the history is the caller's to keep or to forget.
StopMissing(s) ==
    /\ Visit(s)
    /\ s <= final /\ ~InZone(lastAvl, s) /\ MovingAway(s)
    /\ s \notin toDelete
    /\ \E c \in Selected(SameTime(s)) : c > final
    /\ pc' = "raised"
    /\ UNCHANGED <<final, matched, potential, lastAvl, todo, toDelete, newMatches, badMatches, tick>>

\* Mutant: the decided potential matches are removed while the loop still runs.
FinishAvlEarly ==
    /\ pc = "matching"
    /\ potential' = [s \in Potentials \ toDelete |-> potential[s]]
    /\ toDelete' = {}
    /\ pc' = "idle"
    /\ UNCHANGED <<final, matched, lastAvl, todo, newMatches, badMatches, tick>>

\* Mutant: potential_matches_to_delete outlives the call.
FinishAvlKeepsList ==
    /\ pc = "matching"
    /\ todo = {}
    /\ potential' = [s \in Potentials \ toDelete |-> potential[s]]
    /\ pc' = "idle"
    /\ UNCHANGED <<final, matched, lastAvl, todo, toDelete, newMatches, badMatches, tick>>

\* Step 22.1: the potential matches that were decided are removed.
FinishAvl ==
    /\ pc = "matching"
    /\ todo = {}
    /\ potential' = [s \in Potentials \ toDelete |-> potential[s]]
    /\ toDelete' = {}
    /\ pc' = "idle"
    /\ UNCHANGED <<final, matched, lastAvl, todo, newMatches, badMatches, tick>>

\* A newer timetable extract gives the journey another number of stops.
RefreshTimetable(n) ==
    /\ pc = "idle"
    /\ n # final
    /\ final' = n
    /\ UNCHANGED <<matched, potential, lastAvl, todo, toDelete, newMatches, badMatches, pc, tick>>

Iterate(s) ==
    \/ StopNotInRoute(s) \/ StillInZone(s) \/ FinalStopReached(s)
    \/ NotYetLeft(s) \/ StopLeft(s) \/ StopMissing(s)

\* The feed: the positions of one vehicle in order, those of a second one somewhat late.
Arrives(a) ==
    /\ tick < MaxTicks
    /\ lastAvl # NoAvl => a.time >= lastAvl.time - MaxLateness

Next ==
    \/ \E a \in Avls : Arrives(a) /\ (SkipRepeatedAvl(a) \/ ReceiveAvl(a))
    \/ \E s \in Stops : Iterate(s)
    \/ FinishAvl
    \/ \E n \in RouteLengths : RefreshTimetable(n)

Spec == Init /\ [][Next]_vars

-----------------------------------------------------------------------------
(* Types of the state. *)
TypeOK ==
    /\ final \in RouteLengths
    /\ Matched \subseteq Stops /\ matched \in [Matched -> Match]
    /\ Potentials \subseteq Stops /\ potential \in [Potentials -> Potential]
    /\ lastAvl \in Avls \cup {NoAvl}
    /\ pc = "matching" => lastAvl # NoAvl
    /\ todo \subseteq Potentials
    /\ toDelete \subseteq Stops
    /\ newMatches \subseteq DbMatch
    /\ badMatches \subseteq Stops
    /\ pc \in {"idle", "matching", "raised"}
    /\ tick \in Nat

(* The history never saves more than SAVED_MATCHES_LIMIT matches, whichever *)
(* of the eviction rules of move_potential_match_to_match apply.            *)
SavedMatchesBounded == Cardinality(Matched) <= SavedMatchesLimit

(* remove_matched_stops deletes every stop the loop decided, matched or     *)
(* rejected, from the potential matches: each of them is one, or the `del`  *)
(* raises KeyError and the whole batch is lost.                             *)
DroppedArePotential == toDelete \subseteq Potentials

Departing(s) == Visit(s) /\ s <= final /\ ~InZone(lastAvl, s) /\ MovingAway(s) /\ s \notin toDelete

(* "Select the stop closest to the first actual in the sequence" (step 32): *)
(* of the candidates, none is nearer to the lowest matched stop.            *)
SelectionClosest == \A s \in todo : Departing(s) /\ Matched # {} =>
    \A c \in Selected(SameTime(s)), d \in SameTime(s), f \in LowestMatched : c - f <= d - f

(* A potential match that the bus was seen at (not an estimate) never turns *)
(* into an estimate from a later pair of positions that crosses its zone.   *)
EvidenceNotDowngraded ==
    [][\A s \in Potentials : (s \in DOMAIN potential' /\ ~potential[s].est) => ~potential'[s].est]_vars
=============================================================================
