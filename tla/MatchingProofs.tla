--------------------------- MODULE MatchingProofs ---------------------------
(***************************************************************************)
(* What holds of the matcher for every road, timetable and choice of the   *)
(* limits: the types, the bound on the saved matches, the absence of the   *)
(* KeyError of remove_matched_stops, that evidence is never replaced by an *)
(* estimate, that the final stop is not forgotten with its row kept, what  *)
(* the vehicle did when a match is written (two positions outside the      *)
(* zone, the last sighting, a pair of positions for an estimate), and that *)
(* the choice among the potential matches with the same time is what the   *)
(* loop of the code computes, with exactly one outcome.                    *)
(***************************************************************************)
EXTENDS MatchingEvidence, SelectionLoop, FiniteSetTheorems, WellFoundedInduction, TLAPS

USE StopsAssumption DEF Matched, Potentials

(* A step of the matcher, whatever the feed sends and whenever. *)
MatcherStep ==
    \/ \E a \in Avls : SkipRepeatedAvl(a) \/ ReceiveAvl(a)
    \/ \E s \in Stops : Iterate(s)
    \/ FinishAvl
    \/ \E n \in RouteLengths : RefreshTimetable(n)

LEMMA NextIsMatcherStep ==
    [Next]_vars => MatcherStep \/ UNCHANGED vars
BY DEF Next, MatcherStep

-----------------------------------------------------------------------------
(* Finite sets of stops. *)

LEMMA StopSetsFinite ==
    ASSUME NEW M, M \subseteq Stops
    PROVE  IsFiniteSet(M) /\ Cardinality(M) \in Nat
<1>1. IsFiniteSet(1 .. MaxStop)
    BY FS_Interval
<1>2. IsFiniteSet(M)
    BY <1>1, FS_Subset DEF Stops
<1> QED BY <1>2, FS_CardinalityType

(* A nonempty set of naturals has a lowest element. *)
LEMMA LowestExists ==
    ASSUME NEW T, T \subseteq Nat, T # {}
    PROVE  \E l \in T : \A m \in T : l <= m
<1> DEFINE Less == {p \in Nat \X Nat : p[1] < p[2]}
<1>1. IsWellFoundedOn(OpToRel(<, Nat), Nat)
  BY NatLessThanWellFounded
<1>2. OpToRel(<, Nat) = Less
  BY Zenon DEF OpToRel
<1>3. IsWellFoundedOn(Less, Nat)
  BY <1>1, <1>2, Zenon
<1> HIDE DEF Less
<1>4. PICK l \in T : \A m \in T : ~(<<m, l>> \in Less)
  BY <1>3, WFMin
<1>5. \A m \in T : ~(m < l)
  BY <1>4 DEF Less
<1> QED
  BY <1>5

(* A nonempty set of stops has a highest one. *)
LEMMA HighestExists ==
    ASSUME NEW M, M \subseteq Stops, M # {}
    PROVE  \E h \in M : \A m \in M : h >= m
<1> DEFINE T == {MaxStop - m : m \in M}
<1>1. T \subseteq Nat /\ T # {}
  <2>1. \A m \in M : MaxStop - m \in Nat
    BY DEF Stops
  <2> QED BY <2>1
<1>2. PICK l \in T : \A t \in T : l <= t
    BY <1>1, LowestExists
<1>3. PICK h \in M : l = MaxStop - h
    OBVIOUS
<1>4. \A m \in M : MaxStop - h <= MaxStop - m
    BY <1>2, <1>3
<1>5. \A m \in M : h >= m
    BY <1>4 DEF Stops
<1> QED BY <1>5

-----------------------------------------------------------------------------
(* Types. *)

LEMMA EvictedMatched ==
    ASSUME NEW s, NEW t
    PROVE  Evicted(s, t) \subseteq Matched
BY DEF Evicted, LowestMatched, HighestMatched

LEMMA SelectedPotential ==
    ASSUME NEW s, NEW c \in Selected(SameTime(s))
    PROVE  c \in Potentials \ toDelete
BY DEF Selected, Taken, SameTime

LEMMA DroppedPotential ==
    ASSUME NEW s
    PROVE  Dropped(SameTime(s), s) \subseteq Potentials \ toDelete
BY DEF Dropped, SameTime

LEMMA ExitTimeType ==
    ASSUME TypeOK, NEW a \in Avls, NEW s \in Stops, Crosses(a, s)
    PROVE  ExitTime(a, s) \in Int
<1>1. lastAvl \in Avls
  BY DEF TypeOK, Crosses
<1>2. /\ lastAvl.time \in Int /\ a.time \in Int
      /\ lastAvl.point \in Points /\ a.point \in Points
  BY <1>1, TimesAssumption DEF Avls
<1>3. Crossing[lastAvl.point][a.point][s] \in Int
  BY <1>2, GeometryAssumption DEF Crosses
<1>4. Crossing[lastAvl.point][a.point][s] * (a.time - lastAvl.time) \in Int
  BY <1>2, <1>3
<1> QED
  BY <1>2, <1>4, GeometryAssumption DEF ExitTime

LEMMA ConsideredStops ==
    ASSUME TypeOK, NEW M
    PROVE  Considered(M) \subseteq Stops
BY DEF Considered, TypeOK, Stops

(* Whatever an AVL opens is a potential match. *)
LEMMA FindPotentialMatchesType ==
    ASSUME TypeOK, NEW a \in Avls
    PROVE  /\ DOMAIN FindPotentialMatches(a) \subseteq Stops
           /\ FindPotentialMatches(a) \in [DOMAIN FindPotentialMatches(a) -> Potential]
<1> DEFINE M == AfterFirstStop(a)
           fresh == Evidenced(a, M) \cup (IF FirstStopRevisited(a) THEN {1} ELSE {})
           estimated == Estimated(a, M, Potentials \cup fresh)
           opens(s) ==
               IF s \in fresh
               THEN [CreatePotentialMatch(a, s) EXCEPT
                        !.since = IF s \in Potentials THEN potential[s].since ELSE tick]
               ELSE IF s \in estimated THEN EstimatedMatch(a, s) ELSE potential[s]
<1>1. FindPotentialMatches(a) = [s \in Potentials \cup fresh \cup estimated |-> opens(s)]
  BY Zenon DEF FindPotentialMatches
<1>2. 1 \in Stops
  BY DEF Stops
<1>3. fresh \subseteq Stops /\ estimated \subseteq Stops
  BY <1>2, ConsideredStops DEF Evidenced, Estimated
<1>4. \A s \in Stops : Distance[a.point][s] \in Nat
  BY GeometryAssumption DEF Avls
<1>5. a.time \in Int
  BY TimesAssumption DEF Avls
<1>6. ASSUME NEW s \in fresh
      PROVE  opens(s) \in Potential
  BY <1>3, <1>4, <1>5 DEF CreatePotentialMatch, Potential, TypeOK
<1>7. ASSUME NEW s \in estimated
      PROVE  EstimatedMatch(a, s) \in Potential
  <2>1. ExitTime(a, s) \in Int
    BY <1>3, ExitTimeType DEF Estimated
  <2> QED
    BY <2>1, <1>3, <1>4 DEF EstimatedMatch, Potential, TypeOK
<1>8. ASSUME NEW s \in Potentials
      PROVE  potential[s] \in Potential
  BY DEF TypeOK
<1> HIDE DEF fresh, estimated
<1>9. \A s \in Potentials \cup fresh \cup estimated : opens(s) \in Potential
  BY <1>6, <1>7, <1>8
<1>10. Potentials \subseteq Stops
  BY DEF TypeOK
<1> HIDE DEF opens
<1> QED
  BY <1>1, <1>3, <1>9, <1>10

LEMMA MoveType ==
    ASSUME TypeOK, NEW s \in Stops, NEW pm \in Potential, NEW dropped, dropped \subseteq Stops,
           MovePotentialMatchToMatch(s, pm, dropped)
    PROVE  /\ DOMAIN matched' \subseteq Stops
           /\ matched' \in [DOMAIN matched' -> Match]
           /\ toDelete' \subseteq Stops
           /\ newMatches' \subseteq DbMatch
           /\ badMatches' \subseteq Stops
           /\ tick' \in Nat
<1> DEFINE kept == Matched \ Evicted(s, pm.time)
           saved == IF Rejected(s, pm.time) THEN kept ELSE kept \cup {s}
           entry(m) == IF m = s /\ ~Rejected(s, pm.time)
                       THEN [time |-> pm.time, est |-> pm.est, since |-> WithNew(s, pm.time)[s].since]
                       ELSE matched[m]
<1>1. matched' = [m \in saved |-> entry(m)]
  BY DEF MovePotentialMatchToMatch
<1>2. Matched \subseteq Stops /\ \A m \in Matched : matched[m] \in Match
  BY DEF TypeOK
<1>3. saved \subseteq Matched \cup {s}
  OBVIOUS
<1>4. pm.time \in Int /\ pm.est \in BOOLEAN
  BY DEF Potential
<1>5. WithNew(s, pm.time)[s].since \in Nat
  <2>1. WithNew(s, pm.time)[s].since = IF s \in Matched THEN matched[s].since ELSE tick
    BY DEF WithNew
  <2> QED
    BY <2>1, <1>2 DEF Match, TypeOK
<1>6. \A m \in saved : entry(m) \in Match
  <2> SUFFICES ASSUME NEW m \in saved PROVE entry(m) \in Match
    OBVIOUS
  <2>1. CASE m = s /\ ~Rejected(s, pm.time)
    BY <2>1, <1>4, <1>5 DEF Match
  <2>2. CASE ~(m = s /\ ~Rejected(s, pm.time))
    BY <2>2, <1>2, <1>3
  <2> QED
    BY <2>1, <2>2
<1>7. toDelete' \subseteq Stops /\ tick' \in Nat
  BY DEF MovePotentialMatchToMatch, TypeOK
<1>8. newMatches' \subseteq DbMatch
  BY <1>4 DEF MovePotentialMatchToMatch, TypeOK, DbMatch
<1>9. badMatches' \subseteq Stops
  BY <1>2, EvictedMatched DEF MovePotentialMatchToMatch, TypeOK, Wiped
<1> HIDE DEF saved, entry
<1> QED
  BY <1>1, <1>2, <1>3, <1>6, <1>7, <1>8, <1>9

(* A step of the loop: the stop visited is a potential match, and what the *)
(* loop writes to the potential matches are potential matches.             *)
LEMMA IterateType ==
    ASSUME TypeOK, NEW s \in Stops, Iterate(s)
    PROVE  TypeOK'
<1>1. s \in Potentials /\ potential[s] \in Potential /\ s \in todo /\ pc = "matching"
  <2>1. Visit(s)
    BY DEF Iterate, StopNotInRoute, StillInZone, FinalStopReached, NotYetLeft, StopLeft, StopMissing
  <2> QED
    BY <2>1 DEF Visit, TypeOK
<1>2. lastAvl \in Avls
  BY <1>1 DEF TypeOK
<1>3. Distance[lastAvl.point][s] \in Nat /\ lastAvl.time \in Int
  BY <1>2, GeometryAssumption, TimesAssumption DEF Avls
<1>4. Dropped(SameTime(s), s) \subseteq Stops /\ Selected(SameTime(s)) \subseteq Stops
  BY DroppedPotential, SelectedPotential DEF TypeOK
<1>5. CASE StopNotInRoute(s)
  BY <1>5 DEF StopNotInRoute, TypeOK
<1>6. CASE StillInZone(s)
  <2>1. potential' \in [Potentials -> Potential] /\ DOMAIN potential' = Potentials
    BY <1>1, <1>3, <1>6 DEF StillInZone, Potential, TypeOK
  <2> QED
    BY <2>1, <1>6 DEF StillInZone, TypeOK
<1>7. CASE NotYetLeft(s)
  <2>1. potential' \in [Potentials -> Potential] /\ DOMAIN potential' = Potentials
    BY <1>1, <1>3, <1>7 DEF NotYetLeft, Potential, TypeOK
  <2> QED
    BY <2>1, <1>7 DEF NotYetLeft, TypeOK
<1>8. CASE FinalStopReached(s)
  <2>1. CASE MovePotentialMatchToMatch(s, potential[s], {})
    <3>1. /\ DOMAIN matched' \subseteq Stops /\ matched' \in [DOMAIN matched' -> Match]
          /\ toDelete' \subseteq Stops /\ newMatches' \subseteq DbMatch
          /\ badMatches' \subseteq Stops /\ tick' \in Nat
      BY <1>1, <2>1, MoveType
    <3> QED
      BY <3>1, <1>8 DEF FinalStopReached, TypeOK
  <2>2. CASE UNCHANGED <<matched, toDelete, newMatches, badMatches, tick>>
    BY <2>2, <1>8 DEF FinalStopReached, TypeOK
  <2> QED
    BY <1>8, <2>1, <2>2 DEF FinalStopReached
<1>9. CASE StopLeft(s)
  <2>1. ASSUME NEW c \in Selected(SameTime(s)),
               MovePotentialMatchToMatch(c, potential[s], Dropped(SameTime(s), s))
        PROVE  TypeOK'
    <3>1. /\ DOMAIN matched' \subseteq Stops /\ matched' \in [DOMAIN matched' -> Match]
          /\ toDelete' \subseteq Stops /\ newMatches' \subseteq DbMatch
          /\ badMatches' \subseteq Stops /\ tick' \in Nat
      BY <1>1, <1>4, <2>1, MoveType
    <3> QED
      BY <3>1, <1>9 DEF StopLeft, TypeOK
  <2>2. CASE UNCHANGED <<matched, toDelete, newMatches, badMatches, tick>>
    BY <2>2, <1>9 DEF StopLeft, TypeOK
  <2> QED
    BY <1>9, <2>1, <2>2 DEF StopLeft
<1>10. CASE StopMissing(s)
  BY <1>10 DEF StopMissing, TypeOK
<1> QED
  BY <1>5, <1>6, <1>7, <1>8, <1>9, <1>10 DEF Iterate

(* Every step of the matcher keeps the types. *)
LEMMA StepKeepsTypes ==
    ASSUME TypeOK, MatcherStep \/ UNCHANGED vars
    PROVE  TypeOK'
<1>1. ASSUME NEW a \in Avls, SkipRepeatedAvl(a)
      PROVE  TypeOK'
  BY <1>1 DEF SkipRepeatedAvl, TypeOK
<1>2. ASSUME NEW a \in Avls, ReceiveAvl(a)
      PROVE  TypeOK'
  <2>1. /\ DOMAIN potential' \subseteq Stops
        /\ potential' \in [DOMAIN potential' -> Potential]
    BY <1>2, FindPotentialMatchesType DEF ReceiveAvl
  <2>2. AfterFirstStop(a) \subseteq Matched
    BY DEF AfterFirstStop
  <2>3. /\ DOMAIN matched' \subseteq Stops
        /\ matched' \in [DOMAIN matched' -> Match]
    BY <1>2, <2>2 DEF ReceiveAvl, TypeOK
  <2>4. a # NoAvl
    BY TimesAssumption
  <2> QED
    BY <1>2, <2>1, <2>3, <2>4 DEF ReceiveAvl, TypeOK
<1>3. ASSUME NEW s \in Stops, Iterate(s)
      PROVE  TypeOK'
  BY <1>3, IterateType
<1>4. CASE FinishAvl
  <2>1. /\ DOMAIN potential' \subseteq Stops
        /\ potential' \in [DOMAIN potential' -> Potential]
    BY <1>4 DEF FinishAvl, TypeOK
  <2> QED
    BY <1>4, <2>1 DEF FinishAvl, TypeOK
<1>5. ASSUME NEW n \in RouteLengths, RefreshTimetable(n)
      PROVE  TypeOK'
  BY <1>5 DEF RefreshTimetable, TypeOK
<1>6. CASE UNCHANGED vars
  BY <1>6 DEF vars, TypeOK
<1> QED
  BY <1>1, <1>2, <1>3, <1>4, <1>5, <1>6 DEF MatcherStep

(* Every variable of the matcher keeps its type, for every road, timetable  *)
(* and choice of the limits.                                                *)
THEOREM TypeCorrect == Spec => []TypeOK
<1>1. Init => TypeOK
  BY DEF Init, TypeOK
<1>2. TypeOK /\ [Next]_vars => TypeOK'
  BY NextIsMatcherStep, StepKeepsTypes
<1> QED
  BY <1>1, <1>2, PTL DEF Spec

-----------------------------------------------------------------------------
(* The bound on the saved matches. *)

(* Moving a stop into a full history that does not have it evicts a match:  *)
(* if the stop is above all matches and is accepted it is the latest, so    *)
(* the lowest goes; otherwise it is below one match and, being accepted,    *)
(* above another, so it has overtaken one, and the lowest or highest goes.  *)
LEMMA FullHistoryEvicts ==
    ASSUME TypeOK, NEW s \in Stops, NEW t, s \notin Matched, ~Rejected(s, t),
           Matched # {}, Cardinality(Matched) = SavedMatchesLimit
    PROVE  \E e \in Matched : e \in Evicted(s, t)
<1>1. Matched \subseteq Stops /\ Matched \subseteq Nat
  BY DEF TypeOK, Stops
<1>2. PICK l \in Matched : l \in LowestMatched
  BY <1>1, LowestExists DEF LowestMatched
<1>3. PICK h \in Matched : h \in HighestMatched
  BY <1>1, HighestExists DEF HighestMatched
<1>4. CASE AboveAll(s)
  <2>1. IsLatest(s, WithNew(s, t))
    BY <1>4 DEF Rejected
  <2>2. Evicted(s, t) = LowestMatched
    BY <1>4, <2>1 DEF Evicted
  <2> QED
    BY <1>2, <2>2
<1>5. CASE ~AboveAll(s)
  <2>1. \E m \in Matched : s < m
    BY <1>1, <1>5 DEF AboveAll, Stops
  <2>2. \E m \in Matched : m < s
    BY <1>1 DEF Rejected, Stops
  <2>3. Overtaken(s)
    BY <2>1, <2>2 DEF Overtaken
  <2>4. Evicted(s, t) = LowestMatched \/ Evicted(s, t) = HighestMatched
    BY <1>5, <2>3 DEF Evicted
  <2> QED
    BY <1>2, <1>3, <2>4
<1> QED
  BY <1>4, <1>5

LEMMA MoveBounded ==
    ASSUME TypeOK, SavedMatchesBounded, NEW s \in Stops, NEW pm, NEW dropped,
           MovePotentialMatchToMatch(s, pm, dropped)
    PROVE  SavedMatchesBounded'
<1> DEFINE saved == DOMAIN matched'
           t == pm.time
<1>1. saved = IF Rejected(s, t) THEN Matched \ Evicted(s, t)
                                ELSE (Matched \ Evicted(s, t)) \cup {s}
  BY DEF MovePotentialMatchToMatch
<1>2. IsFiniteSet(Matched) /\ Cardinality(Matched) \in Nat
  BY StopSetsFinite DEF TypeOK
<1>3. Cardinality(Matched) <= SavedMatchesLimit /\ SavedMatchesLimit \in Nat \ {0}
  BY LimitsAssumption DEF SavedMatchesBounded
<1>4. IsFiniteSet(saved) /\ Cardinality(saved) \in Nat
  <2>1. saved \subseteq Stops
    BY <1>1 DEF TypeOK
  <2> QED
    BY <2>1, StopSetsFinite
<1> SUFFICES Cardinality(saved) <= SavedMatchesLimit
  BY DEF SavedMatchesBounded
<1> HIDE DEF saved
<1>5. CASE saved \subseteq Matched
  <2>1. Cardinality(saved) <= Cardinality(Matched)
    BY <1>2, <1>5, FS_Subset
  <2> QED
    BY <2>1, <1>2, <1>3, <1>4
<1>6. CASE ~Rejected(s, t) /\ s \notin Matched /\ Cardinality(Matched) < SavedMatchesLimit
  <2>1. IsFiniteSet(Matched \cup {s}) /\ Cardinality(Matched \cup {s}) = Cardinality(Matched) + 1
    BY <1>2, <1>6, FS_AddElement
  <2>2. saved \subseteq Matched \cup {s}
    BY <1>1
  <2>3. Cardinality(saved) <= Cardinality(Matched \cup {s})
    BY <2>1, <2>2, FS_Subset
  <2> QED
    BY <2>1, <2>3, <1>2, <1>3, <1>4, <1>6
<1>7. CASE ~Rejected(s, t) /\ s \notin Matched /\ Cardinality(Matched) = SavedMatchesLimit
  <2>1. Matched # {}
    BY <1>3, <1>7, FS_EmptySet
  <2>2. PICK e \in Matched : e \in Evicted(s, t)
    BY <1>7, <2>1, FullHistoryEvicts
  <2>3. IsFiniteSet(Matched \ {e}) /\ Cardinality(Matched \ {e}) = Cardinality(Matched) - 1
    BY <1>2, FS_RemoveElement
  <2>4. /\ IsFiniteSet((Matched \ {e}) \cup {s})
        /\ Cardinality((Matched \ {e}) \cup {s}) = Cardinality(Matched)
    <3>1. s \notin Matched \ {e}
      BY <1>7
    <3>2. Cardinality((Matched \ {e}) \cup {s}) = Cardinality(Matched \ {e}) + 1
      BY <2>3, <3>1, FS_AddElement
    <3> QED
      BY <1>2, <2>3, <3>2, FS_AddElement
  <2>5. saved \subseteq (Matched \ {e}) \cup {s}
    BY <1>1, <2>2
  <2>6. Cardinality(saved) <= Cardinality((Matched \ {e}) \cup {s})
    BY <2>4, <2>5, FS_Subset
  <2> QED
    BY <2>4, <2>6, <1>7
<1>8. saved \subseteq Matched \/ (~Rejected(s, t) /\ s \notin Matched)
  BY <1>1
<1> QED
  BY <1>2, <1>3, <1>5, <1>6, <1>7, <1>8

(* Every step of the matcher keeps the bound on the saved matches. *)
LEMMA StepKeepsBound ==
    ASSUME TypeOK, SavedMatchesBounded, MatcherStep \/ UNCHANGED vars
    PROVE  SavedMatchesBounded'
<1>1. CASE UNCHANGED matched
  BY <1>1 DEF SavedMatchesBounded
<1>2. ASSUME NEW a \in Avls, ReceiveAvl(a)
      PROVE  SavedMatchesBounded'
  <2>1. DOMAIN matched' \subseteq Matched
    BY <1>2 DEF ReceiveAvl, AfterFirstStop
  <2>2. IsFiniteSet(Matched) /\ Cardinality(Matched) \in Nat
    BY StopSetsFinite DEF TypeOK
  <2>3. Cardinality(DOMAIN matched') <= Cardinality(Matched)
    BY <2>1, <2>2, FS_Subset
  <2>4. Cardinality(DOMAIN matched') \in Nat
    BY <2>1, <2>2, FS_Subset, FS_CardinalityType
  <2> QED
    BY <2>2, <2>3, <2>4, LimitsAssumption DEF SavedMatchesBounded
<1>3. ASSUME NEW s \in Stops, FinalStopReached(s)
      PROVE  SavedMatchesBounded'
  <2>1. CASE MovePotentialMatchToMatch(s, potential[s], {})
    BY <2>1, MoveBounded
  <2> QED
    BY <1>1, <1>3, <2>1 DEF FinalStopReached
<1>4. ASSUME NEW s \in Stops, StopLeft(s)
      PROVE  SavedMatchesBounded'
  <2>1. ASSUME NEW c \in Selected(SameTime(s)),
               MovePotentialMatchToMatch(c, potential[s], Dropped(SameTime(s), s))
        PROVE  SavedMatchesBounded'
    <3>1. c \in Stops
      BY SelectedPotential DEF TypeOK
    <3> QED
      BY <2>1, <3>1, MoveBounded
  <2> QED
    BY <1>1, <1>4, <2>1 DEF StopLeft
<1>5. ASSUME NEW s \in Stops, Iterate(s)
      PROVE  SavedMatchesBounded'
  BY <1>1, <1>3, <1>4, <1>5 DEF Iterate, StopNotInRoute, StillInZone, NotYetLeft, StopMissing
<1> QED
  BY <1>1, <1>2, <1>5 DEF MatcherStep, SkipRepeatedAvl, FinishAvl, RefreshTimetable, vars

(* Each rule of move_potential_match_to_match drops a match of a full       *)
(* history whenever it adds a stop, so the history never outgrows           *)
(* SAVED_MATCHES_LIMIT, in whatever order the positions arrive.             *)
THEOREM MatchesStayBounded == Spec => []SavedMatchesBounded
<1>1. Init => SavedMatchesBounded
  BY FS_EmptySet, LimitsAssumption DEF Init, SavedMatchesBounded
<1>2. TypeOK /\ SavedMatchesBounded /\ [Next]_vars => SavedMatchesBounded'
  BY NextIsMatcherStep, StepKeepsBound
<1> QED
  BY <1>1, <1>2, TypeCorrect, PTL DEF Spec

-----------------------------------------------------------------------------
(* What the loop decides, and what it leaves alone. *)

LEMMA LoopKeepsPotentials ==
    ASSUME TypeOK, NEW s \in Stops, Iterate(s)
    PROVE  /\ DOMAIN potential' = Potentials
           /\ \A p \in Potentials : potential'[p].est = potential[p].est
<1>1. Potentials \subseteq Stops /\ \A p \in Potentials : potential[p] \in Potential
  BY DEF TypeOK
<1>2. potential = [p \in Potentials |-> potential[p]]
  BY DEF TypeOK
<1>3. CASE StillInZone(s)
  BY <1>1, <1>2, <1>3 DEF StillInZone, Potential
<1>4. CASE NotYetLeft(s)
  BY <1>1, <1>2, <1>4 DEF NotYetLeft, Potential
<1>5. CASE UNCHANGED potential
  BY <1>5
<1> QED
  BY <1>3, <1>4, <1>5 DEF Iterate, StopNotInRoute, FinalStopReached, StopLeft, StopMissing

(* Every step of the matcher decides potential matches only. *)
LEMMA StepDropsPotentials ==
    ASSUME TypeOK, DroppedArePotential, MatcherStep \/ UNCHANGED vars
    PROVE  DroppedArePotential'
<1>1. CASE toDelete' = {}
  BY <1>1 DEF DroppedArePotential
<1>2. CASE UNCHANGED <<potential, toDelete>>
  BY <1>2 DEF DroppedArePotential
<1>3. ASSUME NEW s \in Stops, Iterate(s)
      PROVE  DroppedArePotential'
  <2>1. DOMAIN potential' = Potentials
    BY <1>3, LoopKeepsPotentials
  <2>2. ASSUME NEW c \in Potentials, NEW pm, NEW dropped, dropped \subseteq Potentials,
               MovePotentialMatchToMatch(c, pm, dropped)
        PROVE  toDelete' \subseteq Potentials
    BY <2>2 DEF MovePotentialMatchToMatch, DroppedArePotential
  <2>3. CASE UNCHANGED toDelete
    BY <2>1, <2>3 DEF DroppedArePotential
  <2>4. CASE FinalStopReached(s)
    <3>1. s \in Potentials
      BY <2>4 DEF FinalStopReached, Visit, TypeOK
    <3>2. CASE MovePotentialMatchToMatch(s, potential[s], {})
      <4>1. toDelete' \subseteq Potentials
        BY <2>2, <3>1, <3>2
      <4> QED
        BY <2>1, <4>1 DEF DroppedArePotential
    <3> QED
      BY <2>3, <2>4, <3>2 DEF FinalStopReached
  <2>5. CASE StopLeft(s)
    <3>1. ASSUME NEW c \in Selected(SameTime(s)),
                 MovePotentialMatchToMatch(c, potential[s], Dropped(SameTime(s), s))
          PROVE  DroppedArePotential'
      <4>1. c \in Potentials /\ Dropped(SameTime(s), s) \subseteq Potentials
        BY SelectedPotential, DroppedPotential
      <4>2. toDelete' \subseteq Potentials
        BY <2>2, <3>1, <4>1
      <4> QED
        BY <2>1, <4>2 DEF DroppedArePotential
    <3> QED
      BY <2>3, <2>5, <3>1 DEF StopLeft
  <2> QED
    BY <1>3, <2>3, <2>4, <2>5 DEF Iterate, StopNotInRoute, StillInZone, NotYetLeft, StopMissing
<1> QED
  BY <1>1, <1>2, <1>3 DEF MatcherStep, SkipRepeatedAvl, ReceiveAvl, FinishAvl, RefreshTimetable, vars

(* The loop decides only potential matches, and none of them is removed     *)
(* before remove_matched_stops does: its `del` finds every one of them, on  *)
(* every route and whatever the positions.                                  *)
THEOREM DecidedArePotential == Spec => []DroppedArePotential
<1>1. Init => DroppedArePotential
  BY DEF Init, DroppedArePotential
<1>2. TypeOK /\ DroppedArePotential /\ [Next]_vars => DroppedArePotential'
  BY NextIsMatcherStep, StepDropsPotentials
<1> QED
  BY <1>1, <1>2, TypeCorrect, PTL DEF Spec

(* Once the vehicle was seen in the zone of a stop, no later pair of        *)
(* positions turns the potential match into an estimate.                    *)
THEOREM EvidenceStays == Spec => EvidenceNotDowngraded
<1> DEFINE Keeps == \A s \in Potentials :
               (s \in DOMAIN potential' /\ ~potential[s].est) => ~potential'[s].est
<1>1. TypeOK /\ [Next]_vars => [Keeps]_vars
  <2> SUFFICES ASSUME TypeOK, Next
               PROVE  Keeps
    OBVIOUS
  <2>1. CASE UNCHANGED potential
    BY <2>1
  <2>2. ASSUME NEW a \in Avls, ReceiveAvl(a)
        PROVE  Keeps
    <3> DEFINE fresh == Evidenced(a, AfterFirstStop(a)) \cup (IF FirstStopRevisited(a) THEN {1} ELSE {})
               estimated == Estimated(a, AfterFirstStop(a), Potentials \cup fresh)
               evidenced(s) == [CreatePotentialMatch(a, s) EXCEPT
                                !.since = IF s \in Potentials THEN potential[s].since ELSE tick]
    <3>1. potential' = [s \in Potentials \cup fresh \cup estimated |->
               IF s \in fresh THEN evidenced(s)
               ELSE IF s \in estimated THEN EstimatedMatch(a, s) ELSE potential[s]]
      BY <2>2, Zenon DEF ReceiveAvl, FindPotentialMatches
    <3>2. \A s \in Potentials : s \notin estimated
      BY DEF Estimated
    <3>3. \A s \in fresh : ~evidenced(s).est
      BY DEF CreatePotentialMatch
    <3> HIDE DEF fresh, estimated, evidenced
    <3> QED
      BY <3>1, <3>2, <3>3
  <2>3. ASSUME NEW s \in Stops, Iterate(s)
        PROVE  Keeps
    BY <2>3, LoopKeepsPotentials
  <2>4. CASE FinishAvl
    BY <2>4 DEF FinishAvl
  <2> QED
    BY <2>1, <2>2, <2>3, <2>4 DEF Next, SkipRepeatedAvl, RefreshTimetable
<1> QED
  BY <1>1, TypeCorrect, PTL DEF Spec, EvidenceNotDowngraded
-----------------------------------------------------------------------------
(* The final stop among the saved matches. *)

LongRoute == orderly /\ final > ShortJourney

TwoMatched == \E l, h \in Matched : l < h

(* What is saved or considered is a stop of the route, ... *)
StopsOfRoute == orderly => Potentials \subseteq 1 .. final /\ Matched \subseteq 1 .. final

(* ... a saved final stop is never the lowest match, nor is that the first  *)
(* stop, which check_update_first_stop may take away, ...                   *)
FinalHasBefore == LongRoute /\ final \in Matched => \E m \in Matched : 1 < m /\ m < final

(* ... since the final stop is considered only next to two saved matches,   *)
(* while the vehicle is in its zone, and is decided by the same AVL.        *)
FinalIsVisited == LongRoute /\ final \in Potentials =>
    /\ pc = "matching" /\ TwoMatched
    /\ final \in todo => InZone(lastAvl, final)
    /\ final \notin todo \/ final \in Matched => final \in toDelete

FinalInv == StopsOfRoute /\ FinalHasBefore /\ FinalIsVisited

LEMMA TwoHaveOrder ==
    ASSUME NEW M, M \subseteq Stops, ~(Cardinality(M) <= 1)
    PROVE  \E l, h \in M : l < h
<1>1. IsFiniteSet(M) /\ Cardinality(M) \in Nat
  BY StopSetsFinite
<1>2. PICK a \in M : TRUE
  BY FS_EmptySet
<1>3. M # {a}
  <2>1. Cardinality({a}) = 1
    BY FS_Singleton
  <2> QED
    BY <2>1
<1>4. PICK b \in M : b # a
  BY <1>2, <1>3
<1>5. a < b \/ b < a
  BY <1>4 DEF Stops
<1> QED
  BY <1>4, <1>5

LEMMA TwoAreNotOne ==
    ASSUME Matched \subseteq Stops, TwoMatched
    PROVE  Matched # {} /\ ~(Cardinality(Matched) = 1)
<1>1. PICK l, h \in Matched : l < h
  BY DEF TwoMatched
<1>2. l # h
  BY <1>1 DEF Stops
<1>3. ASSUME NEW x, Matched = {x}
      PROVE  FALSE
  <2>1. l = x /\ h = x
    BY <1>1, <1>3
  <2> QED
    BY <1>2, <2>1
<1> QED
  BY <1>1, <1>3, StopSetsFinite, FS_Singleton

(* The eviction rules next to two saved matches: the lowest gives way to a  *)
(* stop above all, or above it when the final stop is the latest; otherwise *)
(* the highest does, and its row is wiped.                                  *)
LEMMA EvictionRules ==
    ASSUME TypeOK, TwoMatched, NEW s \in Stops, NEW t
    PROVE  \/ Evicted(s, t) = {}
           \/ ~Rejected(s, t) /\ Evicted(s, t) = LowestMatched /\ AboveAll(s)
           \/ /\ ~Rejected(s, t) /\ Evicted(s, t) = LowestMatched
              /\ \E l, h \in Matched : l < s /\ s < h
           \/ /\ ~Rejected(s, t) /\ Evicted(s, t) = HighestMatched
              /\ \E l, h \in Matched : l < s /\ s < h
              /\ Wiped(s, t) = Evicted(s, t) \cap 1 .. final
<1> DEFINE latest == {m \in Matched \cup {s} : IsLatest(m, WithNew(s, t))}
<1>1. Matched \subseteq Stops
  BY DEF TypeOK
<1>2. Matched # {} /\ ~(Cardinality(Matched) = 1)
  BY <1>1, TwoAreNotOne
<1>3. CASE AboveAll(s)
  <2>1. ~Overtaken(s)
    BY <1>1, <1>3 DEF AboveAll, Overtaken, Stops
  <2>2. Evicted(s, t) = {} \/ (s \in latest /\ Evicted(s, t) = LowestMatched)
    BY <2>1 DEF Evicted
  <2>3. ~\A m \in Matched : s <= m
    BY <1>1, <1>2, <1>3 DEF AboveAll, Stops
  <2>4. s \in latest => ~Rejected(s, t)
    BY <2>3 DEF Rejected
  <2> QED
    BY <1>3, <2>2, <2>4
<1>4. CASE ~AboveAll(s) /\ ~Overtaken(s)
  BY <1>4 DEF Evicted
<1>5. CASE ~AboveAll(s) /\ Overtaken(s)
  <2>1. \E l, h \in Matched : l < s /\ s < h
    BY <1>2, <1>5 DEF Overtaken
  <2>2. ~\A m \in Matched : s <= m
    BY <1>1, <2>1 DEF Stops
  <2>3. ~Rejected(s, t)
    BY <1>5, <2>2 DEF Rejected
  <2>4. CASE final \in latest
    BY <1>2, <1>5, <2>1, <2>3, <2>4 DEF Evicted
  <2>5. CASE final \notin latest
    <3>1. Evicted(s, t) = HighestMatched
      BY <1>2, <1>5, <2>5 DEF Evicted
    <3>2. ~IsLatest(final, WithNew(s, t))
      BY <2>5 DEF IsLatest, WithNew
    <3> QED
      BY <1>5, <2>1, <2>3, <3>1, <3>2 DEF Wiped
  <2> QED
    BY <2>4, <2>5
<1> QED
  BY <1>3, <1>4, <1>5

(* The history after a move, the two matches it needs not being lost. *)
LEMMA MoveHistory ==
    ASSUME NEW s, NEW pm, NEW dropped, MovePotentialMatchToMatch(s, pm, dropped)
    PROVE  /\ DOMAIN matched' = IF Rejected(s, pm.time) THEN Matched \ Evicted(s, pm.time)
                                ELSE (Matched \ Evicted(s, pm.time)) \cup {s}
           /\ Wiped(s, pm.time) \subseteq badMatches'
BY DEF MovePotentialMatchToMatch

LEMMA MoveKeepsTwo ==
    ASSUME TypeOK, TwoMatched, NEW s \in Stops, NEW pm, NEW dropped,
           MovePotentialMatchToMatch(s, pm, dropped)
    PROVE  TwoMatched'
<1> DEFINE t == pm.time
<1>1. Matched \subseteq Stops
  BY DEF TypeOK
<1>2. DOMAIN matched' = IF Rejected(s, t) THEN Matched \ Evicted(s, t)
                        ELSE (Matched \ Evicted(s, t)) \cup {s}
  BY MoveHistory
<1>3. PICK l, h \in Matched : l < h
  BY DEF TwoMatched
<1> HIDE DEF t
<1>4. CASE Evicted(s, t) = {}
  BY <1>2, <1>3, <1>4 DEF TwoMatched
<1>5. CASE ~Rejected(s, t) /\ Evicted(s, t) = LowestMatched /\ AboveAll(s)
  <2>1. h \notin LowestMatched /\ h < s
    BY <1>1, <1>3, <1>5 DEF LowestMatched, AboveAll, Stops
  <2> QED
    BY <1>2, <1>5, <2>1 DEF TwoMatched
<1>6. ASSUME NEW i \in Matched, NEW j \in Matched, i < s, s < j, ~Rejected(s, t),
             Evicted(s, t) = LowestMatched
      PROVE  TwoMatched'
  <2>1. j \notin LowestMatched
    BY <1>1, <1>6 DEF LowestMatched, Stops
  <2> QED
    BY <1>2, <1>6, <2>1 DEF TwoMatched
<1>7. ASSUME NEW i \in Matched, NEW j \in Matched, i < s, s < j, ~Rejected(s, t),
             Evicted(s, t) = HighestMatched
      PROVE  TwoMatched'
  <2>1. i \notin HighestMatched
    BY <1>1, <1>7 DEF HighestMatched, Stops
  <2> QED
    BY <1>2, <1>7, <2>1 DEF TwoMatched
<1> QED
  BY <1>4, <1>5, <1>6, <1>7, EvictionRules DEF t

(* A saved final stop with a match before it, not the first, stays saved    *)
(* with such a match, or is wiped.                                          *)
LEMMA MoveKeepsFinal ==
    ASSUME TypeOK, Matched \subseteq 1 .. final, final \in Matched,
           NEW m \in Matched, 1 < m, m < final,
           NEW s \in 1 .. final, NEW pm, NEW dropped, MovePotentialMatchToMatch(s, pm, dropped)
    PROVE  IF final \in DOMAIN matched' THEN \E n \in DOMAIN matched' : 1 < n /\ n < final
                                        ELSE final \in badMatches'
<1> DEFINE t == pm.time
<1>1. final \in Nat /\ s \in Stops /\ Matched \subseteq Stops
  BY DEF TypeOK, Stops
<1>2. DOMAIN matched' = (IF Rejected(s, t) THEN Matched \ Evicted(s, t)
                        ELSE (Matched \ Evicted(s, t)) \cup {s}) /\ Wiped(s, t) \subseteq badMatches'
  BY MoveHistory
<1>3. TwoMatched
  BY DEF TwoMatched
<1> HIDE DEF t
<1>4. CASE Evicted(s, t) = {}
  BY <1>2, <1>4
<1>5. ~AboveAll(s)
  BY <1>1 DEF AboveAll, Stops
<1>6. ASSUME NEW i \in Matched, NEW j \in Matched, i < s, s < j, ~Rejected(s, t),
             Evicted(s, t) = LowestMatched
      PROVE  final \in DOMAIN matched' /\ \E n \in DOMAIN matched' : 1 < n /\ n < final
  <2>1. final \notin LowestMatched
    BY <1>1 DEF LowestMatched, Stops
  <2>2. 1 < s /\ s < final
    BY <1>1, <1>6 DEF Stops
  <2> QED
    BY <1>2, <1>6, <2>1, <2>2
<1>7. ASSUME NEW i \in Matched, NEW j \in Matched, i < s, s < j, ~Rejected(s, t),
             Evicted(s, t) = HighestMatched, Wiped(s, t) = Evicted(s, t) \cap 1 .. final
      PROVE  final \in badMatches'
  <2>1. final \in HighestMatched /\ final \in 1 .. final
    BY <1>1 DEF HighestMatched, Stops
  <2> QED
    BY <1>2, <1>7, <2>1
<1>8. CASE Evicted(s, t) = HighestMatched /\ final \in DOMAIN matched'
  <2>1. m \notin HighestMatched
    BY <1>1 DEF HighestMatched, Stops
  <2> QED
    BY <1>2, <1>8, <2>1
<1> QED
  BY <1>1, <1>3, <1>4, <1>5, <1>6, <1>7, <1>8, EvictionRules DEF t

(* A final stop that becomes a match does so above two others, of which the *)
(* higher one stays.                                                        *)
LEMMA MoveAddsFinal ==
    ASSUME TypeOK, Matched \subseteq 1 .. final, final \notin Matched, TwoMatched,
           NEW s \in 1 .. final, NEW pm, NEW dropped, MovePotentialMatchToMatch(s, pm, dropped),
           final \in DOMAIN matched'
    PROVE  \E n \in DOMAIN matched' : 1 < n /\ n < final
<1> DEFINE t == pm.time
<1>1. final \in Nat /\ s \in Stops /\ Matched \subseteq Stops
  BY DEF TypeOK, Stops
<1>2. DOMAIN matched' = IF Rejected(s, t) THEN Matched \ Evicted(s, t)
                        ELSE (Matched \ Evicted(s, t)) \cup {s}
  BY MoveHistory
<1>3. s = final
  BY <1>2
<1>4. PICK l, h \in Matched : l < h
  BY DEF TwoMatched
<1>5. 1 < h /\ h < final /\ h \notin LowestMatched
  BY <1>1, <1>4 DEF LowestMatched, Stops
<1> HIDE DEF t
<1>6. Evicted(s, t) = {} \/ Evicted(s, t) = LowestMatched
  <2>1. ~\E j \in Matched : s < j
    BY <1>1, <1>3 DEF Stops
  <2> QED
    BY <1>1, <2>1, EvictionRules DEF t
<1>7. h \in DOMAIN matched'
  BY <1>2, <1>5, <1>6
<1> QED
  BY <1>5, <1>7

(* While the route keeps its length, a stop selected is one of the route.   *)
LEMMA NothingIsMissing ==
    ASSUME TypeOK, FinalInv, orderly, NEW s \in Stops
    PROVE  ~StopMissing(s)
<1>1. Selected(SameTime(s)) \subseteq 1 .. final /\ final \in Stops
  BY SelectedPotential DEF FinalInv, StopsOfRoute, TypeOK
<1> QED
  BY <1>1 DEF StopMissing, Stops

(* An iteration of the loop leaves the history alone or moves a potential   *)
(* match into it.                                                           *)
LEMMA IterationMoves ==
    ASSUME TypeOK, NEW s \in Stops, Iterate(s), ~StopMissing(s)
    PROVE  /\ s \in todo /\ pc = "matching" /\ UNCHANGED <<final, lastAvl, pc>>
           /\ DOMAIN potential' = Potentials
           /\ todo' = todo \ {s} \/ s > final
           /\ todo' \subseteq todo
           /\ \/ UNCHANGED <<matched, toDelete, badMatches>>
              \/ \E c \in Potentials : \E pm, dropped : MovePotentialMatchToMatch(c, pm, dropped)
<1>1. DOMAIN potential' = Potentials
  BY LoopKeepsPotentials
<1>2. /\ s \in todo /\ pc = "matching" /\ UNCHANGED <<final, lastAvl, pc>>
      /\ todo' = todo \ {s} \/ (s > final /\ todo' = {})
  BY DEF Iterate, StopNotInRoute, StillInZone, FinalStopReached, NotYetLeft, StopLeft, Visit
<1>3. s \in Potentials
  BY <1>2 DEF TypeOK
<1>4. CASE UNCHANGED <<matched, toDelete, badMatches>>
  BY <1>1, <1>2, <1>4
<1>5. CASE FinalStopReached(s) /\ MovePotentialMatchToMatch(s, potential[s], {})
  BY <1>1, <1>2, <1>3, <1>5
<1>6. CASE StopLeft(s) /\ ~UNCHANGED <<matched, toDelete, badMatches>>
  <2>1. PICK c \in Selected(SameTime(s)) :
            MovePotentialMatchToMatch(c, potential[s], Dropped(SameTime(s), s))
    BY <1>6 DEF StopLeft
  <2>2. c \in Potentials
    BY SelectedPotential
  <2> QED
    BY <1>1, <1>2, <2>1, <2>2
<1> QED
  BY <1>4, <1>5, <1>6 DEF Iterate, StopNotInRoute, StillInZone, FinalStopReached, NotYetLeft, StopLeft

(* The iteration for a final stop that is in the zone of the AVL and is no  *)
(* match yet moves it.                                                      *)
LEMMA FinalIsDecided ==
    ASSUME TypeOK, final \in Stops, Iterate(final), InZone(lastAvl, final), Matched # {},
           final \in Matched => final \in toDelete
    PROVE  final \in toDelete'
<1>1. FinalStopReached(final)
  BY DEF Iterate, StopNotInRoute, StillInZone, NotYetLeft, StopLeft, StopMissing, Stops
<1>2. CASE final \in Matched
  BY <1>1, <1>2 DEF FinalStopReached
<1>3. CASE final \notin Matched
  <2>1. MovePotentialMatchToMatch(final, potential[final], {})
    BY <1>1, <1>3 DEF FinalStopReached
  <2> QED
    BY <2>1 DEF MovePotentialMatchToMatch
<1> QED
  BY <1>2, <1>3

LEMMA IterateKeepsFinal ==
    ASSUME TypeOK, FinalInv, NEW s \in Stops, Iterate(s), UNCHANGED evidence
    PROVE  FinalInv'
<1>1. CASE ~orderly
  BY <1>1 DEF evidence, FinalInv, StopsOfRoute, FinalHasBefore, FinalIsVisited, LongRoute
<1>2. CASE orderly
  <2>1. /\ s \in todo /\ pc = "matching" /\ UNCHANGED <<final, lastAvl, pc, orderly>>
        /\ DOMAIN potential' = Potentials
        /\ todo' = todo \ {s} \/ s > final
        /\ todo' \subseteq todo
    BY <1>2, IterationMoves, NothingIsMissing DEF evidence
  <2>2. Potentials \subseteq 1 .. final /\ Matched \subseteq 1 .. final /\ final \in Stops
    BY <1>2 DEF FinalInv, StopsOfRoute, TypeOK
  <2>3. s \in 1 .. final /\ todo' = todo \ {s}
    BY <2>1, <2>2 DEF TypeOK, Stops
  <2>4. CASE UNCHANGED <<matched, toDelete, badMatches>>
    <3>1. StopsOfRoute' /\ FinalHasBefore'
      BY <2>1, <2>4 DEF FinalInv, StopsOfRoute, FinalHasBefore, LongRoute
    <3>2. ASSUME LongRoute, final \in Potentials, s = final
          PROVE  final \in toDelete
      <4>1. TwoMatched /\ InZone(lastAvl, final) /\ (final \in Matched => final \in toDelete)
        BY <2>1, <3>2 DEF FinalInv, FinalIsVisited
      <4>2. final \in toDelete'
        BY <2>2, <3>2, <4>1, FinalIsDecided DEF TwoMatched
      <4> QED
        BY <2>4, <4>2
    <3>3. FinalIsVisited'
      BY <2>1, <2>3, <2>4, <3>2 DEF FinalInv, FinalIsVisited, LongRoute, TwoMatched, InZone
    <3> QED
      BY <3>1, <3>3 DEF FinalInv
  <2>5. ASSUME NEW c \in Potentials, NEW pm, NEW dropped, MovePotentialMatchToMatch(c, pm, dropped)
        PROVE  FinalInv'
    <3>1. c \in Stops /\ c \in 1 .. final
      BY <2>2 DEF TypeOK
    <3>2. DOMAIN matched' \subseteq Matched \cup {c} /\ toDelete \subseteq toDelete' /\ c \in toDelete'
      BY <2>5 DEF MovePotentialMatchToMatch
    <3>3. StopsOfRoute'
      BY <2>1, <2>2, <3>1, <3>2 DEF StopsOfRoute
    <3>4. ASSUME LongRoute, final \in DOMAIN matched'
          PROVE  \E m \in DOMAIN matched' : 1 < m /\ m < final
      <4>1. CASE final \in Matched
        <5>1. PICK m \in Matched : 1 < m /\ m < final
          BY <3>4, <4>1 DEF FinalInv, FinalHasBefore
        <5> QED
          BY <2>2, <2>5, <3>1, <3>4, <4>1, <5>1, MoveKeepsFinal
      <4>2. CASE final \notin Matched
        <5>1. c = final
          BY <3>2, <3>4, <4>2
        <5>2. TwoMatched
          BY <3>4, <5>1 DEF FinalInv, FinalIsVisited
        <5> QED
          BY <2>2, <2>5, <3>1, <3>4, <4>2, <5>2, MoveAddsFinal
      <4> QED
        BY <4>1, <4>2
    <3>5. FinalHasBefore'
      BY <2>1, <3>4 DEF FinalHasBefore, LongRoute
    <3>6. ASSUME LongRoute, final \in Potentials
          PROVE  /\ TwoMatched'
                 /\ final \in todo' => InZone(lastAvl, final)
                 /\ final \notin todo' \/ final \in DOMAIN matched' => final \in toDelete'
      <4>1. /\ TwoMatched
            /\ final \in todo => InZone(lastAvl, final)
            /\ final \notin todo \/ final \in Matched => final \in toDelete
        BY <3>6 DEF FinalInv, FinalIsVisited
      <4>2. TwoMatched'
        BY <2>5, <3>1, <4>1, MoveKeepsTwo
      <4>3. s = final => final \in toDelete'
        BY <2>1, <2>2, <4>1, FinalIsDecided DEF TwoMatched
      <4> QED
        BY <2>3, <3>2, <4>1, <4>2, <4>3
    <3>7. FinalIsVisited'
      BY <2>1, <3>6 DEF FinalIsVisited, LongRoute, InZone
    <3> QED
      BY <3>3, <3>5, <3>7 DEF FinalInv
  <2> QED
    BY <1>2, <2>4, <2>5, IterationMoves, NothingIsMissing
<1> QED
  BY <1>1, <1>2

(* An AVL opens the final stop of a long route only in its zone and next to *)
(* two matches, and takes no match away but the first stop.                 *)
LEMMA ReceiveKeepsFinal ==
    ASSUME TypeOK, FinalInv, NEW a \in Avls, ReceiveAvl(a), orderly, UNCHANGED orderly
    PROVE  FinalInv'
<1> DEFINE M == AfterFirstStop(a)
           fresh == Evidenced(a, M) \cup (IF FirstStopRevisited(a) THEN {1} ELSE {})
           estimated == Estimated(a, M, Potentials \cup fresh)
<1>1. /\ DOMAIN matched' = M /\ DOMAIN potential' = Potentials \cup fresh \cup estimated
      /\ todo' = DOMAIN potential' /\ pc = "idle" /\ pc' = "matching"
      /\ lastAvl' = a /\ final' = final
  BY Zenon DEF ReceiveAvl, FindPotentialMatches
<1>2. final \in Stops /\ final \in Nat \ {0} /\ Matched \subseteq Stops
  BY DEF TypeOK, Stops
<1>3. M \subseteq Matched /\ \A m \in Matched : m # 1 => m \in M
  BY DEF AfterFirstStop
<1>4. fresh \cup estimated \subseteq 1 .. final
  <2>1. Considered(M) \subseteq 1 .. final /\ 1 \in 1 .. final
    BY <1>2 DEF Considered
  <2> QED
    BY <2>1 DEF Evidenced, Estimated
<1>5. StopsOfRoute'
  BY <1>1, <1>3, <1>4 DEF FinalInv, StopsOfRoute
<1>6. FinalHasBefore'
  <2>1. ASSUME LongRoute, final \in Matched
        PROVE  \E m \in M : 1 < m /\ m < final
    <3>1. PICK m \in Matched : 1 < m /\ m < final
      BY <2>1 DEF FinalInv, FinalHasBefore
    <3> QED
      BY <1>3, <3>1
  <2> QED
    BY <1>1, <1>3, <2>1 DEF FinalHasBefore, LongRoute
<1>7. ASSUME LongRoute, final \in fresh
      PROVE  InZone(a, final) /\ final \notin M /\ \E l, h \in M : l < h
  <2>1. ~FirstStopRevisited(a) \/ final # 1
    <3>1. FirstStopRevisited(a) => 1 \in Matched
      BY DEF FirstStopRevisited
    <3>2. final \in Matched => final # 1
      BY <1>2, <1>7 DEF FinalInv, FinalHasBefore, Stops
    <3> QED
      BY <3>1, <3>2
  <2>2. final \in Considered(M) /\ InZone(a, final)
    BY <1>7, <2>1 DEF Evidenced
  <2>3. final > (3 * final) \div 4
    BY <1>2
  <2>4. final \notin M /\ ~(Cardinality(M) <= 1)
    BY <1>7, <2>2, <2>3 DEF Considered, LongRoute
  <2>5. M \subseteq Stops
    BY <1>2, <1>3
  <2> HIDE DEF M
  <2> QED
    BY <2>2, <2>4, <2>5, TwoHaveOrder
<1>8. ASSUME LongRoute, final \in Potentials
      PROVE  FALSE
  BY <1>1, <1>8 DEF FinalInv, FinalIsVisited
<1>9. final \notin estimated
  BY DEF Estimated
<1> HIDE DEF M, fresh, estimated
<1>10. FinalIsVisited'
  BY <1>1, <1>7, <1>8, <1>9 DEF FinalIsVisited, LongRoute, TwoMatched, InZone
<1> QED
  BY <1>5, <1>6, <1>10 DEF FinalInv

LEMMA FinalStep ==
    ASSUME TypeOK, FinalInv, [EvidenceNext]_evidenceVars
    PROVE  FinalInv'
<1> USE DEF FinalInv, StopsOfRoute, FinalHasBefore, FinalIsVisited, LongRoute
<1>1. CASE ~orderly'
  BY <1>1
<1>2. ASSUME NEW a \in Avls, ObservedReceive(a), orderly'
      PROVE  FinalInv'
  <2>1. orderly /\ UNCHANGED orderly /\ ReceiveAvl(a)
    BY <1>2 DEF ObservedReceive, Disorder
  <2> QED
    BY <2>1, ReceiveKeepsFinal
<1>3. ASSUME NEW a \in Avls, SkipRepeatedAvl(a), UNCHANGED evidence
      PROVE  FinalInv'
  BY <1>3 DEF SkipRepeatedAvl, evidence, TwoMatched, InZone
<1>4. ASSUME NEW s \in Stops, Iterate(s), UNCHANGED evidence
      PROVE  FinalInv'
  BY <1>4, IterateKeepsFinal
<1>5. CASE FinishAvl /\ UNCHANGED evidence
  BY <1>5 DEF FinishAvl, evidence
<1>6. CASE UNCHANGED evidenceVars
  BY <1>6 DEF evidenceVars, evidence, vars, TwoMatched, InZone
<1> QED
  BY <1>1, <1>2, <1>3, <1>4, <1>5, <1>6 DEF EvidenceNext, Disorder

(* The observers take nothing from the matcher's steps and add none. *)
LEMMA EvidenceOnlyObserves == EvidenceSpec => Spec
<1>1. EvidenceInit => Init
  BY DEF EvidenceInit
<1>2. [EvidenceNext]_evidenceVars => [Next]_vars
  BY DEF EvidenceNext, ObservedReceive, Next, evidenceVars
<1> QED
  BY <1>1, <1>2, PTL DEF EvidenceSpec, Spec

LEMMA FinalInvariant == EvidenceSpec => [](TypeOK /\ FinalInv)
<1>1. EvidenceInit => FinalInv
  BY DEF EvidenceInit, Init, FinalInv, StopsOfRoute, FinalHasBefore, FinalIsVisited
<1> QED
  BY <1>1, FinalStep, EvidenceOnlyObserves, TypeCorrect, PTL DEF EvidenceSpec

(* route[stop_index] of the stop selected raises KeyError only after a      *)
(* newer extract changed the length of the route, or after a late AVL: as   *)
(* long as there was neither, the matcher finds every stop it selects.      *)
THEOREM OrderlyNeverRaises == EvidenceSpec => [](orderly => pc # "raised")
<1> DEFINE Fine == orderly => pc # "raised"
<1>1. EvidenceInit => Fine
  BY DEF EvidenceInit, Init
<1>2. TypeOK /\ FinalInv /\ Fine /\ [EvidenceNext]_evidenceVars => Fine'
  <2> SUFFICES ASSUME TypeOK, FinalInv, Fine, [EvidenceNext]_evidenceVars, orderly'
               PROVE  pc' # "raised"
    OBVIOUS
  <2>1. orderly
    BY DEF EvidenceNext, ObservedReceive, Disorder, evidence, evidenceVars
  <2>2. ASSUME NEW s \in Stops, Iterate(s) PROVE pc' # "raised"
    BY <2>1, <2>2, IterationMoves, NothingIsMissing
  <2> QED
    BY <2>1, <2>2 DEF EvidenceNext, ObservedReceive, ReceiveAvl, SkipRepeatedAvl, FinishAvl,
       RefreshTimetable, evidenceVars, vars
<1> QED
  BY <1>1, <1>2, FinalInvariant, PTL DEF EvidenceSpec

(* The final stop of a journey that is not short leaves the saved matches   *)
(* only with its row wiped: neither the withdrawal of the first stop nor    *)
(* the eviction of the lowest match ever forgets it silently, whatever the  *)
(* route, the positions and the number of matches saved.                    *)
THEOREM FinalStopStays == EvidenceSpec => FinalStopKept
<1> DEFINE Kept == (orderly /\ final > ShortJourney /\ final \in Matched /\ final \notin DOMAIN matched')
                       => (final \in badMatches')
<1>1. TypeOK /\ FinalInv /\ [EvidenceNext]_evidenceVars => [Kept]_evidenceVars
  <2> SUFFICES ASSUME TypeOK, FinalInv, EvidenceNext, LongRoute,
                      final \in Matched, final \notin DOMAIN matched'
               PROVE  final \in badMatches'
    BY DEF LongRoute
  <2>1. PICK m \in Matched : 1 < m /\ m < final
    BY DEF FinalInv, FinalHasBefore
  <2>2. ASSUME NEW a \in Avls, ReceiveAvl(a)
        PROVE  FALSE
    <3>1. DOMAIN matched' = AfterFirstStop(a) /\ final # 1
      BY <2>1, <2>2 DEF ReceiveAvl, TypeOK, Stops
    <3> QED
      BY <3>1 DEF AfterFirstStop
  <2>3. ASSUME NEW s \in Stops, Iterate(s)
        PROVE  final \in badMatches'
    <3>1. PICK c \in Potentials : \E pm, dropped : MovePotentialMatchToMatch(c, pm, dropped)
      BY <2>3, IterationMoves, NothingIsMissing DEF LongRoute
    <3>2. c \in 1 .. final /\ Matched \subseteq 1 .. final
      BY DEF FinalInv, StopsOfRoute, LongRoute
    <3> QED
      BY <2>1, <3>1, <3>2, MoveKeepsFinal
  <2> QED
    BY <2>2, <2>3 DEF EvidenceNext, ObservedReceive, SkipRepeatedAvl, FinishAvl, RefreshTimetable
<1> QED
  BY <1>1, FinalInvariant, PTL DEF EvidenceSpec, FinalStopKept
-----------------------------------------------------------------------------
(* What the history says and what the vehicle was seen doing.               *)

Visited(p) == p \notin todo
Here(p) == Distance[lastAvl.point][p]

(* The observers of a stop follow the last AVL. *)
Watched(p) ==
    /\ outside[p] = 0 <=> InZone(lastAvl, p)
    /\ InZone(lastAvl, p) => lastSeen[p] = lastAvl
    /\ ~InZone(lastAvl, p) /\ lastSeen[p] # NoAvl => lastSeen[p].time < lastAvl.time

(* Two stops last seen at the same AVL were left together. *)
LeftTogether(p, q) ==
    lastSeen[p] # NoAvl /\ lastSeen[q] # NoAvl /\ lastSeen[p].time = lastSeen[q].time
        => outside[p] = outside[q]

Observed ==
    /\ outside \in [Stops -> 0 .. 2]
    /\ lastSeen \in [Stops -> Avls \cup {NoAvl}]
    /\ lastAvl = NoAvl => Potentials = {} /\ \A p \in Stops : lastSeen[p] = NoAvl
    /\ lastAvl # NoAvl => \A p \in Stops : Watched(p)
    /\ \A p, q \in Stops : LeftTogether(p, q)

(* The time of a potential match is that of the last AVL in its zone, or an *)
(* estimate from an earlier pair of AVLs, ...                               *)
TimeBacked(p) ==
    /\ potential[p].iso => potential[p].est /\ potential[p].time <= lastAvl.time
    /\ ExitsAtBoundary /\ potential[p].iso /\ potential[p].dist > Radius =>
          potential[p].time < lastAvl.time
    /\ ~potential[p].iso /\ (Visited(p) \/ ~InZone(lastAvl, p)) =>
          lastSeen[p] # NoAvl /\ lastSeen[p].time = potential[p].time

(* ... its distance is not above the radius before the vehicle was outside; *)
(* what an AVL opens has the distance and the time of that AVL.             *)
DistanceBacked(p) ==
    /\ Visited(p) /\ InZone(lastAvl, p) => potential[p].dist <= Radius
    /\ pc = "matching" =>
        /\ ~Visited(p) /\ p \notin opened /\ potential[p].dist > Radius /\ ~InZone(lastAvl, p) =>
              outside[p] = 2
        /\ Visited(p) /\ InZone(lastAvl, p) /\ p # final => ~potential[p].iso
        /\ p \notin opened /\ potential[p].iso => potential[p].time < lastAvl.time
        /\ p \in opened /\ ~Visited(p) => potential[p].dist = Here(p)
        /\ p \in opened /\ ~potential[p].iso => potential[p].time = lastAvl.time

(* An estimate that may be confirmed is earlier than those of this AVL. *)
EstimatedBefore(p, q) ==
    ExitsAtBoundary /\ pc = "matching" /\ ~Visited(p) /\ p \notin opened /\ q \in opened
    /\ potential[p].iso /\ potential[q].iso /\ potential[p].dist > Radius
        => potential[p].time < potential[q].time

(* The final stop, which the loop does not bring up to date in its zone, is *)
(* considered anew at every AVL in its zone, unless it is a match.          *)
FinalBacked ==
    /\ final \in Potentials /\ final \in Matched => final \in toDelete
    /\ pc = "matching" /\ final \in Potentials /\ InZone(lastAvl, final) =>
          /\ potential[final].time = lastAvl.time /\ potential[final].dist = Here(final)
          /\ ~potential[final].est /\ ~potential[final].iso

BackedInv == orderly =>
    /\ Observed
    /\ pc = "idle" => todo = {} /\ toDelete = {}
    /\ \A p \in Potentials : TimeBacked(p) /\ DistanceBacked(p)
    /\ \A p, q \in Potentials : EstimatedBefore(p, q)
    /\ FinalBacked

(* What a stop becomes at an AVL: evidenced, estimated, or left as it was. *)
Fresh(a) == Evidenced(a, AfterFirstStop(a)) \cup (IF FirstStopRevisited(a) THEN {1} ELSE {})
Opened(a) == Estimated(a, AfterFirstStop(a), Potentials \cup Fresh(a))

LEMMA EstimateWithin ==
    ASSUME TypeOK, NEW a \in Avls, NEW s \in Stops, Crosses(a, s), lastAvl.time < a.time
    PROVE  /\ ExitTime(a, s) \in Int
           /\ lastAvl.time <= ExitTime(a, s) /\ ExitTime(a, s) <= a.time
           /\ ExitsAtBoundary /\ Distance[a.point][s] > Radius => ExitTime(a, s) < a.time
<1> DEFINE x == Crossing[lastAvl.point][a.point][s]
           d == a.time - lastAvl.time
           e == (x * d) \div Scale
<1>1. lastAvl \in Avls
  BY DEF TypeOK, Crosses
<1>2. /\ lastAvl.time \in Int /\ a.time \in Int
      /\ lastAvl.point \in Points /\ a.point \in Points
  BY <1>1, TimesAssumption DEF Avls
<1>3. x \in 0 .. Scale /\ Scale \in Nat \ {0} /\ d \in Nat /\ d > 0
  BY <1>2, GeometryAssumption DEF Crosses
<1>4. ExitsAtBoundary /\ Distance[a.point][s] > Radius => x # Scale
  <2>1. Distance[a.point][s] \in Nat /\ Radius \in Nat
    BY <1>2, GeometryAssumption, LimitsAssumption
  <2> QED
    BY <1>2, <2>1 DEF ExitsAtBoundary
<1>5. ExitTime(a, s) = lastAvl.time + e
  BY DEF ExitTime
<1> HIDE DEF x
<1>6. x * d \in Nat /\ x * d <= Scale * d /\ (x < Scale => x * d < Scale * d)
  <2>1. x * d \in Nat /\ (Scale - x) * d \in Nat /\ (x < Scale => (Scale - x) * d > 0)
    BY <1>3
  <2>2. (Scale - x) * d = Scale * d - x * d
    BY <1>3
  <2> QED
    BY <1>3, <2>1, <2>2
<1> HIDE DEF d
<1>7. e \in Int /\ Scale * e <= x * d /\ e >= 0
  BY <1>3, <1>6
<1> HIDE DEF e
<1>8. e <= d /\ (x < Scale => e < d)
  <2>1. ASSUME e > d
        PROVE  FALSE
    <3>1. Scale * (e - d) > 0 /\ Scale * (e - d) = Scale * e - Scale * d
      BY <1>3, <1>7, <2>1
    <3> QED
      BY <1>3, <1>6, <1>7, <3>1
  <2>2. ASSUME e = d, x < Scale
        PROVE  FALSE
    BY <1>3, <1>6, <1>7, <2>2
  <2> QED
    BY <1>3, <1>7, <2>1, <2>2
<1>9. d = a.time - lastAvl.time
  BY DEF d
<1> QED
  BY <1>2, <1>3, <1>4, <1>5, <1>7, <1>8, <1>9

(* The entries after an AVL. *)
LEMMA ReceivedEntries ==
    ASSUME TypeOK, NEW a \in Avls, ReceiveAvl(a),
           lastAvl # NoAvl => lastAvl.time < a.time
    PROVE  /\ DOMAIN potential' = Potentials \cup Fresh(a) \cup Opened(a)
           /\ Fresh(a) \subseteq Stops /\ Opened(a) \subseteq Stops
           /\ \A p \in Fresh(a) : LET m == potential'[p] IN
                /\ InZone(a, p) /\ m.time = a.time /\ m.dist = Distance[a.point][p]
                /\ ~m.est /\ ~m.iso
           /\ \A p \in Opened(a) : LET m == potential'[p] IN
                /\ p \notin Potentials /\ p \notin Fresh(a) /\ p # final
                /\ ~InZone(a, p) /\ lastAvl # NoAvl
                /\ m.dist = Distance[a.point][p] /\ m.est /\ m.iso /\ m.time \in Int
                /\ lastAvl.time <= m.time /\ m.time <= a.time
                /\ ExitsAtBoundary /\ m.dist > Radius => m.time < a.time
           /\ \A p \in Potentials \ Fresh(a) : potential'[p] = potential[p] /\ p \notin Opened(a)
<1> DEFINE evidenced(s) == [CreatePotentialMatch(a, s) EXCEPT
                                !.since = IF s \in Potentials THEN potential[s].since ELSE tick]
<1>1. potential' = [s \in Potentials \cup Fresh(a) \cup Opened(a) |->
           IF s \in Fresh(a) THEN evidenced(s)
           ELSE IF s \in Opened(a) THEN EstimatedMatch(a, s) ELSE potential[s]]
  BY Zenon DEF ReceiveAvl, FindPotentialMatches, Fresh, Opened
<1>2. Fresh(a) \subseteq Stops /\ Opened(a) \subseteq Stops
  <2>1. 1 \in Stops
    BY DEF Stops
  <2> QED
    BY <2>1, ConsideredStops DEF Fresh, Opened, Evidenced, Estimated
<1>3. \A p \in Fresh(a) : InZone(a, p)
  BY DEF Fresh, Evidenced, FirstStopRevisited
<1>4. ASSUME NEW p \in Opened(a)
      PROVE  /\ p \notin Potentials /\ p \notin Fresh(a) /\ p # final
             /\ ~InZone(a, p) /\ lastAvl # NoAvl /\ Crosses(a, p)
  BY DEF Opened, Estimated, Crosses
<1>5. \A p \in Fresh(a) : LET m == evidenced(p) IN
          m.time = a.time /\ m.dist = Distance[a.point][p] /\ ~m.est /\ ~m.iso
  BY DEF CreatePotentialMatch
<1> HIDE DEF evidenced
<1>6. \A p \in Fresh(a) : potential'[p] = evidenced(p)
  BY <1>1
<1>7. ASSUME NEW p \in Opened(a)
      PROVE  LET m == potential'[p] IN
               /\ m.dist = Distance[a.point][p] /\ m.est /\ m.iso /\ m.time \in Int
               /\ lastAvl.time <= m.time /\ m.time <= a.time
               /\ ExitsAtBoundary /\ m.dist > Radius => m.time < a.time
  <2>1. potential'[p] = EstimatedMatch(a, p)
    BY <1>1, <1>4
  <2>2. p \in Stops
    BY <1>2
  <2>3. /\ ExitTime(a, p) \in Int
        /\ lastAvl.time <= ExitTime(a, p) /\ ExitTime(a, p) <= a.time
        /\ ExitsAtBoundary /\ Distance[a.point][p] > Radius => ExitTime(a, p) < a.time
    BY <1>4, <2>2, EstimateWithin
  <2> QED
    BY <2>1, <2>3 DEF EstimatedMatch
<1>8. \A p \in Potentials \ Fresh(a) : potential'[p] = potential[p] /\ p \notin Opened(a)
  BY <1>1, <1>4
<1>9. DOMAIN potential' = Potentials \cup Fresh(a) \cup Opened(a)
  BY <1>1
<1> QED
  BY <1>2, <1>3, <1>4, <1>5, <1>6, <1>7, <1>8, <1>9

LEMMA ReceiveKeepsObserved ==
    ASSUME TypeOK, Observed, NEW a \in Avls, ReceiveAvl(a), ObservedReceive(a),
           lastAvl # NoAvl => lastAvl.time < a.time,
           orderly'
    PROVE  Observed'
<1>1. /\ outside' = [s \in Stops |-> CASE InZone(a, s) -> 0
                                     [] ~InZone(a, s) /\ outside[s] < 2 -> outside[s] + 1
                                     [] OTHER -> 2]
      /\ lastSeen' = [s \in Stops |-> IF InZone(a, s) THEN a ELSE lastSeen[s]]
  BY DEF ObservedReceive, Disorder
<1>2. lastAvl' = a /\ a # NoAvl /\ a.time \in Int
  BY TimesAssumption DEF ReceiveAvl, Avls
<1>3. \A p \in Stops : outside[p] \in 0 .. 2 /\ lastSeen[p] \in Avls \cup {NoAvl}
  BY DEF Observed
<1>4. ASSUME NEW p \in Stops
      PROVE  /\ InZone(a, p) => outside'[p] = 0 /\ lastSeen'[p] = a
             /\ ~InZone(a, p) => outside'[p] \in 1 .. 2 /\ lastSeen'[p] = lastSeen[p]
             /\ ~InZone(a, p) => outside'[p] = IF outside[p] < 2 THEN outside[p] + 1 ELSE 2
  BY <1>1, <1>3
<1>5. ASSUME NEW p \in Stops, lastSeen[p] # NoAvl
      PROVE  lastSeen[p].time \in Int /\ lastSeen[p].time < a.time
  <2>1. lastAvl # NoAvl /\ lastAvl \in Avls
    BY <1>5 DEF Observed, TypeOK
  <2>2. lastSeen[p].time \in Int /\ lastAvl.time \in Int
    BY <1>3, <1>5, <2>1, TimesAssumption DEF Avls
  <2>3. Watched(p)
    BY <2>1 DEF Observed
  <2>4. CASE InZone(lastAvl, p)
    BY <2>1, <2>2, <2>3, <2>4 DEF Watched
  <2>5. CASE ~InZone(lastAvl, p)
    BY <1>2, <1>5, <2>1, <2>2, <2>3, <2>5 DEF Watched
  <2> QED
    BY <2>2, <2>4, <2>5
<1>6. outside' \in [Stops -> 0 .. 2] /\ lastSeen' \in [Stops -> Avls \cup {NoAvl}]
  <2>1. \A p \in Stops : outside'[p] \in 0 .. 2
    BY <1>4
  <2>2. \A p \in Stops : lastSeen'[p] \in Avls \cup {NoAvl}
    BY <1>3, <1>4
  <2> QED
    BY <1>1, <2>1, <2>2
<1>7. ASSUME NEW p \in Stops
      PROVE  Watched(p)'
  <2>1. InZone(lastAvl, p)' <=> InZone(a, p)
    BY <1>2 DEF InZone
  <2> QED
    BY <1>2, <1>4, <1>5, <2>1 DEF Watched
<1>8. ASSUME NEW p \in Stops, NEW q \in Stops
      PROVE  LeftTogether(p, q)'
  <2> SUFFICES ASSUME lastSeen'[p] # NoAvl, lastSeen'[q] # NoAvl, lastSeen'[p].time = lastSeen'[q].time
               PROVE  outside'[p] = outside'[q]
    BY DEF LeftTogether
  <2>1. CASE InZone(a, p) /\ InZone(a, q)
    BY <1>4, <2>1
  <2>2. CASE ~InZone(a, p) /\ ~InZone(a, q)
    <3>1. outside[p] = outside[q]
      BY <1>4, <2>2 DEF Observed, LeftTogether
    <3> QED
      BY <1>4, <2>2, <3>1
  <2>3. CASE InZone(a, p) /\ ~InZone(a, q)
    BY <1>2, <1>4, <1>5, <2>3
  <2>4. CASE ~InZone(a, p) /\ InZone(a, q)
    BY <1>2, <1>4, <1>5, <2>4
  <2> QED
    BY <2>1, <2>2, <2>3, <2>4
<1> QED
  BY <1>2, <1>6, <1>7, <1>8 DEF Observed

LEMMA ReceiveBacks ==
    ASSUME TypeOK, FinalInv, BackedInv,
           NEW a \in Avls, ObservedReceive(a), orderly'
    PROVE  BackedInv'
<1>1. /\ orderly /\ ReceiveAvl(a) /\ pc = "idle" /\ pc' = "matching" /\ lastAvl' = a
      /\ todo' = DOMAIN potential' /\ toDelete' = {} /\ final' = final
      /\ opened' = (DOMAIN potential') \ Potentials
      /\ todo = {} /\ toDelete = {}
      /\ DOMAIN matched' = AfterFirstStop(a)
  BY DEF ObservedReceive, Disorder, ReceiveAvl, BackedInv
<1>2. a.time \in Int /\ lastAvl \in Avls \cup {NoAvl} /\ (lastAvl # NoAvl => lastAvl.time \in Int)
  BY TimesAssumption DEF Avls, TypeOK
<1>3. lastAvl # NoAvl => lastAvl.time < a.time
  <2>1. ~Late(a) /\ (lastAvl # NoAvl => lastAvl.time # a.time)
    BY <1>1 DEF ObservedReceive, Disorder, ReceiveAvl
  <2> QED
    BY <1>2, <2>1 DEF Late
<1>4. Observed /\ Observed'
  BY <1>1, <1>3, ReceiveKeepsObserved DEF BackedInv
<1>5. \A p \in Stops : InZone(lastAvl, p)' <=> InZone(a, p)
  BY <1>1 DEF InZone
<1>6. \A p \in Stops : Here(p)' = Distance[a.point][p]
  BY <1>1 DEF Here
<1>7. /\ DOMAIN potential' = Potentials \cup Fresh(a) \cup Opened(a)
      /\ Fresh(a) \subseteq Stops /\ Opened(a) \subseteq Stops /\ Potentials \subseteq Stops
  BY <1>1, <1>3, ReceivedEntries DEF TypeOK
<1>8. \A p \in Fresh(a) : LET m == potential'[p] IN
        /\ InZone(a, p) /\ m.time = a.time /\ m.dist = Distance[a.point][p] /\ ~m.est /\ ~m.iso
  BY <1>1, <1>3, ReceivedEntries
<1>9. \A p \in Opened(a) : LET m == potential'[p] IN
        /\ p \notin Potentials /\ p \notin Fresh(a) /\ p # final
        /\ ~InZone(a, p) /\ lastAvl # NoAvl
        /\ m.dist = Distance[a.point][p] /\ m.est /\ m.iso /\ m.time \in Int
        /\ lastAvl.time <= m.time /\ m.time <= a.time
        /\ ExitsAtBoundary /\ m.dist > Radius => m.time < a.time
  BY <1>1, <1>3, ReceivedEntries
<1>10. ASSUME NEW p \in Potentials \ Fresh(a)
       PROVE  /\ potential'[p] = potential[p] /\ p \notin Opened(a) /\ lastAvl # NoAvl
              /\ potential[p].time \in Int /\ potential[p].dist \in Nat
              /\ TimeBacked(p) /\ DistanceBacked(p) /\ Visited(p)
  <2>1. potential[p] \in Potential
    BY DEF TypeOK
  <2>2. potential[p].time \in Int /\ potential[p].dist \in Nat
    BY <2>1 DEF Potential
  <2>3. lastAvl # NoAvl
    BY <1>4 DEF Observed
  <2> QED
    BY <1>1, <1>3, <2>2, <2>3, ReceivedEntries DEF BackedInv, Visited
<1>11. \A p \in DOMAIN potential' : ~Visited(p)'
  BY <1>1 DEF Visited
<1>12. ASSUME NEW p \in DOMAIN potential'
       PROVE  TimeBacked(p)'
  <2>1. CASE p \in Fresh(a)
    BY <1>5, <1>7, <1>8, <1>11, <2>1 DEF TimeBacked
  <2>2. CASE p \in Opened(a)
    BY <1>1, <1>9, <2>2 DEF TimeBacked
  <2>3. CASE p \in Potentials \ Fresh(a)
    <3>1. /\ potential'[p] = potential[p] /\ lastAvl # NoAvl /\ potential[p].time \in Int
          /\ TimeBacked(p) /\ Visited(p) /\ p \in Stops
      BY <1>7, <1>10, <2>3
    <3>2. ~InZone(a, p) => lastSeen'[p] = lastSeen[p]
      BY <1>1, <3>1 DEF ObservedReceive, Disorder
    <3> QED
      BY <1>1, <1>2, <1>3, <1>5, <1>11, <3>1, <3>2 DEF TimeBacked
  <2> QED
    BY <1>7, <2>1, <2>2, <2>3
<1>13. ASSUME NEW p \in DOMAIN potential'
       PROVE  DistanceBacked(p)'
  <2>1. CASE p \in Fresh(a)
    BY <1>1, <1>5, <1>6, <1>7, <1>8, <1>11, <2>1 DEF DistanceBacked
  <2>2. CASE p \in Opened(a)
    BY <1>1, <1>5, <1>6, <1>7, <1>9, <1>11, <2>2 DEF DistanceBacked
  <2>3. CASE p \in Potentials \ Fresh(a)
    <3>1. /\ potential'[p] = potential[p] /\ lastAvl # NoAvl
          /\ potential[p].time \in Int /\ potential[p].dist \in Nat
          /\ TimeBacked(p) /\ DistanceBacked(p) /\ Visited(p) /\ p \in Stops
          /\ p \notin opened'
      BY <1>1, <1>7, <1>10, <2>3
    <3>2. potential[p].dist > Radius => ~InZone(lastAvl, p)
      BY <3>1, LimitsAssumption DEF DistanceBacked
    <3>3. potential[p].dist > Radius => outside[p] # 0 /\ outside[p] \in 0 .. 2
      BY <1>4, <3>1, <3>2 DEF Observed, Watched
    <3>4. ~InZone(a, p) => outside'[p] = IF outside[p] < 2 THEN outside[p] + 1 ELSE 2
      BY <1>1, <3>1 DEF ObservedReceive, Disorder
    <3>5. potential[p].iso => potential[p].time < a.time
      BY <1>2, <1>3, <3>1 DEF TimeBacked
    <3> QED
      BY <1>1, <1>5, <1>11, <3>1, <3>3, <3>4, <3>5 DEF DistanceBacked
  <2> QED
    BY <1>7, <2>1, <2>2, <2>3
<1>14. ASSUME NEW p \in DOMAIN potential', NEW q \in DOMAIN potential'
       PROVE  EstimatedBefore(p, q)'
  <2> SUFFICES ASSUME ExitsAtBoundary, p \notin opened', q \in opened', potential'[p].iso, potential'[q].iso,
                      potential'[p].dist > Radius
               PROVE  potential'[p].time < potential'[q].time
    BY DEF EstimatedBefore
  <2>1. p \in Potentials \ Fresh(a) /\ q \in Opened(a)
    BY <1>1, <1>7, <1>8
  <2>2. potential[p].time < lastAvl.time /\ lastAvl.time \in Int /\ potential[p].time \in Int
    BY <1>2, <1>10, <2>1 DEF TimeBacked
  <2> QED
    BY <1>9, <1>10, <2>1, <2>2
<1>15. final \in DOMAIN potential' => final \notin AfterFirstStop(a)
  <2>1. CASE final \in Fresh(a)
    BY <2>1 DEF Fresh, Evidenced, Considered, AfterFirstStop
  <2>2. CASE final \in Potentials
    BY <1>1, <2>2 DEF BackedInv, FinalBacked, AfterFirstStop
  <2> QED
    BY <1>7, <1>9, <2>1, <2>2
<1>16. ASSUME final \in DOMAIN potential', InZone(a, final)
       PROVE  final \in Fresh(a)
  <2>1. CASE final \in Potentials
    <3>1. ~(final > ShortJourney)
      BY <1>1, <2>1 DEF FinalInv, FinalIsVisited, LongRoute
    <3>2. final \in Stops /\ final \in 1 .. final
      BY DEF TypeOK, Stops
    <3>3. AfterFirstStop(a) \subseteq 1 .. final /\ AfterFirstStop(a) \subseteq Stops
      BY <1>1 DEF AfterFirstStop, FinalInv, StopsOfRoute, TypeOK
    <3>4. Cardinality(AfterFirstStop(a)) <= 1 \/ \E m \in AfterFirstStop(a) : m <= final
      <4> DEFINE M == AfterFirstStop(a)
      <4> HIDE DEF M
      <4>1. M \subseteq Stops /\ M \subseteq 1 .. final
        BY <3>3 DEF M
      <4>2. Cardinality(M) <= 1 \/ \E m \in M : m <= final
        <5>1. CASE ~(Cardinality(M) <= 1)
          <6>1. PICK l \in M : l \in 1 .. final
            BY <4>1, <5>1, TwoHaveOrder
          <6> QED
            BY <6>1
        <5> QED
          BY <5>1
      <4> QED
        BY <4>2 DEF M
    <3>5. final \in Considered(AfterFirstStop(a))
      BY <1>15, <1>16, <3>1, <3>2, <3>4 DEF Considered
    <3> QED
      BY <1>16, <3>5 DEF Fresh, Evidenced
  <2> QED
    BY <1>7, <1>9, <1>16, <2>1
<1>17. FinalBacked'
  <2>1. final \in Stops
    BY DEF TypeOK
  <2> QED
    BY <1>1, <1>5, <1>6, <1>8, <1>15, <1>16, <2>1 DEF FinalBacked
<1> QED
  BY <1>1, <1>4, <1>12, <1>13, <1>14, <1>17 DEF BackedInv

(* The four things an iteration can do to the entry of the stop it visits. *)
LEMMA VisitedEntry ==
    ASSUME TypeOK, NEW s \in Stops, Iterate(s), s <= final, ~StopMissing(s)
    PROVE  /\ pc = "matching" /\ s \in todo /\ todo' = todo \ {s} /\ s \in Potentials
           /\ \A t \in todo : s <= t
           /\ UNCHANGED <<final, lastAvl, pc>> /\ DOMAIN potential' = Potentials
           /\ \A p \in Potentials : p # s => potential'[p] = potential[p]
           /\ LET m == potential'[s] IN
              \/ /\ s # final /\ InZone(lastAvl, s)
                 /\ m.dist = Here(s) /\ m.time = lastAvl.time /\ ~m.iso /\ m.est = potential[s].est
              \/ s = final /\ InZone(lastAvl, s) /\ m = potential[s]
              \/ /\ ~InZone(lastAvl, s) /\ ~MovingAway(s)
                 /\ m.dist = Here(s) /\ m.time = potential[s].time
                 /\ m.iso = potential[s].iso /\ m.est = potential[s].est
              \/ ~InZone(lastAvl, s) /\ m = potential[s]
<1>1. Visit(s) /\ ~StopNotInRoute(s)
  <2>1. final \in Stops
    BY DEF TypeOK
  <2> QED
    BY <2>1 DEF Iterate, StopNotInRoute, StillInZone, FinalStopReached, NotYetLeft, StopLeft, Stops
<1>2. /\ pc = "matching" /\ s \in todo /\ s \in Potentials /\ \A t \in todo : s <= t
  BY <1>1 DEF Visit, TypeOK
<1>3. potential = [p \in Potentials |-> potential[p]] /\ potential[s] \in Potential
  BY <1>2 DEF TypeOK
<1>4. CASE StillInZone(s)
  <2>1. potential' = [potential EXCEPT ![s].dist = Distance[lastAvl.point][s],
                                       ![s].time = lastAvl.time, ![s].iso = FALSE]
    BY <1>4 DEF StillInZone
  <2>2. /\ DOMAIN potential' = Potentials /\ \A p \in Potentials : p # s => potential'[p] = potential[p]
        /\ potential'[s] = [[[potential[s] EXCEPT !.dist = Distance[lastAvl.point][s]]
                               EXCEPT !.time = lastAvl.time] EXCEPT !.iso = FALSE]
    BY <1>2, <1>3, <2>1
  <2>3. s # final /\ InZone(lastAvl, s) /\ todo' = todo \ {s} /\ UNCHANGED <<final, lastAvl, pc>>
    BY <1>4 DEF StillInZone, Stops
  <2> QED
    BY <1>2, <1>3, <2>2, <2>3 DEF Potential, Here
<1>5. CASE NotYetLeft(s)
  <2>1. potential' = [potential EXCEPT ![s].dist = Distance[lastAvl.point][s]]
    BY <1>5 DEF NotYetLeft
  <2>2. /\ DOMAIN potential' = Potentials /\ \A p \in Potentials : p # s => potential'[p] = potential[p]
        /\ potential'[s] = [potential[s] EXCEPT !.dist = Distance[lastAvl.point][s]]
    BY <1>2, <1>3, <2>1
  <2>3. ~InZone(lastAvl, s) /\ ~MovingAway(s) /\ todo' = todo \ {s} /\ UNCHANGED <<final, lastAvl, pc>>
    BY <1>5 DEF NotYetLeft
  <2> QED
    BY <1>2, <1>3, <2>2, <2>3 DEF Potential, Here
<1>6. CASE FinalStopReached(s)
  BY <1>2, <1>6 DEF FinalStopReached
<1>7. CASE StopLeft(s)
  BY <1>2, <1>7 DEF StopLeft
<1> QED
  BY <1>1, <1>4, <1>5, <1>6, <1>7 DEF Iterate

LEMMA IterateBacks ==
    ASSUME TypeOK, FinalInv, BackedInv, NEW s \in Stops, Iterate(s), UNCHANGED evidence
    PROVE  BackedInv'
<1> SUFFICES ASSUME orderly
             PROVE  BackedInv'
  BY DEF evidence, BackedInv
<1>1. UNCHANGED <<orderly, outside, lastSeen, opened>>
  BY DEF evidence
<1>2. s \in Potentials /\ s <= final /\ final \in Stops
  <2>1. s \in Potentials
    BY DEF Iterate, StopNotInRoute, StillInZone, FinalStopReached, NotYetLeft, StopLeft, StopMissing, Visit, TypeOK
  <2> QED
    BY <2>1 DEF FinalInv, StopsOfRoute, TypeOK
<1>3. /\ pc = "matching" /\ s \in todo /\ todo' = todo \ {s}
      /\ UNCHANGED <<final, lastAvl, pc>> /\ DOMAIN potential' = Potentials
      /\ \A p \in Potentials : p # s => potential'[p] = potential[p]
  BY <1>2, VisitedEntry, NothingIsMissing
<1>4. LET m == potential'[s] IN
      \/ /\ s # final /\ InZone(lastAvl, s)
         /\ m.dist = Here(s) /\ m.time = lastAvl.time /\ ~m.iso /\ m.est = potential[s].est
      \/ s = final /\ InZone(lastAvl, s) /\ m = potential[s]
      \/ /\ ~InZone(lastAvl, s) /\ ~MovingAway(s)
         /\ m.dist = Here(s) /\ m.time = potential[s].time
         /\ m.iso = potential[s].iso /\ m.est = potential[s].est
      \/ ~InZone(lastAvl, s) /\ m = potential[s]
  BY <1>2, VisitedEntry, NothingIsMissing
<1>5. lastAvl # NoAvl /\ Observed
  BY <1>3 DEF TypeOK, BackedInv
<1>6. Observed'
  BY <1>1, <1>3, <1>5 DEF Observed, Watched, LeftTogether, InZone
<1>7. \A p \in Stops : (InZone(lastAvl, p)' <=> InZone(lastAvl, p)) /\ Here(p)' = Here(p)
  BY <1>3 DEF InZone, Here
<1>8. \A p \in Stops : p # s => (Visited(p)' <=> Visited(p))
  BY <1>3 DEF Visited
<1>9. Visited(s)' /\ ~Visited(s)
  BY <1>3 DEF Visited
<1>10. Potentials \subseteq Stops /\ \A p \in Potentials : TimeBacked(p) /\ DistanceBacked(p)
  BY DEF BackedInv, TypeOK
<1>11. potential[s] \in Potential /\ Here(s) \in Nat /\ Radius \in Nat
  <2>1. potential[s] \in Potential /\ lastAvl \in Avls
    BY <1>2, <1>5 DEF TypeOK
  <2> QED
    BY <2>1, GeometryAssumption, LimitsAssumption DEF Here, Avls
<1>12. potential[s].time \in Int /\ potential[s].dist \in Nat
  BY <1>11 DEF Potential
<1>13. InZone(lastAvl, s) => /\ Here(s) <= Radius
                             /\ lastSeen[s] = lastAvl
  BY <1>5, <1>11 DEF InZone, Here, Observed, Watched
<1>14. s = final /\ InZone(lastAvl, s) => /\ potential[s].time = lastAvl.time /\ potential[s].dist = Here(s)
                                          /\ ~potential[s].est /\ ~potential[s].iso
  BY <1>2, <1>3 DEF BackedInv, FinalBacked
<1>15. TimeBacked(s)'
  <2>1. CASE InZone(lastAvl, s)
    <3>1. potential'[s].time = lastAvl.time /\ ~potential'[s].iso
      BY <1>4, <1>14, <2>1
    <3> QED
      BY <1>1, <1>5, <1>13, <2>1, <3>1 DEF TimeBacked
  <2>2. CASE ~InZone(lastAvl, s)
    <3>1. /\ potential'[s].time = potential[s].time /\ potential'[s].iso = potential[s].iso
          /\ potential'[s].est = potential[s].est
          /\ potential'[s].dist = potential[s].dist \/ potential'[s].dist = Here(s)
      BY <1>4, <2>2
    <3>2. TimeBacked(s) /\ DistanceBacked(s)
      BY <1>2, <1>10
    <3>3. ExitsAtBoundary /\ potential[s].iso /\ potential'[s].dist > Radius => potential[s].time < lastAvl.time
      BY <1>3, <1>9, <3>1, <3>2 DEF TimeBacked, DistanceBacked
    <3> QED
      BY <1>1, <1>3, <2>2, <3>1, <3>2, <3>3 DEF TimeBacked
  <2> QED
    BY <2>1, <2>2
<1>16. DistanceBacked(s)'
  <2>1. CASE InZone(lastAvl, s)
    <3>1. potential'[s].time = lastAvl.time /\ ~potential'[s].iso /\ potential'[s].dist = Here(s)
      BY <1>4, <1>14, <2>1
    <3> QED
      BY <1>3, <1>9, <1>13, <3>1 DEF DistanceBacked
  <2>2. CASE ~InZone(lastAvl, s)
    <3>1. /\ potential'[s].time = potential[s].time /\ potential'[s].iso = potential[s].iso
      BY <1>4, <2>2
    <3>2. DistanceBacked(s)
      BY <1>2, <1>10
    <3> QED
      BY <1>1, <1>2, <1>3, <1>7, <1>9, <2>2, <3>1, <3>2 DEF DistanceBacked
  <2> QED
    BY <2>1, <2>2
<1>17. ASSUME NEW p \in Potentials
       PROVE  TimeBacked(p)' /\ DistanceBacked(p)'
  <2>1. CASE p = s
    BY <1>15, <1>16, <2>1
  <2>2. CASE p # s
    <3>1. /\ potential'[p] = potential[p] /\ (Visited(p)' <=> Visited(p)) /\ p \in Stops
          /\ (InZone(lastAvl, p)' <=> InZone(lastAvl, p)) /\ Here(p)' = Here(p)
          /\ TimeBacked(p) /\ DistanceBacked(p)
      BY <1>3, <1>7, <1>8, <1>10, <2>2
    <3> QED
      BY <1>1, <1>3, <3>1 DEF TimeBacked, DistanceBacked
  <2> QED
    BY <2>1, <2>2
<1>18. ASSUME NEW p \in Potentials, NEW q \in Potentials
       PROVE  EstimatedBefore(p, q)'
  <2>1. CASE p = s
    BY <1>9, <2>1 DEF EstimatedBefore
  <2>2. CASE p # s
    <3>1. potential'[p] = potential[p] /\ (Visited(p)' <=> Visited(p)) /\ EstimatedBefore(p, q)
      BY <1>3, <1>8, <1>10, <2>2 DEF BackedInv
    <3>2. potential'[q].iso => potential[q].iso /\ potential'[q].time = potential[q].time
      BY <1>3, <1>4
    <3> QED
      BY <1>1, <1>3, <3>1, <3>2 DEF EstimatedBefore
  <2> QED
    BY <2>1, <2>2
<1>19. FinalBacked'
  <2>1. ASSUME final \in Potentials, final \in DOMAIN matched'
        PROVE  final \in toDelete'
    <3>1. CASE UNCHANGED <<matched, toDelete, badMatches>>
      BY <2>1, <3>1 DEF BackedInv, FinalBacked
    <3>2. ASSUME NEW c \in Potentials, NEW pm, NEW dropped, MovePotentialMatchToMatch(c, pm, dropped)
          PROVE  final \in toDelete'
      <4>1. DOMAIN matched' \subseteq Matched \cup {c} /\ toDelete \subseteq toDelete' /\ c \in toDelete'
        BY <3>2 DEF MovePotentialMatchToMatch
      <4> QED
        BY <2>1, <4>1 DEF BackedInv, FinalBacked
    <3> QED
      BY <3>1, <3>2, IterationMoves, NothingIsMissing
  <2>2. ASSUME final \in Potentials, InZone(lastAvl, final)
        PROVE  potential'[final] = potential[final]
    BY <1>3, <1>4, <2>2
  <2> QED
    BY <1>2, <1>3, <1>7, <2>1, <2>2 DEF BackedInv, FinalBacked
<1> QED
  BY <1>3, <1>6, <1>17, <1>18, <1>19 DEF BackedInv

LEMMA FinishBacks ==
    ASSUME TypeOK, BackedInv, FinishAvl, UNCHANGED evidence
    PROVE  BackedInv'
<1> SUFFICES ASSUME orderly
             PROVE  BackedInv'
  BY DEF evidence, BackedInv
<1>1. /\ UNCHANGED <<orderly, outside, lastSeen, opened, final, matched, lastAvl, todo>>
      /\ todo = {} /\ toDelete' = {} /\ pc' = "idle"
      /\ DOMAIN potential' = Potentials \ toDelete
      /\ \A p \in DOMAIN potential' : potential'[p] = potential[p]
  BY DEF evidence, FinishAvl
<1>2. Observed'
  BY <1>1 DEF BackedInv, Observed, Watched, LeftTogether, InZone
<1>3. \A p \in DOMAIN potential' : p \in Potentials /\ TimeBacked(p) /\ DistanceBacked(p)
  BY <1>1 DEF BackedInv
<1>4. \A p \in DOMAIN potential' : TimeBacked(p)'
  BY <1>1, <1>3 DEF TimeBacked, Visited, InZone
<1>5. \A p \in DOMAIN potential' : DistanceBacked(p)'
  BY <1>1, <1>3 DEF DistanceBacked, Visited, InZone
<1>6. \A p, q \in DOMAIN potential' : EstimatedBefore(p, q)'
  BY <1>1 DEF EstimatedBefore
<1>7. FinalBacked'
  BY <1>1 DEF BackedInv, FinalBacked
<1> QED
  BY <1>1, <1>2, <1>4, <1>5, <1>6, <1>7 DEF BackedInv

LEMMA BackedStep ==
    ASSUME TypeOK, FinalInv, BackedInv, [EvidenceNext]_evidenceVars
    PROVE  BackedInv'
<1>1. CASE ~orderly'
  BY <1>1 DEF BackedInv
<1>2. ASSUME NEW a \in Avls, ObservedReceive(a), orderly'
      PROVE  BackedInv'
  BY <1>2, ReceiveBacks
<1>3. CASE UNCHANGED <<final, matched, potential, lastAvl, todo, toDelete, pc, evidence>>
  BY <1>3 DEF evidence, BackedInv, Observed, Watched, LeftTogether, TimeBacked, DistanceBacked,
     EstimatedBefore, FinalBacked, Visited, Here, InZone
<1>4. ASSUME NEW s \in Stops, Iterate(s), UNCHANGED evidence
      PROVE  BackedInv'
  BY <1>4, IterateBacks
<1>5. CASE FinishAvl /\ UNCHANGED evidence
  BY <1>5, FinishBacks
<1> QED
  BY <1>1, <1>2, <1>3, <1>4, <1>5 DEF EvidenceNext, Disorder, SkipRepeatedAvl, evidenceVars, vars

LEMMA BackedInvariant == EvidenceSpec => [](TypeOK /\ FinalInv /\ BackedInv)
<1>1. EvidenceInit => BackedInv
  BY DEF EvidenceInit, Init, BackedInv, Observed, LeftTogether, FinalBacked
<1>2. TypeOK /\ FinalInv /\ BackedInv /\ [EvidenceNext]_evidenceVars => BackedInv'
  BY BackedStep
<1> QED
  BY <1>1, <1>2, FinalInvariant, PTL DEF EvidenceSpec

(* A selection that does what its comment says takes the stop that was left *)
(* or an earlier one: as long as nothing is matched there is nothing to be  *)
(* close to, and the first of the candidates is taken.                      *)
LEMMA SelectedNotLater ==
    ASSUME TypeOK, SelectionClosest, NEW s \in todo, Departing(s), NEW c \in Selected(SameTime(s))
    PROVE  /\ c \in SameTime(s) /\ c \in Stops /\ s \in Stops
           /\ c <= s
<1>1. /\ SameTime(s) \subseteq Stops /\ s \in SameTime(s) /\ c \in SameTime(s) /\ Matched \subseteq Stops
      /\ \A p \in SameTime(s) : potential[p].since \in Nat
  <2>1. Potentials \subseteq Stops /\ s \in Potentials /\ \A p \in Potentials : potential[p] \in Potential
    BY DEF TypeOK
  <2> QED
    BY <2>1 DEF TypeOK, SameTime, Departing, Selected, Taken, Potential
<1>2. c \in Nat /\ s \in Nat
  BY <1>1 DEF Stops
<1>3. CASE Matched # {}
  <2>1. PICK f \in Matched : f \in LowestMatched
    <3>1. Matched \subseteq Nat
      BY <1>1 DEF Stops
    <3> QED
      BY <1>3, <3>1, LowestExists DEF LowestMatched
  <2>2. c - f <= s - f
    BY <1>1, <1>3, <2>1 DEF SelectionClosest
  <2>3. f \in Nat
    BY <1>1 DEF Stops
  <2> QED
    BY <1>1, <1>2, <2>2, <2>3
<1>4. CASE Matched = {}
  <2> DEFINE C == SameTime(s)
  <2>1. LowestMatched = {}
    BY <1>4 DEF LowestMatched
  <2>2. C \subseteq Nat /\ C # {} /\ \A p \in C : potential[p].since \in Nat
    BY <1>1 DEF Stops
  <2>3. PICK q \in C : \A p \in C : q <= p
    BY <2>2, LowestExists
  <2> HIDE DEF C
  <2>4. \A p \in ComparedWith(C, q) : p \in C /\ Before(p, q)
    BY DEF ComparedWith
  <2>5. \A p \in C : Before(p, q) => p # q
    BY <2>2 DEF Before
  <2>6. q \in Taken(C)
    <3>1. \A p \in C : p # q => q < p
      BY <2>2, <2>3
    <3>2. \A p \in ComparedWith(C, q) : q < p
      BY <2>4, <2>5, <3>1
    <3> QED
      BY <2>3, <3>2 DEF Taken
  <2>7. ~Before(c, q) /\ c \in Taken(C)
    BY <2>6 DEF Selected, C
  <2>8. q <= s /\ q \in Nat /\ q \in SameTime(s)
    BY <1>1, <2>2, <2>3 DEF C
  <2>9. CASE c = q
    BY <1>1, <2>8, <2>9
  <2>10. CASE c # q
    <3>1. Before(q, c)
      BY <1>1, <1>2, <2>7, <2>8, <2>10 DEF Before
    <3>2. q \in ComparedWith(C, c)
      BY <2>1, <3>1 DEF ComparedWith
    <3>3. c < q
      BY <2>7, <3>2 DEF Taken
    <3> QED
      BY <1>1, <1>2, <2>8, <3>3
  <2> QED
    BY <2>9, <2>10
<1> QED
  BY <1>3, <1>4

(* A match is made of the final stop, in its zone, or of a stop that was    *)
(* decided, with the time and kind of the one that the vehicle moves away   *)
(* from.                                                                    *)
LEMMA MadeByLoop ==
    ASSUME TypeOK, BackedInv, SelectedOutside, EvidenceNext, NEW m \in Made
    PROVE  \/ /\ m.stop = final /\ final \in Potentials /\ pc = "matching" /\ InZone(lastAvl, final)
              /\ m.time = potential[final].time /\ m.est = potential[final].est
           \/ \E s \in todo : /\ pc = "matching" /\ Departing(s) /\ m.stop \in SameTime(s)
                              /\ m.time = potential[s].time /\ m.est = potential[s].est
                              /\ ~InZone(lastAvl, m.stop)
<1>1. orderly /\ pc = "matching" /\ m \in newMatches' /\ m \notin newMatches
  BY DEF Made
<1>2. PICK s \in Stops : Iterate(s)
  BY <1>1 DEF EvidenceNext, ObservedReceive, ReceiveAvl, SkipRepeatedAvl, FinishAvl, RefreshTimetable
<1>3. ASSUME NEW c, NEW pm, NEW dropped, MovePotentialMatchToMatch(c, pm, dropped)
      PROVE  m.stop = c /\ m.time = pm.time /\ m.est = pm.est
  <2>1. m = [stop |-> c, time |-> pm.time, est |-> pm.est]
    BY <1>1, <1>3 DEF MovePotentialMatchToMatch
  <2> QED
    BY <2>1
<1>4. CASE FinalStopReached(s)
  <2>1. /\ s = final /\ InZone(lastAvl, s) /\ s \in Potentials
        /\ MovePotentialMatchToMatch(s, potential[s], {})
    BY <1>1, <1>4 DEF FinalStopReached, Visit, TypeOK
  <2> QED
    BY <1>1, <1>3, <2>1
<1>5. CASE StopLeft(s)
  <2>1. s \in todo /\ Departing(s)
    BY <1>1, <1>5 DEF StopLeft, Departing, Visit
  <2>2. PICK c \in Selected(SameTime(s)) :
            MovePotentialMatchToMatch(c, potential[s], Dropped(SameTime(s), s))
    BY <1>1, <1>5 DEF StopLeft
  <2>3. m.stop = c /\ m.time = potential[s].time /\ m.est = potential[s].est
    BY <1>3, <2>2
  <2>4. c \in SameTime(s) /\ ~InZone(lastAvl, c)
    BY <1>1, <2>1, <2>2 DEF SelectedOutside, Selected, Taken
  <2> QED
    BY <1>1, <2>1, <2>3, <2>4
<1> QED
  BY <1>1, <1>2, <1>4, <1>5 DEF Iterate, StopNotInRoute, StillInZone, NotYetLeft, StopMissing

(* What the stop that the vehicle moves away from, and the one matched in   *)
(* its place, say of the observers.                                         *)
LEMMA LeftIsBacked ==
    ASSUME TypeOK, FinalInv, BackedInv, orderly, pc = "matching",
           NEW s \in todo, Departing(s), NEW c \in SameTime(s), ~InZone(lastAvl, c)
    PROVE  /\ s \in Stops /\ c \in Stops /\ s \notin opened /\ outside[s] = 2
           /\ ~potential[s].iso => /\ lastSeen[c] # NoAvl /\ lastSeen[c].time = potential[s].time
                                   /\ outside[c] = 2 /\ c \notin opened
           /\ potential[s].iso => outside[c] > 0 /\ (ExitsAtBoundary => c \notin opened)
<1>1. /\ s \in Potentials /\ c \in Potentials /\ s \in Stops /\ c \in Stops
      /\ potential[c].time = potential[s].time /\ potential[c].iso = potential[s].iso
      /\ potential[s] \in Potential /\ lastAvl \in Avls /\ lastAvl # NoAvl
  BY DEF TypeOK, SameTime
<1>2. /\ ~InZone(lastAvl, s) /\ potential[s].dist > Radius /\ Here(s) > potential[s].dist /\ ~Visited(s)
  BY DEF Departing, MovingAway, Here, Visited
<1>3. /\ TimeBacked(s) /\ DistanceBacked(s) /\ TimeBacked(c) /\ DistanceBacked(c)
      /\ EstimatedBefore(s, c) /\ Observed
  BY <1>1 DEF BackedInv
<1>4. /\ Watched(s) /\ Watched(c) /\ LeftTogether(s, c)
      /\ outside[s] \in 0 .. 2 /\ outside[c] \in 0 .. 2
      /\ lastSeen[s] \in Avls \cup {NoAvl} /\ lastSeen[c] \in Avls \cup {NoAvl}
  BY <1>1, <1>3 DEF Observed
<1>5. potential[s].dist \in Nat /\ Here(s) \in Nat /\ potential[s].time \in Int /\ lastAvl.time \in Int
  <2>1. potential[s].dist \in Nat /\ potential[s].time \in Int
    BY <1>1 DEF Potential
  <2>2. lastAvl.time \in Int /\ lastAvl.point \in Points
    BY <1>1, TimesAssumption DEF Avls
  <2>3. Here(s) \in Nat
    BY <1>1, <2>2, GeometryAssumption DEF Here
  <2> QED
    BY <2>1, <2>2, <2>3
<1>6. s \notin opened
  BY <1>2, <1>3, <1>5 DEF DistanceBacked
<1>7. outside[s] = 2
  BY <1>2, <1>3, <1>6 DEF DistanceBacked
<1>8. ASSUME ~potential[s].iso
      PROVE  /\ lastSeen[c] # NoAvl /\ lastSeen[c].time = potential[s].time
             /\ outside[c] = 2 /\ c \notin opened
  <2>1. lastSeen[s] # NoAvl /\ lastSeen[s].time = potential[s].time
    BY <1>2, <1>3, <1>8 DEF TimeBacked
  <2>2. lastSeen[c] # NoAvl /\ lastSeen[c].time = potential[s].time
    BY <1>1, <1>3, <1>8 DEF TimeBacked
  <2>3. outside[c] = 2
    BY <1>4, <1>7, <2>1, <2>2 DEF LeftTogether
  <2>4. potential[c].time < lastAvl.time
    BY <1>1, <1>2, <1>4, <2>1 DEF Watched
  <2> QED
    BY <1>1, <1>3, <1>5, <1>8, <2>2, <2>3, <2>4 DEF DistanceBacked
<1>9. ASSUME potential[s].iso
       PROVE  outside[c] > 0 /\ (ExitsAtBoundary => c \notin opened)
  <2>1. outside[c] > 0
    BY <1>4 DEF Watched
  <2>2. ExitsAtBoundary => c \notin opened
    BY <1>1, <1>2, <1>3, <1>5, <1>6, <1>9 DEF EstimatedBefore
  <2> QED
    BY <2>1, <2>2
<1> QED
  BY <1>1, <1>6, <1>7, <1>8, <1>9

(* As long as the vehicle is outside the zone of the stop selected, a match *)
(* of an evidenced stop other than the final one is made only after two     *)
(* AVLs outside its zone, on every road and also when it is matched in      *)
(* place of another stop with the same time.                                *)
THEOREM TwoPingsConfirm == EvidenceSpec /\ []SelectedOutside => TwoPingsOutside
<1> DEFINE Confirmed == \A m \in Made : m.est \/ m.stop = final \/ outside[m.stop] = 2
<1>1. TypeOK /\ FinalInv /\ BackedInv /\ SelectedOutside /\ [EvidenceNext]_evidenceVars
          => [Confirmed]_evidenceVars
  <2> SUFFICES ASSUME TypeOK, FinalInv, BackedInv, SelectedOutside, EvidenceNext,
                      NEW m \in Made, ~m.est, m.stop # final
               PROVE  outside[m.stop] = 2
    OBVIOUS
  <2>1. orderly
    BY DEF Made
  <2>2. PICK s \in todo : /\ pc = "matching" /\ Departing(s) /\ m.stop \in SameTime(s)
                          /\ m.est = potential[s].est
                          /\ ~InZone(lastAvl, m.stop)
    BY MadeByLoop
  <2>3. ~potential[s].iso
    BY <2>1, <2>2 DEF BackedInv, TimeBacked, TypeOK
  <2> QED
    BY <2>1, <2>2, <2>3, LeftIsBacked
<1> QED
  BY <1>1, BackedInvariant, PTL DEF EvidenceSpec, TwoPingsOutside

(* Then the departure time that is written for an evidenced match is also   *)
(* the time at which the vehicle was last seen in the zone of that stop:    *)
(* neither the change of est and iso on the way nor a stop matched in place *)
(* of another one gives it a different time.                                *)
THEOREM DepartureWasSeen == EvidenceSpec /\ []SelectedOutside => DepartureIsLastSighting
<1> DEFINE Dated == \A m \in Made : ~m.est => lastSeen[m.stop] # NoAvl /\ lastSeen[m.stop].time = m.time
<1>1. TypeOK /\ FinalInv /\ BackedInv /\ SelectedOutside /\ [EvidenceNext]_evidenceVars
          => [Dated]_evidenceVars
  <2> SUFFICES ASSUME TypeOK, FinalInv, BackedInv, SelectedOutside, EvidenceNext,
                      NEW m \in Made, ~m.est
               PROVE  lastSeen[m.stop] # NoAvl /\ lastSeen[m.stop].time = m.time
    OBVIOUS
  <2>1. orderly
    BY DEF Made
  <2>2. CASE /\ m.stop = final /\ final \in Potentials /\ pc = "matching" /\ InZone(lastAvl, final)
             /\ m.time = potential[final].time
    <3>1. potential[final].time = lastAvl.time
      BY <2>1, <2>2 DEF BackedInv, FinalBacked
    <3>2. lastAvl # NoAvl /\ final \in Stops
      BY <2>2 DEF TypeOK
    <3>3. lastSeen[final] = lastAvl
      BY <2>1, <2>2, <3>2 DEF BackedInv, Observed, Watched
    <3> QED
      BY <2>2, <3>1, <3>2, <3>3
  <2>3. ASSUME NEW s \in todo, pc = "matching", Departing(s), m.stop \in SameTime(s),
               m.time = potential[s].time, m.est = potential[s].est,
               ~InZone(lastAvl, m.stop)
        PROVE  lastSeen[m.stop] # NoAvl /\ lastSeen[m.stop].time = m.time
    <3>1. ~potential[s].iso
      BY <2>1, <2>3 DEF BackedInv, TimeBacked, TypeOK
    <3> QED
      BY <2>1, <2>3, <3>1, LeftIsBacked
  <2> QED
    BY <2>2, <2>3, MadeByLoop
<1> QED
  BY <1>1, BackedInvariant, PTL DEF EvidenceSpec, DepartureIsLastSighting

(* And an estimated match is never made at the AVL whose line crossed the   *)
(* zone, nor in the zone, if distances and crossings are of one geometry.   *)
THEOREM EstimatesAreConfirmed ==
    ExitsAtBoundary => (EvidenceSpec /\ []SelectedOutside => EstimateConfirmedLater)
<1> SUFFICES ASSUME ExitsAtBoundary
             PROVE  EvidenceSpec /\ []SelectedOutside => EstimateConfirmedLater
  OBVIOUS
<1> DEFINE Confirmed == \A m \in Made : m.est => m.stop \notin opened /\ outside[m.stop] > 0
<1>1. TypeOK /\ FinalInv /\ BackedInv /\ SelectedOutside /\ [EvidenceNext]_evidenceVars
          => [Confirmed]_evidenceVars
  <2> SUFFICES ASSUME TypeOK, FinalInv, BackedInv, SelectedOutside, EvidenceNext,
                      NEW m \in Made, m.est
               PROVE  m.stop \notin opened /\ outside[m.stop] > 0
    OBVIOUS
  <2>1. orderly
    BY DEF Made
  <2>2. ~(/\ m.stop = final /\ final \in Potentials /\ pc = "matching" /\ InZone(lastAvl, final)
          /\ m.est = potential[final].est)
    BY <2>1 DEF BackedInv, FinalBacked
  <2>3. PICK s \in todo : /\ pc = "matching" /\ Departing(s) /\ m.stop \in SameTime(s)
                          /\ ~InZone(lastAvl, m.stop)
    BY <2>2, MadeByLoop
  <2> QED
    BY <2>1, <2>3, LeftIsBacked
<1> QED
  BY <1>1, BackedInvariant, PTL DEF EvidenceSpec, EstimateConfirmedLater

(* It is, whenever the selection does what its comment says: the stop taken *)
(* is the one that was left or an earlier one, which the loop has visited,  *)
(* and a stop visited in its zone has the time of this AVL.                 *)
THEOREM ClosestIsOutside == EvidenceSpec => [](SelectionClosest => SelectedOutside)
<1>1. TypeOK /\ FinalInv /\ BackedInv /\ SelectionClosest => SelectedOutside
  <2> SUFFICES ASSUME TypeOK, FinalInv, BackedInv, SelectionClosest, orderly,
                      NEW s \in todo, Departing(s), NEW c \in Selected(SameTime(s)), InZone(lastAvl, c)
               PROVE  FALSE
    BY DEF SelectedOutside
  <2>1. c \in SameTime(s) /\ c \in Stops /\ s \in Stops /\ c <= s
    BY SelectedNotLater
  <2>2. /\ s \in Potentials /\ c \in Potentials /\ pc = "matching"
        /\ potential[c].time = potential[s].time /\ potential[c].iso = potential[s].iso
        /\ ~InZone(lastAvl, s) /\ s <= final /\ final \in Stops
        /\ \A t \in todo : s <= t
    BY <2>1 DEF TypeOK, SameTime, Departing, Visit
  <2>3. c < s /\ c # final /\ Visited(c)
    <3>1. c # s
      BY <2>2
    <3> QED
      BY <2>1, <2>2, <3>1 DEF Visited, Stops
  <2>4. /\ TimeBacked(s) /\ DistanceBacked(c) /\ TimeBacked(c)
        /\ lastAvl # NoAvl /\ Watched(s) /\ Watched(c) /\ lastAvl.time \in Int
    BY <2>1, <2>2, TimesAssumption DEF BackedInv, Observed, TypeOK, Avls
  <2>5. ~potential[c].iso
    BY <2>2, <2>3, <2>4 DEF DistanceBacked
  <2>6. potential[c].time = lastAvl.time
    BY <2>3, <2>4, <2>5 DEF TimeBacked, Watched
  <2>7. potential[s].time < lastAvl.time
    BY <2>2, <2>4, <2>5 DEF TimeBacked, Watched
  <2> QED
    BY <2>2, <2>4, <2>6, <2>7
<1> QED
  BY <1>1, BackedInvariant, PTL

-----------------------------------------------------------------------------
(* Steps 31, 32: the loop over the potential matches with the same time.    *)
(* What it has gone through is an initial part G of the dictionary's order; *)
(* what it compares the next one with are the members of G after the last   *)
(* time it took the first matched stop itself.                              *)

Compared(C, G) ==
    LET reset == {f \in LowestMatched \cap G : \A p \in C : Before(p, f) => p > f}
    IN {p \in G : \A f \in reset : Before(f, p)}

(* The locals l of the call, as functions of what was gone through. *)
Accounts(l) ==
    LET C == SameTime(l.stop)
        K == Compared(C, l.gone)
    IN /\ l.stop \in C
       /\ l.gone \subseteq C
       /\ \A p \in l.gone, q \in C : Before(q, p) => q \in l.gone
       /\ K = {} => l.lowest = 0
       /\ K # {} => /\ l.selected \in K /\ \A p \in K : l.selected <= p
                    /\ l.lowest = l.selected - FirstMatchedStop /\ l.lowest # 0
       /\ l.gone # {} => /\ l.selected \in Taken(C) \cap l.gone
                         /\ \A d \in Taken(C) \cap l.gone : ~Before(l.selected, d)
       /\ l.dropped = {c \in l.gone \ Taken(C) : c - l.stop \notin {1, -1}}

Locals == [stop : 0 .. MaxStop, gone : SUBSET Stops, lowest : Int, selected : Int, dropped : SUBSET Stops]

DictionaryOK ==
    /\ Matched \subseteq Stops
    /\ Potentials \subseteq Stops
    /\ \A p \in Potentials : potential[p].since \in Nat
    /\ tick \in Nat

LoopInv ==
    /\ DictionaryOK
    /\ loop \in Locals
    /\ loop # NotCalled => Accounts(loop)

(* The order of the dictionary is total. *)
LEMMA BeforeIsTotal ==
    ASSUME DictionaryOK, NEW p \in Potentials, NEW q \in Potentials
    PROVE  /\ ~Before(p, p)
           /\ Before(p, q) => ~Before(q, p)
           /\ p # q => Before(p, q) \/ Before(q, p)
BY DEF DictionaryOK, Before, Stops

LEMMA FirstMatchedStopLowest ==
    ASSUME DictionaryOK
    PROVE  /\ FirstMatchedStop \in Nat
           /\ Matched = {} => FirstMatchedStop = 0 /\ LowestMatched = {}
           /\ Matched # {} => LowestMatched = {FirstMatchedStop}
<1>1. CASE Matched = {}
  BY <1>1 DEF FirstMatchedStop, LowestMatched
<1>2. CASE Matched # {}
  <2>1. Matched \subseteq Nat
    BY DEF DictionaryOK, Stops
  <2>2. PICK l \in Matched : \A m \in Matched : l <= m
    BY <1>2, <2>1, LowestExists
  <2>3. \A f \in LowestMatched : f = l
    BY <2>1, <2>2 DEF LowestMatched
  <2>4. l \in LowestMatched
    BY <2>2 DEF LowestMatched
  <2>5. FirstMatchedStop = l
    BY <1>2, <2>3, <2>4, Zenon DEF FirstMatchedStop
  <2> QED BY <1>2, <2>1, <2>3, <2>4, <2>5
<1> QED BY <1>1, <1>2

(* What the loop is about to visit comes after exactly what it has visited. *)
LEMMA GoneIsEarlier ==
    ASSUME DictionaryOK, NEW C, C \subseteq Potentials, NEW G, G \subseteq C,
           \A p \in G, q \in C : Before(q, p) => q \in G,
           NEW c \in C \ G, \A p \in C \ G : ~Before(p, c)
    PROVE  /\ {p \in C : Before(p, c)} = G
           /\ ComparedWith(C, c) = Compared(C, G)
<1>1. ASSUME NEW p \in C, Before(p, c) PROVE p \in G
  BY <1>1
<1>2. ASSUME NEW p \in G PROVE Before(p, c)
  <2>1. ~Before(c, p)
    OBVIOUS
  <2>2. p # c /\ p \in Potentials /\ c \in Potentials
    OBVIOUS
  <2> QED BY <2>1, <2>2, BeforeIsTotal
<1>3. {p \in C : Before(p, c)} = G
  BY <1>1, <1>2
<1>4. ComparedWith(C, c) = Compared(C, G)
  BY <1>3, Zenon DEF ComparedWith, Compared
<1> QED BY <1>3, <1>4

(* Taking the first matched stop itself starts the comparison afresh. *)
LEMMA ComparedAfterReset ==
    ASSUME DictionaryOK, NEW C, C \subseteq Potentials, NEW G, G \subseteq C,
           NEW c \in C \ G, \A p \in G : Before(p, c),
           c \in LowestMatched, \A p \in C : Before(p, c) => p > c
    PROVE  Compared(C, G \cup {c}) = {}
<1>1. c \in {f \in LowestMatched \cap (G \cup {c}) : \A p \in C : Before(p, f) => p > f}
  OBVIOUS
<1>2. \A p \in G \cup {c} : ~Before(c, p)
  BY BeforeIsTotal
<1> QED BY <1>1, <1>2, Zenon DEF Compared

LEMMA ComparedOtherwise ==
    ASSUME DictionaryOK, NEW C, C \subseteq Potentials, NEW G, G \subseteq C,
           NEW c \in C \ G, \A p \in G : Before(p, c),
           c \in LowestMatched => \E p \in C : Before(p, c) /\ ~(p > c)
    PROVE  Compared(C, G \cup {c}) = Compared(C, G) \cup {c}
<1> DEFINE reset(H) == {f \in LowestMatched \cap H : \A p \in C : Before(p, f) => p > f}
<1>1. reset(G \cup {c}) = reset(G)
  OBVIOUS
<1>2. \A H : Compared(C, H) = {p \in H : \A f \in reset(H) : Before(f, p)}
  BY Zenon DEF Compared
<1>3. reset(G) \subseteq G
  OBVIOUS
<1> HIDE DEF reset
<1>4. Compared(C, G \cup {c}) = {p \in G \cup {c} : \A f \in reset(G) : Before(f, p)}
  BY <1>1, <1>2
<1>5. Compared(C, G) = {p \in G : \A f \in reset(G) : Before(f, p)}
  BY <1>2
<1> QED BY <1>3, <1>4, <1>5, Zenon

(* An iteration keeps the account. *)
LEMMA IterationAccounts ==
    ASSUME DictionaryOK, NEW l \in Locals, Accounts(l),
           NEW c \in SameTime(l.stop) \ l.gone,
           \A p \in SameTime(l.stop) \ l.gone : ~Before(p, c),
           NEW taken \in BOOLEAN,
           taken <=> (l.lowest = 0 \/ c - FirstMatchedStop < l.lowest),
           NEW n \in Locals,
           n = [l EXCEPT
             !.gone = l.gone \cup {c},
             !.lowest = IF taken THEN c - FirstMatchedStop ELSE l.lowest,
             !.selected = IF taken THEN c ELSE l.selected,
             !.dropped = IF taken \/ c - l.stop \in {1, -1} THEN l.dropped ELSE l.dropped \cup {c}]
    PROVE  Accounts(n)
<1> DEFINE C == SameTime(l.stop)
           G == l.gone
           K == Compared(C, G)
           T == Taken(C)
           H == G \cup {c}
<1>1. /\ n.stop = l.stop /\ n.gone = H
      /\ n.lowest = IF taken THEN c - FirstMatchedStop ELSE l.lowest
      /\ n.selected = IF taken THEN c ELSE l.selected
      /\ n.dropped = IF taken \/ c - l.stop \in {1, -1} THEN l.dropped ELSE l.dropped \cup {c}
  BY DEF Locals
<1>2. /\ l.stop \in C
      /\ G \subseteq C
      /\ \A p \in G, q \in C : Before(q, p) => q \in G
      /\ K = {} => l.lowest = 0
      /\ K # {} => /\ l.selected \in K /\ \A p \in K : l.selected <= p
                   /\ l.lowest = l.selected - FirstMatchedStop /\ l.lowest # 0
      /\ G # {} => /\ l.selected \in T \cap G
                   /\ \A d \in T \cap G : ~Before(l.selected, d)
      /\ l.dropped = {x \in G \ T : x - l.stop \notin {1, -1}}
  BY Zenon DEF Accounts
<1>3. C \subseteq Potentials /\ Potentials \subseteq Stops
  BY DEF SameTime, DictionaryOK
<1>4. c \in C \ G /\ \A p \in C \ G : ~Before(p, c)
  OBVIOUS
<1> HIDE DEF C, G, T
<1>5. {p \in C : Before(p, c)} = G /\ ComparedWith(C, c) = K
  <2> HIDE DEF K
  <2>1. ComparedWith(C, c) = Compared(C, G) /\ {p \in C : Before(p, c)} = G
    BY <1>2, <1>3, <1>4, GoneIsEarlier
  <2> QED BY <2>1 DEF K
<1>6. \A p \in G : Before(p, c) /\ ~Before(c, p)
  <2>1. \A p \in G : Before(p, c)
    BY <1>5
  <2> QED BY <1>2, <1>3, <1>4, <2>1, BeforeIsTotal
<1>7. K \subseteq G
  BY DEF Compared
<1>8. FirstMatchedStop \in Nat /\ c \in Nat /\ c > 0 /\ K \subseteq Nat
  BY <1>2, <1>3, <1>4, <1>7, FirstMatchedStopLowest DEF Stops
<1>9. c \in T <=> \A p \in K : c < p
  BY <1>4, <1>5, Zenon DEF T, Taken
<1> HIDE DEF K
<1>10. c \in T <=> taken
  BY <1>2, <1>8, <1>9
<1>11. ~Before(c, c)
  BY <1>3, <1>4, BeforeIsTotal
<1>12. n.selected \in T \cap H /\ \A d \in T \cap H : ~Before(n.selected, d)
  <2>1. CASE taken
    BY <2>1, <1>1, <1>6, <1>10, <1>11
  <2>2. CASE ~taken
    <3>1. K # {}
      BY <2>2, <1>2
    <3>2. G # {} /\ T \cap H = T \cap G
      BY <3>1, <2>2, <1>7, <1>10
    <3> QED BY <3>2, <2>2, <1>1, <1>2
  <2> QED BY <2>1, <2>2
<1>13. n.dropped = {x \in H \ T : x - l.stop \notin {1, -1}}
  <2>1. CASE taken
    <3>1. H \ T = G \ T
      BY <2>1, <1>10
    <3> QED BY <3>1, <2>1, <1>1, <1>2
  <2>2. CASE ~taken
    <3>1. H \ T = (G \ T) \cup {c}
      BY <2>2, <1>10
    <3> QED BY <3>1, <2>2, <1>1, <1>2
  <2> QED BY <2>1, <2>2
<1> DEFINE reset == c \in LowestMatched /\ \A p \in C : Before(p, c) => p > c
           KH == Compared(C, H)
           Nearest == /\ KH = {} => n.lowest = 0
                      /\ KH # {} => /\ n.selected \in KH /\ \A p \in KH : n.selected <= p
                                    /\ n.lowest = n.selected - FirstMatchedStop /\ n.lowest # 0
<1>14. ASSUME reset PROVE Nearest
  <2>1. KH = {}
    BY <1>14, <1>2, <1>3, <1>4, <1>6, ComparedAfterReset
  <2>2. taken
    <3>1. \A p \in K : c < p
      BY <1>14, <1>2, <1>6, <1>7, <1>8
    <3> QED BY <3>1, <1>9, <1>10
  <2>3. c - FirstMatchedStop = 0
    <3>1. Matched # {}
      BY <1>14 DEF LowestMatched
    <3> QED BY <3>1, <1>8, <1>14, FirstMatchedStopLowest
  <2> QED BY <2>1, <2>2, <2>3, <1>1
<1>15. ASSUME ~reset PROVE Nearest
  <2>1. KH = K \cup {c}
    <3>1. c \in LowestMatched => \E p \in C : Before(p, c) /\ ~(p > c)
      BY <1>15
    <3>2. C \subseteq Potentials /\ G \subseteq C /\ c \in C \ G /\ \A p \in G : Before(p, c)
      BY <1>2, <1>3, <1>4, <1>6
    <3> HIDE DEF reset
    <3>3. Compared(C, G \cup {c}) = Compared(C, G) \cup {c}
      BY <3>1, <3>2, ComparedOtherwise, Z3T(30)
    <3> QED BY <3>3 DEF K
  <2>2. n.lowest = n.selected - FirstMatchedStop /\ n.selected \in KH
    BY <2>1, <1>1, <1>2
  <2>3. \A p \in KH : n.selected <= p
    <3>1. CASE taken
      BY <3>1, <2>1, <1>1, <1>8, <1>9, <1>10
    <3>2. CASE ~taken
      BY <3>2, <2>1, <1>1, <1>2, <1>8
    <3> QED BY <3>1, <3>2
  <2>4. n.lowest # 0
    <3>1. CASE taken
      <4>1. CASE Matched = {}
        BY <4>1, <3>1, <1>1, <1>8, FirstMatchedStopLowest
      <4>2. CASE Matched # {} /\ c = FirstMatchedStop
        <5>1. LowestMatched = {c}
          BY <4>2, FirstMatchedStopLowest
        <5>2. PICK p \in C : Before(p, c) /\ ~(p > c)
          BY <5>1, <1>15
        <5>3. p \in G
          BY <5>2, <1>5
        <5>4. p < c
          BY <5>2, <5>3, <1>2, <1>3, <1>4, <1>11 DEF Stops
        <5>5. K = G
          BY <5>1, <1>4, Zenon DEF K, Compared
        <5>6. c < p
          BY <5>3, <5>5, <3>1, <1>9, <1>10
        <5> QED BY <5>3, <5>4, <5>5, <5>6, <1>8
      <4>3. CASE c # FirstMatchedStop
        BY <4>3, <3>1, <1>1, <1>8
      <4> QED BY <4>1, <4>2, <4>3
    <3>2. CASE ~taken
      BY <3>2, <1>1, <1>2
    <3> QED BY <3>1, <3>2
  <2> QED BY <2>1, <2>2, <2>3, <2>4
<1>16. /\ n.stop \in C /\ H \subseteq C
       /\ \A p \in H, q \in C : Before(q, p) => q \in H
  BY <1>1, <1>2, <1>4, <1>5
<1>17. SameTime(n.stop) = C
  BY <1>1 DEF C
<1>18. Nearest
  BY <1>14, <1>15
<1> QED BY <1>1, <1>12, <1>13, <1>16, <1>17, <1>18, Zenon DEF Accounts, T

(* At the return everything was gone through. *)
LEMMA ReturnsTheFormula ==
    ASSUME LoopInv
    PROVE  SelectionIsTheLoop
<1> SUFFICES ASSUME loop # NotCalled, ToGo = {}
             PROVE  /\ Selected(SameTime(loop.stop)) = {loop.selected}
                    /\ Dropped(SameTime(loop.stop), loop.stop) = loop.dropped
  BY DEF SelectionIsTheLoop, Returns
<1> DEFINE C == SameTime(loop.stop)
           T == Taken(C)
<1>1. /\ loop.stop \in C
      /\ loop.gone \subseteq C
      /\ loop.gone # {} => /\ loop.selected \in T \cap loop.gone
                           /\ \A d \in T \cap loop.gone : ~Before(loop.selected, d)
      /\ loop.dropped = {c \in loop.gone \ T : c - loop.stop \notin {1, -1}}
  BY Zenon DEF LoopInv, Accounts
<1>2. loop.gone = C
  BY <1>1 DEF ToGo
<1>3. Selected(C) = {c \in T : \A d \in T : ~Before(c, d)}
  BY Zenon DEF Selected
<1>4. Dropped(C, loop.stop) = {c \in C \ T : c - loop.stop \notin {1, -1}}
  BY Zenon DEF Dropped
<1>5. C \subseteq Potentials
  BY DEF SameTime
<1>6. T \subseteq C
  BY DEF Taken
<1>7. DictionaryOK
  BY DEF LoopInv
<1> HIDE DEF C, T
<1>8. loop.selected \in T /\ \A d \in T : ~Before(loop.selected, d)
  BY <1>1, <1>2, <1>6
<1>9. \A c \in T : (\A d \in T : ~Before(c, d)) => c = loop.selected
  BY <1>5, <1>6, <1>7, <1>8, BeforeIsTotal
<1>10. Selected(C) = {loop.selected} /\ Dropped(C, loop.stop) = loop.dropped
  BY <1>1, <1>2, <1>3, <1>4, <1>8, <1>9
<1> QED BY <1>10 DEF C

LEMMA LoopInvariant == SelectionSpec => []LoopInv
<1>1. SelectionInit => LoopInv
  BY DEF SelectionInit, Init, LoopInv, DictionaryOK, NotCalled, Locals, Stops
<1>2. LoopInv /\ [SelectionNext]_selectionVars => LoopInv'
  <2> SUFFICES ASSUME LoopInv, [SelectionNext]_selectionVars PROVE LoopInv'
    OBVIOUS
  <2>1. ASSUME NEW f \in Stops, SaveOne(f) PROVE LoopInv'
    <3>1. loop' = loop /\ loop = NotCalled
      BY <2>1 DEF SaveOne
    <3>2. DictionaryOK'
      BY <2>1 DEF LoopInv, DictionaryOK, SaveOne
    <3> QED BY <3>1, <3>2 DEF LoopInv, NotCalled
  <2>2. ASSUME NEW s \in Stops, NEW t \in AvlTimes, Insert(s, t) PROVE LoopInv'
    <3>1. loop' = loop /\ loop = NotCalled
      BY <2>2 DEF Insert
    <3>2. DictionaryOK'
      BY <2>2 DEF LoopInv, DictionaryOK, Insert
    <3> QED BY <3>1, <3>2 DEF LoopInv, NotCalled
  <2>3. ASSUME UNCHANGED vars, loop' \in Locals, loop' # NotCalled => Accounts(loop') PROVE LoopInv'
    <3>1. DictionaryOK'
      BY <2>3 DEF LoopInv, DictionaryOK, vars
    <3>2. (loop # NotCalled => Accounts(loop))'
      <4> SUFFICES ASSUME loop' # NotCalled PROVE Accounts(loop)'
        BY DEF NotCalled
      <4>1. Accounts(loop')
        BY <2>3
      <4>2. matched' = matched /\ potential' = potential /\ toDelete' = toDelete
        BY <2>3 DEF vars
      <4>3. SameTime(loop.stop)' = SameTime(loop'.stop)
        BY <4>2 DEF SameTime
      <4>4. \A p, q : Before(p, q)' <=> Before(p, q)
        BY <4>2 DEF Before
      <4>5. LowestMatched' = LowestMatched /\ FirstMatchedStop' = FirstMatchedStop
        BY <4>2 DEF LowestMatched, FirstMatchedStop
      <4>6. Compared(SameTime(loop.stop), loop.gone)' = Compared(SameTime(loop'.stop), loop'.gone)
        BY <4>3, <4>4, <4>5 DEF Compared
      <4>7. \A c : ComparedWith(SameTime(loop.stop), c)' = ComparedWith(SameTime(loop'.stop), c)
        BY <4>3, <4>4, <4>5 DEF ComparedWith
      <4>8. Taken(SameTime(loop.stop))' = Taken(SameTime(loop'.stop))
        BY <4>3, <4>7, Zenon DEF Taken
      <4> QED BY <4>1, <4>3, <4>4, <4>5, <4>6, <4>8, Zenon DEF Accounts
    <3>3. (loop \in Locals)'
      BY <2>3 DEF Locals
    <3> QED BY <3>1, <3>2, <3>3 DEF LoopInv
  <2>4. ASSUME NEW s \in Stops, Call(s) PROVE LoopInv'
    <3>1. loop' = [stop |-> s, gone |-> {}, lowest |-> 0, selected |-> s, dropped |-> {}]
      BY <2>4 DEF Call, NotCalled
    <3>2. loop' \in Locals
      BY <3>1 DEF Locals, Stops
    <3>3. Compared(SameTime(s), {}) = {}
      BY DEF Compared
    <3>4. s \in SameTime(s)
      BY <2>4 DEF Call, SameTime
    <3>5. /\ loop'.stop = s /\ loop'.gone = {} /\ loop'.lowest = 0
          /\ loop'.selected = s /\ loop'.dropped = {}
      BY <3>1
    <3>6. Accounts(loop')
      BY <3>3, <3>4, <3>5 DEF Accounts
    <3> QED BY <2>3, <2>4, <3>2, <3>6 DEF Call
  <2>5. ASSUME NEW c \in Stops, Iteration(c) PROVE LoopInv'
    <3> DEFINE taken == loop.lowest = 0 \/ c - FirstMatchedStop < loop.lowest
    <3>1. /\ loop # NotCalled /\ loop \in Locals /\ Accounts(loop) /\ DictionaryOK
      BY <2>5 DEF Iteration, LoopInv
    <3>2. /\ c \in SameTime(loop.stop) \ loop.gone
          /\ \A p \in SameTime(loop.stop) \ loop.gone : ~Before(p, c)
      BY <2>5, Zenon DEF Iteration, ToGo
    <3>3. loop' = [loop EXCEPT
             !.gone = loop.gone \cup {c},
             !.lowest = IF taken THEN c - FirstMatchedStop ELSE loop.lowest,
             !.selected = IF taken THEN c ELSE loop.selected,
             !.dropped = IF taken \/ c - loop.stop \in {1, -1} THEN loop.dropped ELSE loop.dropped \cup {c}]
      BY <2>5 DEF Iteration
    <3>4. FirstMatchedStop \in Int
      BY <3>1, FirstMatchedStopLowest
    <3>5. taken \in BOOLEAN
      OBVIOUS
    <3> HIDE DEF taken
    <3>6. loop' \in Locals
      <4>1. /\ loop.gone \cup {c} \in SUBSET Stops /\ loop.dropped \cup {c} \in SUBSET Stops
            /\ c \in Int /\ c - FirstMatchedStop \in Int
        BY <3>1, <3>4 DEF Locals, Stops
      <4> HIDE DEF Stops
      <4> QED BY <3>1, <3>3, <4>1 DEF Locals
    <3>7. Accounts(loop')
      BY <3>1, <3>2, <3>3, <3>5, <3>6, IterationAccounts DEF taken
    <3> QED BY <2>3, <2>5, <3>6, <3>7 DEF Iteration
  <2>6. CASE UNCHANGED selectionVars
    <3>1. UNCHANGED vars /\ loop' = loop
      BY <2>6 DEF selectionVars
    <3>2. loop' \in Locals /\ (loop' # NotCalled => Accounts(loop'))
      BY <3>1 DEF LoopInv
    <3> QED BY <2>3, <3>1, <3>2
  <2> QED BY <2>1, <2>2, <2>4, <2>5, <2>6 DEF SelectionNext
<1> QED BY <1>1, <1>2, PTL DEF SelectionSpec

(* The formula of the model for the choice among the potential matches with *)
(* the same time is what the loop of the code computes, for every number of *)
(* stops and every order in which the dictionary was filled.                *)
THEOREM FormulaIsTheLoop == SelectionSpec => []SelectionIsTheLoop
<1>1. LoopInv => SelectionIsTheLoop
  BY ReturnsTheFormula
<1> QED BY <1>1, LoopInvariant, PTL

-----------------------------------------------------------------------------
(* The selection has an outcome: neither the model nor the code is stuck.   *)

SinceInv == \A p \in Potentials : potential[p].since <= tick

LEMMA DictionaryIsOK ==
    ASSUME TypeOK
    PROVE  DictionaryOK
BY DEF TypeOK, DictionaryOK, Potential

LEMMA SinceStep ==
    ASSUME TypeOK, TypeOK', SinceInv, MatcherStep \/ UNCHANGED vars
    PROVE  SinceInv'
<1>1. tick \in Nat /\ \A p \in Potentials : potential[p] \in Potential
  BY DEF TypeOK
<1>2. ASSUME tick <= tick', tick' \in Nat,
             \A p \in Potentials' : p \in Potentials /\ potential'[p].since = potential[p].since
      PROVE  SinceInv'
  BY <1>1, <1>2 DEF SinceInv, Potential
<1>3. ASSUME NEW s, NEW pm, NEW dropped, MovePotentialMatchToMatch(s, pm, dropped) PROVE tick' = tick + 1
  BY <1>3 DEF MovePotentialMatchToMatch
<1>4. ASSUME NEW s \in Stops, Iterate(s) PROVE SinceInv'
  <2>1. tick <= tick' /\ tick' \in Nat
    BY <1>1, <1>3, <1>4 DEF Iterate, StopNotInRoute, StillInZone, FinalStopReached, NotYetLeft, StopLeft, StopMissing
  <2>2. CASE StillInZone(s) \/ NotYetLeft(s)
    <3>1. s \in Potentials
      BY <2>2 DEF StillInZone, NotYetLeft, Visit, TypeOK
    <3>2. \A p \in Potentials' : p \in Potentials /\ potential'[p].since = potential[p].since
      BY <1>1, <2>2, <3>1 DEF StillInZone, NotYetLeft, Potential
    <3> QED BY <1>2, <2>1, <3>2
  <2>3. CASE potential' = potential
    BY <1>2, <2>1, <2>3
  <2> QED BY <1>4, <2>2, <2>3 DEF Iterate, StopNotInRoute, FinalStopReached, StopLeft, StopMissing
<1>5. ASSUME NEW a \in Avls, ReceiveAvl(a) PROVE SinceInv'
  <2>1. tick' = tick + 1 /\ potential' = FindPotentialMatches(a)
    BY <1>5 DEF ReceiveAvl
  <2>2. ASSUME NEW p \in DOMAIN FindPotentialMatches(a)
        PROVE  \/ FindPotentialMatches(a)[p].since = tick
               \/ p \in Potentials /\ FindPotentialMatches(a)[p].since = potential[p].since
    BY <2>2 DEF FindPotentialMatches, CreatePotentialMatch, EstimatedMatch
  <2> QED BY <1>1, <2>1, <2>2 DEF SinceInv, Potential
<1>6. CASE FinishAvl
  BY <1>1, <1>2, <1>6 DEF FinishAvl
<1>7. CASE \E a \in Avls : SkipRepeatedAvl(a)
  BY <1>1, <1>2, <1>7 DEF SkipRepeatedAvl
<1>8. CASE \E n \in RouteLengths : RefreshTimetable(n)
  BY <1>1, <1>2, <1>8 DEF RefreshTimetable
<1>9. CASE UNCHANGED vars
  BY <1>1, <1>2, <1>9 DEF vars
<1> QED BY <1>4, <1>5, <1>6, <1>7, <1>8, <1>9 DEF MatcherStep

(* Of some potential matches, one was inserted first and one last. *)
LEMMA FirstInserted ==
    ASSUME DictionaryOK, NEW T, T \subseteq Potentials, T # {}
    PROVE  \E c \in T : \A d \in T : ~Before(d, c)
<1> DEFINE S == {potential[p].since : p \in T}
<1>1. S \subseteq Nat /\ S # {}
  BY DEF DictionaryOK
<1>2. PICK l \in S : \A m \in S : l <= m
  BY <1>1, LowestExists
<1> DEFINE U == {p \in T : potential[p].since = l}
<1>3. U \subseteq Nat /\ U # {}
  BY DEF DictionaryOK, Stops
<1>4. PICK c \in U : \A p \in U : c <= p
  BY <1>3, LowestExists
<1>5. \A d \in T : ~Before(d, c)
  BY <1>1, <1>2, <1>3, <1>4 DEF Before
<1> QED BY <1>4, <1>5

LEMMA LastInserted ==
    ASSUME DictionaryOK, SinceInv, NEW T, T \subseteq Potentials, T # {}
    PROVE  \E c \in T : \A d \in T : ~Before(c, d)
<1> DEFINE S == {tick - potential[p].since : p \in T}
<1>1. \A p \in T : potential[p].since \in Nat /\ tick - potential[p].since \in Nat
  BY DEF DictionaryOK, SinceInv
<1>2. S \subseteq Nat /\ S # {}
  BY <1>1
<1>3. PICK l \in S : \A m \in S : l <= m
  BY <1>2, LowestExists
<1> DEFINE U == {p \in T : tick - potential[p].since = l}
<1>4. U \subseteq Stops /\ U # {}
  BY DEF DictionaryOK
<1>5. PICK c \in U : \A p \in U : c >= p
  BY <1>4, HighestExists
<1>6. tick \in Nat /\ l \in Nat /\ U \subseteq Nat
  BY <1>2, <1>4 DEF DictionaryOK, Stops
<1>7. ASSUME NEW d \in T PROVE ~Before(c, d)
  <2>1. l <= tick - potential[d].since /\ l = tick - potential[c].since
    BY <1>3, <1>5
  <2>2. potential[d].since <= potential[c].since
    BY <1>1, <1>5, <1>6, <2>1
  <2>3. CASE d \in U
    BY <1>1, <1>5, <1>6, <2>2, <2>3 DEF Before
  <2>4. CASE d \notin U
    <3>1. potential[d].since # potential[c].since
      BY <2>1, <2>4
    <3> QED BY <1>1, <1>5, <2>2, <3>1 DEF Before
  <2> QED BY <2>3, <2>4
<1> QED BY <1>5, <1>7

(* When the vehicle has left a stop, exactly one stop is matched for it,    *)
(* whatever is in the dictionary: select_potential_match_with_same_... has  *)
(* one answer, and the loop of match_avl always goes on.                    *)
THEOREM OneIsSelected ==
    Spec => [](\A s \in todo : Departing(s) =>
                  \E c \in Potentials \ toDelete : Selected(SameTime(s)) = {c})
<1>1. ASSUME TypeOK, SinceInv, NEW s \in todo, Departing(s)
      PROVE  \E c \in Potentials \ toDelete : Selected(SameTime(s)) = {c}
  <2> DEFINE C == SameTime(s)
             T == Taken(C)
  <2>1. DictionaryOK
    BY <1>1, DictionaryIsOK
  <2>2. C \subseteq Potentials /\ C \subseteq Potentials \ toDelete /\ s \in C
    BY <1>1 DEF SameTime, Departing, TypeOK
  <2> HIDE DEF C
  <2>3. PICK f \in C : \A d \in C : ~Before(d, f)
    BY <2>1, <2>2, FirstInserted
  <2>4. ComparedWith(C, f) = {}
    BY <2>3 DEF ComparedWith
  <2>5. f \in T /\ T \subseteq C
    BY <2>4, Zenon DEF Taken
  <2>6. Selected(C) = {c \in T : \A d \in T : ~Before(c, d)}
    BY Zenon DEF Selected
  <2> HIDE DEF T
  <2>7. T \subseteq Potentials /\ T # {}
    BY <2>2, <2>5
  <2>8. PICK c \in T : \A d \in T : ~Before(c, d)
    BY <1>1, <2>1, <2>7, LastInserted
  <2>9. \A d \in T : (\A e \in T : ~Before(d, e)) => d = c
    BY <2>1, <2>7, <2>8, BeforeIsTotal
  <2>10. Selected(C) = {c}
    BY <2>6, <2>8, <2>9
  <2> QED BY <2>2, <2>5, <2>8, <2>10 DEF C
<1>2. Init => SinceInv
  BY DEF Init, SinceInv
<1>3. TypeOK /\ TypeOK' /\ SinceInv /\ [Next]_vars => SinceInv'
  BY SinceStep, NextIsMatcherStep
<1>4. TypeOK /\ SinceInv => \A s \in todo : Departing(s) =>
          \E c \in Potentials \ toDelete : Selected(SameTime(s)) = {c}
  BY <1>1
<1> QED BY <1>2, <1>3, <1>4, TypeCorrect, PTL DEF Spec
=============================================================================
