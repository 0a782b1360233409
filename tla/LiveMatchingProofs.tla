------------------------- MODULE LiveMatchingProofs -------------------------
(***************************************************************************)
(* What holds of the Lambda around the matcher, whatever stage raises and  *)
(* however often an invocation dies: the history that is loaded, matched   *)
(* and saved stays a history of the matcher, a batch that reads Success is *)
(* one whose last AVL the saved history has, and the rows tell what the    *)
(* history tells if what the attempts at a batch write agrees.             *)
(***************************************************************************)
EXTENDS LiveMatching, MatchingProofs, SequenceTheorems

USE StopsAssumption DEF Matched, Potentials

RowType == [time : Int, est : BOOLEAN]

(* A history of the matcher, with no more matches than may be saved. *)
IsHistory(h) ==
    /\ DOMAIN h.matched \subseteq Stops /\ h.matched \in [DOMAIN h.matched -> Match]
    /\ Cardinality(DOMAIN h.matched) <= SavedMatchesLimit
    /\ DOMAIN h.potential \subseteq Stops /\ h.potential \in [DOMAIN h.potential -> Potential]
    /\ h.lastAvl \in Avls \cup {NoAvl}

HasBatch == stage # "waiting" \/ status = "Success"

(* Types of the state around the matcher, whose own state keeps its invariants. *)
LambdaTypeOK ==
    /\ TypeOK /\ SavedMatchesBounded /\ DroppedArePotential
    /\ IsHistory(stored)
    /\ rows \in [Stops -> RowType \cup {NoRow}]
    /\ toSet \subseteq DbMatch /\ toRemove \subseteq Stops
    /\ stage \in Stages
    /\ HasBatch => batch \in Batches
    /\ unread \in Seq(Avls)

(* An AVL is at hand from the first of a batch on, and it is that of the    *)
(* batch's end when no other is left to match.                              *)
IsLastOfBatch(a) == a # NoAvl /\ a.time = batch[Len(batch)].time

(* What is still to be matched is an end of the batch, or nothing is and    *)
(* the history has reached its end.                                         *)
UnreadEndsBatch == stage = "matching" =>
    IF unread = <<>> THEN IsLastOfBatch(lastAvl)
                     ELSE unread[Len(unread)] = batch[Len(batch)]

(* The rows, the status and the history are written for the whole batch, ... *)
WritesAfterBatch == stage \in {"setting", "marking", "saving"} => IsLastOfBatch(lastAvl)

(* ... and a batch that reads Success is about to be saved, is saved, or is  *)
(* on its way again.                                                         *)
SuccessIsNext == status = "Success" /\ stage \in {"acknowledging", "waiting"} =>
    IsLastOfBatch(stored.lastAvl)

LambdaInv == LambdaTypeOK /\ UnreadEndsBatch /\ WritesAfterBatch /\ SuccessIsNext
-----------------------------------------------------------------------------
(* Types. *)

LEMMA EmptyHistory ==
    IsHistory(NewHistory)
BY FS_EmptySet, LimitsAssumption DEF IsHistory, NewHistory

(* Of the matcher's own steps the Lambda takes all but the feed's pace. *)
LEMMA MatcherKeepsItsOwn ==
    ASSUME TypeOK, SavedMatchesBounded, DroppedArePotential, MatcherStep \/ UNCHANGED vars
    PROVE  TypeOK' /\ SavedMatchesBounded' /\ DroppedArePotential'
BY StepKeepsTypes, StepKeepsBound, StepDropsPotentials

(* The history that is loaded is one of the matcher. *)
LEMMA LoadKeepsItsOwn ==
    ASSUME LambdaTypeOK, LoadHistory
    PROVE  TypeOK' /\ SavedMatchesBounded' /\ DroppedArePotential'
<1> DEFINE history == IF Stale THEN NewHistory ELSE stored
<1>1. IsHistory(history)
  BY EmptyHistory DEF LambdaTypeOK
<1>2. /\ matched' = history.matched /\ potential' = history.potential
      /\ lastAvl' = history.lastAvl
  BY DEF LoadHistory
<1> HIDE DEF history
<1>3. TypeOK'
  BY <1>1, <1>2 DEF LoadHistory, IsHistory, LambdaTypeOK, TypeOK
<1>4. SavedMatchesBounded'
  BY <1>1, <1>2 DEF IsHistory, SavedMatchesBounded
<1>5. DroppedArePotential'
  BY DEF LoadHistory, DroppedArePotential
<1> QED
  BY <1>3, <1>4, <1>5

LEMMA BatchType ==
    ASSUME NEW b \in Batches
    PROVE  b \in Seq(Avls) /\ b # <<>> /\ Len(b) \in Nat \ {0} /\ b[Len(b)] \in Avls
<1>1. PICK n \in 1 .. MaxBatchAvls : b \in [1 .. n -> Avls]
  BY DEF Batches
<1>2. n \in Nat \ {0} /\ b \in Seq(Avls) /\ Len(b) = n
  BY <1>1, LiveAssumption
<1> QED
  BY <1>1, <1>2

(* Each step of the Lambda keeps the types of what it handles. *)
LEMMA LambdaTypes ==
    ASSUME LambdaTypeOK, [LiveNext]_liveVars
    PROVE  LambdaTypeOK'
<1> USE DEF LambdaTypeOK, HasBatch, Stages
<1>1. ASSUME NEW b \in Batches, Deliver(b)
      PROVE  LambdaTypeOK'
  <2>1. TypeOK' /\ SavedMatchesBounded' /\ DroppedArePotential'
    BY <1>1, MatcherKeepsItsOwn DEF Deliver
  <2> QED
    BY <1>1, <2>1 DEF Deliver, IsHistory
<1>2. CASE LoadHistory
  <2>1. TypeOK' /\ SavedMatchesBounded' /\ DroppedArePotential'
    BY <1>2, LoadKeepsItsOwn
  <2>2. batch \in Seq(Avls)
    BY <1>2, BatchType DEF LoadHistory
  <2> QED
    BY <1>2, <2>1, <2>2 DEF LoadHistory, IsHistory
<1>3. CASE StartAvl
  <2>1. Head(unread) \in Avls /\ Tail(unread) \in Seq(Avls)
    BY <1>3 DEF StartAvl
  <2>2. MatcherStep
    BY <1>3, <2>1 DEF StartAvl, MatcherStep
  <2>3. TypeOK' /\ SavedMatchesBounded' /\ DroppedArePotential'
    BY <2>2, MatcherKeepsItsOwn
  <2> QED
    BY <1>3, <2>1, <2>3 DEF StartAvl, IsHistory
<1>4. CASE MatchStop
  <2>1. MatcherStep
    BY <1>4 DEF MatchStop, MatcherStep
  <2>2. TypeOK' /\ SavedMatchesBounded' /\ DroppedArePotential'
    BY <2>1, MatcherKeepsItsOwn
  <2> QED
    BY <1>4, <2>2 DEF MatchStop, lambdaVars, handlerVars, IsHistory
<1>5. CASE CollectAvl
  <2>1. MatcherStep
    BY <1>5 DEF CollectAvl, MatcherStep
  <2>2. TypeOK' /\ SavedMatchesBounded' /\ DroppedArePotential'
    BY <2>1, MatcherKeepsItsOwn
  <2>3. newMatches \subseteq DbMatch /\ badMatches \subseteq Stops
    BY DEF TypeOK
  <2> QED
    BY <1>5, <2>2, <2>3 DEF CollectAvl, IsHistory
<1>6. CASE WipeRows
  <2>1. TypeOK' /\ SavedMatchesBounded' /\ DroppedArePotential'
    BY <1>6, MatcherKeepsItsOwn DEF WipeRows
  <2> QED
    BY <1>6, <2>1 DEF WipeRows, AllMatched, handlerVars, IsHistory
<1>7. CASE SetRows
  <2>1. TypeOK' /\ SavedMatchesBounded' /\ DroppedArePotential'
    BY <1>7, MatcherKeepsItsOwn DEF SetRows
  <2>2. {rows[s] : s \in Stops} \cup {Row(m) : m \in toSet} \subseteq RowType \cup {NoRow}
    BY DEF Row, RowType, DbMatch
  <2>3. rows' \in [Stops -> RowType \cup {NoRow}]
    BY <1>7, <2>2 DEF SetRows
  <2> QED
    BY <1>7, <2>1, <2>3 DEF SetRows, handlerVars, IsHistory
<1>8. CASE SaveHistory
  <2>1. TypeOK' /\ SavedMatchesBounded' /\ DroppedArePotential'
    BY <1>8, MatcherKeepsItsOwn DEF SaveHistory
  <2>2. IsHistory(stored')
    BY <1>8 DEF SaveHistory, IsHistory, TypeOK, SavedMatchesBounded
  <2> QED
    BY <1>8, <2>1, <2>2 DEF SaveHistory, handlerVars, IsHistory
<1>9. CASE MarkSuccess \/ Acknowledge \/ Raise \/ MatcherRaised \/ Crash
  <2>1. TypeOK' /\ SavedMatchesBounded' /\ DroppedArePotential'
    BY <1>9, MatcherKeepsItsOwn DEF MarkSuccess, Acknowledge, Raise, MatcherRaised, Crash
  <2>2. stage # "waiting"
    BY <1>9, LiveAssumption DEF MarkSuccess, Acknowledge, Raise, MatcherRaised, Crash
  <2> QED
    BY <1>9, <2>1, <2>2 DEF MarkSuccess, Acknowledge, Raise, MatcherRaised, Crash, handlerVars, IsHistory
<1>10. CASE RefreshBetweenBatches
  <2>1. TypeOK' /\ SavedMatchesBounded' /\ DroppedArePotential'
    BY <1>10 DEF RefreshBetweenBatches, historyVars, callVars, TypeOK, SavedMatchesBounded,
                 DroppedArePotential
  <2> QED
    BY <1>10, <2>1 DEF RefreshBetweenBatches, handlerVars, IsHistory
<1>11. CASE UNCHANGED liveVars
  <2>1. TypeOK' /\ SavedMatchesBounded' /\ DroppedArePotential'
    BY <1>11, MatcherKeepsItsOwn DEF liveVars
  <2> QED
    BY <1>11, <2>1 DEF liveVars, lambdaVars, handlerVars, IsHistory
<1> QED
  BY <1>1, <1>2, <1>3, <1>4, <1>5, <1>6, <1>7, <1>8, <1>9, <1>10, <1>11 DEF LiveNext, Handle
-----------------------------------------------------------------------------
(* Success and the saved history. *)

LEMMA LastOfTail ==
    ASSUME NEW S, NEW q \in Seq(S), q # <<>>
    PROVE  IF Tail(q) = <<>> THEN q[Len(q)] = Head(q)
                             ELSE Tail(q)[Len(Tail(q))] = q[Len(q)]
<1>1. Len(q) \in Nat /\ Tail(q) \in Seq(S) /\ Len(Tail(q)) = Len(q) - 1
  OBVIOUS
<1>2. CASE Tail(q) = <<>>
  <2>1. Len(Tail(q)) = 0
    BY <1>2, EmptySeq, Zenon
  <2>2. ASSUME NEW n \in Nat, NEW l, l = n - 1, l = 0
        PROVE  n = 1
    BY <2>2
  <2>3. Len(q) = 1
    BY <1>1, <2>1, <2>2, Zenon
  <2>4. Head(q) = q[1]
    OBVIOUS
  <2> QED
    BY <1>2, <2>3, <2>4, Zenon
<1>3. CASE Tail(q) # <<>>
  BY <1>1, <1>3
<1> QED
  BY <1>2, <1>3

(* Each AVL of the batch that match_avl is given, or skips because its time *)
(* is that of the last one, leaves the history at the AVL's time.           *)
LEMMA StartReachesEnd ==
    ASSUME LambdaInv, StartAvl
    PROVE  UnreadEndsBatch'
<1>1. unread \in Seq(Avls) /\ unread # <<>> /\ stage = "matching" /\ unread' = Tail(unread)
  BY DEF StartAvl, LambdaInv, LambdaTypeOK
<1>2. unread[Len(unread)] = batch[Len(batch)] /\ batch' = batch
  BY <1>1 DEF StartAvl, LambdaInv, UnreadEndsBatch
<1>3. lastAvl' # NoAvl /\ lastAvl'.time = Head(unread).time
  <2>1. Head(unread) \in Avls /\ Head(unread) # NoAvl
    BY <1>1, TimesAssumption
  <2> QED
    BY <2>1 DEF StartAvl, ReceiveAvl, SkipRepeatedAvl
<1>4. CASE Tail(unread) = <<>>
  <2>1. Head(unread) = batch[Len(batch)]
    BY <1>1, <1>2, <1>4, LastOfTail
  <2> QED
    BY <1>1, <1>2, <1>3, <1>4, <2>1 DEF UnreadEndsBatch, IsLastOfBatch
<1>5. CASE Tail(unread) # <<>>
  <2>1. unread'[Len(unread')] = batch'[Len(batch')]
    BY <1>1, <1>2, <1>5, LastOfTail
  <2> QED
    BY <1>1, <1>5, <2>1 DEF UnreadEndsBatch
<1> QED
  BY <1>4, <1>5

(* The steps inside the loop leave the AVL at hand alone. *)
LEMMA LoopKeepsLastAvl ==
    ASSUME NEW s, Iterate(s)
    PROVE  lastAvl' = lastAvl
BY DEF Iterate, StopNotInRoute, StillInZone, FinalStopReached, NotYetLeft, StopLeft, StopMissing

LEMMA LambdaStep ==
    ASSUME LambdaInv, [LiveNext]_liveVars
    PROVE  LambdaInv'
<1>1. LambdaTypeOK'
  BY LambdaTypes DEF LambdaInv
<1> SUFFICES UnreadEndsBatch' /\ WritesAfterBatch' /\ SuccessIsNext'
  BY <1>1 DEF LambdaInv
<1> USE DEF LambdaInv, UnreadEndsBatch, WritesAfterBatch, SuccessIsNext, IsLastOfBatch
<1>2. ASSUME NEW b \in Batches, Deliver(b)
      PROVE  UnreadEndsBatch' /\ WritesAfterBatch' /\ SuccessIsNext'
  BY <1>2 DEF Deliver
<1>3. CASE LoadHistory
  <2>1. batch \in Batches
    BY <1>3 DEF LoadHistory, LambdaTypeOK, HasBatch
  <2>2. batch # <<>>
    BY <2>1, BatchType
  <2> QED
    BY <1>3, <2>2 DEF LoadHistory
<1>4. CASE StartAvl
  <2>1. UnreadEndsBatch'
    BY <1>4, StartReachesEnd
  <2> QED
    BY <1>4, <2>1 DEF StartAvl
<1>5. CASE MatchStop
  <2>1. lastAvl' = lastAvl
    BY <1>5, LoopKeepsLastAvl DEF MatchStop
  <2> QED
    BY <1>5, <2>1 DEF MatchStop, lambdaVars, handlerVars
<1>6. CASE CollectAvl
  BY <1>6 DEF CollectAvl, FinishAvl
<1>7. CASE WipeRows
  BY <1>7 DEF WipeRows, AllMatched, handlerVars, vars
<1>8. CASE SetRows
  BY <1>8 DEF SetRows, handlerVars, vars
<1>9. CASE MarkSuccess
  BY <1>9 DEF MarkSuccess, handlerVars, vars
<1>10. CASE SaveHistory
  BY <1>10 DEF SaveHistory, handlerVars, vars
<1>11. CASE Acknowledge
  BY <1>11 DEF Acknowledge, handlerVars, vars
<1>12. CASE Raise
  BY <1>12 DEF Raise, handlerVars, vars
<1>13. CASE Crash
  BY <1>13 DEF Crash, handlerVars, vars
<1>14. CASE RefreshBetweenBatches
  BY <1>14 DEF RefreshBetweenBatches, historyVars, handlerVars
<1>15. CASE MatcherRaised
  BY <1>15 DEF MatcherRaised, handlerVars, vars
<1>16. CASE UNCHANGED liveVars
  BY <1>16 DEF liveVars, lambdaVars, handlerVars, vars
<1> QED
  BY <1>2, <1>3, <1>4, <1>5, <1>6, <1>7, <1>8, <1>9, <1>10, <1>11, <1>12, <1>13, <1>14, <1>15, <1>16
  DEF LiveNext, Handle

LEMMA LambdaStart ==
    LiveInit => LambdaInv
<1> SUFFICES ASSUME LiveInit
             PROVE  LambdaInv
  OBVIOUS
<1>1. TypeOK /\ SavedMatchesBounded /\ DroppedArePotential
  BY FS_EmptySet, LimitsAssumption
  DEF LiveInit, Init, TypeOK, SavedMatchesBounded, DroppedArePotential
<1>2. LambdaTypeOK
  BY <1>1, EmptyHistory DEF LiveInit, LambdaTypeOK, HasBatch, Stages
<1> QED
  BY <1>2 DEF LiveInit, LambdaInv, UnreadEndsBatch, WritesAfterBatch, SuccessIsNext

LEMMA LambdaInvariant == LiveSpec => []LambdaInv
<1> QED
  BY LambdaStart, LambdaStep, PTL DEF LiveSpec

(* The history that a Lambda loads, evicts, matches and saves never outgrows *)
(* SAVED_MATCHES_LIMIT, and remove_matched_stops finds every stop it has to  *)
(* delete, although invocations die anywhere and messages are matched again  *)
(* from an older history, on a route that may have changed.                  *)
THEOREM HistoryStaysSound == LiveSpec => [](SavedMatchesBounded /\ DroppedArePotential)
<1>1. LambdaInv => SavedMatchesBounded /\ DroppedArePotential
  BY DEF LambdaInv, LambdaTypeOK
<1> QED
  BY <1>1, LambdaInvariant, PTL

(* A batch whose status reads Success when its message is gone has its last *)
(* AVL in the saved history, although the status is written first and any   *)
(* stage may raise or die in between.                                       *)
THEOREM SuccessMeansSaved == LiveSpec => []SuccessIsSaved
<1>1. LambdaInv => SuccessIsSaved
  BY DEF LambdaInv, SuccessIsNext, IsLastOfBatch, SuccessIsSaved, AtRest
<1> QED
  BY <1>1, LambdaInvariant, PTL

-----------------------------------------------------------------------------
(* The rows and the history.  Start is the history that the call at hand    *)
(* began with; a saved match is told of if the outcome sets its row, or if  *)
(* it is as it was and the outcome leaves its row alone.                    *)

Start == IF Stale THEN NewHistory ELSE stored

MatchOf(h, s) == [stop |-> s, time |-> h[s].time, est |-> h[s].est]

Told(set, removed) == \A s \in Matched : Recorded(s, matched[s].time) =>
    \/ MatchOf(matched, s) \in set
    \/ /\ s \in DOMAIN Start.matched
       /\ MatchOf(Start.matched, s) = MatchOf(matched, s)
       /\ s \notin removed /\ \A m \in set : m.stop # s

MatchesAreTold ==
    /\ stage = "matching" => Told(toSet \cup newMatches, toRemove \cup badMatches)
    /\ stage = "matching" /\ pc = "idle" => newMatches \subseteq toSet /\ badMatches \subseteq toRemove
    /\ stage \in {"setting", "marking", "saving"} => Told(toSet, toRemove)

(* The rows of h are those of its matches that are written at all, except   *)
(* for the stops of T.                                                      *)
InRows(h, T) == \A s \in DOMAIN h \ T : Recorded(s, h[s].time) => rows[s] = Row(MatchOf(h, s))

Touched == UNION {o.removed \cup {m.stop : m \in o.set} : o \in written}

(* Until its outcome is saved, a batch has touched no rows but those of     *)
(* what it wrote.                                                           *)
StoredInRows ==
    /\ InRows(stored.matched, Touched)
    /\ stage \in {"waiting", "acknowledging"} => written = {}
    /\ stage \in {"setting", "marking", "saving"} => Outcome \in written

OutcomeInRows ==
    /\ stage = "setting" => \A s \in toRemove : rows[s] = NoRow
    /\ stage \in {"marking", "saving"} =>
          InRows(matched, {}) /\ \A s \in toRemove \ Matched : rows[s] = NoRow
    /\ stage \in {"waiting", "acknowledging"} /\ status = "Success" =>
          \A s \in toRemove \ DOMAIN stored.matched : rows[s] = NoRow

Outcomes == [set : SUBSET DbMatch, removed : SUBSET Stops]

RowsInv ==
    /\ written \subseteq Outcomes
    /\ MatchesAreTold
    /\ ~leftover => StoredInRows /\ OutcomeInRows

LEMMA MoveTells ==
    ASSUME NEW s, NEW pm, NEW dropped, MovePotentialMatchToMatch(s, pm, dropped),
           UNCHANGED <<stored, batch, toSet, toRemove>>,
           Told(toSet \cup newMatches, toRemove \cup badMatches)
    PROVE  Told(toSet \cup newMatches, toRemove \cup badMatches)'
<1> SUFFICES ASSUME NEW m \in Matched', Recorded(m, matched'[m].time)
             PROVE  \/ MatchOf(matched', m) \in toSet \cup newMatches'
                    \/ /\ m \in DOMAIN Start.matched
                       /\ MatchOf(Start.matched, m) = MatchOf(matched', m)
                       /\ m \notin toRemove \cup badMatches'
                       /\ \A n \in toSet \cup newMatches' : n.stop # m
  <2>1. Start' = Start
    BY DEF Start, Stale
  <2> QED BY <2>1, Zenon DEF Told, MatchOf, Recorded
<1> DEFINE rejected == Rejected(s, pm.time)
           kept == Matched \ Evicted(s, pm.time)
           saved == IF rejected THEN kept ELSE kept \cup {s}
           since == WithNew(s, pm.time)[s].since
           new == [stop |-> s, time |-> pm.time, est |-> pm.est]
<1>1. /\ matched' = [n \in saved |-> IF n = s /\ ~rejected
                                     THEN [time |-> pm.time, est |-> pm.est, since |-> since]
                                     ELSE matched[n]]
      /\ badMatches' = badMatches \cup Wiped(s, pm.time)
      /\ newMatches' = IF rejected \/ ~Recorded(s, pm.time) THEN newMatches ELSE newMatches \cup {new}
  BY Zenon DEF MovePotentialMatchToMatch
<1>2. Wiped(s, pm.time) \subseteq Evicted(s, pm.time)
  BY DEF Wiped
<1>3. m \in saved
  BY <1>1
<1> HIDE DEF rejected, kept, since
<1>4. CASE m = s /\ ~rejected
  <2>1. matched'[m] = [time |-> pm.time, est |-> pm.est, since |-> since]
    BY <1>1, <1>3, <1>4
  <2>2. new \in newMatches'
    BY <1>1, <1>4, <2>1
  <2> QED BY <1>4, <2>1, <2>2 DEF MatchOf
<1>5. CASE ~(m = s /\ ~rejected)
  <2>1. matched'[m] = matched[m] /\ m \in kept
    BY <1>1, <1>3, <1>5
  <2>2. m \in Matched /\ m \notin Wiped(s, pm.time) /\ MatchOf(matched', m) = MatchOf(matched, m)
    BY <1>2, <2>1 DEF kept, MatchOf
  <2>3. \A n \in newMatches' \ newMatches : n.stop # m
    BY <1>1, <1>5
  <2>4. \/ MatchOf(matched, m) \in toSet \cup newMatches
        \/ /\ m \in DOMAIN Start.matched
           /\ MatchOf(Start.matched, m) = MatchOf(matched, m)
           /\ m \notin toRemove \cup badMatches
           /\ \A n \in toSet \cup newMatches : n.stop # m
    BY <2>1, <2>2 DEF Told
  <2>5. newMatches \subseteq newMatches'
    BY <1>1
  <2> QED BY <1>1, <2>2, <2>3, <2>4, <2>5
<1> QED BY <1>4, <1>5

(* An iteration of the loop tells of what it saves. *)
LEMMA IterateTells ==
    ASSUME NEW s, Iterate(s), UNCHANGED <<stored, batch, toSet, toRemove>>,
           Told(toSet \cup newMatches, toRemove \cup badMatches)
    PROVE  Told(toSet \cup newMatches, toRemove \cup badMatches)'
<1>1. CASE UNCHANGED <<matched, newMatches, badMatches>>
  <2>1. Start' = Start
    BY DEF Start, Stale
  <2> QED BY <1>1, <2>1 DEF Told, MatchOf, Recorded
<1>2. CASE \E c, pm, dropped : MovePotentialMatchToMatch(c, pm, dropped)
  BY <1>2, MoveTells
<1> QED BY <1>1, <1>2
  DEF Iterate, StopNotInRoute, StillInZone, FinalStopReached, NotYetLeft, StopLeft, StopMissing

(* What the history matches, the outcome tells of. *)
LEMMA ToldStep ==
    ASSUME LambdaTypeOK, MatchesAreTold, [LiveNext]_liveVars
    PROVE  MatchesAreTold'
<1> USE DEF MatchesAreTold
<1>1. ASSUME NEW b \in Batches, Deliver(b) PROVE MatchesAreTold'
  BY <1>1 DEF Deliver
<1>2. CASE LoadHistory
  <2>1. /\ matched' = Start.matched /\ Start' = Start
        /\ toSet' = {} /\ newMatches' = {} /\ toRemove' = {} /\ badMatches' = {} /\ stage' = "matching"
    BY <1>2 DEF LoadHistory, Start, Stale
  <2>2. Told(toSet \cup newMatches, toRemove \cup badMatches)'
    BY <2>1 DEF Told, MatchOf
  <2> QED BY <2>1, <2>2
<1>3. CASE StartAvl
  <2>1. pc = "idle" /\ newMatches \subseteq toSet /\ badMatches \subseteq toRemove /\ stage' = "matching"
    BY <1>3 DEF StartAvl, ReceiveAvl, SkipRepeatedAvl
  <2>2. /\ UNCHANGED <<stored, batch, toSet, toRemove>> /\ newMatches' = {}
        /\ Told(toSet \cup newMatches, toRemove \cup badMatches)
    BY <1>3 DEF StartAvl, ReceiveAvl, SkipRepeatedAvl
  <2>3. Told(toSet, toRemove)
    <3>1. toSet \cup newMatches = toSet /\ toRemove \cup badMatches = toRemove
      BY <2>1
    <3> QED BY <2>2, <3>1
  <2>4. Start' = Start
    BY <2>2 DEF Start, Stale
  <2>5. CASE SkipRepeatedAvl(Head(unread))
    <3>1. matched' = matched /\ badMatches' = {}
      BY <2>5 DEF SkipRepeatedAvl
    <3>2. Told(toSet \cup newMatches, toRemove \cup badMatches)'
      BY <2>2, <2>3, <2>4, <3>1 DEF Told, MatchOf
    <3> QED BY <2>1, <2>2, <3>1, <3>2
  <2>6. CASE ReceiveAvl(Head(unread))
    <3>1. /\ matched' = [m \in AfterFirstStop(Head(unread)) |-> matched[m]]
          /\ badMatches' = Matched \ AfterFirstStop(Head(unread)) /\ pc' = "matching"
      BY <2>6 DEF ReceiveAvl
    <3>2. AfterFirstStop(Head(unread)) \subseteq Matched
      BY DEF AfterFirstStop
    <3>3. \A m \in Matched' : m \in Matched /\ matched'[m] = matched[m] /\ m \notin badMatches'
      BY <3>1, <3>2
    <3>4. \A m \in Matched' : MatchOf(matched', m) = MatchOf(matched, m)
      BY <3>3 DEF MatchOf
    <3>5. Told(toSet \cup newMatches, toRemove \cup badMatches)'
      <4> SUFFICES ASSUME NEW m \in Matched', Recorded(m, matched'[m].time)
                   PROVE  \/ MatchOf(matched', m) \in toSet
                          \/ /\ m \in DOMAIN Start.matched
                             /\ MatchOf(Start.matched, m) = MatchOf(matched', m)
                             /\ m \notin toRemove \cup badMatches'
                             /\ \A n \in toSet : n.stop # m
        BY <2>2, <2>4 DEF Told, MatchOf, Recorded
      <4> QED BY <2>3, <3>3, <3>4 DEF Told
    <3> QED BY <2>1, <3>1, <3>5
  <2> QED BY <1>3, <2>5, <2>6 DEF StartAvl
<1>4. CASE MatchStop
  <2>1. PICK s \in Stops : Iterate(s)
    BY <1>4 DEF MatchStop
  <2>2. UNCHANGED <<stored, batch, toSet, toRemove>> /\ stage = "matching" /\ stage' = "matching"
    BY <1>4 DEF MatchStop, lambdaVars, handlerVars
  <2>3. pc' # "idle"
    BY <2>1 DEF Iterate, StopNotInRoute, StillInZone, FinalStopReached, NotYetLeft, StopLeft, StopMissing, Visit
  <2>4. Told(toSet \cup newMatches, toRemove \cup badMatches)'
    BY <2>1, <2>2, IterateTells
  <2> QED BY <2>2, <2>3, <2>4
<1>5. CASE CollectAvl
  <2>1. /\ toSet' = toSet \cup newMatches /\ toRemove' = toRemove \cup badMatches
        /\ UNCHANGED <<matched, newMatches, badMatches, stored, batch>>
        /\ stage = "matching" /\ stage' = stage
    BY <1>5 DEF CollectAvl, FinishAvl
  <2>2. Start' = Start
    BY <2>1 DEF Start, Stale
  <2>3. Told(toSet \cup newMatches, toRemove \cup badMatches)'
    <3>1. /\ toSet' \cup newMatches' = toSet \cup newMatches
          /\ toRemove' \cup badMatches' = toRemove \cup badMatches
      BY <2>1
    <3> QED BY <2>1, <2>2, <3>1 DEF Told, MatchOf, Recorded
  <2> QED BY <2>1, <2>3
<1>6. ASSUME UNCHANGED <<matched, newMatches, badMatches, pc, stored, batch, toSet, toRemove>>,
             \/ stage' \notin {"matching", "setting", "marking", "saving"}
             \/ stage' = stage
             \/ AllMatched /\ stage' = "setting"
             \/ stage \in {"setting", "marking", "saving"} /\ stage' \in {"setting", "marking", "saving"}
      PROVE  MatchesAreTold'
  <2>1. Start' = Start
    BY <1>6 DEF Start, Stale
  <2>2. ASSUME AllMatched PROVE Told(toSet, toRemove)
    <3>1. toSet \cup newMatches = toSet /\ toRemove \cup badMatches = toRemove
      BY <2>2 DEF AllMatched
    <3> QED BY <2>2, <3>1 DEF AllMatched
  <2>3. /\ Told(toSet, toRemove)' <=> Told(toSet, toRemove)
        /\ Told(toSet \cup newMatches, toRemove \cup badMatches)'
              <=> Told(toSet \cup newMatches, toRemove \cup badMatches)
    BY <1>6, <2>1 DEF Told, MatchOf, Recorded
  <2> QED BY <1>6, <2>2, <2>3 DEF AllMatched
<1>7. CASE WipeRows
  BY <1>6, <1>7 DEF WipeRows, vars, handlerVars
<1>8. CASE SetRows
  BY <1>6, <1>8 DEF SetRows, vars, handlerVars
<1>9. CASE MarkSuccess
  BY <1>6, <1>9 DEF MarkSuccess, vars, handlerVars
<1>10. CASE SaveHistory
  BY <1>10 DEF SaveHistory
<1>11. CASE Acknowledge
  BY <1>11 DEF Acknowledge
<1>12. CASE Raise
  BY <1>12 DEF Raise
<1>13. CASE Crash
  BY <1>13 DEF Crash
<1>14. CASE RefreshBetweenBatches
  BY <1>14 DEF RefreshBetweenBatches
<1>15. CASE MatcherRaised
  BY <1>15 DEF MatcherRaised
<1>16. CASE UNCHANGED liveVars
  BY <1>6, <1>16 DEF liveVars, vars, lambdaVars, handlerVars
<1> QED
  BY <1>1, <1>2, <1>3, <1>4, <1>5, <1>7, <1>8, <1>9, <1>10, <1>11, <1>12, <1>13, <1>14, <1>15, <1>16
  DEF LiveNext, Handle

LEMMA OutcomesAreTyped ==
    ASSUME LambdaTypeOK, written \subseteq Outcomes, [LiveNext]_liveVars
    PROVE  written' \subseteq Outcomes
<1>1. Outcome \in Outcomes
  BY DEF Outcome, Outcomes, LambdaTypeOK
<1>2. written' \in {written, {}, written \cup {Outcome}}
  BY DEF LiveNext, Handle, Deliver, LoadHistory, StartAvl, MatchStop, CollectAvl, WipeRows, SetRows,
         MarkSuccess, SaveHistory, Acknowledge, Raise, MatcherRaised, Crash, RefreshBetweenBatches,
         liveVars, lambdaVars
<1> QED BY <1>1, <1>2

(* Setting the rows makes them those of the history. *)
LEMMA SetRowsTells ==
    ASSUME LambdaTypeOK, MatchesAreTold, StoredInRows, OutcomeInRows, OutcomeAgrees, ~leftover, SetRows
    PROVE  /\ InRows(matched, {})'
           /\ \A s \in toRemove \ Matched : rows'[s] = NoRow
<1>1. /\ stage = "setting" /\ OneDeparture /\ WithdrawnNotSet /\ written = {Outcome}
      /\ Told(toSet, toRemove) /\ InRows(stored.matched, Touched)
      /\ \A s \in toRemove : rows[s] = NoRow
      /\ matched' = matched /\ Matched \subseteq Stops /\ toRemove \subseteq Stops /\ toSet \subseteq DbMatch
  BY DEF SetRows, vars, OutcomeAgrees, MatchesAreTold, StoredInRows, OutcomeInRows, LambdaTypeOK, TypeOK
<1>2. \A s \in Stops :
         /\ (\A m \in toSet : m.stop # s) => rows'[s] = rows[s]
         /\ \A m \in toSet : m.stop = s => rows'[s] = Row(m)
  <2> SUFFICES ASSUME NEW s \in Stops
               PROVE  /\ (\A m \in toSet : m.stop # s) => rows'[s] = rows[s]
                      /\ \A m \in toSet : m.stop = s => rows'[s] = Row(m)
    OBVIOUS
  <2> DEFINE found == {m \in toSet : m.stop = s}
  <2>1. IF found = {} THEN rows'[s] = rows[s] ELSE \E m \in found : rows'[s] = Row(m)
    BY DEF SetRows
  <2>2. \A m, n \in found : m = n
    BY <1>1, Zenon DEF OneDeparture
  <2> QED BY <2>1, <2>2
<1>3. Touched = toRemove \cup {m.stop : m \in toSet}
  <2>1. Touched = Outcome.removed \cup {m.stop : m \in Outcome.set}
    BY <1>1 DEF Touched
  <2> QED BY <2>1 DEF Outcome
<1>4. ASSUME NEW s \in Matched, Recorded(s, matched[s].time)
      PROVE  rows'[s] = Row(MatchOf(matched, s))
  <2>1. CASE MatchOf(matched, s) \in toSet
    BY <2>1, <1>1, <1>2 DEF MatchOf
  <2>2. CASE /\ s \in DOMAIN Start.matched
             /\ MatchOf(Start.matched, s) = MatchOf(matched, s)
             /\ s \notin toRemove /\ \A m \in toSet : m.stop # s
    <3>1. Start = stored
      BY <2>2 DEF Start, NewHistory
    <3>2. s \notin Touched
      BY <2>2, <1>3
    <3>3. stored.matched[s].time = matched[s].time
      BY <2>2, <3>1 DEF MatchOf
    <3>4. rows[s] = Row(MatchOf(stored.matched, s))
      BY <1>1, <1>4, <2>2, <3>1, <3>2, <3>3 DEF InRows
    <3> QED BY <1>1, <1>2, <2>2, <3>1, <3>4
  <2> QED BY <1>1, <1>4, <2>1, <2>2 DEF Told
<1>5. InRows(matched, {})'
  BY <1>1, <1>4 DEF InRows, MatchOf, Row, Recorded
<1>6. ASSUME NEW s \in toRemove \ Matched
      PROVE  rows'[s] = NoRow
  <2>1. \A m \in toSet : m.stop # s
    BY <1>1, <1>6 DEF WithdrawnNotSet
  <2> QED BY <1>1, <1>2, <1>6, <2>1
<1> QED BY <1>5, <1>6

LEMMA RowsStep ==
    ASSUME LambdaTypeOK, RowsInv, OutcomeAgrees, ~leftover', [LiveNext]_liveVars
    PROVE  StoredInRows' /\ OutcomeInRows'
<1>1. /\ ~leftover /\ StoredInRows /\ OutcomeInRows /\ MatchesAreTold
  <2>1. leftover' = leftover \/ leftover' \/ leftover' = (leftover \/ written # {})
    BY DEF LiveNext, Handle, Deliver, LoadHistory, StartAvl, MatchStop, CollectAvl, WipeRows, SetRows,
           MarkSuccess, SaveHistory, Acknowledge, Raise, MatcherRaised, Crash, RefreshBetweenBatches,
         liveVars, lambdaVars
  <2>2. ~leftover
    BY <2>1, Zenon
  <2> QED BY <2>2, Zenon DEF RowsInv
<1>2. ASSUME UNCHANGED <<stored, rows, written>> PROVE InRows(stored.matched, Touched)'
  <2>1. Touched' = Touched
    BY <1>2 DEF Touched
  <2> QED BY <1>1, <1>2, <2>1 DEF StoredInRows, InRows, MatchOf, Row, Recorded
<1>3. ASSUME UNCHANGED <<stored, rows, written>>, stage' \in {"delivered", "matching"}
      PROVE  StoredInRows' /\ OutcomeInRows'
  BY <1>2, <1>3 DEF StoredInRows, OutcomeInRows
<1>4. ASSUME NEW b \in Batches, Deliver(b) PROVE StoredInRows' /\ OutcomeInRows'
  <2>1. written' = written
    BY <1>1, <1>4 DEF Deliver, StoredInRows
  <2> QED BY <1>3, <1>4, <2>1 DEF Deliver
<1>5. CASE LoadHistory
  BY <1>3, <1>5 DEF LoadHistory
<1>6. CASE StartAvl
  BY <1>3, <1>6 DEF StartAvl
<1>7. CASE MatchStop
  BY <1>3, <1>7 DEF MatchStop, lambdaVars
<1>8. CASE CollectAvl
  BY <1>3, <1>8 DEF CollectAvl
<1>9. CASE Crash
  BY <1>3, <1>9 DEF Crash
<1>10. CASE WipeRows
  <2>1. /\ rows' = [s \in Stops |-> IF s \in toRemove THEN NoRow ELSE rows[s]]
        /\ written' = written \cup {Outcome} /\ stage' = "setting"
        /\ UNCHANGED <<stored, toSet, toRemove>>
    BY <1>10 DEF WipeRows, handlerVars
  <2>2. Outcome' = Outcome /\ Outcome.removed = toRemove
    BY <2>1 DEF Outcome
  <2>3. Touched \cup toRemove \subseteq Touched'
    BY <2>1, <2>2 DEF Touched
  <2>4. DOMAIN stored.matched \subseteq Stops /\ toRemove \subseteq Stops
    BY DEF LambdaTypeOK, IsHistory
  <2>5. InRows(stored.matched, Touched)'
    <3> SUFFICES ASSUME NEW s \in DOMAIN stored.matched \ Touched', Recorded(s, stored.matched[s].time)
                 PROVE  rows'[s] = Row(MatchOf(stored.matched, s))
      BY <2>1 DEF InRows, MatchOf, Row, Recorded
    <3>1. rows[s] = Row(MatchOf(stored.matched, s))
      BY <1>1, <2>3 DEF StoredInRows, InRows
    <3> QED BY <2>1, <2>3, <2>4, <3>1
  <2>6. StoredInRows'
    BY <2>1, <2>2, <2>5 DEF StoredInRows
  <2>7. OutcomeInRows'
    BY <2>1, <2>4 DEF OutcomeInRows
  <2> QED BY <2>6, <2>7
<1>11. CASE SetRows
  <2>1. /\ InRows(matched, {})' /\ \A s \in toRemove \ Matched : rows'[s] = NoRow
    BY <1>1, <1>11, SetRowsTells
  <2>2. /\ stage = "setting" /\ stage' = "marking"
        /\ UNCHANGED <<matched, stored, written, toSet, toRemove>>
    BY <1>11 DEF SetRows, vars, handlerVars
  <2>3. Outcome' = Outcome /\ Outcome \in written
    BY <1>1, <2>2 DEF Outcome, StoredInRows
  <2>4. \A s \in Stops \ Touched : rows'[s] = rows[s]
    <3> SUFFICES ASSUME NEW s \in Stops, s \notin Touched PROVE rows'[s] = rows[s]
      OBVIOUS
    <3>1. s \notin {m.stop : m \in Outcome.set}
      BY <2>3 DEF Touched
    <3>2. {m \in toSet : m.stop = s} = {}
      BY <3>1 DEF Outcome
    <3> QED BY <1>11, <3>2 DEF SetRows
  <2>5. InRows(stored.matched, Touched)'
    <3>1. Touched' = Touched /\ DOMAIN stored.matched \subseteq Stops
      BY <2>2 DEF Touched, LambdaTypeOK, IsHistory
    <3> SUFFICES ASSUME NEW s \in DOMAIN stored.matched \ Touched, Recorded(s, stored.matched[s].time)
                 PROVE  rows'[s] = Row(MatchOf(stored.matched, s))
      BY <2>2, <3>1 DEF InRows, MatchOf, Row, Recorded
    <3> QED BY <1>1, <2>4, <3>1 DEF StoredInRows, InRows
  <2> QED BY <2>1, <2>2, <2>3, <2>5 DEF StoredInRows, OutcomeInRows
<1>12. CASE MarkSuccess
  <2>1. /\ stage = "marking" /\ stage' = "saving"
        /\ UNCHANGED <<matched, stored, rows, written, toSet, toRemove>>
    BY <1>12 DEF MarkSuccess, vars, handlerVars
  <2>2. InRows(matched, {})'
    BY <1>1, <2>1 DEF OutcomeInRows, InRows, MatchOf, Row, Recorded
  <2> QED BY <1>1, <1>2, <2>1, <2>2 DEF StoredInRows, OutcomeInRows, Outcome
<1>13. CASE SaveHistory
  <2>1. /\ stage = "saving" /\ stage' = "acknowledging" /\ stored'.matched = matched /\ written' = {}
        /\ UNCHANGED <<rows, toRemove>>
    BY <1>13 DEF SaveHistory, handlerVars
  <2>2. Touched' = {}
    BY <2>1 DEF Touched
  <2>3. InRows(stored.matched, Touched)'
    BY <1>1, <2>1, <2>2 DEF OutcomeInRows, InRows, MatchOf, Row, Recorded
  <2> QED BY <1>1, <2>1, <2>3 DEF StoredInRows, OutcomeInRows
<1>14. CASE Acknowledge
  <2>1. /\ stage = "acknowledging" /\ stage' = "waiting"
        /\ UNCHANGED <<stored, rows, written, toRemove, status>>
    BY <1>14 DEF Acknowledge, handlerVars
  <2> QED BY <1>1, <1>2, <2>1 DEF StoredInRows, OutcomeInRows
<1>15. CASE Raise
  BY <1>15 DEF Raise
<1>16. CASE RefreshBetweenBatches
  <2>1. UNCHANGED <<stored, rows, written, toRemove, status, stage>> /\ stage \in {"waiting", "delivered"}
    BY <1>16 DEF RefreshBetweenBatches, handlerVars
  <2> QED BY <1>1, <1>2, <2>1 DEF StoredInRows, OutcomeInRows
<1>17. CASE MatcherRaised
  <2>1. UNCHANGED <<stored, rows, written>> /\ stage' = "acknowledging" /\ written = {} /\ status' = "Failed"
    BY <1>17, Zenon DEF MatcherRaised, handlerVars
  <2> QED BY <1>2, <2>1 DEF StoredInRows, OutcomeInRows
<1>18. CASE UNCHANGED liveVars
  <2>1. UNCHANGED <<matched, stored, rows, written, toSet, toRemove, status, stage>>
    BY <1>18 DEF liveVars, vars, lambdaVars, handlerVars
  <2>2. InRows(matched, {})' <=> InRows(matched, {})
    BY <2>1 DEF InRows, MatchOf, Row, Recorded
  <2> QED BY <1>1, <1>2, <2>1, <2>2 DEF StoredInRows, OutcomeInRows, Outcome
<1> QED
  BY <1>4, <1>5, <1>6, <1>7, <1>8, <1>9, <1>10, <1>11, <1>12, <1>13, <1>14, <1>15, <1>16, <1>17, <1>18
  DEF LiveNext, Handle

LEMMA RowsInvariant == LiveSpec /\ []OutcomeAgrees => []RowsInv
<1>1. LiveInit => RowsInv
  BY DEF LiveInit, Init, RowsInv, MatchesAreTold, StoredInRows, OutcomeInRows, InRows, NewHistory
<1>2. LambdaInv /\ LambdaInv' /\ OutcomeAgrees /\ RowsInv /\ [LiveNext]_liveVars => RowsInv'
  <2> SUFFICES ASSUME LambdaInv, LambdaInv', OutcomeAgrees, RowsInv, [LiveNext]_liveVars
               PROVE  RowsInv'
    OBVIOUS
  <2>1. LambdaTypeOK /\ LambdaTypeOK'
    BY DEF LambdaInv
  <2>2. MatchesAreTold' /\ written' \subseteq Outcomes
    BY <2>1, ToldStep, OutcomesAreTyped DEF RowsInv
  <2>3. ~leftover' => StoredInRows' /\ OutcomeInRows'
    BY <2>1, <2>2, RowsStep
  <2> QED BY <2>2, <2>3 DEF RowsInv
<1> QED BY <1>1, <1>2, LambdaInvariant, PTL DEF LiveSpec

(* Rows and history agree wherever an invocation dies and however often its *)
(* message is delivered again, if what each attempt writes is definite and  *)
(* agrees with what the earlier ones wrote (OutcomeAgrees); for every route *)
(* and road, and for batches of any size.                                   *)
THEOREM RowsAreOfTheHistory == LiveSpec /\ []OutcomeAgrees => []RowsFollowHistory
<1>1. RowsInv => RowsFollowHistory
  BY DEF RowsInv, StoredInRows, InRows, Touched, MatchOf, Row, RowsFollowHistory, AtRest
<1> QED BY <1>1, RowsInvariant, PTL

(* Under the same condition no departure time is left of a match that the   *)
(* batch withdrew.                                                          *)
THEOREM WithdrawnRowsAreWiped == LiveSpec /\ []OutcomeAgrees => []WithdrawnRowsWiped
<1>1. RowsInv => WithdrawnRowsWiped
  BY DEF RowsInv, OutcomeInRows, WithdrawnRowsWiped, AtRest
<1> QED BY <1>1, RowsInvariant, PTL
=============================================================================
