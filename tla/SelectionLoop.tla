---------------------------- MODULE SelectionLoop -----------------------------
(***************************************************************************)
(* select_potential_match_with_same_recordedattime: module Matching says   *)
(* by a formula over the candidates what the loop of the code computes by  *)
(* going through the dictionary.  Here the loop itself is the reference,   *)
(* iteration by iteration, over a dictionary that is built insertion by    *)
(* insertion and next to any lowest matched stop.                          *)
(***************************************************************************)
EXTENDS Matching

VARIABLE loop   \* the locals of the call: stop_index, the keys gone through,
                \* lowest_index_diff, selected_index, and what it appended to the list

selectionVars == <<vars, loop>>

NotCalled == [stop |-> 0, gone |-> {}, lowest |-> 0, selected |-> 0, dropped |-> {}]

SelectionInit == Init /\ loop = NotCalled

\* A first match, before any potential match is inserted.
SaveOne(f) ==
    /\ loop = NotCalled
    /\ Matched = {} /\ Potentials = {}
    /\ matched' = [s \in {f} |-> [time |-> 0, est |-> FALSE, since |-> 0]]
    /\ UNCHANGED <<final, potential, lastAvl, todo, toDelete, newMatches, badMatches, pc, tick, loop>>

Insert(s, t) ==
    /\ loop = NotCalled
    /\ s \notin Potentials
    /\ potential' = [p \in Potentials \cup {s} |-> IF p = s
          THEN [dist |-> 0, time |-> t, est |-> FALSE, iso |-> FALSE, since |-> tick]
          ELSE potential[p]]
    /\ tick' = tick + 1
    /\ UNCHANGED <<final, matched, lastAvl, todo, toDelete, newMatches, badMatches, pc, loop>>

\* The call for a stop that was left and is not decided yet; one candidate is its own loop.
Call(s) ==
    /\ loop = NotCalled
    /\ s \in Potentials \ toDelete
    /\ loop' = [NotCalled EXCEPT !.stop = s, !.selected = s]
    /\ UNCHANGED vars

FirstMatchedStop == IF Matched = {} THEN 0 ELSE CHOOSE f \in LowestMatched : TRUE

ToGo == SameTime(loop.stop) \ loop.gone

\* One iteration of the loop of step 32; lowest_index_diff None and 0 are both false.
Iteration(index) ==
    /\ loop # NotCalled
    /\ index \in ToGo /\ \A p \in ToGo : ~Before(p, index)
    /\ LET diff == index - FirstMatchedStop
           taken == loop.lowest = 0 \/ diff < loop.lowest
       IN loop' = [loop EXCEPT
             !.gone = @ \cup {index},
             !.lowest = IF taken THEN diff ELSE @,
             !.selected = IF taken THEN index ELSE @,
             !.dropped = IF taken \/ index - loop.stop \in {1, -1} THEN @ ELSE @ \cup {index}]
    /\ UNCHANGED vars

SelectionNext ==
    \/ \E f \in Stops : SaveOne(f)
    \/ \E s \in Stops, t \in AvlTimes : Insert(s, t)
    \/ \E s \in Stops : Call(s) \/ Iteration(s)

SelectionSpec == SelectionInit /\ [][SelectionNext]_selectionVars

Returns == loop # NotCalled /\ ToGo = {}

(* The formula selects the stop that the loop of the code returns, and      *)
(* drops those that it appends to potential_matches_to_delete.              *)
SelectionIsTheLoop == Returns =>
    /\ Selected(SameTime(loop.stop)) = {loop.selected}
    /\ Dropped(SameTime(loop.stop), loop.stop) = loop.dropped
=============================================================================
