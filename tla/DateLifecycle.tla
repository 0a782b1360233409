--------------------------- MODULE DateLifecycle ---------------------------
(***************************************************************************)
(* What the orchestrator of historic matching promises about the dates it  *)
(* is given, without its lists, exports and restarts: a date is matched by *)
(* at most a fixed number of tasks at a time, its summaries are generated  *)
(* and its timetable is replaced only while it is not being matched, and a *)
(* summary counts until its rows change again.                             *)
(***************************************************************************)
EXTENDS Naturals, FiniteSets

CONSTANTS
  Day,                 \* dates
  MaxTasks             \* dates that may be matched at a time

VARIABLES
  matching,            \* the dates being matched
  summarised           \* the dates whose summaries tell what their rows tell

vars == <<matching, summarised>>

Init == matching = {} /\ summarised \in SUBSET Day

Match(d) ==
  /\ d \notin matching
  /\ Cardinality(matching) < MaxTasks
  /\ matching' = matching \cup {d}
  /\ UNCHANGED summarised

\* Tasks end, and what they wrote is in no summary yet, or they are given up.
EndMatching(dates) ==
  /\ matching' = matching \ dates
  /\ summarised' \in {summarised, summarised \ dates}

Summarise(d) ==
  /\ d \notin matching
  /\ summarised' = summarised \cup {d}
  /\ UNCHANGED matching

\* The rows of the date are replaced, or written by a task that was given up.
Reopen(d) ==
  /\ d \notin matching
  /\ summarised' = summarised \ {d}
  /\ UNCHANGED matching

Next ==
  \/ \E d \in Day : Match(d) \/ Summarise(d) \/ Reopen(d)
  \/ \E dates \in SUBSET matching : EndMatching(dates)

Spec == Init /\ [][Next]_vars

=============================================================================
