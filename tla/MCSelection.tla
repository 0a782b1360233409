---------------------------- MODULE MCSelection -----------------------------
(* Every dictionary of up to MaxStop stops, for TLC. *)
EXTENDS SelectionLoop

NoDistance == [p \in Points |-> [s \in Stops |-> 0]]
NoLine == [p \in Points |-> [q \in Points |-> [s \in Stops |-> NoCrossing]]]
AtMidnight == [s \in Stops |-> 0]
TwoHoursEarly == -7200
=============================================================================
