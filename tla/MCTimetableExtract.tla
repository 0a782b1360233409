------------------------- MODULE MCTimetableExtract -------------------------
(* A day in quarters of an hour, for TLC. *)
EXTENDS TimetableExtract

(* An inbound evening journey, the outbound journey of the same group that passes midnight, *)
(* the same one a day later, and an unrelated journey of the other shard. *)
Night == {"inbound", "overnight", "nextnight", "other"}
NightDepartures == [inbound |-> <<84, 88>>, overnight |-> <<92, 96, 100>>,
                    nextnight |-> <<188, 192, 196>>, other |-> <<86, 98>>]
NightGroup == [j \in Night |-> IF j = "other" THEN "h" ELSE "g"]
NightDirection == [j \in Night |-> IF j = "inbound" THEN "in" ELSE "out"]
NightDay == [j \in Night |-> IF j = "nextnight" THEN 1 ELSE 0]
NightShard == [j \in Night |-> IF j = "other" THEN 2 ELSE 1]

(* There and back, with a break between the two. *)
Return == {"out", "back"}
ReturnSoon == [out |-> <<36, 40, 44>>, back |-> <<49, 52>>]
ReturnLater == [out |-> <<43, 47>>, back |-> <<57, 60>>]
OneGroup == [j \in Return |-> "g"]
ReturnDirection == [j \in Return |-> j]
Today == [j \in Return |-> 0]
OneShard == [j \in Return |-> 1]

(* The timetables above are ones of which OwnRoute is proved.               *)
ASSUME ServedAssumption == SettingsAgree /\ \A j \in Journeys : Served(j)
=============================================================================
