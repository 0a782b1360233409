--------------------------- MODULE MCDbIngestion ---------------------------
(* DB ingestion of a few batches around one midnight, for TLC. *)
EXTENDS DbIngestion, TLC

CONSTANTS a1, a2, late

Calendar == [a \in Avls |-> IF a = late THEN 1 ELSE 0]
Symmetric == Permutations(Workers) \cup Permutations({a1, a2}) \cup Permutations(Names)
=============================================================================
