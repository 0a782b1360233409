--------------------------- MODULE MCS3Ingestion ---------------------------
(* The ingestion of two files with an AVL in common. *)
EXTENDS S3Ingestion

Calendar == [a \in Avls |-> IF a = 3 THEN 1 ELSE 0]
Files == <<{1, 2}, {2, 3}>>
BatchIds == 1 .. NumFiles + MaxFailures
Seconds == 1 .. NumFiles + MaxFailures + 1
=============================================================================
