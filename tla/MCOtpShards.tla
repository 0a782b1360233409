---------------------------- MODULE MCOtpShards ----------------------------
(* Two shards, for TLC. *)
EXTENDS OtpShards

TwoListed == [o \in {"listed0", "listed1"} |-> IF o = "listed0" THEN 0 ELSE 1]
Digest == [o \in Operators |-> IF o = "unlisted" THEN 5 ELSE 2]
=============================================================================
