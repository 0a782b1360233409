--------------------------- MODULE MCOrchestrator ---------------------------
(* Values of the constants of Orchestrator. *)
EXTENDS Orchestrator

TwoDates == {{1, 2}}
=============================================================================
