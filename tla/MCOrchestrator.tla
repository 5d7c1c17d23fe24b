--------------------------- MODULE MCOrchestrator ---------------------------
(* Small instances of Orchestrator, one for each MonitorMode. *)
EXTENDS Orchestrator

TwoPids == {1, 2}
=============================================================================
