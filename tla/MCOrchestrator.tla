--------------------------- MODULE MCOrchestrator ---------------------------
(* Small instances of Orchestrator. *)
EXTENDS Orchestrator

NoFrontier == {{}}
EveryFrontier == {{}, {Target}, {"TESTING"}}
=============================================================================
