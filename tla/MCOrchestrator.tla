--------------------------- MODULE MCOrchestrator ---------------------------
(* An operator who starts the runtime and an adapter that reconnects and   *)
(* invokes single components, for TLC.                                     *)
EXTENDS Orchestrator
=============================================================================
