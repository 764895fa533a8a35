--------------------------- MODULE MCOrchestration ---------------------------
(***************************************************************************)
(* Instances of Orchestration for TLC.                                     *)
(***************************************************************************)
EXTENDS OrchestrationInbox, TLC

CONSTANTS f1, f2, task_md

=============================================================================
