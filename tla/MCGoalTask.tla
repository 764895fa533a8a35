----------------------------- MODULE MCGoalTask -----------------------------
(***************************************************************************)
(* Instances of GoalTask for TLC.                                          *)
(***************************************************************************)
EXTENDS GoalTask

CONSTANTS g1, g2, source, s1, s2

AllCalls == Generators \X {"primary", "fallback"}
=============================================================================
