--------------------------- MODULE MCAutoPipeline ---------------------------
(***************************************************************************)
(* Instances of AutoPipeline for TLC.                                      *)
(***************************************************************************)
EXTENDS AutoPipeline, TLC

CONSTANTS f1, f2

=============================================================================
