----------------------------- MODULE MCFinalize -----------------------------
(***************************************************************************)
(* Instances of Finalize for TLC.                                          *)
(***************************************************************************)
EXTENDS Finalize, TLC

CONSTANTS a, b, task, v0, v1

\* One decision of each kind that the gates tell apart: a reviewer's and a worker's
\* approval, one that belongs to another bundle, and one to the contrary.
OneOfAKind ==
  {[value |-> "APPROVE", actor |-> "controller", linked |-> TRUE],
   [value |-> "APPROVE", actor |-> "worker", linked |-> TRUE],
   [value |-> "APPROVE", actor |-> "owner", linked |-> FALSE],
   [value |-> "REWORK", actor |-> "owner", linked |-> TRUE]}

SharedInit == Init /\ decision \in OneOfAKind

\* FairSpec from there.
SharedSpec == SharedInit /\ [][Next]_vars /\ WF_vars(Finalizer)
=============================================================================
