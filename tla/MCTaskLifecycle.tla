-------------------------- MODULE MCTaskLifecycle ---------------------------
(***************************************************************************)
(* Instances of TaskLifecycle for TLC: the calls its processes make.       *)
(***************************************************************************)
EXTENDS TaskLifecycle, TLC

Symmetric == Permutations(Procs)

Apply(to, actor) == [to |-> to, actor |-> actor, apply |-> TRUE]

\* The calls that meet in a race: the normal life of a task, a reviewer's
\* other decision, a worker that tries to approve its own work, a preview.
RacingCalls ==
  {Apply("READY", "controller"), Apply("IN_PROGRESS", "worker"),
   Apply("REVIEW", "worker"), Apply("APPROVED", "worker"),
   Apply("APPROVED", "controller"), Apply("BLOCKED", "owner"),
   [to |-> "APPROVED", actor |-> "owner", apply |-> FALSE]}
=============================================================================
