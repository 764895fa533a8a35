--------------------------- MODULE LifecycleTable ---------------------------
(***************************************************************************)
(* The task statuses, the actor roles and the authority table of           *)
(* advancore/agent_runner/lifecycle.py, with the mapping from controller   *)
(* decisions to statuses of decision_lifecycle_bridge.py.  Pure            *)
(* definitions, shared by every module that moves a task.                  *)
(***************************************************************************)

TaskStatus == {"DRAFT", "READY", "IN_PROGRESS", "REVIEW", "REWORK",
               "APPROVED", "BLOCKED"}

ActorRole == {"worker", "controller", "owner"}

\* The two groups of roles the table hands authority to.
Reviewers == {"controller", "owner"}
Implementers == {"worker", "owner"}

NonFinalWorkingStates == TaskStatus \ {"APPROVED", "BLOCKED"}

\* Mutant: a worker may approve.
LaxAuthority ==
  ({<<"DRAFT", "READY">>, <<"REVIEW", "REWORK">>,
    <<"BLOCKED", "READY">>, <<"BLOCKED", "REWORK">>} \X Reviewers)
  \cup
  ({<<"REVIEW", "APPROVED">>} \X ActorRole)
  \cup
  ({<<"READY", "IN_PROGRESS">>, <<"IN_PROGRESS", "REVIEW">>,
    <<"REWORK", "IN_PROGRESS">>} \X Implementers)

\* Every entry of _TRANSITION_AUTHORITY as <<from, to, role>>.
TransitionAuthority ==
  ({<<"DRAFT", "READY">>, <<"REVIEW", "APPROVED">>, <<"REVIEW", "REWORK">>,
    <<"BLOCKED", "READY">>, <<"BLOCKED", "REWORK">>} \X Reviewers)
  \cup
  ({<<"READY", "IN_PROGRESS">>, <<"IN_PROGRESS", "REVIEW">>,
    <<"REWORK", "IN_PROGRESS">>} \X Implementers)

\* A status never moves to itself; BLOCKED is reached from every non-final
\* working state by a reviewer; everything else is looked up in the table.
IsTransitionAllowed(current, requested, actor) ==
  /\ current # requested
  /\ \/ /\ requested = "BLOCKED"
        /\ current \in NonFinalWorkingStates
        /\ actor \in Reviewers
     \/ /\ requested # "BLOCKED"
        /\ <<<<current, requested>>, actor>> \in TransitionAuthority

ControllerDecision == {"APPROVE", "REWORK", "BLOCKED"}

\* _DECISION_TO_STATUS of the bridge: the status a decision asks for.
DecisionToStatus == [APPROVE |-> "APPROVED", REWORK |-> "REWORK",
                     BLOCKED |-> "BLOCKED"]

\* The statuses runner.validate() lets a worker start from.
ExecutableStatuses == {"READY", "REWORK"}
=============================================================================
