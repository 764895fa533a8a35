----------------------------- MODULE TaskStatus -----------------------------
(***************************************************************************)
(* What the lifecycle control plane promises about one task: its status    *)
(* changes only by a transition the authority table grants to the role     *)
(* that asked for it.  Modules that move a task are shown to implement     *)
(* this specification.                                                     *)
(***************************************************************************)
EXTENDS LifecycleTable

CONSTANT InitialStatuses  \* the statuses a task file may start with
VARIABLE status

Init == status \in InitialStatuses

Transition(to, actor) ==
  /\ IsTransitionAllowed(status, to, actor)
  /\ status' = to

Next == \E to \in TaskStatus, actor \in ActorRole : Transition(to, actor)

Spec == Init /\ [][Next]_status
=============================================================================
