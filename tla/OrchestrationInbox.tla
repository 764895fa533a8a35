-------------------------- MODULE OrchestrationInbox --------------------------
(***************************************************************************)
(* build_orchestration_inbox() of advancore/agent_runner/                  *)
(* orchestration_inbox.py: what the inbox tells an owner about a run of    *)
(* Orchestration, from the checkpoint, the evidence it refers to and the   *)
(* repository as they are at the moment.  It reads only, so that it is a   *)
(* function of the state.  The files of Orchestration are whole and on the *)
(* branch of the run, so what the inbox says of torn, unsafe or misplaced  *)
(* files is left out.                                                      *)
(***************************************************************************)
EXTENDS Orchestration

\* _validate_checkpoint(): the task file can be read once there has to be one, and
\* the handoff and the decision are about the bundle.
Linked ==
  /\ ckpt.phase \notin {"GOAL_VALIDATION", "TASK_DRAFT_GENERATION"} => task \in TaskStatus
  /\ ckpt.bundle # 0 =>
    /\ ckpt.handoff # 0 => handoffs[ckpt.handoff].bundle = ckpt.bundle
    /\ ckpt.decision # 0 => decisions[ckpt.decision].bundle = ckpt.bundle

\* What may have changed since the checkpoint was saved; an empty fingerprint
\* matches anything.
PathsOnly == ckpt.fingerprint \in {{}, Changed} \* mutant: HEAD is not compared
UpToDate ==
  /\ ckpt.expectedHead = head
  /\ ckpt.fingerprint \in {{}, Changed}

\* _validate_terminal_publication(): the chain of evidence from the task to the
\* one PUSHED record and its commit.
TerminalEvidence ==
  /\ task = "APPROVED"
  /\ ckpt.bundle # 0 /\ ckpt.decision # 0
  /\ Approves(ckpt.decision)
  /\ decisions[ckpt.decision].actor \in Reviewers
  /\ decisions[ckpt.decision].bundle = ckpt.bundle
  /\ \E p \in records :
       /\ records = {p}
       /\ p.bundle = ckpt.bundle /\ p.decision = ckpt.decision

\* The status saved with a phase; the one of an owner's pending questions is an
\* owner's status too.
SavedStatus ==
  CASE ckpt.phase \in {"GOAL_VALIDATION", "TASK_DRAFT_GENERATION",
                       "AWAITING_TASK_APPROVAL"} -> "AWAITING_TASK_APPROVAL"
    [] ckpt.phase = "TASK_EXECUTION" /\ ckpt.rework > 0 -> "REWORK_REQUIRED"
    [] ckpt.phase = "PUBLISHED" -> "PUBLISHED"
    [] OTHER -> "AWAITING_IMPLEMENTATION_DECISION"

OwnerStatuses == {"AWAITING_TASK_APPROVAL", "AWAITING_IMPLEMENTATION_DECISION"}

FreshTerminal == TerminalEvidence /\ UpToDate \* mutant: a terminal claim must be fresh

\* _entry_for_checkpoint(): the class of the entry, or none.
Excluded == TerminalEvidence
Classification ==
  CASE ckpt.phase = "PUBLISHED" ->
         IF Excluded THEN "no entry" ELSE "stale-or-invalid-evidence"
    [] ckpt.phase # "PUBLISHED" /\ ~(Linked /\ UpToDate) -> "stale-or-invalid-evidence"
    [] ckpt.phase # "PUBLISHED" /\ Linked /\ UpToDate ->
         IF SavedStatus \in OwnerStatuses THEN "action-required"
         ELSE "operator-investigation"

-----------------------------------------------------------------------------
(***************************************************************************)
(* Properties                                                              *)
(***************************************************************************)

\* An owner action that the run as saved would accept.
Accepts(act) ==
  /\ ckpt.expectedHead = head
  /\ \/ /\ act \in TaskActions
        /\ ckpt.phase = "AWAITING_TASK_APPROVAL"
        /\ task = "DRAFT"
        /\ act = "APPROVE_TASK" => Changed \subseteq {TaskFile}
     \/ /\ act \in ImplementationActions
        /\ ckpt.phase = "AWAITING_IMPLEMENTATION_DECISION"
        /\ ckpt.bundle # 0 /\ ckpt.bundle = Len(bundles)
        /\ ckpt.handoff # 0 => handoffs[ckpt.handoff].bundle = ckpt.bundle
        /\ OnBundle(ckpt.bundle) = {}

\* An owner whom the inbox calls on while a run awaits a decision is heard: the
\* run would accept an owner action, unless the task was moved by hand or the
\* decision the run waits for is already recorded.
CalledOwnerIsHeard ==
  /\ ckpt # NoCkpt /\ pc = "idle"
  /\ Classification = "action-required"
  /\ ckpt.phase \in {"AWAITING_TASK_APPROVAL", "AWAITING_IMPLEMENTATION_DECISION"}
  => \/ \E act \in OwnerAction : Accepts(act)
     \/ ckpt.phase = "AWAITING_TASK_APPROVAL" /\ task # "DRAFT"
     \/ OnBundle(ckpt.bundle) # {}

\* "Later authorized feature-line commits or working-path changes do not create
\* false exceptions for a fully validated historical publication": a published
\* run whose publication is on record, written there by the run itself or by the
\* finalize command, leaves the inbox while its task stays APPROVED.
OnRecord == records = published /\ \E p \in published : published = {p}
PublishedRunsLeaveTheInbox ==
  ckpt.phase = "PUBLISHED" /\ task = "APPROVED" /\ OnRecord
    => Classification = "no entry"
=============================================================================
