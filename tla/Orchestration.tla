---------------------------- MODULE Orchestration ----------------------------
(***************************************************************************)
(* run_orchestration() of advancore/agent_runner/orchestration.py: one run *)
(* from an owner's goal to a published branch, advanced by a command that  *)
(* loads a checkpoint, walks the phases until one of them has to wait, and *)
(* ends.  Every write the command makes (task file, commit, review bundle, *)
(* handoff, decision, checkpoint, remote, finalize.jsonl) is a step, it    *)
(* may be killed between any two of them, and operators act meanwhile.  A  *)
(* transition of the task and the reconciliation of a handoff read, check  *)
(* and write in steps of their own, whoever makes them.                    *)
(* The branch is the run's own feature branch; Finalize models the         *)
(* finalizer this module runs in a few steps.                              *)
(***************************************************************************)
EXTENDS TransitionCall, Naturals, Sequences, FiniteSets

CONSTANTS ImplFiles,     \* the files a worker changes
          TaskFile,      \* the generated task file
          MaxRework,     \* max_rework of the run
          Repairs,       \* whether the run has a repair budget
          MaxCommits, MaxBundles, MaxDecisions, MaxHandoffs,  \* bounds
          MaxRuns,       \* bound on the commands issued
          MaxFaults,     \* bound on the faults
          Interference,  \* what operators may do besides
          MaxOps         \* bound on how often they do it

InterferenceKinds == {"decide", "transition", "commit", "discard", "edit",
                      "reconcile", "finalize"}

ASSUME OrchestrationAssumption ==
  /\ TaskFile \notin ImplFiles
  /\ MaxRework \in {0, 1} /\ Repairs \in BOOLEAN
  /\ MaxCommits \in Nat \ {0} /\ MaxBundles \in Nat /\ MaxDecisions \in Nat
  /\ MaxHandoffs \in Nat /\ MaxRuns \in Nat /\ MaxFaults \in Nat /\ MaxOps \in Nat
  /\ Interference \subseteq InterferenceKinds

VARIABLES
  task,       \* the STATUS in the task file, NoTask before it is generated
  taskHead,   \* the STATUS in HEAD
  impl,       \* the implementation files that differ from HEAD
  head,       \* the number of commits on the branch; HEAD is the last one
  remote,     \* the tip of origin/<branch>
  bundles,    \* the review bundles, oldest first
  decisions,  \* the decision records, oldest first
  handoffs,   \* the handoff requests
  records,    \* the PUSHED lines of finalize.jsonl
  ckpt,       \* the checkpoint file
  pc,         \* the next step of the running command
  mem,        \* the checkpoint the command holds in memory
  apply,      \* --apply was given
  fresh,      \* the command starts the run: --goal was given
  action,     \* --owner-action, or "none"
  call,       \* the transition the command is making
  found,      \* the decision it is reconciling the handoff with, or 0
  mover,      \* the transition an operator is making
  copy,       \* the reconciliation an operator is about to write
  runs, faults, ops,
  whole,      \* ghost: the last status the task file carried
  overwritten,  \* ghost: a transition replaced a status it had not checked
  published,  \* ghost: the commits finalizers made
  applied,    \* ghost: applied[d]: how often the bridge applied REWORK decision d
  worked      \* ghost: the successful worker runs that changed something

custody == <<whole, overwritten>>
repo == <<task, taskHead, impl, head, remote, custody>>
evidence == <<bundles, decisions, handoffs, records>>
command == <<apply, fresh, action>>
locals == <<mem, command, call, found>>
operators == <<ops, mover, copy>>
counters == <<runs, faults, operators>>
ghosts == <<published, applied, worked>>
vars == <<repo, evidence, ckpt, pc, locals, counters, ghosts>>

NoTask == "NONE"
Files == ImplFiles \cup {TaskFile}
Changed == impl \cup (IF task # taskHead THEN {TaskFile} ELSE {})

Phase == {"GOAL_VALIDATION", "TASK_DRAFT_GENERATION", "AWAITING_TASK_APPROVAL",
          "TASK_EXECUTION", "AWAITING_IMPLEMENTATION_DECISION", "FINALIZATION",
          "PUBLISHED"}

\* References to bundles, handoffs and decisions are their numbers, 0 for None.
\* completed_phases, task_written, auto_status and push_verified are saved
\* together with the phase they follow from, which stands for them here.
Checkpoint ==
  [phase : Phase, expectedHead : 0..MaxCommits, fingerprint : SUBSET Files,
   bundle : 0..MaxBundles, handoff : 0..MaxHandoffs, decision : 0..MaxDecisions,
   consumed : SUBSET (1..MaxDecisions), rework : Nat]
NoCkpt == [phase |-> "GOAL_VALIDATION", expectedHead |-> 0, fingerprint |-> {},
           bundle |-> 0, handoff |-> 0, decision |-> 0, consumed |-> {}, rework |-> 0]
NoCopy == [handoff |-> 0, decision |-> 0]

TaskActions == {"APPROVE_TASK", "BLOCK_TASK"}
ImplementationActions == {"APPROVE_IMPLEMENTATION", "REWORK_IMPLEMENTATION",
                          "BLOCK_IMPLEMENTATION"}
OwnerAction == TaskActions \cup ImplementationActions
DecisionOf == [APPROVE_IMPLEMENTATION |-> "APPROVE", REWORK_IMPLEMENTATION |-> "REWORK",
               BLOCK_IMPLEMENTATION |-> "BLOCKED"]

Init ==
  /\ task = NoTask /\ taskHead = NoTask
  /\ impl = {}
  /\ head = 1 /\ remote = 1
  /\ bundles = <<>> /\ decisions = <<>> /\ handoffs = <<>>
  /\ records = {}
  /\ ckpt = NoCkpt
  /\ pc = "idle"
  /\ mem = NoCkpt /\ apply = FALSE /\ fresh = FALSE /\ action = "none"
  /\ call = NoCall /\ found = 0
  /\ mover = NoCall /\ copy = NoCopy
  /\ whole = NoTask /\ overwritten = FALSE
  /\ runs = 0 /\ faults = 0 /\ ops = 0
  /\ published = {}
  /\ applied = [d \in 1..MaxDecisions |-> 0]
  /\ worked = 0

Goto(step) == pc' = step

\* The command ends, and what it holds in memory is gone.
End ==
  /\ Goto("idle")
  /\ mem' = NoCkpt /\ apply' = FALSE /\ fresh' = FALSE /\ action' = "none"
  /\ call' = NoCall /\ found' = 0

\* A phase returns a result: nothing is saved.
Pause == End /\ UNCHANGED <<repo, evidence, ckpt, counters, ghosts>>

\* save_checkpoint() replaces the file atomically.
Save == ckpt' = mem'

Remember(step, checkpoint) ==
  /\ mem' = checkpoint
  /\ Goto(step)
  /\ UNCHANGED <<command, call, found>>

-----------------------------------------------------------------------------
(***************************************************************************)
(* Transitions of the task                                                 *)
(***************************************************************************)

TaskBecomes(text) == task' = text /\ whole' = IF text = Torn THEN whole ELSE text

\* A task file that is not there reads no better than an empty one.
Text == IF task = NoTask THEN Torn ELSE task

\* What a step of a call of transition_task() does to the task file.
Rewrite(c) ==
  /\ TaskBecomes(Written(c, Text))
  /\ overwritten' = (overwritten \/ Overwrites(c, Text))
  /\ UNCHANGED <<taskHead, impl, head, remote>>

\* The command calls transition_task() ...
Request(to, role) ==
  /\ call' = CallOf(to, role)
  /\ Goto("transition")
  /\ UNCHANGED <<repo, evidence, ckpt, mem, command, found, counters, ghosts>>

\* ... and goes on after it.
AfterCall ==
  IF mem.phase = "FINALIZATION"
  THEN [IN_PROGRESS |-> "started", REVIEW |-> "submitted", APPROVED |-> "commit"][call.to]
  ELSE [READY |-> "preserve", BLOCKED |-> "ownerSave",
        IN_PROGRESS |-> "toReview", REVIEW |-> "handed", REWORK |-> "reworkSave"][call.to]

\* The call takes its next step; a refused one ends the command.
Transition ==
  /\ pc = "transition"
  /\ \/ Refused(call, Text) /\ Pause
     \/ /\ ~Refused(call, Text)
        /\ Rewrite(call)
        /\ call' = Advanced(call, Text)
        /\ Goto(IF call.step = "fill" THEN AfterCall ELSE "transition")
        /\ applied' = IF call.step = "fill" /\ call.to = "REWORK"
                      THEN [applied EXCEPT ![mem.decision] = @ + 1] ELSE applied
        /\ UNCHANGED <<evidence, ckpt, mem, command, found, counters, published, worked>>

-----------------------------------------------------------------------------
(***************************************************************************)
(* The command and its owner actions                                       *)
(***************************************************************************)

Command(first, checkpoint, a) ==
  /\ pc = "idle"
  /\ runs < MaxRuns
  /\ runs' = runs + 1
  /\ mem' = checkpoint
  /\ apply' = a
  /\ Goto(first)
  /\ UNCHANGED <<repo, evidence, ckpt, call, found, faults, operators, ghosts>>

\* A run is new until its first checkpoint is saved.
StartRun(a) ==
  /\ ckpt = NoCkpt
  /\ fresh' = TRUE /\ action' = "none"
  /\ Command("loop", [NoCkpt EXCEPT !.expectedHead = head, !.fingerprint = Changed], a)

Resume(a, act) ==
  /\ ckpt # NoCkpt
  /\ fresh' = FALSE /\ action' = act
  /\ Command(IF act = "none" THEN "loop" ELSE "owner", ckpt, a)

OwnerGate ==
  /\ mem.phase = IF action \in TaskActions THEN "AWAITING_TASK_APPROVAL"
                 ELSE "AWAITING_IMPLEMENTATION_DECISION"
  /\ mem.expectedHead = head

\* The owner moves the DRAFT task; an approval first looks at the tree.
TaskActionOK ==
  /\ OwnerGate
  /\ action \in TaskActions
  /\ task = "DRAFT"
  /\ action = "APPROVE_TASK" => Changed \subseteq {TaskFile}

MoveTask ==
  /\ pc = "owner" /\ TaskActionOK /\ apply
  /\ Request(IF action = "APPROVE_TASK" THEN "READY" ELSE "BLOCKED", "owner")

NewCommit ==
  /\ head < MaxCommits
  /\ head' = head + 1
  /\ taskHead' = task
  /\ impl' = {}
  /\ UNCHANGED <<task, remote, custody>>

\* Mutant: the approved task is left to be committed by somebody else.
PreserveNothing ==
  /\ pc = "preserve"
  /\ Goto("ownerSave")
  /\ UNCHANGED <<repo, evidence, ckpt, locals, counters, ghosts>>

\* The approved task, and nothing else, is committed on the feature branch.
PreserveTask ==
  /\ pc = "preserve"
  /\ \/ /\ \/ mem.expectedHead # head
           \/ Changed \notin {{}, {TaskFile}}
        /\ Pause
     \/ /\ mem.expectedHead = head /\ Changed = {}
        /\ Goto("ownerSave")
        /\ UNCHANGED <<repo, evidence, ckpt, locals, counters, ghosts>>
     \/ /\ mem.expectedHead = head /\ Changed = {TaskFile}
        /\ NewCommit
        /\ Remember("ownerSave", [mem EXCEPT !.expectedHead = head + 1, !.fingerprint = {}])
        /\ UNCHANGED <<evidence, ckpt, counters, ghosts>>

\* The decision an owner action stands for, the records that match it but for
\* their note, and those that contradict it.
OwnerDecision == [value |-> DecisionOf[action], actor |-> "owner", bundle |-> mem.bundle]
OnBundle(b) == {d \in DOMAIN decisions : decisions[d].bundle = b}
Exact == {d \in OnBundle(mem.bundle) \ mem.consumed : decisions[d] = OwnerDecision}
Conflicts == OnBundle(mem.bundle) \ (mem.consumed \cup Exact)

ImplementationActionOK ==
  /\ OwnerGate
  /\ action \in ImplementationActions
  /\ mem.bundle # 0 /\ mem.bundle = Len(bundles)
  /\ mem.handoff # 0 => handoffs[mem.handoff].bundle = mem.bundle
  /\ OnBundle(mem.bundle) \cap mem.consumed = {}
  /\ Conflicts = {}
  /\ Cardinality(Exact) <= 1

\* Mutant: the handoff could not be written, and nobody noticed.
HandoffUnwritten(b) == UNCHANGED handoffs
NewHandoff(b) ==
  /\ Len(handoffs) < MaxHandoffs
  /\ handoffs' = Append(handoffs, [bundle |-> b, decision |-> 0])

\* An exact record found now will be used again; the handoff that refers to it
\* is not reconciled again.
OwnerHandoff ==
  LET decision == IF Exact = {} THEN 0 ELSE CHOOSE d \in Exact : TRUE IN
  /\ pc = "owner" /\ ImplementationActionOK /\ apply
  /\ \/ /\ mem.handoff # 0
        /\ Remember(IF decision # 0 /\ handoffs[mem.handoff].decision # 0
                    THEN "ownerSave" ELSE "ownerDecide", [mem EXCEPT !.decision = decision])
        /\ UNCHANGED handoffs
     \/ /\ mem.handoff = 0
        /\ NewHandoff(mem.bundle)
        /\ Remember("ownerDecide", [mem EXCEPT !.handoff = Len(handoffs) + 1,
                                               !.decision = decision])
  /\ UNCHANGED <<repo, bundles, decisions, records, ckpt, counters, ghosts>>

NewDecision(v, a, b) ==
  /\ Len(decisions) < MaxDecisions
  /\ decisions' = Append(decisions, [value |-> v, actor |-> a, bundle |-> b])

OwnerDecide ==
  /\ pc = "ownerDecide"
  /\ \/ /\ mem.decision = 0
        /\ NewDecision(DecisionOf[action], "owner", mem.bundle)
        /\ Remember("ownerReconcile", [mem EXCEPT !.decision = Len(decisions) + 1])
     \/ /\ mem.decision # 0
        /\ Goto("ownerReconcile")
        /\ UNCHANGED <<decisions, locals>>
  /\ UNCHANGED <<repo, bundles, handoffs, records, ckpt, counters, ghosts>>

\* Mutant: the decision need not be about the handoff's bundle.
AnyDecision(h, d) == handoffs[h].decision \in {0, d}
\* reconcile_controller_handoff() accepts a decision on the handoff's bundle, for
\* a handoff that is not yet reconciled to another one ...
Reconcilable(h, d) ==
  /\ decisions[d].bundle = handoffs[h].bundle
  /\ handoffs[h].decision \in {0, d}
\* ... and has something to write if it is not yet reconciled at all.
Open(h) == handoffs[h].decision = 0

\* What it has loaded is written back, whatever the file says by then.
WriteBack(h, d) == handoffs' = [handoffs EXCEPT ![h].decision = d]

Reconcile(d, step) ==
  /\ found' = d
  /\ Goto(step)
  /\ UNCHANGED <<repo, evidence, ckpt, mem, command, call, counters, ghosts>>

OwnerReconcile ==
  /\ pc = "ownerReconcile"
  /\ \/ ~Reconcilable(mem.handoff, mem.decision) /\ Pause
     \/ /\ Reconcilable(mem.handoff, mem.decision)
        /\ \/ Open(mem.handoff) /\ Reconcile(mem.decision, "ownerWrite")
           \/ ~Open(mem.handoff) /\ Reconcile(0, "ownerSave")

WriteHandoff ==
  /\ pc \in {"ownerWrite", "matchWrite"}
  /\ WriteBack(mem.handoff, found)
  /\ found' = 0
  /\ Goto(IF pc = "ownerWrite" THEN "ownerSave" ELSE "dispatch")
  /\ UNCHANGED <<repo, bundles, decisions, records, ckpt, mem, command, call, counters, ghosts>>

OwnerSave ==
  /\ pc = "ownerSave"
  /\ Remember("loop", mem) /\ Save
  /\ UNCHANGED <<repo, evidence, counters, ghosts>>

\* An action that is out of place is an error, and so is a decision that differs
\* from the record there is in its note; a preview of a good one returns.
OwnerRefused ==
  /\ pc = "owner"
  /\ \/ ~(TaskActionOK \/ ImplementationActionOK)
     \/ ImplementationActionOK /\ Exact # {}
     \/ ~apply
  /\ Pause

-----------------------------------------------------------------------------
(***************************************************************************)
(* The phases                                                              *)
(***************************************************************************)

At(phase) == pc = "loop" /\ mem.phase = phase

\* Mutant: a preview writes the checkpoint too.
SavesAlways == Save
SaveIfApplied == IF apply THEN Save ELSE UNCHANGED ckpt

ValidateGoal ==
  /\ At("GOAL_VALIDATION")
  /\ Remember("loop", [mem EXCEPT !.phase = "TASK_DRAFT_GENERATION"])
  /\ SaveIfApplied
  /\ UNCHANGED <<repo, evidence, counters, ghosts>>

\* The planner proposes a task: with the goal in hand, which only the command
\* that starts the run has, and on a clean tree.  It may also fail.
GenerateDraft ==
  /\ At("TASK_DRAFT_GENERATION")
  /\ \/ Pause
     \/ /\ fresh /\ apply /\ Changed = {}
        /\ TaskBecomes("DRAFT")
        /\ Goto("draftSave")
        /\ UNCHANGED <<taskHead, impl, head, remote, overwritten, evidence, ckpt, locals,
                       counters, ghosts>>

\* _update_fingerprint(): what the tree is like now.
Snapshot(checkpoint) == [checkpoint EXCEPT !.expectedHead = head, !.fingerprint = Changed]

SaveDraft ==
  /\ pc = "draftSave"
  /\ Remember("loop", Snapshot([mem EXCEPT !.phase = "AWAITING_TASK_APPROVAL"])) /\ Save
  /\ UNCHANGED <<repo, evidence, counters, ghosts>>

\* Mutant: the command stays until the task is released.
StaysUntilReleased ==
  /\ At("AWAITING_TASK_APPROVAL")
  /\ task = "READY"
  /\ Remember("loop", [mem EXCEPT !.phase = "TASK_EXECUTION", !.expectedHead = head])
  /\ SaveIfApplied
  /\ UNCHANGED <<repo, evidence, counters, ghosts>>

AwaitTaskApproval ==
  /\ At("AWAITING_TASK_APPROVAL")
  /\ \/ task # "READY" /\ Pause
     \/ /\ task = "READY"
        /\ Remember("loop", [mem EXCEPT !.phase = "TASK_EXECUTION", !.expectedHead = head])
        /\ SaveIfApplied
        /\ UNCHANGED <<repo, evidence, counters, ghosts>>

BeginExecution ==
  /\ At("TASK_EXECUTION")
  /\ \/ /\ \/ task \notin ExecutableStatuses
           \/ ~apply
           \/ mem.expectedHead # head
        /\ Pause
     \/ /\ task \in ExecutableStatuses /\ apply /\ mem.expectedHead = head
        /\ Goto("worker")
        /\ UNCHANGED <<repo, evidence, ckpt, locals, counters, ghosts>>

\* Mutant: the worker is launched on whatever is there.
LaunchAnyway == TRUE
\* validate() of runner.execute(), on a fresh snapshot.
Launchable == Changed = {} /\ task \in ExecutableStatuses

\* run_auto_pipeline(): the worker changes files, execute() writes a bundle of
\* them, and the verification passes at once, after a repair that changes files
\* the bundle does not know, or not at all.
RunWorker ==
  /\ pc = "worker"
  /\ \/ ~Launchable /\ Pause
     \/ /\ Launchable
        /\ Len(bundles) < MaxBundles
        /\ \E paths \in SUBSET ImplFiles, final \in SUBSET ImplFiles :
             /\ final = paths \/ Repairs
             /\ bundles' = Append(bundles, [head |-> head, paths |-> paths])
             /\ impl' = final
             /\ \/ End /\ UNCHANGED worked
                \/ /\ worked' = IF final = {} THEN worked ELSE worked + 1
                   /\ Remember("workerDone", [mem EXCEPT !.bundle = Len(bundles) + 1])
        /\ UNCHANGED <<task, taskHead, head, remote, custody, decisions, handoffs, records,
                       ckpt, counters, published, applied>>

SaveExecution ==
  /\ pc = "workerDone"
  /\ Remember("loop", Snapshot([mem EXCEPT !.phase = "AWAITING_IMPLEMENTATION_DECISION"]))
  /\ Save
  /\ UNCHANGED <<repo, evidence, counters, ghosts>>

\* A handoff is created once, and saved before anything else.
RequestReview ==
  /\ At("AWAITING_IMPLEMENTATION_DECISION")
  /\ \/ ~apply /\ Pause
     \/ /\ apply /\ mem.handoff # 0
        /\ Goto("match")
        /\ UNCHANGED <<repo, evidence, ckpt, locals, counters, ghosts>>
     \/ /\ apply /\ mem.handoff = 0
        /\ NewHandoff(mem.bundle)
        /\ Remember("handoffSave", [mem EXCEPT !.handoff = Len(handoffs) + 1])
        /\ UNCHANGED <<repo, bundles, decisions, records, ckpt, counters, ghosts>>

SaveHandoff ==
  /\ pc = "handoffSave"
  /\ Remember("match", mem) /\ Save
  /\ UNCHANGED <<repo, evidence, counters, ghosts>>

\* _find_matching_decision(): the latest record about the task not yet consumed.
Unconsumed == DOMAIN decisions \ mem.consumed
Latest(d) == d \in Unconsumed /\ \A e \in Unconsumed : e <= d

\* A decision that does not reconcile is only a warning.
MatchDecision ==
  /\ pc = "match"
  /\ \/ mem.expectedHead # head /\ Pause
     \/ /\ mem.expectedHead = head
        /\ IF \E d \in Unconsumed : Latest(d) /\ Reconcilable(mem.handoff, d) /\ Open(mem.handoff)
           THEN \E d \in Unconsumed : Latest(d) /\ Reconcile(d, "matchWrite")
           ELSE Reconcile(0, "dispatch")

\* The manual adapter reports the decision the handoff refers to, if any ...
Dispatch ==
  LET d == handoffs[mem.handoff].decision IN
  /\ pc = "dispatch"
  /\ \/ d = 0 /\ Pause
     \/ d # 0 /\ Reconcile(d, "confirm")

\* ... and the dispatcher reconciles the handoff with it again.
Confirm ==
  /\ pc = "confirm"
  /\ \/ ~Reconcilable(mem.handoff, found) /\ Pause
     \/ /\ Reconcilable(mem.handoff, found)
        /\ mem' = [mem EXCEPT !.decision = found]
        /\ found' = 0
        /\ Goto("act")
        /\ Save
        /\ UNCHANGED <<repo, evidence, command, call, counters, ghosts>>

ReworkLeft == mem.rework < MaxRework

Approves(d) == decisions[d].value = "APPROVE"

ActOnDecision ==
  LET value == decisions[mem.decision].value IN
  /\ pc = "act"
  /\ \/ /\ \/ value = "BLOCKED"
           \/ value = "REWORK" /\ ~ReworkLeft
        /\ Pause
     \/ /\ Approves(mem.decision)
        /\ Remember("loop", Snapshot([mem EXCEPT !.phase = "FINALIZATION"])) /\ Save
        /\ UNCHANGED <<repo, evidence, counters, ghosts>>
     \/ /\ value = "REWORK" /\ ReworkLeft
        /\ Goto("toProgress")
        /\ UNCHANGED <<repo, evidence, ckpt, locals, counters, ghosts>>

\* The worker-owned moves, each skipped when the task is already past it.
HandToReview ==
  /\ pc \in {"toProgress", "toReview", "handed"}
  /\ \/ pc = "toProgress" /\ task \in {"READY", "REWORK"} /\ Request("IN_PROGRESS", "worker")
     \/ pc # "handed" /\ task = "IN_PROGRESS" /\ Request("REVIEW", "worker")
     \/ /\ task = "REVIEW"
        /\ Goto("bridge")
        /\ UNCHANGED <<repo, evidence, ckpt, locals, counters, ghosts>>
     \/ /\ pc = "toProgress" => task \notin {"READY", "REWORK"}
        /\ pc # "handed" => task # "IN_PROGRESS"
        /\ task # "REVIEW"
        /\ Pause

\* apply_controller_decision() moves REVIEW to REWORK.
ApplyRework ==
  /\ pc = "bridge"
  /\ \/ task \notin TaskStatus /\ Pause
     \/ task \in TaskStatus /\ Request("REWORK", decisions[mem.decision].actor)

\* Mutant: the next round starts with the handoff of the last one.
KeepsHandoff == [mem EXCEPT !.bundle = 0]
Forgotten == [mem EXCEPT !.bundle = 0, !.handoff = 0, !.decision = 0]

\* Mutant: the run goes on as if no decision had been applied.
ConsumesNothing ==
  /\ pc = "reworkSave"
  /\ Remember("loop", mem) /\ Save
  /\ UNCHANGED <<repo, evidence, counters, ghosts>>

\* The decision is consumed, the cycle counted, and its evidence forgotten.
SaveRework ==
  /\ pc = "reworkSave"
  /\ Remember("loop", [Forgotten EXCEPT !.phase = "TASK_EXECUTION", !.rework = @ + 1,
                                        !.consumed = @ \cup {mem.decision}])
  /\ Save
  /\ UNCHANGED <<repo, evidence, counters, ghosts>>

-----------------------------------------------------------------------------
(***************************************************************************)
(* Publication                                                             *)
(***************************************************************************)

\* _check_freshness(): an empty fingerprint matches anything.
Fresh ==
  /\ mem.expectedHead = head
  /\ mem.fingerprint \in {{}, Changed}

BeginFinalization ==
  /\ At("FINALIZATION")
  /\ \/ ~(apply /\ Fresh) /\ Pause
     \/ /\ apply /\ Fresh
        /\ Goto("gates")
        /\ UNCHANGED <<repo, evidence, ckpt, locals, counters, ghosts>>

\* Steps 1 to 10 of run_finalization().
Gates(d) ==
  LET b == bundles[decisions[d].bundle] IN
  /\ decisions[d].value = "APPROVE"
  /\ task \in TaskStatus
  /\ b.head = head
  /\ b.paths # {} /\ Changed = b.paths

PassGates ==
  /\ pc = "gates"
  /\ \/ ~Gates(mem.decision) /\ Pause
     \/ /\ Gates(mem.decision)
        /\ Goto("lifecycle")
        /\ UNCHANGED <<repo, evidence, ckpt, locals, counters, ghosts>>

\* Mutant: the approval is skipped.
StopsAtReview == [READY |-> "IN_PROGRESS", IN_PROGRESS |-> "REVIEW"]
\* Steps 11 and 12: the worker's moves, then the approval.  The file is read again
\* after a worker's move, but the second one follows the first whatever it says,
\* and nothing is read after the approval.
ApprovalChain == [READY |-> "IN_PROGRESS", IN_PROGRESS |-> "REVIEW", REVIEW |-> "APPROVED"]

\* Mutant: the finalizer writes APPROVED itself.
ApprovesItself ==
  /\ pc = "lifecycle"
  /\ TaskBecomes("APPROVED")
  /\ Goto("commit")
  /\ UNCHANGED <<taskHead, impl, head, remote, overwritten, evidence, ckpt, locals, counters,
                 ghosts>>

Approve ==
  LET from == IF pc = "started" /\ task \in TaskStatus THEN "IN_PROGRESS" ELSE task
      on == /\ from \in DOMAIN ApprovalChain
            /\ pc = "submitted" => from = "REVIEW"
  IN
  /\ pc \in {"lifecycle", "started", "submitted"}
  /\ \/ ~on /\ from # "APPROVED" /\ Pause
     \/ /\ on
        /\ Request(ApprovalChain[from],
                   IF from = "REVIEW" THEN decisions[mem.decision].actor ELSE "worker")
     \/ /\ from = "APPROVED"
        /\ Goto("commit")
        /\ UNCHANGED <<repo, evidence, ckpt, locals, counters, ghosts>>

\* Mutant: git add -A.
Everything(d) == Changed
PathsOf(d) == bundles[decisions[d].bundle].paths \cup {TaskFile}
Publication(d) ==
  [commit |-> head + 1, bundle |-> decisions[d].bundle, decision |-> d, paths |-> impl]

\* Steps 12c to 19.
Commit ==
  /\ pc = "commit"
  /\ \/ Changed # PathsOf(mem.decision) /\ Pause
     \/ /\ Changed = PathsOf(mem.decision)
        /\ NewCommit
        /\ published' = published \cup {Publication(mem.decision)}
        /\ Goto("push")
        /\ UNCHANGED <<evidence, ckpt, locals, counters, applied, worked>>

\* Mutant: whether the push arrived is not looked at.
PushUnchecked ==
  /\ pc = "push"
  /\ Goto("record")
  /\ UNCHANGED <<repo, evidence, ckpt, locals, counters, ghosts>>
\* Steps 20 and 21; a push that leaves the tree dirty is not accepted.
Push ==
  /\ pc = "push"
  /\ remote' = head
  /\ IF Changed = {} THEN Goto("record") /\ UNCHANGED locals ELSE End
  /\ UNCHANGED <<task, taskHead, impl, head, custody, evidence, ckpt, counters, ghosts>>

\* Step 22.
Record ==
  /\ pc = "record"
  /\ records' = records \cup {p \in published : p.decision = mem.decision}
  /\ Goto("publishedSave")
  /\ UNCHANGED <<repo, bundles, decisions, handoffs, ckpt, locals, counters, ghosts>>

SavePublished ==
  /\ pc = "publishedSave"
  /\ Remember("loop", Snapshot([mem EXCEPT !.phase = "PUBLISHED"])) /\ Save
  /\ UNCHANGED <<repo, evidence, counters, ghosts>>

Finish == At("PUBLISHED") /\ Pause

-----------------------------------------------------------------------------
(***************************************************************************)
(* Recovery, faults and operators                                          *)
(***************************************************************************)

\* Everything reconcile_completed_run() asks of the one PUSHED record.
Completed(p) ==
  /\ records = {p}
  /\ ckpt.phase # "PUBLISHED"
  /\ Changed = {} /\ task = "APPROVED" /\ head = remote
  /\ {d \in OnBundle(p.bundle) : decisions[d].value = "APPROVE"} = {p.decision}
  /\ ckpt.bundle \in {0, p.bundle}
  /\ ckpt.decision \in {0, p.decision}

\* The separate recovery command.
ReconcileCompleted ==
  /\ pc = "idle" /\ ckpt # NoCkpt
  /\ runs < MaxRuns
  /\ runs' = runs + 1
  /\ \E p \in records :
       /\ Completed(p)
       /\ ckpt' = [ckpt EXCEPT !.phase = "PUBLISHED", !.expectedHead = head,
                               !.decision = p.decision, !.bundle = p.bundle]
  /\ UNCHANGED <<repo, evidence, pc, locals, faults, operators, ghosts>>

Fault == faults < MaxFaults /\ faults' = faults + 1

\* Killed, or a Git command or a write failed: what is on disk stays, a worker's
\* unfinished work without a bundle, a task file without its text.
Crash ==
  /\ pc # "idle"
  /\ Fault
  /\ End
  /\ impl' \in IF pc = "worker" /\ Launchable THEN SUBSET ImplFiles ELSE {impl}
  /\ UNCHANGED <<task, taskHead, head, remote, custody, evidence, ckpt, runs, operators,
                 ghosts>>

\* finalize.jsonl cannot be written: a warning.
RecordFails ==
  /\ pc = "record"
  /\ Fault
  /\ Goto("publishedSave")
  /\ UNCHANGED <<repo, evidence, ckpt, locals, runs, operators, ghosts>>

\* Nothing the command keeps is touched.
Aside == UNCHANGED <<ckpt, pc, locals, runs, faults, applied, worked>>

Operate(kind) ==
  /\ kind \in Interference
  /\ ops < MaxOps
  /\ ops' = ops + 1
  /\ Aside

\* A decision is recorded for a bundle, the latest or an older one.
Decide(v, a, b) ==
  /\ Operate("decide")
  /\ NewDecision(v, a, b)
  /\ UNCHANGED <<repo, bundles, handoffs, records, mover, copy, published>>

\* Somebody calls transition_task(), as the owner, who has the authority of the
\* other roles too.  The two readings are one step: nothing is written between
\* them, and a call whose readings differ returns.
OperatorTransition(to) ==
  /\ Operate("transition")
  /\ mover = NoCall
  /\ IsTransitionAllowed(task, to, "owner")
  /\ mover' = [CallOf(to, "owner") EXCEPT !.step = "load", !.from = task]
  /\ UNCHANGED <<repo, evidence, copy, published>>

\* The call takes its next step; one that was killed takes none any more.
OperatorContinues ==
  /\ mover # NoCall
  /\ \/ Refused(mover, Text) /\ mover' = NoCall /\ UNCHANGED repo
     \/ ~Refused(mover, Text) /\ mover' = Advanced(mover, Text) /\ Rewrite(mover)
  /\ Aside
  /\ UNCHANGED <<evidence, ops, copy, published>>

OperatorCommit ==
  /\ Operate("commit")
  /\ Changed # {}
  /\ NewCommit
  /\ UNCHANGED <<evidence, mover, copy, published>>

\* git reset --hard and git clean.
Discard ==
  /\ Operate("discard")
  /\ impl' = {} /\ TaskBecomes(taskHead)
  /\ UNCHANGED <<taskHead, head, remote, overwritten, evidence, mover, copy, published>>

Edit(f) ==
  /\ Operate("edit")
  /\ impl' = impl \cup {f}
  /\ UNCHANGED <<task, taskHead, head, remote, custody, evidence, mover, copy, published>>

\* An operator reconciles a handoff: it is loaded and compared ...
OperatorReconcile(h, d) ==
  /\ Operate("reconcile")
  /\ copy = NoCopy
  /\ Reconcilable(h, d) /\ Open(h)
  /\ copy' = [handoff |-> h, decision |-> d]
  /\ UNCHANGED <<repo, evidence, mover, published>>

\* ... and written back, unless the command was killed.
OperatorWrites ==
  /\ copy # NoCopy
  /\ WriteBack(copy.handoff, copy.decision)
  /\ copy' = NoCopy
  /\ Aside
  /\ UNCHANGED <<repo, bundles, decisions, records, ops, mover, published>>

\* The finalize command, run outside the orchestration.
FinalizeByHand(d) ==
  /\ Operate("finalize")
  /\ Gates(d)
  /\ task \in DOMAIN ApprovalChain /\ head < MaxCommits
  /\ TaskBecomes("APPROVED") /\ taskHead' = "APPROVED"
  /\ impl' = {}
  /\ head' = head + 1 /\ remote' = head + 1
  /\ published' = published \cup {Publication(d)}
  /\ records' = records \cup {Publication(d)}
  /\ UNCHANGED <<overwritten, bundles, decisions, handoffs, mover, copy>>

Operator ==
  \/ \E v \in ControllerDecision, a \in Reviewers, b \in DOMAIN bundles : Decide(v, a, b)
  \/ \E to \in TaskStatus : OperatorTransition(to)
  \/ OperatorContinues
  \/ OperatorCommit \/ Discard
  \/ \E f \in ImplFiles : Edit(f)
  \/ \E h \in DOMAIN handoffs, d \in DOMAIN decisions : OperatorReconcile(h, d)
  \/ OperatorWrites
  \/ \E d \in DOMAIN decisions : FinalizeByHand(d)

OwnerIntake ==
  \/ MoveTask \/ PreserveTask \/ OwnerHandoff \/ OwnerDecide \/ OwnerReconcile
  \/ WriteHandoff \/ OwnerSave \/ OwnerRefused

Phases ==
  \/ ValidateGoal \/ GenerateDraft \/ SaveDraft \/ AwaitTaskApproval
  \/ BeginExecution \/ RunWorker \/ SaveExecution
  \/ RequestReview \/ SaveHandoff \/ MatchDecision \/ Dispatch \/ Confirm \/ ActOnDecision
  \/ Transition \/ HandToReview \/ ApplyRework \/ SaveRework
  \/ BeginFinalization \/ PassGates \/ Approve \/ Commit \/ Push \/ Record
  \/ SavePublished \/ Finish

Orchestrator == OwnerIntake \/ Phases

Next ==
  \/ \E a \in BOOLEAN : StartRun(a)
  \/ \E a \in BOOLEAN, act \in OwnerAction \cup {"none"} : Resume(a, act)
  \/ Orchestrator
  \/ ReconcileCompleted
  \/ Crash \/ RecordFails
  \/ Operator

Spec == Init /\ [][Next]_vars

\* A started command goes on, but the worker's pipeline need not: it runs tests,
\* which have no deadline.
FairSpec == Spec /\ WF_vars(~(pc = "worker" /\ Launchable) /\ Orchestrator)

-----------------------------------------------------------------------------
(***************************************************************************)
(* Properties                                                              *)
(***************************************************************************)

Step == {"idle", "loop", "owner", "preserve", "ownerDecide", "ownerReconcile", "ownerWrite",
         "ownerSave", "draftSave", "worker", "workerDone", "handoffSave", "match",
         "matchWrite", "dispatch", "confirm", "act", "transition",
         "toProgress", "toReview", "handed", "bridge", "reworkSave",
         "gates", "lifecycle", "started", "submitted", "commit", "push", "record",
         "publishedSave"}

PublicationType == [commit : 1..MaxCommits, bundle : 1..MaxBundles,
                    decision : 1..MaxDecisions, paths : SUBSET ImplFiles]

\* The type of every variable; a reference never dangles.
TypeOK ==
  /\ task \in TaskTexts \cup {NoTask} /\ taskHead \in TaskTexts \cup {NoTask}
  /\ impl \subseteq ImplFiles
  /\ head \in 1..MaxCommits /\ remote \in 1..MaxCommits
  /\ bundles \in Seq([head : 1..MaxCommits, paths : SUBSET ImplFiles])
  /\ decisions \in Seq([value : ControllerDecision, actor : Reviewers,
                        bundle : DOMAIN bundles])
  /\ handoffs \in Seq([bundle : DOMAIN bundles, decision : {0} \cup DOMAIN decisions])
  /\ Len(bundles) <= MaxBundles /\ Len(decisions) <= MaxDecisions
  /\ Len(handoffs) <= MaxHandoffs
  /\ ckpt \in Checkpoint /\ mem \in Checkpoint
  /\ \A c \in {ckpt, mem} :
       /\ c.bundle <= Len(bundles) /\ c.handoff <= Len(handoffs)
       /\ c.decision <= Len(decisions) /\ c.consumed \subseteq DOMAIN decisions
  /\ pc \in Step
  /\ apply \in BOOLEAN /\ fresh \in BOOLEAN
  /\ action \in OwnerAction \cup {"none"}
  /\ call \in TransitionCalls /\ mover \in TransitionCalls
  /\ found \in {0} \cup DOMAIN decisions
  /\ copy = NoCopy \/ copy \in [handoff : DOMAIN handoffs, decision : DOMAIN decisions]
  /\ whole \in TaskStatus \cup {NoTask} /\ overwritten \in BOOLEAN
  /\ runs \in 0..MaxRuns /\ faults \in 0..MaxFaults /\ ops \in 0..MaxOps
  /\ records \subseteq published
  /\ published \subseteq PublicationType
  /\ applied \in [1..MaxDecisions -> Nat] /\ worked \in Nat

\* Publication stands on an APPROVE record about its bundle and commits the
\* paths reviewed in it, and a run publishes once: no crash, resume, rework, stale
\* or later decision leads around the gate or through it again, and neither does
\* the finalize command next to the run.  Only a transition that replaces a
\* status it has not checked can reopen the task for a second publication.
PublishedWithAuthority ==
  /\ \A p \in published :
       /\ decisions[p.decision].value = "APPROVE"
       /\ decisions[p.decision].bundle = p.bundle
       /\ p.paths = bundles[p.bundle].paths
  /\ \A p, q \in published : p = q \/ overwritten

\* A checkpoint that says PUBLISHED names the bundle and the decision of a
\* commit the remote has.
PublishedIsTrue ==
  ckpt.phase = "PUBLISHED" =>
    \E p \in published :
      p.bundle = ckpt.bundle /\ p.decision = ckpt.decision /\ p.commit <= remote

\* A run enters finalization with an APPROVE about the bundle of its own
\* checkpoint, and the handoff it opened for it carries a decision about that
\* bundle: the same one, unless somebody wrote back a copy loaded before.
FinalizationIsApproved ==
  ckpt.phase = "FINALIZATION" =>
    /\ ckpt.bundle # 0 /\ ckpt.decision # 0 /\ ckpt.handoff # 0
    /\ decisions[ckpt.decision].value = "APPROVE"
    /\ decisions[ckpt.decision].bundle = ckpt.bundle
    /\ LET d == handoffs[ckpt.handoff].decision
       IN  d # 0 /\ decisions[d].bundle = ckpt.bundle

\* A decision that sent the work back is never acted on again: every rework cycle
\* has one of its own, and there are no more of them than the budget, however
\* often the run is left and resumed ("one bounded orchestration rework cycle").
NoDecisionIsReused ==
  /\ mem.decision \notin mem.consumed /\ ckpt.decision \notin ckpt.consumed
  /\ ckpt.rework = Cardinality(ckpt.consumed) /\ ckpt.rework <= MaxRework

\* "planner/worker dispatch is not duplicated": however often the run dies and
\* is resumed, the worker changes the tree once, and once more per rework.
WorkerIsNotRepeated == worked <= ckpt.rework + 1

\* The run moves the task only as the authority table allows: the last status the
\* task file carried, through every kill that leaves the file without one.
Abstract == INSTANCE TaskStatus
              WITH status <- (IF whole = NoTask THEN "DRAFT" ELSE whole),
                   InitialStatuses <- {"DRAFT"}
AbstractSpec == Abstract!Spec

\* "Preview launches no model and writes no task, checkpoint, handoff, decision,
\* or publication artifact", in a repository that is left alone.
PreviewWritesNothing ==
  [][pc # "idle" /\ ~apply => UNCHANGED <<repo, evidence, ckpt>>]_vars

\* An APPROVE that the reviewed tree still matches.
ApprovalStands ==
  /\ mem.phase = "AWAITING_IMPLEMENTATION_DECISION"
  /\ apply /\ mem.expectedHead = head
  /\ mem.handoff # 0
  /\ task \in DOMAIN ApprovalChain
  /\ LET d == handoffs[mem.handoff].decision IN d # 0 /\ Gates(d)

\* Left alone from then on, a resumed run whose review was approved publishes it,
\* whatever it went through before.
ApprovalIsCarriedOut ==
  pc = "match" /\ ApprovalStands /\ faults = MaxFaults
    /\ ops = MaxOps /\ mover = NoCall /\ copy = NoCopy
    ~> ckpt.phase = "PUBLISHED"

\* Every command ends, unless the tests the worker's pipeline runs never do.
CommandsEnd == []<>(pc = "idle") \/ <>[](pc = "worker")

\* "Valid controller/owner DRAFT -> READY authority resumes execution": in a tree
\* the worker has not touched, it is launched on the task the owner released
\* through the run, unless a fault took the commit of the task file.
ReleaseIsExecuted ==
  pc = "worker" /\ mem.rework = 0 /\ impl = {} /\ faults = 0 => Launchable

\* "REWORK may re-enter the existing governed execution/repair path": the worker
\* a rework cycle calls for is launched.
ReworkIsExecuted == pc = "worker" /\ mem.rework > 0 => Launchable

\* "without repeating completed ... decision ... actions": as long as no command
\* is killed between the bridge and the checkpoint, whatever operators do.
DecisionsAreAppliedOnce == faults = 0 => \A d \in DOMAIN applied : applied[d] <= 1

\* "conflicting duplicate artifacts or decisions fail closed": nothing is
\* published past an unconsumed decision to the contrary on the same bundle.
ConflictsFailClosed ==
  \A p \in published : \A d \in OnBundle(p.bundle) :
    d < p.decision => decisions[d].value = "APPROVE" \/ d \in ckpt.consumed
=============================================================================
