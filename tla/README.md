# AdvanCore agent runner: TLA+ models and proofs

AdvanCore is a Streamlit application with a small database behind it. Most of
its code, and all of its difficult code, is the control plane in
`advancore/agent_runner/` that lets model workers develop the repository under
governance: an owner states a goal, a planner drafts a task, a worker implements
it, a controller reviews a bundle of evidence, and a finalizer commits and
pushes what was approved. Everything it knows is in files and in Git. It takes
no locks, its steps are separate file writes and Git commands, and several
command-line processes, workers and people act on the same repository.

This directory models that control plane in TLA+, checks the models with TLC on
small instances, and proves their safety properties with TLAPS for every value of
the constants: invariants, action properties and refinements. What is left to
TLC alone is liveness.

Paths below without a prefix are relative to `advancore/agent_runner/`.

## 1. Inventory

### 1.1 Components

| component | state it keeps | operations | status |
|---|---|---|---|
| task lifecycle (`lifecycle.py`) | the STATUS line of the task file | `transition_task`, the authority table | modelled |
| task file (`task.py`) | `tasks/*.md` | `discover_tasks`, `find_task`, `parse_task` | partly: what parses and what status it has |
| audit trail (`audit.py`) | `runner.jsonl` and its siblings | append a record | partly: the lifecycle record |
| finalizer (`finalize.py`) | index, HEAD, remote branch, `finalize.jsonl` | `run_finalization`, preview and applied | modelled |
| decision bridge (`decision_lifecycle_bridge.py`) | the task file | `apply_controller_decision` | partly: applied decisions |
| orchestration (`orchestration.py`) | the checkpoint | `run_orchestration`, resume, owner actions, reconcile | modelled |
| controller decision (`controller_decision.py`) | decision records | record a verdict on a bundle | modelled |
| controller handoff (`controller_handoff.py`) | requests and their state | create, reconcile, inspect | modelled |
| controller adapter (`controller_adapter.py`) | none | dispatch a request | partly: the manual adapter |
| review bundle (`review_bundle.py`) | bundles | write, read | partly: name, branch, HEADs, paths |
| runner (`runner.py`, `validation.py`, `git_info.py`) | none | `validate`, `execute`, `verify_post_worker` | modelled |
| auto pipeline (`auto_pipeline.py`) | `auto_pipeline.jsonl` | `run_auto_pipeline`, verification, fallback, repair | modelled |
| goal to task (`goal_task.py`) | the draft task file | `generate_goal_task`, with and without `--execute` | partly: with `--execute` |
| worker processes (`worker.py`) | a process group | run under a deadline, terminate, compare the evidence | modelled |
| transport (`controller_transport.py`, `..._driver.py`) | request and response envelopes | send, receive, apply a response | modelled |
| inbox (`orchestration_inbox.py`) | none | classify checkpoints | modelled |
| command line (`__main__.py`) | none | argument parsing, printing | partly: the calls it makes |
| projects (`services/`, `repositories/`, `models/`) | one table | create, look up | not modelled yet |
| knowledge, activity, settings; pages; migrations | tables | none of their own | not modelled |

### 1.2 How they interact

- By call: `run_orchestration` calls the goal planner, the auto pipeline, the
  handoff, the adapter, the bridge and the finalizer. The auto pipeline calls
  the runner, the runner calls a worker. The finalizer and the bridge call
  `transition_task`.
- Through files: every one of these commands can be run by hand as well. Task
  file, decisions, handoffs, bundles, `finalize.jsonl` and the checkpoint are
  what they share, with nothing to keep two of them apart.
- Through the repository: workers, tests and operators change the tree, the
  index, HEAD and the remotes. The components find out by asking Git again.

### 1.3 What is hard, and what makes each component correct

- *Lifecycle.* The file is parsed, read again, read a third time, truncated and
  refilled, with other processes in between. The task must move only as the
  table allows, and an approval must have a whole history behind it.
- *Finalizer.* Some thirty Git commands between the first gate and the push, and
  up to three transitions of the task among them. What is published must be what
  was approved, once, on its branch, never on main, and what is recorded must be
  true; through kills, refused commands,
  repeated runs and other hands in the repository.
- *Orchestration.* A loop over phases with a checkpoint, killed and resumed
  anywhere, fed with decisions from several places. A worker must not be run
  twice, a decision not applied twice, the checkpoint never say more than
  happened, and an approval must arrive at a publication.
- *Auto pipeline.* Workers are programs nobody trusts. What the pipeline calls
  ready must be true of the tree, whatever they, the fallback worker and the
  repair workers did, and the number of launches must be bounded.
- *Decision, handoff, transport.* A response may be late, given twice, or
  contradict another one; handoffs are loaded, compared and written back by
  several commands; and every file name is a time in whole seconds. A handoff
  must carry a verdict on its own bundle only, and keep it.
- *Goal to task.* A planner is a worker that must not touch the repository,
  where other commands write their drafts and operators commit meanwhile;
  numbers are allocated by reading a directory long before the file is written.
- *Worker processes.* A worker and what it has started may ignore signals, hold
  the output open or leave the group. The call must come back, leave nothing of
  the group behind, and only call a tree unchanged that is.
- *Inbox.* It answers from a checkpoint, the evidence it names and the repository
  of the moment, which other commands change. An owner it calls on must be
  heard, and a published run must not come up again.
- *Projects.* A look-up and an insert in two sessions.

`PROJECT.json` lists the hazards one by one, at their lines, with the properties
that would catch each of them.

## 2. Plan

Most important behaviour first: who may move a task, what is published, the run
that connects them, what a run calls verified.

| order | module | models | composes | state |
|---|---|---|---|---|
| 1 | `LifecycleTable`, `TaskStatus` | the authority table; the abstract task | | done |
| 2 | `TaskLifecycle` | `transition_task`, several processes | implements `TaskStatus` | done, proved |
| 2 | `TransitionCall` | one call of `transition_task` as a value | `LifecycleTable` | done, proved |
| 3 | `Finalize` | `run_finalization` in a repository others use | `TransitionCall` | done, proved |
| 4 | `Orchestration` | `run_orchestration`, its operators, kills | `TransitionCall`; implements `TaskStatus`; finalizer, runner, handoff in a few steps each | done, proved |
| 5 | `AutoPipeline` | `run_auto_pipeline` and `execute` | | done, proved |
| 6 | `WorkerProcess` | `run_bounded_worker_process`: process group, deadline, grace period, evidence by names | | done, proved in `GoalTask` |
| 7 | `ControllerTransport` | decisions, handoffs, envelopes and the local driver, under names of one-second resolution | | done, proved |
| 8 | `GoalTask` | `generate_goal_task` by several commands | `WorkerProcess` | done, proved |
| 9 | `OrchestrationInbox` | the classification of a checkpoint | `Orchestration` | done, proved |
| 10 | `Projects` | two sessions and the unique constraint | | planned |

Each module with state has its proofs in a module of its own; those about
`Orchestration` and its inbox take two, because some of its properties hold only
when certain operators stay away. Planned next: `Projects`, and what remains true
of the statements section 6 refutes: under which weaker hands `ReadyOnItsBase`
and `ConflictsFailClosed` do hold.

## 3. Modules and code

### `LifecycleTable`, `TaskStatus`

Pure definitions: statuses, roles, `_TRANSITION_AUTHORITY`,
`is_transition_allowed`, the bridge's `_DECISION_TO_STATUS`. `TaskStatus` is the
abstract specification the others implement: one status, moved only by a
transition the table grants to the role that asks.

### `TaskLifecycle`

Several processes each run `transition_task()` on one task file. One action per
access to the file: `FindTask` (parse), `ReadStatusLine` (second reading,
comparison, authority), `LoadText` (third reading), `Truncate` and `Fill` (the
two halves of `write_text`), `WriteAudit`. `Crash` kills a process at any step,
`FillFails` is the full disk, `AuditFails` the record that cannot be written. A
truncated file is `Torn`. The ghosts `whole` and `writes` remember the last
complete content and the rewrites made.

### `TransitionCall`

The same call as a value, for the modules in which several hands move one task:
the step it is at, the status it parsed, the one it asks for, and its role.
`Refused` says when it returns without a write, `Advanced` what becomes of the
call, `Written` what it leaves in the file, and `Overwrites` that it replaces a
text other than the one it checked. Nothing here locks the file, because
`transition_task` does not.

### `Finalize`

`run_finalization()` step by step, with the repository as Git has it: working
tree, index, commits with parents, local and remote tips, current branch. File
contents are few abstract versions, the task file's content is its status. Each
action is the stretch of code between two things another hand could do, and
includes its early returns (`Fail`). The finalizer's transitions are calls
(`WorkerTransition`, `Approve`) which then go on access by access (`Transition`),
and so do those of somebody else (`OperatorTransition`, `OperatorContinues`).
Beside the finalizer, `Intruders` edit and stage files, move the task, switch
branches and commit; which of them may is the constant `Interference`. `Crash`
kills a run, `WriteFails`, `GitFails`, `PushFails` and `RecordFails` are commands
and writes that fail. The run may be repeated, as preview or applied. The ghost
`overwritten` says that a transition has replaced a status it had not checked, and
`whole` is the last status the task file carried.

### `Orchestration`

One run of `run_orchestration()`: the checkpoint on disk (`ckpt`) and in memory
(`mem`), and everything it decides on: the task file in the tree and in HEAD,
changed files, bundles, decisions, handoffs, `finalize.jsonl`. A command starts
(`StartRun`, `Resume`, with any owner action, as preview or applied), goes
through the phases, each an action up to the next write, saves, and ends when it
has to wait. `Crash` kills it between any two writes. Operators record decisions
on any bundle, move the task, commit, discard, edit, reconcile handoffs and run
the finalizer by hand. A transition of the task is a call of `TransitionCall`
that goes on access by access, the command's (`Request`, `Transition`) as well as
an operator's; a reconciliation loads and compares in one step (`OwnerReconcile`,
`MatchDecision`, `OperatorReconcile`) and writes its copy back in a later one
(`WriteHandoff`, `OperatorWrites`), so that a stale copy may replace a decision.
The worker is one step that leaves any set of changed files and a verdict; the
finalizer is split where a crash or another hand can tell.

### `AutoPipeline`

`run_auto_pipeline()` and the `execute()` it calls: task and scope, `validate`,
worker, snapshot, bundle, fallback, the four gates of
`_run_verification_sequence`, and the repair loop. A worker replaces the
repository by any other one in `Effects` (branch, one commit, index, changed
files, defects the tests or the whitespace check would see, remotes), whatever
outcome it reports. The tests may leave files behind, and may never end. Each Git
command that can fail open, and each write of evidence, may fail. The ghost `home`
is the branch the run began on.

### `ControllerTransport`

How a verdict gets back to the request that asked for it. `bundles`,
`decisions`, `handoffs` and `inbox` map file names to contents, where a name has
a second, a task, and a verdict or a request in it, and writing replaces
(`write_text`). `Execute`, `Decide` and `Prepare` are the writers of the first
three; `Send`, `Respond` and `Receive` the driver's; `Apply`
(`apply_transport_response`), `Dispatch` (the manual adapter) and `Reconcile` by
hand all start `reconcile_controller_handoff()`, which loads a copy, compares it
in `CheckDecision` and writes it back in `Rewrite`. Several clerks do so at once,
and `Kill` may leave the file torn. The ghosts `executed`, `recorded` and
`received` remember what the names alone cannot tell apart.

### `WorkerProcess`

`run_bounded_worker_process()`: a leader and at most one child in a session of
their own, in a repository of which names, a stamp of the contents and the number
of commits are kept. The processes edit, restore or commit (`Touch`), fork a
child that holds the output, has closed it or has left the group (`Fork`), and
end (`Exit`), at any time and also after the call has. The call ends because the
output is closed (`Complete`), or at the deadline or an interrupt: SIGTERM to the
group, which anyone may ignore (`StopFor`), SIGKILL (`KillGroup`), and the
evidence again (`Report`). `Abandon` is the death of the caller.

### `GoalTask`

`generate_goal_task()` with `--execute`, run by several processes, over
`WorkerProcess`: the snapshot before (`ReadHead`, `TakeSnapshot`), `AssignNumber`,
`Launch` of the planner, the snapshot after (`LookAtHead`, `Compare`) with the
comparison and the fallback's one hop, `ReadProposal`, `WriteDraft`. A snapshot is
two Git commands, `rev-parse HEAD` and then `status` (`git_info.py:52-53`), and
others act between them. Each command's planner acts on the tree all share; the
operator commits; `Kill` ends a command and leaves its planner running. The ghosts
`listed` and `slipped` say which drafts the last snapshot could see and which edits
were committed while it was taken. A draft is a
changed file of the tree as well as a file of `tasks`.

### `OrchestrationInbox`

`build_orchestration_inbox()` reads only, so it is an operator on the states of
`Orchestration`: `Classification` with the validation of links (`Linked`),
freshness (`UpToDate`) and terminal evidence (`TerminalEvidence`).

## 4. Runs

| run | module | what it asks | bounds |
|---|---|---|---|
| `LifecycleRace` | `MCTaskLifecycle` | `ChainOfCustody`, `ApprovalHasFullHistory`, `AuditIsHonest` when two processes race | 2 processes, 5 calls, 1 fault |
| `LifecycleLostUpdate` | `MCTaskLifecycle` | two processes implement `TaskStatus` (finding: they do not) | 3 calls |
| `FinalizeShared` | `MCFinalize` | `PublishedAsApproved`, `OneCommitPerApproval`, `OnlyTheApprovedBranchMoves`, `RecordsAreTrue`, `MovesAreGranted`, `GoodEvidencePublishes` among others who edit, stage and move the task | 2 runs, 1 fault, 2 intrusions, 3 branches of which one has no upstream, one decision of each kind |
| `FinalizeContended` | `MCFinalize` | `MainIsNeverPushed` when others also commit and switch branches | 2 runs, 3 intrusions |
| `OrchestrationCrash` | `MCOrchestration` | the run alone, killed: `TypeOK`, `WorkerIsNotRepeated`, `PublishedIsTrue`, `ReleaseIsExecuted`, `PreviewWritesNothing`, `AbstractSpec`, `ApprovalIsCarriedOut`, `CommandsEnd` | 5 commands, 2 faults, 2 files, rework budget 1 |
| `OrchestrationOperators` | `MCOrchestration` | the run among operators: `PublishedWithAuthority`, `FinalizationIsApproved`, `NoDecisionIsReused`, `DecisionsAreAppliedOnce`; and what the inbox says of it: `CalledOwnerIsHeard`, `PublishedRunsLeaveTheInbox` | 3 commands, 3 operator actions of seven kinds, no fault, 1 file |
| `OrchestrationRework` | `MCOrchestration` | a rework cycle launches its worker (finding) | 4 commands |
| `OrchestrationConflict` | `MCOrchestration` | conflicting decisions fail closed (finding) | 4 commands, 2 decisions |
| `AutoPipelineRun` | `MCAutoPipeline` | `ReadyIsVerified`, `FallbackStartsClean`, `FirstRepairKeepsTheBase`, `TerminationIsFinal`, `GovernanceFailuresStop`, `PipelineEnds` | 1 file, in scope or out of it, 3 branches, 2 repairs, 1 fault |
| `AutoPipelineBase` | `MCAutoPipeline` | a ready tree stands on the commit it began with (finding) | 2 repairs, no fault |
| `TransportShared` | `MCControllerTransport` | `TypeOK`, `DecidedOnItsExecution`, `DecisionIsKept`, `OneAnswerPerRequest` among late, repeated and overlapping answers | 2 executions, 2 decisions, 1 request, 2 interchangeable clerks, 2 seconds |
| `GoalTaskShared` | `MCGoalTask` | `TypeOK`, `SameNumberOnlyUnseen`, `DraftMeansNoOffence`, `OnlyTheAwaySurvive`, `RecoveryIsHonest`, `GenerationEnds` | 2 commands, one with a fallback planner; 2 titles; 1 edit, 1 child, 1 commit of the operator |

Why the bounds are enough. Two processes and two calls make every race of a file
that has one writer at a time, and five calls are what an approval needs (release,
start, hand over, approve) plus one in between. The finalizer's second run is
there for what the first one left; a third finds nothing the second did not.
Two intrusions make one before and one after a gate, three let somebody switch
away, commit and switch back; the steps of a transition that has begun are not
counted. Of the decisions there is one of each kind the gates tell apart
(`OneOfAKind`); `FinalizeContended` begins with any. Five commands take a run from its goal through release, review and
publication with two of them lost to kills; three take it there, or through a
rework, with three acts of others in between. The pipeline's
gates ask of a file whether it changed and whether it is in scope, which one file
and the two scopes with and without it answer in every way (`AutoPipelineBase`
has two files, and the proofs any number); two is the largest number of repairs
the code accepts (`RepairCap`). Two seconds are what two file names of one
second and two of different ones need, and with them two executions under one
name, a handoff prepared again before and after its decision, and a second
answer within the second or later. Of handoffs there may be one per second, of
answers any number. One edit, one child and one commit are shared by all
planners, so that any of them may be the one; a file that was dirty before a
worker started is there when another generation has written its draft. Counters that the code leaves
unbounded stop at `MaxRequests`, `MaxRuns`, `MaxFaults`, `MaxIntrusions`,
`MaxOps`, `MaxCommits`, `MaxBundles`, `MaxDecisions`, `MaxHandoffs`, `MaxHead`,
`MaxSecond`, `MaxChildren` and `MaxEdits`; in every run they end behaviours, so deadlock is not checked.

Fairness. A command is one synchronous program: once started it goes on unless
it is killed, which is what `WF_vars` of the finalizer's, the orchestrator's,
the pipeline's and the goal commands' own steps says. A worker returns because it
has a deadline; `GoalTask` says how: the deadline is a step of the call and so
comes, and of the planner's processes nothing is assumed, not even that they end.
The tests have none: `run_pytest` starts pytest without a timeout
(`auto_pipeline.py:209-222`, `434-440`) on code a worker has just written. So no
fairness is assumed of the step that runs them, `RunTests` in `AutoPipeline` and a
launched worker in `Orchestration`, which stands for the whole pipeline; the
properties say what is left. `PipelineEnds`: the pipeline ends or stays at its
tests; `CommandsEnd`: commands keep ending, or one stays at its worker for good.
`ApprovalIsCarriedOut` and `GoodEvidencePublishes` have no tests before them. Git
commands are taken to return, in all modules. Nothing is assumed of operators, of the next command being issued, or of faults; `GoodEvidencePublishes` and
`ApprovalIsCarriedOut` therefore start in a running command.

What the proofs of section 5 establish is not all repeated by a run: the type
invariants of `TaskLifecycle`, `Finalize` and `AutoPipeline`, the steps of a
`TransitionCall`, `PushNeedsApproval`,
`LaunchesAreBounded`, `ReadyBundleIsCurrent`, `ArtifactIsHonest`, the refinement
of a single `transition_task`, that a checkpoint never goes back
(`CheckpointAdvances`), and that a verdict stays when one process reconciles
(`VerdictStaysAlone`) are left to them.

## 5. Proofs

Every module with state is proved about, for every value of its constants: any
number of processes, files, branches, runs, commits and faults, any set of
operators. The proofs assume the named `ASSUME`s of the modules, which say that
bounds are naturals, that `main` is a branch, that the task file is not one of
the worker's files, that a run has at most one rework, that there are finitely
many commands, and that the model's names for things of two kinds differ (a
command is no number, the source file no draft). A theorem that needs some
operators to stay away says so in its own hypothesis about `Interference`, named
below; the runs of section 4 that check the same property satisfy it.

`TransitionCallProofs` holds the lemmas about one step of a call that
`FinalizeProofs` and `OrchestrationProofs` cite: its type and the order of its
steps, that a call past its check has had its move granted for the status it
parsed and keeps it, and that the table grants no way out of APPROVED.

`TaskLifecycleProofs`. `TypeCorrect`, `Custody`, `HonestAudit`, `FullHistory`,
`AloneImplements`. A check made on one reading says nothing about what the file
holds at the rewrite, so the invariant cannot speak about the file. `IInv`
speaks about what has ever been written instead: what the file holds and what
any process has read is a status some granted rewrite produced
(`OnlyKnownStatuses`), a process on its way to the rewrite has been granted it
for the status it parsed (`RewritesAreGranted`), and past DRAFT and BLOCKED a
reviewer has released the task (`WorkIsReleased`). The approval's history
follows backwards along the chain of custody. With one process the status it
parsed is still the current one, which gives the refinement.

`FinalizeProofs`. `TypeCorrect`; whatever others do, `MainIsSafe` and
`NothingUnapproved`, from the small invariant `Gated` (a run past its evidence
has its approval, a run that pushes has refused main). `PublicationIsApproved`,
`AtMostOneCommit`, `OtherBranchesStay` and `RecordsHold` assume `Undisturbed`:
the others edit, stage and move the task, but neither commit nor switch
branches. They need `IInv`: the history has at most one commit above the
reviewed one, a run knows at each step what the gates before it have seen
(`RunIsApproved`, `RunHasCommitted`), and APPROVED stays in the task file once it
is there (`ApprovalIsKept`), unless a transition that has checked another status
replaces it; that it may is part of `PublishedAsApproved` and of section 7. Without
the assumption the four do not hold: see section 7. `TaskMovesByGrant`: as long as
nobody switches branches, which takes the task file of the other branch with it,
whatever status comes into the task file was granted for the status that goes,
whichever of the two calls fills it in, until one has overwritten what it had not
checked. It rests on `CallsAreGranted`: a call that has truncated the file fills
in a status granted for the one that was there, and two calls that have both
truncated it are an overwriting already. That the finalizer among other hands
implements `TaskStatus` outright is not true, for the reason of the first finding of
section 6.

`AutoPipelineProofs`. `TypeCorrect`, `ReadyMeansVerified`, `FallbackIsClean`,
`LaunchesStayBounded`, `BundleIsCurrent`, `ArtifactHolds`, `BaseIsKept`,
`GovernanceStops`, `TerminationEndsIt`. The properties speak of the verdict, the workers act long
before it, so the invariant says at each step what has been established:
`GatesHold` (the snapshot describes the repository but for the tests' litter, and
every gate passed still holds), `ExecutionObserved` and `StatusTells` (what the
runner's status says about the snapshot), `BaseKept`, `LaunchIsClean` (branch,
commit, remotes and tree at a launch of `execute()`), `BundleIsOfPost`,
`LaunchesCounted`. A worker is launched under no verdict and
the repository is looked at again after every successful one; this is why no
effect of a worker can break it.

`OrchestrationProofs`. `TypeCorrect`, `NoDecisionReused`, `FinalizationApproved`,
`PublicationAuthorized`, `PublishedTrue`, `AppliedOnce`, `CheckpointAdvances`, and
of the inbox `OwnerIsHeard` and `PublishedRunsLeave`, with every operator at work,
any number of commands and any number of kills. The properties speak of the
checkpoint on disk; the steps act on the one in memory, and a kill leaves the
difference. So the invariant says the same of both (`Sound`): what they name
exists, a decision they carry is about their own bundle, and the decisions
consumed are REWORKs of earlier cycles, one for each (`Consumption`). `InStep` says
how far the two may be apart, `InHand` what a command holds at each step, `Agree`
that a handoff's verdict is about its bundle, and so is every copy an operator is
about to write. A stale copy may therefore replace the decision of the run in the
handoff by another one about the same bundle; `FinalizationIsApproved` says this
much of the handoff and no more, and of the checkpoint, which is what is acted on,
that its decision is an APPROVE. That a publication was approved is
`Authorized`, for which a decision once written must not change. That there is only
one needs `Closed`: a publication moves HEAD past every bundle there is, so that no
gate accepts one of them again, and leaves the task in a status from which no
worker is launched to make a new one, unless a transition that checked an earlier
status reopens it; then the run may publish a second time, again by an approval. `OnItsWay` ties the finalizer's last steps to
their publication, `NothingYet` says there is nothing before the draft, and
`Applications` counts what the bridge has applied against what is consumed, which
holds without faults only (section 7). `CheckpointAdvances`: a checkpoint's phase
only ever moves forward but for the rework, and what it has consumed stays.

`OrchestrationAloneProofs`. What the run promises when certain operators stay away.
`PreviewsAreQuiet` assumes there are none. `WorkerNotRepeated` assumes nobody
commits or discards: what the worker did is then visible, as changed files or as a
publication, to the run that comes after a kill (`WorkIsVisible`, for which there is
no bundle before the worker, `NoBundleYet`, and every publication is in HEAD,
`PublishedInHead`).
`ReleaseExecuted` allows decisions, reconciliations and edits, and says at each
step between the release and the worker that the release is committed or about to
be (`ReleasedIsCommitted`). `RunImplementsTask` is about the last status the task file carried, through the
kills that leave it empty: with nobody else moving the task (no transition, no
discard, no finalizer run by hand), whatever else operators do, the run alone moves
it as `TaskStatus` says, because what a call has parsed is still there when it
writes. The excluded cases are real: somebody who commits the worker's files has it
launched again, and with a second hand that moves the task the refinement fails as
in the first finding.

`ControllerTransportProofs`. `TypeCorrect`, `VerdictOnItsExecution`,
`SingleAnswer`, `VerdictStays`, `VerdictStaysAlone`, for any number of clerks and
seconds. A name says little about its content, since a second and a task are all
that is in it, so the invariant traces every content back to what was executed or
recorded (`Provenance`), the copies held by overlapping commands included, and says
that a command about to rewrite has justified its copy, which may be stale, against
a decision that once had that name (`Checked`). That only one answer is ever
handed out rests on `StillThere`: no response leaves the inbox, so a second one
makes `receive()` ambiguous for good. `VerdictStays` names the two ways in
which a verdict is lost. With a single clerk one of them goes (`CopyIsCurrent`:
the copy is what the file holds), and with it the contradiction to "No silent
overwrite" of section 7, but for handoffs of the same second.

`GoalTaskProofs`. `TypeCorrect`, `SharedNumberUnseen`, `DraftIsClean`, and of
`WorkerProcess` `GroupIsEnded` and `RecoveryHonest`, for any finite number of
commands. Between the number and the draft lies a planner's whole run. The
invariant says that the numbers in use are always 1..k without a gap
(`Generations`), and for each command that whatever its planner did, and every
draft written since it took its number, will be found by the comparison still to
come (`Noticed`, `Overtaken`): it is in the tree, or the operator has committed it
and HEAD has moved. Between the two commands of the last snapshot this is no longer
so: what is committed then is in neither of them. It counts as not listed, or as
slipped, and the two properties except it. What the comparison has listed then has smaller numbers
(`Larger`), so of two drafts of one number neither command saw the other's. For the
worker, nothing of the group is alive once a call counts as stopped (`Stopped`), and
evidence holds the names of the changed files and no more (`Witnessed`), which is
exactly how much a recovery may be believed.

Every property was checked with TLC before it was proved, and so were the
inductive invariants, on the instances of the same runs. Left to TLC:
liveness (`GoodEvidencePublishes`, `ApprovalIsCarriedOut`, `CommandsEnd`,
`PipelineEnds`, `GenerationEnds`), which under fairness is beyond the prover. The
four statements of section 6 are refuted, so there is nothing to prove; for one
process the first does hold (`AloneImplements`).

## 6. Findings

Four statements of the documents are not true of the code. Each has a run whose
counterexample shows it.

- *Transitions are fail-closed* (ADR-005). `transition_task` checks one reading
  of the file and rewrites another: a racing call replaces a status it never
  checked (`LifecycleLostUpdate`).
- *A REWORK re-enters execution* (TASK-021). It does so on a tree with the
  rejected changes in it, which the runner refuses (`OrchestrationRework`).
- *Conflicting decisions fail closed* (TASK-021). The latest one wins outside
  the owner actions (`OrchestrationConflict`).
- *HEAD failures stop immediately* (AGENT_RUNNER). A repair worker that fails is
  not looked at, and the next attempt takes the HEAD it left as its base
  (`AutoPipelineBase`).

## 7. Reachable, and promised otherwise nowhere

States the models reach which a maintainer may want to know of, without a
statement in the repository they contradict unless quoted.

- A finalizer that fails after its first transition cannot be repeated: the task
  file it rewrote is a change the bundle does not list.
- Two hands that move the task at once (section 6): a transition that checked
  REVIEW may replace the APPROVED of the finalizer before its `git add`, so that
  another status is published, even an empty task file if it is added between the
  truncation and the refill; and one that checked an earlier status may reopen a
  published task.
- A test that hangs keeps the pipeline, and the command that called it, for good.
- A run that ends as BLOCKED may have moved the task to APPROVED and staged
  files.
- A branch switched between the gates and `git commit` takes the commit, main
  included; the push is refused then. A commit made in between becomes the
  parent of the published one.
- A kill between the push and its record is not recovered by
  `reconcile_completed_run`, which relies on the record.
- A kill between the bridge and the checkpoint of a REWORK leads to the decision
  being applied again once the task is back in REVIEW.
- A status change whose audit record fails leaves no trace in the audit trail.
- A repair worker stopped by its deadline is followed by the next attempt, where
  ADR-024:23 says "ineligible for fallback, repair, or retry".
- With `require_scope=False` and no scope in the task every change counts as out
  of scope, so the parameter has no effect of use.
- A reviewed file that is edited again is published with the new content: paths
  are compared, contents are not (ADR-020:21, "matching verified
  evidence").
- Of two overlapping reconciliations the later one writes its copy over the
  decision of the earlier one, where ADR-013-controller-handoff-queue.md:69 has
  "No silent overwrite". `DecisionIsKept` states exactly when a decision is lost,
  which includes a handoff of the same task prepared within the same second. In
  the same way the handoff of a run in FINALIZATION may carry another decision about
  its bundle than the checkpoint.
- A decision, and a bundle, of the same name and second replaces the earlier
  one; a handoff made from the earlier bundle then fits a verdict on the later
  one.
- A PENDING answer followed by a decision in a later second makes `receive()`
  of the local driver ambiguous for good. The decision can still be applied by
  its path.
- Two generations may produce two tasks of one number, when neither saw the
  other's draft at its last look. By number `find_task` then refuses both. A commit
  between `rev-parse HEAD` and `status` hides a draft from this look, and in the
  same way what a planner did to the repository.
- The comment "Any post-status line is therefore a planner-side change"
  (`goal_task.py:354`) holds for one command in a tree: the draft of another
  stops a generation as well.
- A worker that is stopped after it edited a file which was dirty before counts
  as having changed nothing: evidence is names (ADR-024:21).
- A worker that ends by itself never has its group signalled: a child that has
  closed its output may edit after the comparison. A child that has left the
  group survives even SIGKILL to it, and a killed runner leaves its whole worker
  running, as does a second Ctrl-C in the grace period.
- The inbox reports an owner decision as required in phases in which no owner
  action is accepted: TASK_EXECUTION (`orchestration.py:1571`), FINALIZATION
  (`orchestration.py:1919`) and before a draft exists (`orchestration.py:947`).
- After a repair the result carries the bundle of the first execution. The
  finalizer refuses it if the paths differ.

## 8. Abstractions

- Contents, names, messages and timestamps are members of small sets, or
  numbers in order of creation. File names that collide within a second are in
  `ControllerTransport`; in the other modules every record has its own place.
- Validation of the fields of a decision, bundle or handoff record is reduced to
  what the record is about: which task, which bundle, which verdict, by whom.
- `ControllerTransport` has a branch nobody switches, and ids and paths that
  determine each other are one value. An envelope is one the builders make.
- A worker of `WorkerProcess` is a leader and one child; its commits take
  everything.
- `Orchestration` has one task and one branch; a finalizer in it fails only at
  the places where a failure leaves something behind. It takes the writing of a
  bundle to succeed. `AutoPipeline`, which does not, ends with the pipeline's
  result.
- In `AutoPipeline` a worker commits at most once per launch and the index is
  either empty or not. Operators do not act in it; they do in `Orchestration`.
- Reading the repository is one step where the code runs several Git commands in
  a row (`get_git_info`), in all modules but `GoalTask`, and so are the evidence
  a worker is judged by (`worker.py:63-91`) and one reading of a handoff with its
  comparison in `Orchestration`.
- In `Finalize` and `Orchestration` the others who move the task do so as the owner,
  who has the authority of every role, one at a time. An operator's call in
  `Orchestration` parses and reads again in one step, since it returns when the two
  differ, and a finalizer run by hand there is one step; `Finalize` has its steps.
- The writing of a handoff is one step in `Orchestration`; `ControllerTransport` has
  the torn file.
- Of the note of a decision (`orchestration.py:1174`) only this is kept, that an
  owner action may be refused for it.

## 9. Not modelled

Of the components named above: the dry run of the goal command, which only reads,
and its validation of goals and proposals, which is text handling; validation of
the fields of an envelope and the guards on paths; what the inbox says of torn,
unsafe or misplaced files, which no module produces for it; the adapter registry
and the fake adapter of the tests.

The projects service rests on one unique constraint and comes last in the plan.
Knowledge, activity and settings are tables without behaviour, pages and
migrations are presentation and schema; the command line prints and parses.
Reports, prompts and configuration text are left out everywhere.
