----------------------- MODULE OrchestrationAloneProofs -----------------------
(***************************************************************************)
(* What a run of Orchestration does in a repository that is left alone, or *)
(* whose operators keep away from some of it: the theorems that name the   *)
(* kinds of Interference they exclude.  The invariant of                   *)
(* OrchestrationProofs holds of all of them.                               *)
(***************************************************************************)
EXTENDS OrchestrationProofs

-----------------------------------------------------------------------------
(***************************************************************************)
(* Operators that keep away                                                *)
(***************************************************************************)

\* Nobody else is in the middle of a transition or of a reconciliation.
NobodyMoves == mover = NoCall
NobodyCopies == copy = NoCopy

LEMMA HandsOff ==
  ASSUME [Next]_vars
  PROVE  /\ "transition" \notin Interference /\ NobodyMoves => NobodyMoves'
         /\ "reconcile" \notin Interference /\ NobodyCopies => NobodyCopies'
<1>1. CASE OwnerIntake
  BY <1>1 DEF OwnerIntake, MoveTask, PreserveTask, OwnerHandoff, OwnerDecide, OwnerReconcile,
       WriteHandoff, OwnerSave, OwnerRefused, Request, Reconcile, Pause, counters, operators,
       NobodyMoves, NobodyCopies
<1>2. CASE \/ ValidateGoal \/ GenerateDraft \/ SaveDraft \/ AwaitTaskApproval
           \/ BeginExecution \/ RunWorker \/ SaveExecution
           \/ RequestReview \/ SaveHandoff \/ MatchDecision \/ Dispatch \/ Confirm
           \/ ActOnDecision \/ Transition
  BY <1>2 DEF ValidateGoal, GenerateDraft, SaveDraft, AwaitTaskApproval, BeginExecution,
       RunWorker, SaveExecution, RequestReview, SaveHandoff, MatchDecision, Dispatch, Confirm,
       ActOnDecision, Transition, Reconcile, Pause, counters, operators, NobodyMoves, NobodyCopies
<1>3. CASE \/ HandToReview \/ ApplyRework \/ SaveRework
           \/ BeginFinalization \/ PassGates \/ Approve \/ Commit \/ Push \/ Record
           \/ SavePublished \/ Finish
  BY <1>3 DEF HandToReview, Request, ApplyRework, SaveRework, BeginFinalization,
       PassGates, Approve, Commit, Push, Record, SavePublished, Finish, Pause, counters,
       operators, NobodyMoves, NobodyCopies
<1>4. CASE ReconcileCompleted \/ Crash \/ RecordFails \/ UNCHANGED vars
  BY <1>4 DEF ReconcileCompleted, Crash, RecordFails, vars, counters, operators, NobodyMoves,
       NobodyCopies
<1>5. CASE Operator
  BY <1>5 DEF Operator, Decide, OperatorTransition, OperatorContinues, OperatorCommit, Discard,
       Edit, OperatorReconcile, OperatorWrites, FinalizeByHand, Operate, NobodyMoves, NobodyCopies
<1>6. CASE \/ \E a \in BOOLEAN : StartRun(a)
           \/ \E a \in BOOLEAN, act \in OwnerAction \cup {"none"} : Resume(a, act)
  BY <1>6 DEF StartRun, Resume, Command, operators, NobodyMoves, NobodyCopies
<1> QED BY <1>1, <1>2, <1>3, <1>4, <1>5, <1>6 DEF Next, Orchestrator, Phases

-----------------------------------------------------------------------------
(***************************************************************************)
(* Previews                                                                *)
(***************************************************************************)

\* Without operators, what writes is a step of a command that was told to.
LEMMA PreviewStep ==
  ASSUME Interference = {}, IInv, NobodyMoves, NobodyCopies, [Next]_vars, pc # "idle", ~apply
  PROVE  UNCHANGED <<repo, evidence, ckpt>>
<1>0. pc \in {"loop", "owner"}
  BY DEF IInv, InStep
<1>1. CASE \/ MoveTask \/ OwnerHandoff \/ OwnerRefused \/ ValidateGoal \/ GenerateDraft
           \/ AwaitTaskApproval \/ BeginExecution \/ RequestReview \/ BeginFinalization \/ Finish
  BY <1>1 DEF MoveTask, OwnerHandoff, OwnerRefused, ValidateGoal, GenerateDraft,
       AwaitTaskApproval, BeginExecution, RequestReview, BeginFinalization, Finish, SaveIfApplied,
       Pause
<1>2. CASE \/ PreserveTask \/ OwnerDecide \/ OwnerReconcile \/ OwnerSave \/ SaveDraft \/ RunWorker
           \/ SaveExecution \/ SaveHandoff \/ MatchDecision \/ Dispatch \/ ActOnDecision
           \/ HandToReview \/ ApplyRework \/ SaveRework \/ PassGates \/ Approve \/ Commit
           \/ Push \/ Record \/ SavePublished \/ RecordFails \/ Transition \/ WriteHandoff
           \/ Confirm
  BY <1>0, <1>2 DEF PreserveTask, OwnerDecide, OwnerReconcile, OwnerSave, SaveDraft, RunWorker,
       SaveExecution, SaveHandoff, MatchDecision, Dispatch, ActOnDecision, HandToReview,
       Request, ApplyRework, SaveRework, PassGates, Approve, Commit, Push, Record,
       SavePublished, RecordFails, Transition, WriteHandoff, Confirm
<1>3. CASE Crash
  BY <1>0, <1>3 DEF Crash, repo, custody
<1>4. CASE UNCHANGED vars
  BY <1>4 DEF vars
<1>5. CASE \/ ReconcileCompleted
           \/ \E a \in BOOLEAN : StartRun(a)
           \/ \E a \in BOOLEAN, act \in OwnerAction \cup {"none"} : Resume(a, act)
  BY <1>5 DEF ReconcileCompleted, StartRun, Resume, Command
<1>6. CASE Operator
  BY <1>6 DEF Operator, Decide, OperatorTransition, OperatorContinues, OperatorCommit, Discard,
       Edit, OperatorReconcile, OperatorWrites, FinalizeByHand, Operate, NobodyMoves, NobodyCopies
<1> QED BY <1>1, <1>2, <1>3, <1>4, <1>5, <1>6 DEF Next, Orchestrator, OwnerIntake, Phases

\* A command without --apply changes neither the repository nor the evidence nor
\* the checkpoint file, in whatever phase it finds the run.
THEOREM PreviewsAreQuiet ==
  ASSUME Interference = {}
  PROVE  Spec => PreviewWritesNothing
<1>1. IInv /\ NobodyMoves /\ NobodyCopies /\ [Next]_vars
        => [pc # "idle" /\ ~apply => UNCHANGED <<repo, evidence, ckpt>>]_vars
  BY PreviewStep
<1>2. Init => NobodyMoves /\ NobodyCopies
  BY DEF Init, NobodyMoves, NobodyCopies
<1>3. NobodyMoves /\ NobodyCopies /\ [Next]_vars => NobodyMoves' /\ NobodyCopies'
  BY HandsOff
<1> QED BY <1>1, <1>2, <1>3, Invariance, PTL DEF Spec, PreviewWritesNothing

-----------------------------------------------------------------------------
(***************************************************************************)
(* The worker                                                              *)
(***************************************************************************)

\* A worker that changed the tree has left its changes there, or a publication.
WorkIsVisible ==
  /\ worked <= 1
  /\ worked = 1 => impl # {} \/ published # {}

\* Before the run has got to the worker there is no bundle, and with that nothing
\* that could be published.
BeforeWork == Drafting \cup {"AWAITING_TASK_APPROVAL"}
NoBundleYet == ckpt.phase \in BeforeWork => bundles = <<>>

LEMMA NoBundleStep ==
  ASSUME IInv, NoBundleYet, [Next]_vars
  PROVE  NoBundleYet'
<1>1. ASSUME ckpt'.phase \in BeforeWork PROVE ckpt.phase \in BeforeWork
  <2>1. CASE ckpt' = ckpt
    BY <1>1, <2>1
  <2>2. CASE ReconcileCompleted
    BY <1>1, <2>2, RecoveryFacts DEF BeforeWork, Drafting
  <2>3. CASE ckpt' = mem' /\ (apply \/ pc \notin {"idle", "loop", "owner"})
    <3>1. mem.phase = ckpt.phase
      BY <2>3 DEF IInv, InStep
    <3>2. CASE mem'.phase = mem.phase \/ <<mem.phase, mem'.phase>> \in PhaseMoves
      BY <1>1, <2>3, <3>1, <3>2 DEF PhaseMoves, BeforeWork, Drafting, InReview
    <3>3. CASE \/ \E a \in BOOLEAN : StartRun(a)
               \/ \E a \in BOOLEAN, act \in OwnerAction \cup {"none"} : Resume(a, act)
      BY <1>1, <3>3 DEF StartRun, Resume, Command
    <3> QED BY <2>1, <2>2, <3>2, <3>3, PhaseStep
  <2> QED BY <2>1, <2>2, <2>3, CheckpointStep
<1>2. CASE bundles' = bundles
  BY <1>1, <1>2 DEF NoBundleYet
<1>3. CASE RunWorker /\ Launchable
  <2>1. mem.phase = "TASK_EXECUTION" /\ ckpt.phase = mem.phase
    BY <1>3 DEF RunWorker, IInv, InStep, InHand
  <2> QED BY <1>1, <2>1 DEF NoBundleYet, BeforeWork, Drafting
<1> QED BY <1>2, <1>3, EvidenceStep

\* What was published is in HEAD, and the run itself is about to say so.
PublishedInHead ==
  published # {} => taskHead = "APPROVED" \/ ckpt.phase \in {"FINALIZATION", "PUBLISHED"}

LEMMA HeadStep ==
  ASSUME "commit" \notin Interference, IInv, NoBundleYet, PublishedInHead, [Next]_vars
  PROVE  PublishedInHead'
<1>1. ASSUME published # {}, ckpt.phase \in BeforeWork PROVE FALSE
  BY <1>1 DEF IInv, Authorized, NoBundleYet
<1>2. CASE ckpt.phase \in {"FINALIZATION", "PUBLISHED"}
  BY <1>2, LateStays DEF PublishedInHead
<1>3. CASE ckpt.phase \notin {"FINALIZATION", "PUBLISHED"}
  <2>1. CASE UNCHANGED <<taskHead, published>>
    BY <1>3, <2>1 DEF PublishedInHead
  <2>2. CASE PreserveTask
    <3>1. ckpt.phase = "AWAITING_TASK_APPROVAL" /\ published' = published
      BY <2>2 DEF PreserveTask, IInv, InStep, InHand, Pause, ghosts
    <3> QED BY <1>1, <3>1 DEF PublishedInHead, BeforeWork
  <2>3. CASE Commit
    <3>1. ckpt.phase = "FINALIZATION"
      BY <2>3, FinalizerFacts DEF Commit, Finalizing, Approving
    <3> QED BY <1>3, <3>1
  <2>4. CASE \E d \in DOMAIN decisions : FinalizeByHand(d)
    BY <2>4 DEF FinalizeByHand, PublishedInHead
  <2>5. ~OperatorCommit
    BY DEF OperatorCommit, Operate
  <2>6. published' = published \/ Commit \/ \E d \in DOMAIN decisions : FinalizeByHand(d)
    BY PublicationStep
  <2>7. \/ UNCHANGED taskHead \/ PreserveTask \/ Commit \/ OperatorCommit
        \/ \E d \in DOMAIN decisions : FinalizeByHand(d)
    BY TaskStep DEF Rewrite, GenerateDraft, Pause, repo, Discard
  <2> QED BY <2>1, <2>2, <2>3, <2>4, <2>5, <2>6, <2>7
<1> QED BY <1>2, <1>3

LEMMA WorkStep ==
  ASSUME {"commit", "discard"} \cap Interference = {}, IInv, PublishedInHead, WorkIsVisible,
         [Next]_vars
  PROVE  WorkIsVisible'
<1>0. worked \in {0, 1}
  BY DEF IInv, GhostsOK, WorkIsVisible
<1>1. CASE RunWorker
  <2>1. CASE Pause
    BY <2>1 DEF Pause, repo, ghosts, WorkIsVisible
  <2>2. CASE ~Pause
    <3>1. /\ Launchable /\ published' = published
          /\ \/ worked' = worked
             \/ worked' = worked + 1 /\ impl' # {}
      BY <1>1, <2>2 DEF RunWorker
    <3>2. Changed = {} /\ task \in ExecutableStatuses
      BY <3>1 DEF Launchable
    <3>3. published = {}
      <4>1. mem.phase = "TASK_EXECUTION" /\ ckpt.phase = mem.phase
        BY <1>1 DEF RunWorker, IInv, InStep, InHand
      <4> QED BY <3>2, <4>1 DEF PublishedInHead, Changed, ExecutableStatuses
    <3>4. worked = 0
      BY <1>0, <3>2, <3>3 DEF WorkIsVisible, Changed
    <3> QED BY <3>1, <3>4 DEF WorkIsVisible
  <2> QED BY <2>1, <2>2
<1>2. CASE Crash
  <2>1. UNCHANGED <<published, worked>> /\ (impl' = impl \/ (pc = "worker" /\ Launchable))
    BY <1>2 DEF Crash, ghosts
  <2>2. CASE pc = "worker" /\ Launchable
    <3>1. mem.phase = "TASK_EXECUTION" /\ ckpt.phase = mem.phase
      BY <2>2 DEF IInv, InStep, InHand
    <3>2. published = {} /\ impl = {}
      BY <2>2, <3>1 DEF PublishedInHead, Launchable, ExecutableStatuses, Changed
    <3> QED BY <1>0, <2>1, <3>2 DEF WorkIsVisible
  <2> QED BY <2>1, <2>2 DEF WorkIsVisible
<1>3. CASE PreserveTask
  <2>1. UNCHANGED <<published, worked>> /\ (impl' = impl \/ Changed = {TaskFile})
    BY <1>3 DEF PreserveTask, Pause, ghosts, repo
  <2>2. Changed = {TaskFile} => impl = {}
    BY OrchestrationAssumption DEF IInv, RepoOK, Changed
  <2> QED BY <2>1, <2>2 DEF WorkIsVisible
<1>4. CASE \/ Commit
           \/ \E d \in DOMAIN decisions : FinalizeByHand(d)
  <2>1. worked' = worked /\ (published' # {} \/ UNCHANGED <<impl, published>>)
    BY <1>4 DEF Commit, FinalizeByHand, Operate, Aside, Pause, ghosts, repo
  <2> QED BY <2>1 DEF WorkIsVisible
<1>5. CASE \E f \in ImplFiles : Edit(f)
  BY <1>5 DEF Edit, Operate, Aside, WorkIsVisible
<1>6. CASE OperatorCommit \/ Discard
  BY <1>6 DEF OperatorCommit, Discard, Operate
<1>7. CASE \/ MoveTask \/ OwnerHandoff \/ OwnerDecide \/ OwnerReconcile \/ OwnerSave
           \/ OwnerRefused
           \/ ValidateGoal \/ GenerateDraft \/ SaveDraft \/ AwaitTaskApproval
           \/ BeginExecution \/ SaveExecution
           \/ RequestReview \/ SaveHandoff \/ MatchDecision \/ Dispatch \/ ActOnDecision
           \/ WriteHandoff \/ Confirm \/ Transition
  BY <1>7 DEF MoveTask, OwnerHandoff, OwnerDecide, OwnerReconcile, OwnerSave, OwnerRefused,
       ValidateGoal, GenerateDraft, SaveDraft, AwaitTaskApproval, BeginExecution, SaveExecution,
       RequestReview, SaveHandoff, MatchDecision, Dispatch, ActOnDecision, WriteHandoff, Confirm,
       Transition, Rewrite, Request, Reconcile, Pause, repo, ghosts, WorkIsVisible
<1>8. CASE \/ HandToReview \/ ApplyRework \/ SaveRework
           \/ BeginFinalization \/ PassGates \/ Approve \/ Push \/ Record
           \/ SavePublished \/ Finish \/ RecordFails \/ ReconcileCompleted \/ UNCHANGED vars
  BY <1>8 DEF HandToReview, Request, ApplyRework, SaveRework, BeginFinalization, PassGates,
       Approve, Push, Record, SavePublished, Finish, RecordFails, ReconcileCompleted, vars, Pause,
       repo, ghosts, WorkIsVisible
<1>9. CASE \/ \E a \in BOOLEAN : StartRun(a)
           \/ \E a \in BOOLEAN, act \in OwnerAction \cup {"none"} : Resume(a, act)
           \/ \E v \in ControllerDecision, a \in Reviewers, b \in DOMAIN bundles :
                Decide(v, a, b)
           \/ \E to \in TaskStatus : OperatorTransition(to)
           \/ OperatorContinues \/ OperatorWrites
           \/ \E h \in DOMAIN handoffs, d \in DOMAIN decisions : OperatorReconcile(h, d)
  BY <1>9 DEF StartRun, Resume, Command, Decide, OperatorTransition, OperatorContinues, Rewrite,
       OperatorReconcile, OperatorWrites, Operate, Aside, repo, ghosts, WorkIsVisible
<1> QED BY <1>1, <1>2, <1>3, <1>4, <1>5, <1>6, <1>7, <1>8, <1>9
        DEF Next, Orchestrator, OwnerIntake, Phases, Operator

\* As long as nobody commits or discards what it did, the worker changes the tree
\* no more often than the rework cycles call for, however often the run is killed
\* and resumed.
THEOREM WorkerNotRepeated ==
  ASSUME {"commit", "discard"} \cap Interference = {}
  PROVE  Spec => []WorkerIsNotRepeated
<1>1. Init => WorkIsVisible /\ NoBundleYet /\ PublishedInHead
  BY DEF Init, WorkIsVisible, NoBundleYet, PublishedInHead
<1>2. IInv /\ NoBundleYet /\ PublishedInHead /\ WorkIsVisible /\ [Next]_vars
        => NoBundleYet' /\ PublishedInHead' /\ WorkIsVisible'
  BY NoBundleStep, HeadStep, WorkStep
<1>3. IInv /\ WorkIsVisible => WorkerIsNotRepeated
  <2> SUFFICES ASSUME IInv, WorkIsVisible PROVE worked <= ckpt.rework + 1
    BY DEF WorkerIsNotRepeated
  <2>1. worked \in {0, 1} /\ ckpt.rework \in Nat
    BY References DEF IInv, GhostsOK, WorkIsVisible, Checkpoint
  <2> QED BY <2>1
<1> QED BY <1>1, <1>2, <1>3, Invariance, PTL DEF Spec

-----------------------------------------------------------------------------
(***************************************************************************)
(* The release                                                             *)
(***************************************************************************)

\* The tree holds changes of somebody, or the task is committed as it is.
Settled == impl # {} \/ task = taskHead

\* The command is moving the task for the owner.
InRelease == pc = "transition" /\ mem.phase = "AWAITING_TASK_APPROVAL"

\* From the draft to the worker: a task that the owner has released is committed
\* before a command can get to the worker.
ReleasedIsCommitted ==
  faults = 0 =>
    /\ pc = "draftSave" => task = "DRAFT"
    /\ pc = "preserve" \/ InRelease => mem.expectedHead = head
    /\ pc = "worker" => task \in ExecutableStatuses
    /\ ckpt.phase = "AWAITING_TASK_APPROVAL" /\ task = "READY" => pc = "preserve" \/ Settled
    /\ ckpt.phase = "TASK_EXECUTION" /\ ckpt.rework = 0 => Settled

LEMMA ReleaseStep ==
  ASSUME Interference \subseteq {"decide", "reconcile", "edit"},
         IInv, NobodyMoves, ReleasedIsCommitted, [Next]_vars
  PROVE  ReleasedIsCommitted'
<1>0. faults \in Nat /\ (faults' = faults \/ faults' = faults + 1)
  BY AppliedStep DEF IInv, RunOK
<1> SUFFICES ASSUME faults = 0, faults' = 0 PROVE ReleasedIsCommitted'
  BY <1>0 DEF ReleasedIsCommitted
<1>1. /\ pc = "draftSave" => task = "DRAFT"
      /\ pc = "preserve" \/ InRelease => mem.expectedHead = head
      /\ pc = "worker" => task \in ExecutableStatuses
      /\ ckpt.phase = "AWAITING_TASK_APPROVAL" /\ task = "READY" => pc = "preserve" \/ Settled
      /\ ckpt.phase = "TASK_EXECUTION" /\ ckpt.rework = 0 => Settled
  BY DEF ReleasedIsCommitted
<1>2. /\ apply => mem.phase = ckpt.phase
      /\ pc \notin {"idle", "loop", "owner"} => apply
      /\ pc # "idle" => mem.rework = ckpt.rework
      /\ InHand
  BY DEF IInv, InStep
<1>same. ASSUME UNCHANGED <<task, taskHead, impl, head, ckpt>>, pc # "preserve",
                pc' \notin {"draftSave", "preserve", "worker", "transition"}
         PROVE  ReleasedIsCommitted'
  BY <1>1, <1>same DEF ReleasedIsCommitted, Settled, InRelease
<1>others. ASSUME UNCHANGED <<task, taskHead, head, ckpt, pc, mem>>, impl' = impl \/ impl' # {}
           PROVE  ReleasedIsCommitted'
  BY <1>1, <1>others DEF ReleasedIsCommitted, Settled, InRelease
<1>far. ASSUME pc' \notin {"draftSave", "preserve", "worker"}, ~InRelease',
               ckpt'.phase \notin {"AWAITING_TASK_APPROVAL", "TASK_EXECUTION"}
        PROVE  ReleasedIsCommitted'
  BY <1>far DEF ReleasedIsCommitted
<1>3. CASE \/ OwnerHandoff \/ OwnerDecide \/ OwnerReconcile \/ WriteHandoff \/ OwnerRefused
           \/ RequestReview \/ MatchDecision \/ Dispatch \/ BeginFinalization \/ PassGates
           \/ Record \/ Finish
           \/ \E a \in BOOLEAN : StartRun(a)
           \/ \E a \in BOOLEAN, act \in OwnerAction \cup {"none"} : Resume(a, act)
  BY <1>3, <1>same
     DEF OwnerHandoff, OwnerDecide, OwnerReconcile, WriteHandoff, OwnerRefused, RequestReview,
         MatchDecision, Dispatch, Reconcile,
         BeginFinalization, PassGates, Record, Finish, StartRun, Resume, Command, At, Pause, End,
         Goto, Remember, repo
<1>4. CASE Operator \/ UNCHANGED vars
  <2>1. /\ UNCHANGED <<task, taskHead, head, ckpt, pc, mem>>
        /\ impl' = impl \/ impl' # {}
    BY <1>4 DEF Operator, Decide, OperatorTransition, OperatorContinues, OperatorCommit, Discard,
         Edit, OperatorReconcile, OperatorWrites, FinalizeByHand, Operate, Aside, NobodyMoves,
         locals, repo, vars
  <2> QED BY <2>1, <1>others
<1>5. CASE ReconcileCompleted
  BY <1>5, <1>far, RecoveryFacts DEF ReconcileCompleted, InRelease
<1>6. CASE Crash \/ RecordFails
  BY <1>6, <1>0 DEF Crash, RecordFails, Fault
<1>7. CASE MoveTask
  <2>1. /\ pc' = "transition" /\ task = "DRAFT" /\ task' = task
        /\ UNCHANGED <<ckpt, mem, head>> /\ mem.expectedHead = head
        /\ apply /\ action \in TaskActions /\ mem.phase = "AWAITING_TASK_APPROVAL"
    BY <1>7 DEF MoveTask, Request, Goto, TaskActionOK, OwnerGate, repo
  <2>2. ckpt.phase = "AWAITING_TASK_APPROVAL"
    BY <1>2, <2>1
  <2> QED BY <2>1, <2>2 DEF ReleasedIsCommitted
<1>8. CASE PreserveTask
  <2>1. /\ pc = "preserve" /\ mem.expectedHead = head
        /\ ckpt' = ckpt /\ pc' \in {"idle", "ownerSave"} /\ task' = task
    BY <1>1, <1>8 DEF PreserveTask, Pause, End, Goto, Remember, NewCommit, repo
  <2>2. Settled'
    <3>1. CASE Changed \notin {{}, {TaskFile}} /\ Pause
      <4>1. impl # {}
        BY <3>1 DEF Changed
      <4> QED BY <3>1, <4>1 DEF Pause, repo, Settled
    <3>2. CASE Changed = {} /\ UNCHANGED repo
      BY <3>2 DEF repo, Settled, Changed
    <3>3. CASE NewCommit
      BY <3>3 DEF NewCommit, Settled
    <3> QED BY <1>8, <2>1, <3>1, <3>2, <3>3 DEF PreserveTask
  <2> QED BY <2>1, <2>2 DEF ReleasedIsCommitted, InRelease
<1>9. CASE OwnerSave \/ SaveHandoff
  <2>1. /\ ckpt' = mem /\ pc' \in {"loop", "match"} /\ UNCHANGED repo
        /\ pc \in {"ownerSave", "handoffSave"}
    BY <1>9 DEF OwnerSave, SaveHandoff, Remember, Save, Goto
  <2>2. ckpt'.phase = ckpt.phase /\ ckpt'.rework = ckpt.rework
    BY <1>2, <2>1
  <2> QED BY <1>1, <2>1, <2>2 DEF ReleasedIsCommitted, Settled, InRelease, repo
<1>10. CASE ValidateGoal \/ GenerateDraft
  <2>1. CASE Pause
    BY <1>10, <2>1, <1>same DEF Pause, End, Goto, repo, ValidateGoal, GenerateDraft, At
  <2>2. CASE GenerateDraft /\ ~Pause
    BY <1>2, <2>2 DEF GenerateDraft, TaskBecomes, At, Goto, ReleasedIsCommitted, InRelease
  <2>3. CASE ValidateGoal
    <3>1. /\ ckpt' = ckpt \/ ckpt'.phase = "TASK_DRAFT_GENERATION"
          /\ pc = "loop" /\ pc' = "loop" /\ UNCHANGED repo
      BY <2>3, PhaseFacts DEF ValidateGoal, SaveIfApplied, Save, At, Remember, Goto
    <3> QED BY <3>1, <1>same, <1>far DEF InRelease, repo
  <2> QED BY <1>10, <2>1, <2>2, <2>3
<1>11. CASE SaveDraft
  <2>1. task' = "DRAFT" /\ pc' = "loop" /\ ckpt'.phase = "AWAITING_TASK_APPROVAL"
    BY <1>1, <1>11, PhaseFacts DEF SaveDraft, Remember, Save, Goto, repo
  <2> QED BY <2>1 DEF ReleasedIsCommitted, InRelease
<1>12. CASE AwaitTaskApproval
  <2>1. CASE Pause
    BY <1>12, <2>1, <1>same DEF Pause, End, Goto, repo, AwaitTaskApproval, At
  <2>2. CASE ~Pause
    <3>1. /\ pc = "loop" /\ pc' = "loop" /\ UNCHANGED repo /\ task = "READY"
          /\ mem.phase = "AWAITING_TASK_APPROVAL"
          /\ ckpt' = ckpt \/ (apply /\ ckpt' = mem' /\ mem'.phase = "TASK_EXECUTION")
      BY <1>12, <2>2, PhaseFacts DEF AwaitTaskApproval, At, Remember, Goto, SaveIfApplied, Save
    <3>2. CASE ckpt' = ckpt
      BY <3>1, <3>2, <1>same DEF repo
    <3>3. CASE apply /\ ckpt' = mem' /\ mem'.phase = "TASK_EXECUTION"
      BY <1>1, <1>2, <3>1, <3>3 DEF ReleasedIsCommitted, Settled, InRelease, repo
    <3> QED BY <3>1, <3>2, <3>3
  <2> QED BY <2>1, <2>2
<1>13. CASE BeginExecution
  <2>1. CASE Pause
    BY <1>13, <2>1, <1>same DEF Pause, End, Goto, repo, BeginExecution, At
  <2>2. CASE ~Pause
    BY <1>1, <1>13, <2>2
       DEF BeginExecution, At, Goto, ReleasedIsCommitted, Settled, InRelease, repo
  <2> QED BY <2>1, <2>2
<1>14. CASE RunWorker
  <2>1. CASE Pause
    BY <1>14, <2>1, <1>same DEF Pause, End, Goto, repo, RunWorker
  <2>2. CASE ~Pause
    <3>1. /\ pc' \in {"idle", "workerDone"} /\ ckpt' = ckpt /\ Changed = {}
          /\ UNCHANGED <<task, taskHead>>
      BY <1>14, <2>2 DEF RunWorker, Launchable, End, Goto, Remember
    <3> QED BY <3>1 DEF ReleasedIsCommitted, Settled, InRelease, Changed
  <2> QED BY <2>1, <2>2
<1>15. CASE SaveExecution \/ SavePublished
  <2>1. ckpt'.phase \in {InReview, "PUBLISHED"} /\ pc' = "loop"
    BY <1>15, PhaseFacts DEF SaveExecution, SavePublished, Remember, Save, Goto
  <2> QED BY <2>1, <1>far DEF InReview, InRelease
<1>16. CASE Confirm \/ ActOnDecision
  <2>1. CASE Pause
    BY <1>16, <2>1, <1>same DEF Pause, End, Goto, repo, Confirm, ActOnDecision
  <2>2. CASE ~Pause
    <3>1. mem.phase = InReview /\ ckpt.phase = InReview
      BY <1>2, <1>16 DEF Confirm, ActOnDecision, InHand, Reviewing, Decided
    <3>2. pc' \in {"act", "loop", "toProgress"} /\ ckpt' \in {ckpt, mem'}
      BY <1>16, <2>2 DEF Confirm, ActOnDecision, Remember, Goto, Save
    <3>3. ckpt'.phase \in {InReview, "FINALIZATION"}
      BY <1>16, <2>2, <3>1, <3>2, PhaseFacts, ReferenceFacts DEF SameCycle
    <3> QED BY <3>2, <3>3, <1>far DEF InReview, InRelease
  <2> QED BY <2>1, <2>2
<1>17. CASE HandToReview \/ ApplyRework \/ Approve \/ Commit \/ Push
  <2>1. /\ ckpt' = ckpt
        /\ pc' \in {"idle", "transition", "bridge", "commit", "push", "record"}
        /\ pc' = "transition" => mem' = mem
    BY <1>17 DEF HandToReview, Request, ApplyRework, Approve, Commit, Push, Pause, End, Goto
  <2>2. /\ mem.phase \in {InReview, "FINALIZATION"} /\ ckpt.phase = mem.phase
    BY <1>2, <1>17
       DEF HandToReview, ApplyRework, Approve, Commit, Push, InHand, Decided, Reworking,
           Finalizing, Approving, Committed
  <2> QED BY <2>1, <2>2, <1>far DEF InReview, InRelease
<1>18. CASE SaveRework
  <2>1. /\ ckpt' = mem' /\ pc' = "loop" /\ pc = "reworkSave"
        /\ mem'.phase = "TASK_EXECUTION" /\ mem'.rework = mem.rework + 1
    BY <1>18, ReferenceFacts DEF SaveRework, Remember, Save, Goto
  <2>2. mem.rework \in Nat
    BY References DEF Checkpoint
  <2> QED BY <2>1, <2>2 DEF ReleasedIsCommitted, InRelease
<1>19. CASE Transition
  <2>1. CASE Pause
    BY <1>19, <2>1, <1>same DEF Pause, End, Goto, repo, Transition
  <2>2. CASE ~Pause
    <3>1. /\ pc = "transition" /\ ~Refused(call, Text) /\ Rewrite(call)
          /\ pc' = IF call.step = "fill" THEN AfterCall ELSE "transition"
          /\ UNCHANGED <<ckpt, mem>>
      BY <1>19, <2>2 DEF Transition, Goto
    <3>2. /\ mem.phase \in DOMAIN Requested /\ call.to \in Requested[mem.phase]
          /\ ckpt.phase = mem.phase
      BY <1>2, <3>1 DEF IInv, Calling
    <3>3. /\ mem.phase # "AWAITING_TASK_APPROVAL" =>
               AfterCall \notin {"draftSave", "preserve", "worker"}
          /\ mem.phase = "AWAITING_TASK_APPROVAL" =>
               AfterCall = IF call.to = "READY" THEN "preserve" ELSE "ownerSave"
      BY <3>2 DEF AfterCall, Requested, InReview
    <3>4. CASE mem.phase # "AWAITING_TASK_APPROVAL"
      BY <3>1, <3>2, <3>3, <3>4, <1>far DEF InRelease, Requested, InReview
    <3>5. CASE mem.phase = "AWAITING_TASK_APPROVAL"
      <4>1. UNCHANGED <<taskHead, impl, head>> /\ mem.expectedHead = head
        BY <1>1, <3>1, <3>5 DEF Rewrite, InRelease
      <4>2. CASE call.step = "fill"
        <5>1. task' = call.to /\ call.to \in {"READY", "BLOCKED"}
          BY <3>1, <3>2, <3>5, <4>2 DEF Rewrite, TaskBecomes, Written, Requested
        <5> QED BY <3>1, <3>2, <3>3, <3>5, <4>1, <4>2, <5>1 DEF ReleasedIsCommitted, InRelease
      <4>3. CASE call.step # "fill"
        <5>1. task' \in {task, Torn}
          BY <3>1, <4>3 DEF Rewrite, TaskBecomes, Written, Text
        <5>2. task' = "READY" => Settled'
          BY <1>1, <3>1, <3>2, <3>5, <4>1, <5>1 DEF Torn, Settled
        <5> QED BY <3>1, <3>2, <3>5, <4>1, <4>3, <5>2 DEF ReleasedIsCommitted, InRelease
      <4> QED BY <4>2, <4>3
    <3> QED BY <3>4, <3>5
  <2> QED BY <2>1, <2>2
<1> QED BY <1>3, <1>4, <1>5, <1>6, <1>7, <1>8, <1>9, <1>10, <1>11, <1>12, <1>13, <1>14, <1>15,
           <1>16, <1>17, <1>18, <1>19
        DEF Next, Orchestrator, OwnerIntake, Phases

\* In a tree nobody has changed, the worker is launched on the task the owner has
\* released: without a fault its release is committed first.
THEOREM ReleaseExecuted ==
  ASSUME Interference \subseteq {"decide", "reconcile", "edit"}
  PROVE  Spec => []ReleaseIsExecuted
<1>1. Init => NobodyMoves /\ ReleasedIsCommitted
  BY DEF Init, NobodyMoves, ReleasedIsCommitted, InRelease, NoCkpt
<1>2. IInv /\ NobodyMoves /\ ReleasedIsCommitted /\ [Next]_vars
        => NobodyMoves' /\ ReleasedIsCommitted'
  BY ReleaseStep, HandsOff
<1>3. IInv /\ ReleasedIsCommitted => ReleaseIsExecuted
  BY DEF IInv, InStep, InHand, ReleasedIsCommitted, ReleaseIsExecuted, Launchable, Settled, Changed
<1> QED BY <1>1, <1>2, <1>3, Invariance, PTL DEF Spec

-----------------------------------------------------------------------------
(***************************************************************************)
(* The task                                                                *)
(***************************************************************************)

\* With nobody else in its way, what the run's call checks is what it replaces,
\* and what it has emptied is what it fills.
TaskInHand ==
  /\ task = NoTask <=> whole = NoTask
  /\ task \in TaskStatus => whole = task
  /\ call.step \in {"load", "truncate"} => task = call.from
  /\ call.step = "fill" => task = Torn /\ whole = call.from

\* The status that the abstract task has.
StatusOf(t) == IF t = NoTask THEN "DRAFT" ELSE t

\* The step leaves the status, or moves it by the authority table.
Moved ==
  \/ StatusOf(whole)' = StatusOf(whole)
  \/ \E to \in TaskStatus, actor \in ActorRole :
       IsTransitionAllowed(StatusOf(whole), to, actor) /\ StatusOf(whole)' = to

\* Every change of the task is one that the authority table grants to somebody.
LEMMA TaskMoves ==
  ASSUME {"discard", "finalize", "transition"} \cap Interference = {},
         IInv, NobodyMoves, TaskInHand, [Next]_vars
  PROVE  TaskInHand' /\ Moved
<1>0. /\ task \in TaskTexts \cup {NoTask} /\ call \in TransitionCalls /\ MoveGranted(call)
      /\ TaskTexts = TaskStatus \cup {Torn} /\ Torn \notin TaskStatus /\ NoTask \notin TaskTexts
  BY DEF IInv, RepoOK, CallsOK, Calling, TaskTexts, TaskStatus, Torn, NoTask
<1>1. CASE Transition /\ ~Pause
  <2>1. /\ ~Refused(call, Text) /\ call' = Advanced(call, Text)
        /\ task' = Written(call, Text)
        /\ whole' = IF task' = Torn THEN whole ELSE task'
        /\ call.step # "none"
    BY <1>1 DEF Transition, Rewrite, TaskBecomes, IInv, Calling
  <2>2. call.step \in {"find", "read", "load", "truncate", "fill"} /\ call.from \in TaskStatus
        /\ call.to \in TaskStatus /\ call.actor \in ActorRole
    BY <1>0, <2>1 DEF TransitionCalls, CallStep
  <2>3. Text \in TaskTexts
    BY <1>0 DEF Text
  <2>4. /\ call.step = "find" => call'.step = "read"
        /\ call.step = "read" => call'.step = "load"
        /\ call.step = "load" => call'.step = "truncate"
        /\ call.step = "truncate" => call'.step = "fill"
        /\ call.step = "fill" => call'.step = "none"
        /\ call.step \in {"read", "load", "truncate"} => call'.from = call.from
    BY <1>0, <2>1, <2>3, CallSteps
  <2>5. CASE call.step \in {"find", "read", "load"}
    <3>1. Text # Torn
      BY <2>1, <2>2, <2>5 DEF Refused, Granted, Torn, TaskStatus
    <3>2. Text = task /\ task \in TaskStatus
      BY <1>0, <3>1 DEF Text
    <3>3. task' = task /\ whole' = whole
      BY <1>0, <2>1, <2>5, <3>2 DEF Written, TaskInHand
    <3>4. call.step = "read" => call.from = task
      BY <2>1, <3>2 DEF Refused, Granted
    <3>5. TaskInHand'
      BY <2>4, <2>5, <3>2, <3>3, <3>4 DEF TaskInHand
    <3> QED BY <3>3, <3>5 DEF Moved
  <2>6. CASE call.step = "truncate"
    <3>1. task' = Torn /\ whole' = whole /\ call'.step = "fill" /\ call'.from = call.from
      BY <2>1, <2>4, <2>6 DEF Written
    <3>2. task = call.from /\ whole = call.from
      BY <2>2, <2>6 DEF TaskInHand
    <3>3. TaskInHand'
      BY <1>0, <2>2, <3>1, <3>2 DEF TaskInHand, TaskTexts
    <3> QED BY <3>1, <3>3 DEF Moved
  <2>7. CASE call.step = "fill"
    <3>1. task' = call.to /\ whole' = call.to /\ call'.step = "none"
      BY <1>0, <2>1, <2>2, <2>4, <2>7 DEF Written
    <3>2. whole = call.from /\ IsTransitionAllowed(call.from, call.to, call.actor)
      BY <1>0, <2>7 DEF TaskInHand, MoveGranted, Writing
    <3>3. StatusOf(whole) = call.from /\ StatusOf(whole)' = call.to
      BY <1>0, <2>2, <3>1, <3>2 DEF StatusOf
    <3>4. TaskInHand'
      BY <1>0, <2>2, <3>1 DEF TaskInHand
    <3> QED BY <2>2, <3>2, <3>3, <3>4 DEF Moved
  <2> QED BY <2>2, <2>5, <2>6, <2>7
<1>2. CASE GenerateDraft /\ ~Pause
  <2>1. /\ fresh /\ mem.phase \in Drafting /\ pc = "loop"
        /\ task' = "DRAFT" /\ whole' = "DRAFT" /\ call' = call
    BY <1>2 DEF GenerateDraft, TaskBecomes, At, Drafting, Torn, locals
  <2>2. task = NoTask /\ whole = NoTask
    BY <2>1 DEF IInv, NothingYet, TaskInHand
  <2>3. call.step = "none"
    BY <1>0, <2>1 DEF IInv, Calling
  <2>4. TaskInHand'
    BY <2>1, <2>3 DEF TaskInHand, NoTask
  <2> QED BY <2>1, <2>2, <2>4 DEF StatusOf, Moved
<1>3. CASE ~(Transition /\ ~Pause) /\ ~(GenerateDraft /\ ~Pause)
  <2>1. call' = call \/ call'.step \in {"none", "find"}
    <3>1. CASE Asks
      <4>1. PICK to \in TaskStatus, role \in ActorRole : Request(to, role)
        BY <3>1 DEF Asks
      <4> QED BY <4>1, CallOfType DEF Request
    <3>2. CASE (OwnerReconcile \/ WriteHandoff \/ MatchDecision \/ Dispatch \/ Confirm) /\ ~Pause
      BY <3>2 DEF OwnerReconcile, WriteHandoff, MatchDecision, Dispatch, Confirm, Reconcile
    <3> QED BY <1>3, <3>1, <3>2, HandsStep DEF NoCall
  <2>2. UNCHANGED <<task, whole>>
    <3>same. ASSUME UNCHANGED repo PROVE UNCHANGED <<task, whole>>
      BY <3>same DEF repo, custody
    <3>1. CASE OwnerIntake
      BY <3>1, <3>same DEF OwnerIntake, MoveTask, PreserveTask, OwnerHandoff, OwnerDecide,
           OwnerReconcile, WriteHandoff, OwnerSave, OwnerRefused, Request, Reconcile, Pause,
           NewCommit, custody
    <3>2. CASE \/ ValidateGoal \/ GenerateDraft \/ SaveDraft \/ AwaitTaskApproval
               \/ BeginExecution \/ RunWorker \/ SaveExecution
               \/ RequestReview \/ SaveHandoff \/ MatchDecision \/ Dispatch \/ Confirm
               \/ ActOnDecision \/ Transition
      BY <1>3, <3>2, <3>same DEF ValidateGoal, SaveDraft, AwaitTaskApproval,
           BeginExecution, RunWorker, SaveExecution, RequestReview, SaveHandoff, MatchDecision,
           Dispatch, Confirm, ActOnDecision, Reconcile, Pause, custody
    <3>3. CASE \/ HandToReview \/ ApplyRework \/ SaveRework
               \/ BeginFinalization \/ PassGates \/ Approve \/ Commit \/ Push \/ Record
               \/ SavePublished \/ Finish
      BY <3>3, <3>same DEF HandToReview, Request, ApplyRework, SaveRework, BeginFinalization,
           PassGates, Approve, Commit, NewCommit, Push, Record, SavePublished, Finish, Pause,
           custody
    <3>4. CASE ReconcileCompleted \/ Crash \/ RecordFails \/ UNCHANGED vars
      BY <3>4, <3>same DEF ReconcileCompleted, Crash, RecordFails, vars, custody
    <3>5. CASE Operator
      BY <3>5, <3>same DEF Operator, Decide, OperatorTransition, OperatorContinues,
           OperatorCommit, NewCommit, Discard, Edit, OperatorReconcile, OperatorWrites,
           FinalizeByHand, Operate, NobodyMoves, custody
    <3>6. CASE \/ \E a \in BOOLEAN : StartRun(a)
               \/ \E a \in BOOLEAN, act \in OwnerAction \cup {"none"} : Resume(a, act)
      BY <3>6, <3>same DEF StartRun, Resume, Command
    <3> QED BY <3>1, <3>2, <3>3, <3>4, <3>5, <3>6 DEF Next, Orchestrator, Phases
  <2>3. TaskInHand'
    BY <2>1, <2>2 DEF TaskInHand
  <2> QED BY <2>2, <2>3 DEF Moved
<1> QED BY <1>1, <1>2, <1>3

\* A run whose task nobody else moves, takes back or finalizes past it implements the
\* task of TaskStatus: whatever kills it, and whatever else operators do, the last
\* status its task file carried went along the authority table.
THEOREM RunImplementsTask ==
  ASSUME {"discard", "finalize", "transition"} \cap Interference = {}
  PROVE  Spec => AbstractSpec
<1>1. Init => Abstract!Init /\ NobodyMoves /\ TaskInHand
  BY DEF Init, Abstract!Init, NobodyMoves, TaskInHand, NoCall, NoTask, TaskStatus
<1>2. IInv /\ NobodyMoves /\ TaskInHand /\ [Next]_vars
        => /\ NobodyMoves' /\ TaskInHand'
           /\ [Abstract!Next]_(IF whole = NoTask THEN "DRAFT" ELSE whole)
  <2> SUFFICES ASSUME IInv, NobodyMoves, TaskInHand, [Next]_vars
               PROVE  NobodyMoves' /\ TaskInHand'
                      /\ [Abstract!Next]_(IF whole = NoTask THEN "DRAFT" ELSE whole)
    OBVIOUS
  <2>1. CASE StatusOf(whole)' = StatusOf(whole)
    BY <2>1, HandsOff, TaskMoves DEF StatusOf
  <2>2. ASSUME NEW to \in TaskStatus, NEW actor \in ActorRole,
               IsTransitionAllowed(StatusOf(whole), to, actor), StatusOf(whole)' = to
        PROVE  Abstract!Next
    BY <2>2
       DEF StatusOf, Abstract!Next, Abstract!Transition, Abstract!IsTransitionAllowed,
           IsTransitionAllowed, Abstract!TaskStatus, TaskStatus, Abstract!ActorRole, ActorRole,
           Abstract!NonFinalWorkingStates, NonFinalWorkingStates, Abstract!Reviewers, Reviewers,
           Abstract!TransitionAuthority, TransitionAuthority,
           Abstract!Implementers, Implementers
  <2> QED BY <2>1, <2>2, HandsOff, TaskMoves DEF Moved
<1> QED BY <1>1, <1>2, Invariance, PTL DEF Spec, AbstractSpec, Abstract!Spec

=============================================================================
