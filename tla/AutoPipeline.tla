---------------------------- MODULE AutoPipeline ----------------------------
(***************************************************************************)
(* run_auto_pipeline() of advancore/agent_runner/auto_pipeline.py with the *)
(* execute() of runner.py it calls: a worker is launched on a clean tree,  *)
(* perhaps a fallback worker after it, what it left is verified (branch    *)
(* and HEAD, index, tests, whitespace, scope), and a bounded number of     *)
(* repair workers may follow.  Workers are other people's programs: a      *)
(* worker, whatever it returns, may leave any branch, HEAD, index, files   *)
(* and remotes behind.                                                     *)
(***************************************************************************)
EXTENDS Naturals, FiniteSets

CONSTANTS Files,       \* the files of the repository
          Scopes,      \* the scopes a task file may declare
          Branches,    \* its branches, "main" among them
          Litter,      \* the files the tests may leave behind
          MaxRepairs,  \* the largest max_repair_attempts a caller gives
          MaxHead,     \* bound on the commits workers make
          MaxFaults    \* bound on the git commands and writes that fail

RepairCap == 2

ASSUME AutoPipelineAssumption ==
  /\ "main" \in Branches
  /\ Litter \subseteq Files
  /\ Scopes \subseteq SUBSET Files
  /\ MaxRepairs \in Nat /\ MaxHead \in Nat /\ MaxFaults \in Nat

VARIABLES
  repo,      \* what git would say of the repository
  task,      \* what the task file says
  fallback,  \* a fallback worker was given
  budget,    \* repair_config.max_attempts
  home,      \* ghost: the branch the run began on
  pc,        \* the next step of the pipeline
  worker,    \* the worker that is launched next, or was last
  outcome,   \* how the last worker ended
  attempt,   \* the repair attempts begun; 0 while execute() is the runner
  pre, post, \* the Git snapshots before and after the last worker
  status,    \* result.status
  bundle,    \* the review bundle of the last execute()
  artifact,  \* the last status in auto_pipeline.jsonl
  reported,  \* result.auto_artifact_path is set
  launches,  \* ghost: the workers launched
  litter,    \* ghost: what the tests left behind since the last snapshot
  faults

config == <<task, fallback, budget, home>>
evidence == <<bundle, artifact, reported>>
vars == <<repo, config, pc, worker, outcome, attempt, pre, post, status,
          evidence, launches, litter, faults>>

Defect == {"tests", "whitespace"}
Repository ==
  {r \in [branch : Branches, head : 0..MaxHead, changed : SUBSET Files,
          staged : BOOLEAN, faulty : SUBSET Defect, remotes : BOOLEAN] :
     r.staged => r.changed # {}}
Task == [found : BOOLEAN, executable : BOOLEAN, scoped : BOOLEAN,
         safe : BOOLEAN, scope : Scopes]

Step == {"discover", "plan", "work", "observe", "bundle", "fallback", "staged",
         "tests", "diff", "scope", "decide", "repair", "unreadable", "done"}
Outcome == {"success", "unavailable", "failure", "terminated"}
RunnerStatus == {"PLANNING", "AWAITING_APPROVAL"}
Failure == {"VALIDATION_FAILED", "WORKER_FAILED", "POST_WORKER_VERIFICATION_FAILED",
            "TEST_FAILED", "DIFF_CHECK_FAILED", "SCOPE_FAILED"}
Ready == "READY_FOR_APPROVAL"
Status == RunnerStatus \cup Failure \cup {Ready, "NON_REPAIRABLE", "REPAIR_EXHAUSTED"}

\* get_git_info(): branch, HEAD and the paths of git status.  The paths of the
\* snapshot before a worker are read by execute() only, which has found none.
GitInfo == [branch : Branches, head : 0..MaxHead, changed : SUBSET Files]
Snapshot == [branch |-> repo.branch, head |-> repo.head, changed |-> repo.changed]
NoInfo == [branch |-> "none", head |-> 0, changed |-> {}]
Tip == [branch |-> repo.branch, head |-> repo.head]
NoTip == [branch |-> "none", head |-> 0]

NoBundle == [written |-> FALSE, paths |-> {}]

\* The commit the run starts from is 0; remotes says that the remotes are those
\* configured at the start.
Init ==
  /\ repo \in Repository
  /\ repo.head = 0 /\ repo.remotes /\ repo.faulty = {}
  /\ task \in Task
  /\ fallback \in BOOLEAN
  /\ budget \in {IF n > RepairCap THEN RepairCap ELSE n : n \in 0..MaxRepairs}
  /\ home = repo.branch
  /\ pc = "discover"
  /\ worker = "primary" /\ outcome = "none" /\ attempt = 0
  /\ pre = NoTip /\ post = NoInfo
  /\ status = "PLANNING"
  /\ bundle = NoBundle /\ artifact = "none" /\ reported = FALSE
  /\ launches = 0 /\ litter = {} /\ faults = 0

Goto(step) == pc' = step

Fault == faults < MaxFaults /\ faults' = faults + 1
NoFault == UNCHANGED faults

\* _write_auto_artifact(): a write that fails is a warning.
Write(s) ==
  \/ NoFault /\ artifact' = s /\ reported' = TRUE
  \/ Fault /\ UNCHANGED <<artifact, reported>>

\* The status is set, the artifact is written, and the pipeline goes on.
Report(s, step) ==
  /\ status' = s
  /\ Write(s)
  /\ Goto(step)
  /\ UNCHANGED bundle

-----------------------------------------------------------------------------
(***************************************************************************)
(* Before a worker runs.                                                   *)
(***************************************************************************)

PreFailure(s) ==
  /\ Report(IF budget > 0 THEN "NON_REPAIRABLE" ELSE s, "done")
  /\ UNCHANGED <<repo, config, worker, outcome, attempt, pre, post, launches, litter>>

TaskNotFound == pc = "discover" /\ ~task.found /\ PreFailure("VALIDATION_FAILED")

ScopeRefused ==
  /\ pc = "discover" /\ task.found
  /\ ~(task.scoped /\ task.safe)
  /\ PreFailure("SCOPE_FAILED")

Discover ==
  /\ pc = "discover" /\ task.found /\ task.scoped /\ task.safe
  /\ Goto("plan")
  /\ UNCHANGED <<repo, config, worker, outcome, attempt, pre, post, status,
                 evidence, launches, litter, faults>>

\* _build_plan() cannot read the repository: without a snapshot neither a
\* bundle nor an artifact is written.
Unreadable ==
  /\ pc = "plan"
  /\ Fault
  /\ status' = IF budget > 0 THEN "NON_REPAIRABLE" ELSE "VALIDATION_FAILED"
  /\ outcome' = "none" /\ bundle' = NoBundle
  /\ Goto("done")
  /\ UNCHANGED <<repo, config, worker, attempt, pre, post, artifact, reported,
                 launches, litter>>

\* validate()
Executable == repo.branch # "main" /\ repo.changed = {} /\ task.executable

Validate ==
  /\ pc = "plan"
  /\ pre' = Tip /\ post' = NoInfo
  /\ outcome' = "none" /\ bundle' = NoBundle
  /\ IF Executable
     THEN status' = "PLANNING" /\ Goto("work")
     ELSE status' = "VALIDATION_FAILED" /\ Goto("decide")
  /\ UNCHANGED <<repo, config, worker, attempt, artifact, reported, launches,
                 litter, faults>>

-----------------------------------------------------------------------------
(***************************************************************************)
(* A worker, and what the runner makes of it.                              *)
(***************************************************************************)

\* What a worker can leave behind: it commits at most once.
Effects ==
  {r \in [branch : Branches, head : {repo.head, repo.head + 1} \cap (0..MaxHead),
          changed : SUBSET Files, staged : BOOLEAN, faulty : SUBSET Defect,
          remotes : {FALSE, repo.remotes}] :
     r.staged => r.changed # {}}

Work ==
  /\ pc = "work"
  /\ repo' \in Effects
  /\ outcome' \in Outcome
  /\ launches' = launches + 1
  /\ litter' = {}
  /\ Goto("observe")
  /\ UNCHANGED <<config, worker, attempt, pre, post, status, evidence, faults>>

\* Mutant: a commit on the same branch is let through.
StableBranch(before, after) ==
  /\ after.branch # "main"
  /\ after.branch = before.branch

\* verify_post_worker()
Stable(before, after) ==
  /\ after.branch # "main"
  /\ after.branch = before.branch
  /\ after.head = before.head

\* execute() after the worker.
Observe ==
  /\ pc = "observe" /\ attempt = 0
  /\ \/ /\ NoFault
        /\ post' = Snapshot
        /\ status' = IF ~Stable(pre, Tip) THEN "POST_WORKER_VERIFICATION_FAILED"
                     ELSE IF outcome = "success" THEN "AWAITING_APPROVAL"
                     ELSE "WORKER_FAILED"
     \/ /\ Fault
        /\ post' = NoInfo
        /\ status' = "POST_WORKER_VERIFICATION_FAILED"
  /\ Goto("bundle")
  /\ UNCHANGED <<repo, config, worker, outcome, attempt, pre, evidence, launches, litter>>

\* _write_review_bundle(): a write that fails is a warning.
WriteBundle ==
  /\ pc = "bundle"
  /\ \/ NoFault /\ bundle' = [written |-> TRUE, paths |-> post.changed]
     \/ Fault /\ UNCHANGED bundle
  /\ Goto("fallback")
  /\ UNCHANGED <<repo, config, worker, outcome, attempt, pre, post, status,
                 artifact, reported, launches, litter>>

\* Mutant: the branch is not compared.
UntouchedTree ==
  /\ post # NoInfo
  /\ post.head = pre.head
  /\ post.changed = {}
  /\ repo.remotes
  /\ ~repo.staged

\* _fallback_integrity_ok()
Untouched ==
  /\ post # NoInfo
  /\ post.branch = pre.branch /\ post.head = pre.head
  /\ post.changed = {}
  /\ repo.remotes
  /\ ~repo.staged

\* Mutant: any failure is a provider failure.
MayFallBackAlways ==
  /\ fallback /\ worker = "primary"
  /\ outcome # "success"
  /\ Untouched

\* Only for a failure of the provider, once.
MayFallBack ==
  /\ fallback /\ worker = "primary"
  /\ outcome = "unavailable"
  /\ Untouched

FallBack ==
  /\ pc = "fallback" /\ MayFallBack
  /\ worker' = "fallback"
  /\ Goto("plan")
  /\ UNCHANGED <<repo, config, outcome, attempt, pre, post, status, evidence,
                 launches, litter, faults>>

\* A worker that was stopped ends the pipeline.
Terminated ==
  /\ pc = "fallback" /\ ~MayFallBack
  /\ outcome = "terminated"
  /\ Report("WORKER_FAILED", "done")
  /\ UNCHANGED <<repo, config, worker, outcome, attempt, pre, post, launches, litter>>

Classify ==
  /\ pc = "fallback" /\ ~MayFallBack
  /\ outcome # "terminated"
  /\ Goto(IF status = "AWAITING_APPROVAL" THEN "staged" ELSE "decide")
  /\ UNCHANGED <<repo, config, worker, outcome, attempt, pre, post, status,
                 evidence, launches, litter, faults>>

-----------------------------------------------------------------------------
(***************************************************************************)
(* _run_verification_sequence()                                            *)
(***************************************************************************)

\* detect_staged_paths() takes a git that fails for an empty index.
CheckStaged ==
  /\ pc = "staged"
  /\ \/ /\ repo.staged
        /\ Report("SCOPE_FAILED", "decide")
     \/ /\ \/ ~repo.staged /\ NoFault
           \/ Fault
        /\ Goto("tests")
        /\ UNCHANGED <<status, evidence>>
  /\ UNCHANGED <<repo, config, worker, outcome, attempt, pre, post, launches, litter>>

\* The tests may leave files behind.
RunTests ==
  /\ pc = "tests"
  /\ \E left \in SUBSET Litter :
       /\ repo' = [repo EXCEPT !.changed = @ \cup left]
       /\ litter' = left \ repo.changed
  /\ IF "tests" \in repo.faulty
     THEN Report("TEST_FAILED", "decide")
     ELSE Goto("diff") /\ UNCHANGED <<status, evidence, faults>>
  /\ UNCHANGED <<config, worker, outcome, attempt, pre, post, launches>>

DiffCheck ==
  /\ pc = "diff"
  /\ IF "whitespace" \in repo.faulty
     THEN Report("DIFF_CHECK_FAILED", "decide")
     ELSE Goto("scope") /\ UNCHANGED <<status, evidence, faults>>
  /\ UNCHANGED <<repo, config, worker, outcome, attempt, pre, post, launches, litter>>

\* Mutant: the scope is compared with what the review bundle lists.
BundleInScope == bundle.paths \subseteq task.scope

\* build_scope_result() on the paths of the post-worker snapshot.
InScope == post.changed \subseteq task.scope

CheckScope ==
  /\ pc = "scope"
  /\ Report(IF InScope THEN Ready ELSE "SCOPE_FAILED", "decide")
  /\ UNCHANGED <<repo, config, worker, outcome, attempt, pre, post, launches, litter>>

-----------------------------------------------------------------------------
(***************************************************************************)
(* The repair loop.                                                        *)
(***************************************************************************)

\* Mutant: a worker is asked to undo what exceeds its scope.
RepairableScope == status \in {"TEST_FAILED", "DIFF_CHECK_FAILED", "WORKER_FAILED",
                               "SCOPE_FAILED"}

\* classify_repair_status()
Repairable == status \in {"TEST_FAILED", "DIFF_CHECK_FAILED", "WORKER_FAILED"}

\* An artifact is written unless the result already has one.
ReportOnce(s) ==
  /\ status' = s
  /\ IF reported THEN UNCHANGED <<artifact, reported, faults>> ELSE Write(s)
  /\ Goto("done")
  /\ UNCHANGED bundle

\* Mutant: the loop waits for one attempt more than BeginRepair makes.
FinishLate ==
  /\ pc = "decide"
  /\ \/ status = Ready /\ attempt = 0 /\ Goto("done") /\ UNCHANGED <<status, evidence, faults>>
     \/ status = Ready /\ attempt > 0 /\ Report(Ready, "done")
     \/ status # Ready /\ budget = 0 /\ ReportOnce(status)
     \/ status # Ready /\ attempt < budget /\ ~Repairable /\ ReportOnce("NON_REPAIRABLE")
     \/ /\ status # Ready /\ budget > 0 /\ attempt > budget
        /\ Report("REPAIR_EXHAUSTED", "done")
  /\ UNCHANGED <<repo, config, worker, outcome, attempt, pre, post, launches, litter>>

\* The loop of run_auto_pipeline() ends, or there is none.
Finish ==
  /\ pc = "decide"
  /\ \/ status = Ready /\ attempt = 0 /\ Goto("done") /\ UNCHANGED <<status, evidence, faults>>
     \/ status = Ready /\ attempt > 0 /\ Report(Ready, "done")
     \/ status # Ready /\ budget = 0 /\ ReportOnce(status)
     \/ status # Ready /\ attempt < budget /\ ~Repairable /\ ReportOnce("NON_REPAIRABLE")
     \/ /\ status # Ready /\ budget > 0 /\ attempt = budget
        /\ Report("REPAIR_EXHAUSTED", "done")
  /\ UNCHANGED <<repo, config, worker, outcome, attempt, pre, post, launches, litter>>

\* A repair attempt starts a result of its own, and is not asked for a clean tree.
BeginRepair ==
  /\ pc = "decide" /\ status # Ready
  /\ attempt < budget /\ Repairable
  /\ attempt' = attempt + 1
  /\ outcome' = "none" /\ pre' = NoTip /\ post' = NoInfo
  /\ reported' = FALSE
  /\ Goto("repair")
  /\ UNCHANGED <<repo, config, worker, status, bundle, artifact, launches, litter, faults>>

RepairSnapshot ==
  /\ pc = "repair"
  /\ pre' = Tip
  /\ status' = "PLANNING"
  /\ Goto("work")
  /\ UNCHANGED <<repo, config, worker, outcome, attempt, post, evidence, launches, litter,
                 faults>>

\* _run_repair_attempt() after a worker that failed: the repository is not looked at.
RepairWorkerFailed ==
  /\ pc = "observe" /\ attempt > 0
  /\ outcome # "success"
  /\ Report("WORKER_FAILED", "decide")
  /\ UNCHANGED <<repo, config, worker, outcome, attempt, pre, post, launches, litter>>

ObserveRepair ==
  /\ pc = "observe" /\ attempt > 0
  /\ outcome = "success"
  /\ post' = Snapshot
  /\ IF Stable(pre, Tip)
     THEN Goto("staged") /\ UNCHANGED <<status, evidence, faults>>
     ELSE Report("POST_WORKER_VERIFICATION_FAILED", "decide")
  /\ UNCHANGED <<repo, config, worker, outcome, attempt, pre, launches, litter>>

\* get_git_info() fails before or after a repair worker.
RepairUnreadable ==
  /\ \/ pc = "repair"
     \/ pc = "observe" /\ attempt > 0 /\ outcome = "success"
  /\ Fault
  /\ Goto("unreadable")
  /\ UNCHANGED <<repo, config, worker, outcome, attempt, pre, post, status, evidence,
                 launches, litter>>

ReportUnreadable ==
  /\ pc = "unreadable"
  /\ Report("POST_WORKER_VERIFICATION_FAILED", "decide")
  /\ UNCHANGED <<repo, config, worker, outcome, attempt, pre, post, launches, litter>>

-----------------------------------------------------------------------------
Next ==
  \/ TaskNotFound \/ ScopeRefused \/ Discover
  \/ Unreadable \/ Validate
  \/ Work \/ Observe \/ WriteBundle
  \/ FallBack \/ Terminated \/ Classify
  \/ CheckStaged \/ RunTests \/ DiffCheck \/ CheckScope
  \/ Finish \/ BeginRepair \/ RepairSnapshot
  \/ RepairWorkerFailed \/ ObserveRepair
  \/ RepairUnreadable \/ ReportUnreadable

Spec == Init /\ [][Next]_vars

\* The pipeline is one synchronous call, and every worker has a deadline
\* (worker.py): what can go on does.  But for the tests: pytest runs what the
\* worker wrote, with no timeout, and nothing says that it ends.
FairSpec == Spec /\ WF_vars(pc # "tests" /\ Next)

-----------------------------------------------------------------------------
(***************************************************************************)
(* Properties.                                                             *)
(***************************************************************************)

\* The variables keep their types.
TypeOK ==
  /\ repo \in Repository
  /\ task \in Task
  /\ fallback \in BOOLEAN
  /\ budget \in 0..RepairCap
  /\ home \in Branches
  /\ pc \in Step
  /\ worker \in {"primary", "fallback"}
  /\ outcome \in Outcome \cup {"none"}
  /\ attempt \in 0..budget
  /\ pre \in [branch : Branches, head : 0..MaxHead] \cup {NoTip}
  /\ post \in GitInfo \cup {NoInfo}
  /\ status \in Status
  /\ bundle \in [written : BOOLEAN, paths : SUBSET Files]
  /\ artifact \in Status \cup {"none"}
  /\ reported \in BOOLEAN
  /\ launches \in Nat
  /\ litter \subseteq Litter
  /\ faults \in 0..MaxFaults

\* READY_FOR_APPROVAL is said of the repository that is there: not on main, with
\* tests and whitespace in order, nothing outside the task's scope but what the
\* tests themselves left, and, when git answered, nothing in the index.
\* Through fallback and repairs, whatever the workers did.
ReadyIsVerified ==
  status = Ready =>
    /\ repo.branch # "main"
    /\ repo.faulty = {}
    /\ repo.changed \ litter \subseteq task.scope
    /\ faults = 0 => ~repo.staged

\* A fallback worker starts where the primary one did: on the branch, the commit,
\* the remotes and the clean tree it was given, whatever the primary worker did
\* before it failed.
FallbackStartsClean ==
  pc = "work" /\ attempt = 0 =>
    /\ repo.branch = home /\ repo.head = 0
    /\ repo.changed = {} /\ ~repo.staged
    /\ repo.remotes

\* Nobody is asked more often than the budgets say.
LaunchesAreBounded ==
  launches <= (IF fallback THEN 2 ELSE 1) + attempt

\* The bundle a first execution wrote lists what is in the tree when the pipeline
\* calls it ready, which is what the orchestration submits to the controller.
ReadyBundleIsCurrent ==
  status = Ready /\ attempt = 0 /\ bundle.written => bundle.paths = repo.changed \ litter

\* auto_pipeline.jsonl calls a run ready only if the pipeline does.
ArtifactIsHonest ==
  artifact = Ready => status = Ready

\* Nothing is launched after a timeout or a cancellation of a worker that
\* execute() ran, as the pipeline's message says.
TerminationIsFinal ==
  [][outcome = "terminated" /\ attempt = 0 =>
       outcome' = outcome /\ launches' = launches /\ attempt' = attempt]_vars

\* A scope, staging, branch, HEAD or validation failure is never followed by
\* another worker, a repair worker or the fallback worker.
GovernanceFailuresStop ==
  [][(status \in {"SCOPE_FAILED", "POST_WORKER_VERIFICATION_FAILED", "VALIDATION_FAILED"})
       => attempt' = attempt /\ worker' = worker /\ launches' = launches]_vars

\* Up to the first repair a ready tree stands on the commit the run began with:
\* whoever commits is caught by the comparison of the snapshots.
FirstRepairKeepsTheBase ==
  status = Ready /\ attempt <= 1 => repo.head = 0

\* The architecture document: branch and HEAD failures "stop immediately", so a
\* ready tree always stands on the commit the run began with.
ReadyOnItsBase == status = Ready => repo.head = 0

\* The pipeline answers, unless the tests hang: nothing else keeps it for good.
PipelineEnds == <>[](pc \in {"done", "tests"})
=============================================================================
