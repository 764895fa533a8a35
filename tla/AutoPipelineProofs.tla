-------------------------- MODULE AutoPipelineProofs --------------------------
(***************************************************************************)
(* Proofs about AutoPipeline, for every set of files, scopes and branches  *)
(* and every number of repairs, commits and faults.                        *)
(***************************************************************************)
EXTENDS AutoPipeline, TLAPS

\* The steps between a worker that succeeded and the verdict.
Verifying == {"staged", "tests", "diff", "scope"}
Running == {"observe", "bundle", "fallback"} \cup Verifying

\* What each gate leaves true for the ones after it: the snapshot describes the
\* repository but for the litter, and every gate passed still holds.
GatesHold ==
  /\ pc \in Verifying =>
       /\ post.branch = repo.branch /\ post.head = repo.head
       /\ post.branch # "main" /\ post.head = pre.head
       /\ repo.changed \ litter = post.changed
  /\ pc \in {"staged", "tests"} => litter = {}
  /\ pc \in {"tests", "diff", "scope"} /\ faults = 0 => ~repo.staged
  /\ pc \in {"diff", "scope"} => "tests" \notin repo.faulty
  /\ pc = "scope" => "whitespace" \notin repo.faulty

\* A verdict is given where the code gives it.
VerdictIsLast == status = Ready => pc \in {"decide", "done"}

\* What execute() hands on: unless it says otherwise, the snapshot it took is
\* that of the repository, on the branch and the commit the worker was given.
ExecutionObserved ==
  /\ pc \in {"observe", "bundle", "fallback"} => litter = {}
  /\ pc \in {"bundle", "fallback"} =>
       /\ attempt = 0
       /\ post \in {NoInfo, Snapshot}
       /\ status # "POST_WORKER_VERIFICATION_FAILED" => post = Snapshot /\ Stable(pre, Tip)

\* A worker runs under no verdict, and the one on its execution says whether the
\* repository was left where it was.
StatusTells ==
  /\ pc \in {"work", "observe"} => status = "PLANNING"
  /\ attempt = 0 /\ pc \in {"work", "observe", "bundle", "fallback"} => pre.branch # "main"
  /\ pc \in {"bundle", "fallback"} =>
       /\ status \in {"AWAITING_APPROVAL", "WORKER_FAILED", "POST_WORKER_VERIFICATION_FAILED"}
       /\ status = "POST_WORKER_VERIFICATION_FAILED" => post = NoInfo \/ ~Stable(pre, Tip)

\* The commit the run began with, as long as at most one repair was tried.
BaseKept ==
  /\ pc \in {"discover", "plan"} => attempt = 0 /\ repo.head = 0
  /\ attempt <= 1 /\ pc \in {"work"} \cup Running => pre.head = 0
  /\ attempt <= 1 /\ pc \in {"repair", "work"} => repo.head = 0
  /\ attempt = 0 /\ pc = "decide" /\ Repairable => repo.head = 0

\* The first execution, launched where the primary worker was.
LaunchIsClean ==
  /\ pc \in {"discover", "plan"} => repo.remotes /\ repo.branch = home
  /\ attempt = 0 /\ pc \in {"work", "observe", "bundle", "fallback"} => pre.branch = home
  /\ pc = "repair" => attempt > 0
  /\ FallbackStartsClean

\* A bundle that was written is the one of the snapshot.
BundleIsOfPost ==
  /\ attempt = 0 /\ pc \in {"work", "observe", "bundle"} => ~bundle.written
  /\ attempt = 0 /\ pc \in {"fallback"} \cup Verifying /\ bundle.written
       => bundle.paths = post.changed

\* Launches, the one that is about to happen included.
LaunchesCounted ==
  /\ worker = "fallback" => fallback
  /\ launches + (IF pc \in {"discover", "plan", "work", "repair"} THEN 1 ELSE 0)
       <= (IF worker = "fallback" THEN 2 ELSE 1) + attempt

\* What holds between two steps.
StepsInOrder ==
  /\ GatesHold /\ ExecutionObserved /\ StatusTells /\ BaseKept
  /\ LaunchIsClean /\ BundleIsOfPost /\ LaunchesCounted

\* The inductive invariant.
IInv ==
  /\ TypeOK /\ StepsInOrder /\ VerdictIsLast
  /\ ReadyIsVerified /\ FirstRepairKeepsTheBase /\ ReadyBundleIsCurrent
  /\ ArtifactIsHonest

\* A report keeps the types of what it writes, and the bundle.
LEMMA ReportTyped ==
  ASSUME TypeOK, NEW s \in Status, NEW step \in Step, Report(s, step)
  PROVE  /\ status' \in Status /\ artifact' \in Status \cup {"none"}
         /\ reported' \in BOOLEAN /\ faults' \in 0..MaxFaults
         /\ pc' \in Step /\ bundle' = bundle
<1>1. status' \in Status /\ pc' \in Step /\ bundle' = bundle
  BY DEF Report, Goto
<1>2. artifact' \in Status \cup {"none"} /\ reported' \in BOOLEAN
  BY Zenon DEF TypeOK, Report, Write
<1>3. faults' \in 0..MaxFaults
  BY AutoPipelineAssumption DEF TypeOK, Report, Write, Fault, NoFault
<1> QED BY <1>1, <1>2, <1>3

\* The statuses the pipeline reports.
LEMMA Statuses ==
  /\ Failure \subseteq Status /\ Ready \in Status
  /\ {"NON_REPAIRABLE", "REPAIR_EXHAUSTED", "PLANNING", "AWAITING_APPROVAL"} \subseteq Status
  /\ {"done", "decide", "plan", "work", "bundle", "fallback", "staged", "tests", "diff",
      "scope", "repair", "unreadable", "observe"} \subseteq Step
  /\ {"VALIDATION_FAILED", "WORKER_FAILED", "POST_WORKER_VERIFICATION_FAILED",
      "TEST_FAILED", "DIFF_CHECK_FAILED", "SCOPE_FAILED"} \subseteq Failure
  BY DEF Failure, Status, RunnerStatus, Ready, Step

\* So does a report that may have been made before.
LEMMA OnceTyped ==
  ASSUME TypeOK, NEW s \in Status, ReportOnce(s)
  PROVE  /\ status' \in Status /\ artifact' \in Status \cup {"none"}
         /\ reported' \in BOOLEAN /\ faults' \in 0..MaxFaults
         /\ pc' \in Step /\ bundle' = bundle
<1>1. status' \in Status /\ pc' \in Step /\ bundle' = bundle
  BY Statuses DEF ReportOnce, Goto
<1>2. artifact' \in Status \cup {"none"} /\ reported' \in BOOLEAN
  BY Zenon DEF TypeOK, ReportOnce, Write
<1>3. faults' \in 0..MaxFaults
  BY AutoPipelineAssumption DEF TypeOK, ReportOnce, Write, Fault, NoFault
<1> QED BY <1>1, <1>2, <1>3

\* A written bundle is well typed.
LEMMA BundleRecord ==
  \A S \in SUBSET Files :
    [written |-> TRUE, paths |-> S] \in [written : BOOLEAN, paths : SUBSET Files]
  OBVIOUS

\* The type invariant is inductive.
LEMMA TypeStep == TypeOK /\ [Next]_vars => TypeOK'
<1> SUFFICES ASSUME TypeOK, [Next]_vars PROVE TypeOK'
  OBVIOUS
<1> USE AutoPipelineAssumption, Statuses DEF TypeOK, config
<1>1. CASE TaskNotFound
  BY <1>1, ReportTyped DEF TaskNotFound, PreFailure
<1>2. CASE ScopeRefused
  BY <1>2, ReportTyped DEF ScopeRefused, PreFailure
<1>3. CASE Discover
  BY <1>3 DEF Discover, evidence, Goto
<1>4. CASE Unreadable
  BY <1>4 DEF Unreadable, NoBundle, Goto, Fault
<1>5. CASE Validate
  BY <1>5 DEF Validate, Executable, Tip, NoTip, Repository, NoBundle, Goto
<1>6. CASE Work
  <2>1. Effects \subseteq Repository
    BY DEF Effects, Repository
  <2>2. repo' \in Repository
    BY <1>6, <2>1 DEF Work
  <2> QED BY <1>6, <2>2 DEF Work, Goto, evidence
<1>7. CASE Observe
  BY <1>7 DEF Observe, Snapshot, GitInfo, NoInfo, Repository, Goto, Fault, NoFault,
         evidence
<1>8. CASE WriteBundle
  <2>1. post.changed \in SUBSET Files
    BY DEF GitInfo, NoInfo
  <2>2. bundle' = [written |-> TRUE, paths |-> post.changed] \/ bundle' = bundle
    BY <1>8 DEF WriteBundle
  <2>3. bundle' \in [written : BOOLEAN, paths : SUBSET Files]
    BY <2>1, <2>2, BundleRecord
  <2>4. faults' \in 0..MaxFaults /\ pc' \in Step
    BY <1>8 DEF WriteBundle, Fault, NoFault, Goto
  <2> QED BY <1>8, <2>3, <2>4 DEF WriteBundle
<1>9. CASE FallBack
  BY <1>9 DEF FallBack, Goto, evidence
<1>10. CASE Terminated
  BY <1>10, ReportTyped DEF Terminated
<1>11. CASE Classify
  BY <1>11 DEF Classify, Goto, evidence
<1>12. CASE CheckStaged
  BY <1>12, ReportTyped DEF CheckStaged, Goto, evidence, Fault, NoFault
<1>13. CASE RunTests
  BY <1>13, ReportTyped DEF RunTests, Goto, evidence, Repository
<1>14. CASE DiffCheck
  BY <1>14, ReportTyped DEF DiffCheck, Goto, evidence
<1>15. CASE CheckScope
  BY <1>15, ReportTyped DEF CheckScope
<1>16. CASE Finish
  <2>1. CASE ReportOnce(status)
    BY <1>16, <2>1, OnceTyped DEF Finish
  <2>2. CASE ReportOnce("NON_REPAIRABLE")
    BY <1>16, <2>2, OnceTyped DEF Finish
  <2>3. CASE UNCHANGED <<status, evidence, faults>> /\ Goto("done")
    BY <1>16, <2>3 DEF Finish, Goto, evidence
  <2>4. CASE Report(Ready, "done") \/ Report("REPAIR_EXHAUSTED", "done")
    BY <1>16, <2>4, ReportTyped DEF Finish
  <2> QED BY <1>16, <2>1, <2>2, <2>3, <2>4 DEF Finish
<1>17. CASE BeginRepair
  <2>1. attempt' \in 0..budget'
    BY <1>17 DEF BeginRepair, RepairCap
  <2>2. outcome' \in Outcome \cup {"none"} /\ reported' \in BOOLEAN /\ pc' \in Step
    BY <1>17 DEF BeginRepair, Goto
  <2>3. /\ post' \in GitInfo \cup {NoInfo}
        /\ pre' \in [branch : Branches, head : 0..MaxHead] \cup {NoTip}
    BY <1>17 DEF BeginRepair
  <2> QED BY <1>17, <2>1, <2>2, <2>3 DEF BeginRepair
<1>18. CASE RepairSnapshot
  BY <1>18 DEF RepairSnapshot, Tip, NoTip, Repository, Goto, evidence
<1>19. CASE RepairWorkerFailed
  BY <1>19, ReportTyped DEF RepairWorkerFailed
<1>20. CASE ObserveRepair
  BY <1>20, ReportTyped DEF ObserveRepair, Snapshot, GitInfo, Repository, Goto, evidence
<1>21. CASE RepairUnreadable
  BY <1>21 DEF RepairUnreadable, Goto, evidence, Fault
<1>22. CASE ReportUnreadable
  BY <1>22, ReportTyped DEF ReportUnreadable
<1>23. CASE UNCHANGED vars
  BY <1>23 DEF vars, evidence
<1> QED BY <1>1, <1>2, <1>3, <1>4, <1>5, <1>6, <1>7, <1>8, <1>9, <1>10, <1>11, <1>12,
       <1>13, <1>14, <1>15, <1>16, <1>17, <1>18, <1>19, <1>20, <1>21, <1>22, <1>23 DEF
       Next

\* What holds between two steps is kept by every one of them.
LEMMA StepsInOrderStep == IInv /\ [Next]_vars => StepsInOrder'
<1> SUFFICES ASSUME IInv, [Next]_vars PROVE StepsInOrder'
  OBVIOUS
<1> USE DEF IInv, config, evidence, StepsInOrder, GatesHold, ExecutionObserved,
       StatusTells, BaseKept, LaunchIsClean, BundleIsOfPost, LaunchesCounted,
       FallbackStartsClean, TypeOK, Verifying, Running, Repairable, Snapshot, Tip,
       Stable
<1>1. CASE TaskNotFound \/ ScopeRefused \/ Terminated \/ RepairWorkerFailed \/ ReportUnreadable
  BY <1>1 DEF TaskNotFound, PreFailure, Report, Goto, ScopeRefused, Terminated,
         RepairWorkerFailed, ReportUnreadable
<1>2. CASE Discover \/ Unreadable \/ RepairUnreadable
  BY <1>2 DEF Discover, Goto, Unreadable, RepairUnreadable
<1>3. CASE Validate
  BY <1>3 DEF Validate, Goto, Executable, Tip, Repository, NoBundle
<1>4. CASE Finish
  BY <1>4 DEF Finish, Report, ReportOnce, Goto
<1>5. CASE CheckScope \/ DiffCheck
  BY <1>5 DEF CheckScope, Report, Goto, InScope, DiffCheck
<1>6. CASE BeginRepair \/ RepairSnapshot
  BY <1>6 DEF BeginRepair, Goto, Repairable, RepairSnapshot, Tip
<1>7. CASE Work
  BY <1>7 DEF Work, Goto, Effects
<1>8. CASE Observe
  BY <1>8 DEF Observe, Goto, Stable, Snapshot, Tip, Fault, NoFault
<1>9. CASE WriteBundle
  BY <1>9 DEF WriteBundle, Goto, Fault, NoFault
<1>10. CASE FallBack
  BY <1>10 DEF FallBack, Goto, MayFallBack, Untouched
<1>11. CASE Classify
  BY <1>11 DEF Classify, Goto
<1>12. CASE CheckStaged
  BY <1>12 DEF CheckStaged, Report, Goto, Fault, NoFault
<1>13. CASE RunTests
  BY <1>13 DEF RunTests, Report, Goto
<1>14. CASE ObserveRepair
  BY <1>14 DEF ObserveRepair, Report, Goto, Stable, Snapshot, Tip
<1>15. CASE UNCHANGED vars
  BY <1>15 DEF vars, Snapshot, Repairable
<1> QED BY <1>1, <1>2, <1>3, <1>4, <1>5, <1>6, <1>7, <1>8, <1>9, <1>10, <1>11, <1>12,
       <1>13, <1>14, <1>15 DEF Next

\* A verdict is reached after the last gate only, and once reached it stays.
LEMMA ReadySteps ==
  ASSUME IInv, [Next]_vars
  PROVE  /\ status' = Ready =>
              /\ UNCHANGED <<repo, task, litter, attempt, bundle>>
              /\ faults' = 0 => faults = 0
              /\ \/ status = Ready
                 \/ pc = "scope" /\ InScope
              /\ pc' \in {"decide", "done"}
         /\ status = Ready => status' = Ready
         /\ artifact' = Ready => artifact = Ready \/ status' = Ready
<1> USE AutoPipelineAssumption DEF IInv, VerdictIsLast, Ready, config, evidence
<1>1. CASE TaskNotFound
  BY <1>1 DEF TaskNotFound, PreFailure, Report, Goto, Write, Fault, NoFault, TypeOK
<1>2. CASE ScopeRefused
  BY <1>2 DEF ScopeRefused, PreFailure, Report, Goto, Write, Fault, NoFault, TypeOK
<1>3. CASE Discover
  BY <1>3 DEF Discover, Goto, TypeOK
<1>4. CASE Unreadable
  BY <1>4 DEF Unreadable, Goto, TypeOK
<1>5. CASE Validate
  BY <1>5 DEF Validate, Goto, Executable, Tip, TypeOK
<1>6. CASE Work
  BY <1>6 DEF Work, Goto, Effects, TypeOK
<1>7. CASE Observe
  BY <1>7 DEF Observe, Goto, Stable, Snapshot, Tip, Fault, NoFault, TypeOK
<1>8. CASE WriteBundle
  BY <1>8 DEF WriteBundle, Goto, Fault, NoFault, TypeOK
<1>9. CASE FallBack
  BY <1>9 DEF FallBack, Goto, MayFallBack, Untouched, TypeOK
<1>10. CASE Terminated
  BY <1>10 DEF Terminated, Report, Goto, Write, Fault, NoFault, TypeOK
<1>11. CASE Classify
  BY <1>11 DEF Classify, Goto, TypeOK
<1>12. CASE CheckStaged
  BY <1>12 DEF CheckStaged, Report, Goto, Fault, NoFault, Write, TypeOK
<1>13. CASE RunTests
  BY <1>13 DEF RunTests, Report, Goto, Write, Fault, NoFault, TypeOK
<1>14. CASE DiffCheck
  BY <1>14 DEF DiffCheck, Report, Goto, Write, Fault, NoFault, TypeOK
<1>15. CASE CheckScope
  BY <1>15 DEF CheckScope, Report, Goto, Write, Fault, NoFault, TypeOK
<1>16. CASE Finish
  BY <1>16 DEF Finish, Report, ReportOnce, Goto, Write, Fault, NoFault, TypeOK
<1>17. CASE BeginRepair
  BY <1>17 DEF BeginRepair, Goto, Repairable, TypeOK
<1>18. CASE RepairSnapshot
  BY <1>18 DEF RepairSnapshot, Goto, Tip, TypeOK
<1>19. CASE RepairWorkerFailed
  BY <1>19 DEF RepairWorkerFailed, Report, Goto, Write, Fault, NoFault, TypeOK
<1>20. CASE ObserveRepair
  BY <1>20 DEF ObserveRepair, Report, Goto, Stable, Snapshot, Tip, Write, Fault,
         NoFault, TypeOK
<1>21. CASE RepairUnreadable
  BY <1>21 DEF RepairUnreadable, Goto, TypeOK
<1>22. CASE ReportUnreadable
  BY <1>22 DEF ReportUnreadable, Report, Goto, Write, Fault, NoFault, TypeOK
<1>23. CASE UNCHANGED vars
  BY <1>23 DEF vars
<1> QED BY <1>1, <1>2, <1>3, <1>4, <1>5, <1>6, <1>7, <1>8, <1>9, <1>10, <1>11, <1>12,
       <1>13, <1>14, <1>15, <1>16, <1>17, <1>18, <1>19, <1>20, <1>21, <1>22, <1>23 DEF
       Next

\* The two gates of a verdict: what CheckScope finds is what the property says.
LEMMA VerdictHolds ==
  IInv /\ [Next]_vars => /\ VerdictIsLast' /\ ReadyIsVerified'
                         /\ FirstRepairKeepsTheBase' /\ ReadyBundleIsCurrent'
                         /\ ArtifactIsHonest'
<1> SUFFICES ASSUME IInv, [Next]_vars
             PROVE  /\ VerdictIsLast' /\ ReadyIsVerified'
                    /\ FirstRepairKeepsTheBase' /\ ReadyBundleIsCurrent'
                    /\ ArtifactIsHonest'
  OBVIOUS
<1>1. VerdictIsLast'
  BY ReadySteps DEF VerdictIsLast
<1>2. ArtifactIsHonest'
  BY ReadySteps DEF IInv, ArtifactIsHonest
<1>3. CASE status' = Ready /\ status = Ready
  BY <1>1, <1>2, <1>3, ReadySteps
  DEF IInv, ReadyIsVerified, FirstRepairKeepsTheBase, ReadyBundleIsCurrent
<1>4. CASE status' = Ready /\ pc = "scope" /\ InScope
  <2>1. UNCHANGED <<repo, task, litter, attempt, bundle>> /\ (faults' = 0 => faults = 0)
    BY <1>4, ReadySteps
  <2>2. /\ repo.branch # "main" /\ repo.faulty = {}
        /\ repo.changed \ litter = post.changed /\ repo.head = pre.head
        /\ faults = 0 => ~repo.staged
    BY <1>4 DEF IInv, StepsInOrder, TypeOK, Repository, Defect, GatesHold, Verifying
  <2>3. ReadyIsVerified'
    BY <1>4, <2>1, <2>2 DEF ReadyIsVerified, InScope
  <2>4. FirstRepairKeepsTheBase'
    BY <1>4, <2>1, <2>2 DEF IInv, StepsInOrder, BaseKept, Running, Verifying,
           FirstRepairKeepsTheBase
  <2>5. ReadyBundleIsCurrent'
    BY <1>4, <2>1, <2>2 DEF IInv, StepsInOrder, BundleIsOfPost, Verifying,
           ReadyBundleIsCurrent
  <2> QED BY <1>1, <1>2, <2>3, <2>4, <2>5
<1>5. CASE status' # Ready
  BY <1>1, <1>2, <1>5 DEF ReadyIsVerified, FirstRepairKeepsTheBase, ReadyBundleIsCurrent
<1> QED BY <1>3, <1>4, <1>5, ReadySteps

\* The pipeline starts in the invariant.
LEMMA InitIInv == Init => IInv
<1> SUFFICES ASSUME Init PROVE IInv
  OBVIOUS
<1>1. TypeOK
  <2>1. budget \in 0..RepairCap
    BY AutoPipelineAssumption DEF Init, RepairCap
  <2>2. bundle \in [written : BOOLEAN, paths : SUBSET Files]
    BY DEF Init, NoBundle
  <2>3. status \in Status /\ pc \in Step
    BY DEF Init, Status, RunnerStatus, Step
  <2>4. /\ attempt \in 0..budget /\ launches \in Nat /\ faults \in 0..MaxFaults
        /\ litter \subseteq Litter
    BY <2>1, AutoPipelineAssumption DEF Init, RepairCap
  <2>5. /\ repo \in Repository /\ task \in Task /\ fallback \in BOOLEAN
        /\ worker \in {"primary", "fallback"} /\ outcome \in Outcome \cup {"none"}
        /\ pre \in [branch : Branches, head : 0..MaxHead] \cup {NoTip}
        /\ post \in GitInfo \cup {NoInfo}
        /\ artifact \in Status \cup {"none"} /\ reported \in BOOLEAN
    BY DEF Init
  <2>6. home \in Branches
    BY DEF Init, Repository
  <2> QED BY <2>1, <2>2, <2>3, <2>4, <2>5, <2>6 DEF TypeOK
<1>2. GatesHold /\ VerdictIsLast /\ ExecutionObserved /\ StatusTells /\ BaseKept
  BY DEF Init, GatesHold, VerdictIsLast, ExecutionObserved, StatusTells, BaseKept,
         Verifying, Running,
         Ready
<1>3. LaunchIsClean /\ BundleIsOfPost /\ LaunchesCounted
  BY DEF Init, LaunchIsClean, FallbackStartsClean, BundleIsOfPost, LaunchesCounted,
         Verifying, NoBundle
<1>4. /\ ReadyIsVerified /\ FirstRepairKeepsTheBase /\ ReadyBundleIsCurrent
      /\ ArtifactIsHonest
  BY DEF Init, ReadyIsVerified, FirstRepairKeepsTheBase, ReadyBundleIsCurrent,
         ArtifactIsHonest, Ready
<1> QED BY <1>1, <1>2, <1>3, <1>4 DEF IInv, StepsInOrder

\* The inductive invariant holds in every reachable state.
LEMMA Inductive == Spec => []IInv
<1>1. IInv /\ [Next]_vars => IInv'
  BY TypeStep, StepsInOrderStep, VerdictHolds DEF IInv
<1> QED BY <1>1, InitIInv, PTL DEF Spec

\* Every variable of the pipeline keeps its type.
THEOREM TypeCorrect == Spec => []TypeOK
  BY Inductive, PTL DEF IInv

\* Whatever the workers do, READY_FOR_APPROVAL is said of a tree that is not on
\* main, passes the tests and the whitespace check, has nothing staged and changes
\* nothing beyond the task's scope.
THEOREM ReadyMeansVerified == Spec => []ReadyIsVerified
  BY Inductive, PTL DEF IInv

\* Up to the first repair, a ready tree stands on the commit the run began with.
THEOREM BaseIsKept == Spec => []FirstRepairKeepsTheBase
  BY Inductive, PTL DEF IInv

\* A bundle submitted without a repair lists what is in the tree.
THEOREM BundleIsCurrent == Spec => []ReadyBundleIsCurrent
  BY Inductive, PTL DEF IInv

\* auto_pipeline.jsonl does not call ready what is not.
THEOREM ArtifactHolds == Spec => []ArtifactIsHonest
  BY Inductive, PTL DEF IInv

\* The fallback worker is launched on an untouched repository: on the branch and
\* the commit the run began with, with its remotes, an empty index and a clean tree.
THEOREM FallbackIsClean == Spec => []FallbackStartsClean
<1>1. IInv => FallbackStartsClean
  BY DEF IInv, StepsInOrder, LaunchIsClean
<1> QED BY <1>1, Inductive, PTL

\* At most two workers and one more for each repair attempt are launched.
THEOREM LaunchesStayBounded == Spec => []LaunchesAreBounded
<1>1. IInv => LaunchesAreBounded
  <2> SUFFICES ASSUME IInv PROVE LaunchesAreBounded
    OBVIOUS
  <2>1. launches <= (IF worker = "fallback" THEN 2 ELSE 1) + attempt
    BY DEF IInv, StepsInOrder, LaunchesCounted, TypeOK
  <2> QED BY <2>1 DEF IInv, StepsInOrder, LaunchesCounted, LaunchesAreBounded, TypeOK
<1> QED BY <1>1, Inductive, PTL

\* The failures of governance.
GovernanceFailed ==
  status \in {"SCOPE_FAILED", "POST_WORKER_VERIFICATION_FAILED", "VALIDATION_FAILED"}

\* A primary worker whose execution failed verification is not replaced.
LEMMA VerifiedBeforeFallback == IInv /\ GovernanceFailed => ~FallBack
<1> SUFFICES ASSUME IInv, GovernanceFailed, FallBack PROVE FALSE
  OBVIOUS
<1>1. pc = "fallback" /\ Untouched
  BY DEF FallBack, MayFallBack
<1>2. post = Snapshot /\ ~Stable(pre, Tip)
  BY <1>1 DEF IInv, StepsInOrder, StatusTells, ExecutionObserved, GovernanceFailed,
         Untouched
<1>3. pre.branch # "main"
  BY <1>1 DEF IInv, StepsInOrder, StatusTells, ExecutionObserved
<1> QED BY <1>1, <1>2, <1>3 DEF Untouched, Stable, Snapshot, Tip

\* No step leaves a failure of governance with another worker, or for one.
THEOREM GovernanceStops == Spec => GovernanceFailuresStop
<1>1. IInv /\ [Next]_vars =>
        [GovernanceFailed
          => attempt' = attempt /\ worker' = worker /\ launches' = launches]_vars
  <2> SUFFICES ASSUME IInv, Next, GovernanceFailed
               PROVE  attempt' = attempt /\ worker' = worker /\ launches' = launches
    OBVIOUS
  <2>1. ~FallBack
    BY VerifiedBeforeFallback
  <2>2. ~Work
    BY DEF IInv, StepsInOrder, StatusTells, GovernanceFailed, Work
  <2>3. ~BeginRepair
    BY DEF GovernanceFailed, BeginRepair, Repairable
  <2>4. TaskNotFound \/ ScopeRefused \/ Discover \/ Unreadable \/ Validate \/ Observe
          \/ WriteBundle \/ Terminated \/ Classify
        => attempt' = attempt /\ worker' = worker /\ launches' = launches
    BY DEF TaskNotFound, ScopeRefused, PreFailure, Discover, Unreadable, Validate,
           Observe, WriteBundle, Terminated, Classify
  <2>5. CheckStaged \/ RunTests \/ DiffCheck \/ CheckScope \/ Finish \/ RepairSnapshot
          \/ RepairWorkerFailed \/ ObserveRepair \/ RepairUnreadable \/ ReportUnreadable
        => attempt' = attempt /\ worker' = worker /\ launches' = launches
    BY DEF CheckStaged, RunTests, DiffCheck, CheckScope, Finish, RepairSnapshot,
           RepairWorkerFailed, ObserveRepair, RepairUnreadable, ReportUnreadable
  <2> QED BY <2>1, <2>2, <2>3, <2>4, <2>5 DEF Next
<1> QED BY <1>1, Inductive, PTL DEF Spec, GovernanceFailuresStop, GovernanceFailed

\* A worker that was terminated is on its way out of the run.
TerminatedLeaves ==
  outcome = "terminated" /\ attempt = 0 => pc \in {"observe", "bundle", "fallback", "done"}

\* No step brings it back.
LEMMA TerminatedLeavesStep == TerminatedLeaves /\ [Next]_vars => TerminatedLeaves'
<1> SUFFICES ASSUME TerminatedLeaves, [Next]_vars PROVE TerminatedLeaves'
  OBVIOUS
<1>1. CASE TaskNotFound \/ ScopeRefused \/ Discover \/ Unreadable \/ Validate \/ Work \/ Observe
           \/ WriteBundle
  BY <1>1 DEF TerminatedLeaves, TaskNotFound, ScopeRefused, PreFailure, Report, Discover,
     Unreadable, Validate, Work, Observe, WriteBundle, Goto
<1>2. CASE FallBack \/ Terminated \/ Classify
  BY <1>2 DEF TerminatedLeaves, FallBack, MayFallBack, Terminated, Classify, Report, Goto
<1>3. CASE CheckStaged \/ RunTests \/ DiffCheck \/ CheckScope
  BY <1>3 DEF TerminatedLeaves, CheckStaged, RunTests, DiffCheck, CheckScope, Report, Goto
<1>4. CASE Finish \/ BeginRepair \/ RepairSnapshot
  BY <1>4 DEF TerminatedLeaves, Finish, BeginRepair, RepairSnapshot, Report, ReportOnce, Goto
<1>5. CASE RepairWorkerFailed \/ ObserveRepair \/ RepairUnreadable \/ ReportUnreadable
  BY <1>5 DEF TerminatedLeaves, RepairWorkerFailed, ObserveRepair, RepairUnreadable,
     ReportUnreadable, Report, Goto
<1>6. CASE UNCHANGED vars
  BY <1>6 DEF TerminatedLeaves, vars, evidence, config
<1> QED BY <1>1, <1>2, <1>3, <1>4, <1>5, <1>6 DEF Next

\* After the first execution was terminated - a timeout, Ctrl-C - no other worker
\* is launched and nothing is repaired.
THEOREM TerminationEndsIt == Spec => TerminationIsFinal
<1>1. Init => TerminatedLeaves
  BY DEF Init, TerminatedLeaves
<1>2. TerminatedLeaves /\ [Next]_vars =>
        [outcome = "terminated" /\ attempt = 0 =>
           outcome' = outcome /\ launches' = launches /\ attempt' = attempt]_vars
  <2> SUFFICES ASSUME TerminatedLeaves, Next, outcome = "terminated", attempt = 0
               PROVE  outcome' = outcome /\ launches' = launches /\ attempt' = attempt
    OBVIOUS
  <2>1. pc \in {"observe", "bundle", "fallback", "done"}
    BY DEF TerminatedLeaves
  <2>2. Observe \/ WriteBundle \/ FallBack \/ Terminated \/ Classify
    BY <2>1 DEF Next, TaskNotFound, ScopeRefused, Discover, Unreadable, Validate, Work,
       CheckStaged, RunTests, DiffCheck, CheckScope, Finish, BeginRepair, RepairSnapshot,
       RepairWorkerFailed, ObserveRepair, RepairUnreadable, ReportUnreadable
  <2> QED BY <2>2 DEF Observe, WriteBundle, FallBack, Terminated, Classify
<1> QED BY <1>1, <1>2, TerminatedLeavesStep, PTL DEF Spec, TerminationIsFinal

=============================================================================
