------------------------------ MODULE Finalize ------------------------------
(***************************************************************************)
(* run_finalization() of advancore/agent_runner/finalize.py: the gated     *)
(* path from a controller APPROVE decision to one commit and one push.     *)
(* The finalizer runs Git command by Git command and moves the task access *)
(* by access, so the repository may change under it, it may die between    *)
(* any two of them, and the operator may run it again.  The repository is  *)
(* modelled by its working tree, its index, its commits and the local and  *)
(* remote branch tips.                                                     *)
(***************************************************************************)
EXTENDS TransitionCall, Naturals, FiniteSets

CONSTANTS ImplFiles,     \* the files a worker changes
          TaskFile,      \* the task file, whose content is its STATUS
          Versions,      \* the contents an implementation file can have
          Branches,      \* the branches, "main" among them
          Tracked,       \* the branches whose upstream is origin/<branch>
          MaxCommits,    \* bound on the commits of the repository
          MaxRuns,       \* bound on the finalizer's invocations
          MaxFaults,     \* bound on the faults: kills and failing commands
          Interference,  \* what else may happen in the repository meanwhile
          MaxIntrusions  \* bound on how often it happens

Files == ImplFiles \cup {TaskFile}
Contents == Versions \cup TaskTexts
CommitIds == 1..MaxCommits
InterferenceKinds == {"edit", "stage", "switch", "commit", "transition"}

ASSUME FinalizeAssumption ==
  /\ "main" \in Branches
  /\ Tracked \subseteq Branches
  /\ TaskFile \notin ImplFiles
  /\ MaxCommits \in Nat \ {0}
  /\ MaxRuns \in Nat /\ MaxFaults \in Nat /\ MaxIntrusions \in Nat
  /\ Interference \subseteq InterferenceKinds

VARIABLES
  work,      \* the working tree
  index,     \* the index
  tree,      \* tree[c]: the content of commit c
  parent,    \* parent[c]: the commit before c
  tip,       \* the number of commits
  ref,       \* ref[b]: the local tip of branch b
  remote,    \* remote[b]: the tip of origin/b
  branch,    \* the branch HEAD is on
  decision,  \* the controller decision record
  bundle,    \* the review bundle the decision is linked to
  pc,        \* the next step of the finalizer
  apply,     \* --apply was given
  snap,      \* git_info: branch and HEAD when the run started
  chain,     \* the status the worker chain has reached
  call,      \* the transition the finalizer is making
  status,    \* task_status: the status last read from the task file
  preHead,   \* pre_commit_head
  sha,       \* result.commit_sha
  target,    \* the branch to push
  result,    \* result.status
  records,   \* the PUSHED lines of finalize.jsonl
  mover,     \* the transition somebody else is making
  runs, faults, intrusions,
  made,      \* ghost: the commits the finalizer created
  whole,     \* ghost: the last status the task file carried
  overwritten  \* ghost: a transition replaced a status it had not checked

custody == <<whole, overwritten>>
repo == <<work, index, tree, parent, tip, ref, branch, custody>>
evidence == <<decision, bundle>>
locals == <<apply, snap, chain, call, status, preHead, sha, target>>
counters == <<runs, faults, intrusions>>
vars == <<repo, remote, evidence, pc, locals, result, records, mover, counters, made>>

Tree == {t \in [Files -> Contents] : t[TaskFile] \in TaskTexts}
HeadTree == tree[ref[branch]]
Staged == {f \in Files : index[f] # HeadTree[f]}
Changed == {f \in Files : work[f] # index[f] \/ index[f] # HeadTree[f]}
Diff(c) == {f \in Files : tree[c][f] # tree[parent[c]][f]}

\* approved_paths and the task file the transitions rewrite.
CommitSet == bundle.paths \cup {TaskFile}

\* A worker has run on top of commit 1; its bundle lists what it changed, and
\* the controller may since have decided anything, through a record that is
\* linked to that bundle and this task or not.
Init ==
  /\ \E base \in Tree :
       /\ \A f \in ImplFiles : base[f] = CHOOSE v \in Versions : TRUE
       /\ base[TaskFile] = "READY"
       /\ index = base
       /\ tree = [c \in CommitIds |-> base]
  /\ work \in Tree
  /\ work[TaskFile] \in TaskStatus /\ \A f \in ImplFiles : work[f] \in Versions
  /\ parent = [c \in CommitIds |-> 0]
  /\ tip = 1
  /\ ref = [b \in Branches |-> 1]
  /\ remote = ref
  /\ branch \in Branches
  /\ decision \in [value : ControllerDecision, actor : ActorRole, linked : BOOLEAN]
  /\ \E b \in Branches \ {"main"} :
       bundle = [branch |-> b, postHead |-> 1,
                 paths |-> {f \in Files : work[f] # index[f]}]
  /\ pc = "idle"
  /\ apply = FALSE
  /\ snap = [branch |-> "main", head |-> 1]
  /\ chain = "DRAFT" /\ call = NoCall /\ status = "DRAFT"
  /\ preHead = 1 /\ sha = 1 /\ target = "main"
  /\ result = "NONE"
  /\ records = {}
  /\ mover = NoCall
  /\ runs = 0 /\ faults = 0 /\ intrusions = 0
  /\ made = {}
  /\ whole = work[TaskFile]
  /\ overwritten = FALSE

-----------------------------------------------------------------------------
(***************************************************************************)
(* The finalizer                                                           *)
(***************************************************************************)

Fault == faults < MaxFaults /\ faults' = faults + 1

\* The run ends; its locals go out of scope.
End(outcome) ==
  /\ pc' = "idle"
  /\ result' = outcome
  /\ apply' = FALSE
  /\ snap' = [branch |-> "main", head |-> 1]
  /\ chain' = "DRAFT" /\ call' = NoCall /\ status' = "DRAFT"
  /\ preHead' = 1 /\ sha' = 1 /\ target' = "main"

\* _fail(): the run ends and nothing else is undone.
Fail(outcome) ==
  /\ End(outcome)
  /\ UNCHANGED <<repo, remote, records, mover, made>>

\* One step of a run: to the next one, touching nothing but what is named.
Goto(step) == pc' = step /\ UNCHANGED result

Start(a) ==
  /\ pc = "idle"
  /\ runs < MaxRuns
  /\ runs' = runs + 1
  /\ apply' = a
  /\ Goto("snapshot")
  /\ UNCHANGED <<repo, remote, evidence, snap, chain, call, status, preHead, sha, target,
                 records, mover, faults, intrusions, made>>

\* Steps 1 and 2.
TakeSnapshot ==
  /\ pc = "snapshot"
  /\ \/ branch = "main" /\ Fail("BLOCKED")
     \/ /\ branch # "main"
        /\ snap' = [branch |-> branch, head |-> ref[branch]]
        /\ Goto("evidence")
        /\ UNCHANGED <<repo, remote, apply, chain, call, status, preHead, sha, target,
                       records, mover, made>>
  /\ UNCHANGED <<evidence, counters>>

\* Mutant of the evidence check: any branch will do.
AnyBranch ==
  /\ decision.actor # "worker" /\ decision.value = "APPROVE" /\ decision.linked
  /\ bundle.postHead = snap.head

\* Steps 3 to 8: who decided what, about which task, branch and HEAD.
EvidenceOK ==
  /\ decision.actor # "worker"
  /\ decision.value = "APPROVE"
  /\ decision.linked
  /\ bundle.branch = snap.branch
  /\ bundle.postHead = snap.head

\* Among them, in step 7, find_task() reads the status.
CheckEvidence ==
  /\ pc = "evidence"
  /\ \/ /\ ~EvidenceOK \/ work[TaskFile] = Torn
        /\ Fail(CASE decision.actor = "worker" -> "BLOCKED"
                  [] decision.actor # "worker" /\ decision.value # "APPROVE" -> "DECISION_REJECTED"
                  [] OTHER -> IF work[TaskFile] = Torn THEN "BLOCKED" ELSE "STALE_EVIDENCE")
     \/ /\ EvidenceOK /\ work[TaskFile] # Torn
        /\ status' = work[TaskFile]
        /\ chain' = work[TaskFile]
        /\ Goto("paths")
        /\ UNCHANGED <<repo, remote, apply, snap, call, preHead, sha, target, records, mover,
                       made>>
  /\ UNCHANGED <<evidence, counters>>

\* Steps 9 and 10: nothing staged, and exactly the reviewed paths changed.
CheckPaths ==
  /\ pc = "paths"
  /\ \/ Staged # {} /\ Fail("BLOCKED")
     \/ /\ Staged = {}
        /\ \/ bundle.paths = {} \/ Changed # bundle.paths
        /\ Fail("STALE_EVIDENCE")
     \/ /\ Staged = {} /\ bundle.paths # {} /\ Changed = bundle.paths
        /\ Goto("worker")
        /\ UNCHANGED <<repo, remote, locals, records, mover, made>>
  /\ UNCHANGED <<evidence, counters>>

ShortChain == [READY |-> "IN_PROGRESS"] \* mutant: the work is never handed to review
ChainStep == [READY |-> "IN_PROGRESS", IN_PROGRESS |-> "REVIEW"]
ChainEnd(s) == IF s \in DOMAIN ChainStep THEN "REVIEW" ELSE s

\* Step 11, applied: the next worker transition of the chain is called.
WorkerTransition ==
  /\ pc = "worker" /\ apply /\ chain \in DOMAIN ChainStep
  /\ call' = CallOf(ChainStep[chain], "worker")
  /\ Goto("transition")
  /\ UNCHANGED <<repo, remote, evidence, apply, snap, chain, status, preHead, sha, target,
                 records, mover, counters, made>>

\* Step 12, applied: the bridge moves REVIEW to APPROVED with the authority of
\* the decision's actor, once it has found the task; a task already APPROVED only
\* has its linkage checked.
Approve ==
  /\ pc = "worker" /\ apply /\ chain \notin DOMAIN ChainStep
  /\ \/ /\ \/ status \notin {"REVIEW", "APPROVED"}
           \/ status = "REVIEW" /\ work[TaskFile] = Torn
        /\ Fail("BLOCKED")
     \/ /\ status = "REVIEW" /\ work[TaskFile] # Torn
        /\ call' = CallOf(DecisionToStatus[decision.value], decision.actor)
        /\ Goto("transition")
        /\ UNCHANGED <<repo, remote, apply, snap, chain, status, preHead, sha, target, records,
                       mover, made>>
     \/ /\ status = "APPROVED"
        /\ Goto("recheck")
        /\ UNCHANGED <<repo, remote, locals, records, mover, made>>
  /\ UNCHANGED <<evidence, counters>>

\* What a step of a call of transition_task() does to the task file.
Rewrite(c) ==
  LET text == Written(c, work[TaskFile]) IN
  /\ work' = [work EXCEPT ![TaskFile] = text]
  /\ whole' = IF c.step = "fill" THEN text ELSE whole
  /\ overwritten' = (overwritten \/ Overwrites(c, work[TaskFile]))
  /\ UNCHANGED <<index, tree, parent, tip, ref, branch>>

\* The call takes its next step; a refused one ends the run.
Transition ==
  /\ pc = "transition"
  /\ \/ Refused(call, work[TaskFile]) /\ Fail("BLOCKED")
     \/ /\ ~Refused(call, work[TaskFile])
        /\ Rewrite(call)
        /\ call' = Advanced(call, work[TaskFile])
        /\ \/ /\ call.step # "fill"
              /\ UNCHANGED <<pc, result, chain>>
           \/ /\ call.step = "fill" /\ chain \in DOMAIN ChainStep
              /\ chain' = call.to
              /\ Goto("reread")
           \/ /\ call.step = "fill" /\ chain \notin DOMAIN ChainStep
              /\ Goto("recheck")
              /\ UNCHANGED chain
        /\ UNCHANGED <<remote, apply, snap, status, preHead, sha, target, records, mover, made>>
  /\ UNCHANGED <<evidence, counters>>

\* find_task() after an applied transition.
Reread ==
  /\ pc = "reread"
  /\ \/ work[TaskFile] = Torn /\ Fail("BLOCKED")
     \/ /\ work[TaskFile] # Torn
        /\ status' = work[TaskFile]
        /\ Goto("worker")
        /\ UNCHANGED <<repo, remote, apply, snap, chain, call, preHead, sha, target, records,
                       mover, made>>
  /\ UNCHANGED <<evidence, counters>>

\* Steps 11 and 12 of a preview: the chain is followed on paper.
PreviewChain ==
  /\ pc = "worker" /\ ~apply
  /\ \/ ChainEnd(status) \notin {"REVIEW", "APPROVED"} /\ Fail("BLOCKED")
     \/ /\ ChainEnd(status) \in {"REVIEW", "APPROVED"}
        /\ Goto("recheck")
        /\ UNCHANGED <<repo, remote, locals, records, mover, made>>
  /\ UNCHANGED <<evidence, counters>>

\* Step 12c; a preview has nothing left to do and stops (steps 14 to 17).
Recheck ==
  /\ pc = "recheck"
  /\ \/ /\ Changed # IF apply THEN CommitSet ELSE bundle.paths
        /\ Fail("STALE_EVIDENCE")
     \/ ~apply /\ Changed = bundle.paths /\ Fail("READY_TO_FINALIZE")
     \/ /\ apply /\ Changed = CommitSet
        /\ Goto("add")
        /\ UNCHANGED <<repo, remote, locals, records, mover, made>>
  /\ UNCHANGED <<evidence, counters>>

\* Step 13: git add of the exact paths.
Add ==
  /\ pc = "add"
  /\ index' = [f \in Files |-> IF f \in CommitSet THEN work[f] ELSE index[f]]
  /\ Goto("staged")
  /\ UNCHANGED <<work, tree, parent, tip, ref, branch, custody, remote, evidence, locals,
                 records, mover, counters, made>>

\* Step 14, and pre_commit_head of step 18.
VerifyStaged ==
  /\ pc = "staged"
  /\ \/ Staged # CommitSet /\ Fail("BLOCKED")
     \/ /\ Staged = CommitSet
        /\ preHead' = ref[branch]
        /\ Goto("commit")
        /\ UNCHANGED <<repo, remote, apply, snap, chain, call, status, sha, target, records,
                       mover, made>>
  /\ UNCHANGED <<evidence, counters>>

\* git commit: the index becomes a new tip of the branch HEAD is on.
NewCommit ==
  /\ tip < MaxCommits
  /\ Staged # {}
  /\ tip' = tip + 1
  /\ tree' = [tree EXCEPT ![tip + 1] = index]
  /\ parent' = [parent EXCEPT ![tip + 1] = ref[branch]]
  /\ ref' = [ref EXCEPT ![branch] = tip + 1]
  /\ UNCHANGED <<work, index, branch, custody>>

\* Step 18; Git refuses a commit that changes nothing.
Commit ==
  /\ pc = "commit"
  /\ \/ Staged = {} /\ Fail("BLOCKED")
     \/ /\ NewCommit
        /\ made' = made \cup {tip + 1}
        /\ Goto("sha")
        /\ UNCHANGED <<remote, locals, records, mover>>
  /\ UNCHANGED <<evidence, counters>>

ReadSha ==
  /\ pc = "sha"
  /\ sha' = ref[branch]
  /\ Goto("verify")
  /\ UNCHANGED <<repo, remote, evidence, apply, snap, chain, call, status, preHead, target,
                 records, mover, counters, made>>

\* Mutant: the paths of the commit are not compared with the approved ones.
AnyPaths == Changed = {} /\ parent[sha] = preHead

\* Step 19: a clean tree, the expected parent, exactly the approved paths.
CommitOK == Changed = {} /\ parent[sha] = preHead /\ Diff(sha) = CommitSet

VerifyCommit ==
  /\ pc = "verify"
  /\ \/ ~CommitOK /\ Fail("PUBLICATION_FAILED")
     \/ CommitOK /\ Goto("branch") /\ UNCHANGED <<repo, remote, locals, records, mover, made>>
  /\ UNCHANGED <<evidence, counters>>

\* Step 20: main is refused, and the current branch is pushed by its name.
NothingRefused == FALSE \* mutant: main may be pushed
PushRefused == branch = "main"
PushBranch == branch

\* Step 20: the branch to push is read again.
ChooseBranch ==
  /\ pc = "branch"
  /\ \/ PushRefused /\ Fail("BLOCKED")
     \/ ~PushRefused /\ branch \notin Tracked /\ Fail("PUBLICATION_FAILED")
     \/ /\ ~PushRefused /\ branch \in Tracked
        /\ target' = PushBranch
        /\ Goto("push")
        /\ UNCHANGED <<repo, remote, apply, snap, chain, call, status, preHead, sha, records,
                       mover, made>>
  /\ UNCHANGED <<evidence, counters>>

Push ==
  /\ pc = "push"
  /\ remote' = [remote EXCEPT ![target] = ref[target]]
  /\ Goto("sync")
  /\ UNCHANGED <<repo, evidence, locals, records, mover, counters, made>>

\* Step 21.
Synchronised == ref[branch] = remote[target] /\ Changed = {}

CheckSync ==
  /\ pc = "sync"
  /\ \/ ~Synchronised /\ Fail("PUBLICATION_FAILED")
     \/ Synchronised /\ Goto("record") /\ UNCHANGED <<repo, remote, locals, records, mover, made>>
  /\ UNCHANGED <<evidence, counters>>

\* Step 22: the PUSHED line of finalize.jsonl, then the run is over.
Record ==
  /\ pc = "record"
  /\ records' = records \cup {[branch |-> snap.branch, sha |-> sha]}
  /\ End("PUSHED")
  /\ UNCHANGED <<repo, remote, evidence, mover, counters, made>>

-----------------------------------------------------------------------------
(***************************************************************************)
(* Faults: a Git command fails, a write fails, the process is killed.      *)
(***************************************************************************)

\* write_text() raises (a full disk), and the task file stays empty.
WriteFails ==
  /\ pc = "transition" /\ call.step = "fill"
  /\ Fault
  /\ Fail("BLOCKED")
  /\ UNCHANGED <<evidence, runs, intrusions>>

\* git add, diff --cached --check or git commit reports an error.
GitFails ==
  /\ pc \in {"add", "staged", "commit"}
  /\ Fault
  /\ Fail("BLOCKED")
  /\ UNCHANGED <<evidence, runs, intrusions>>

\* Mutant: a push that reports an error is taken for a push.
FailureUnnoticed ==
  /\ pc = "push"
  /\ Fault
  /\ Goto("record")
  /\ UNCHANGED <<repo, remote, evidence, locals, records, mover, runs, intrusions, made>>

\* Mutant: a failed push takes its commit back, for the next run to repeat.
FailureUndone ==
  /\ pc = "push"
  /\ Fault
  /\ ref' = [ref EXCEPT ![branch] = preHead]
  /\ index' = tree[preHead]
  /\ remote' = [remote EXCEPT ![target] = ref[target]]
  /\ End("PUBLICATION_FAILED")
  /\ UNCHANGED <<work, tree, parent, tip, branch, custody, evidence, records, mover, runs,
                 intrusions, made>>

\* git push reports an error, and the remote may have taken the push or not.
PushFails ==
  /\ pc = "push"
  /\ Fault
  /\ \/ UNCHANGED remote
     \/ remote' = [remote EXCEPT ![target] = ref[target]]
  /\ End("PUBLICATION_FAILED")
  /\ UNCHANGED <<repo, evidence, records, mover, runs, intrusions, made>>

\* The artifact cannot be written: a warning, and the result is still PUSHED.
RecordFails ==
  /\ pc = "record"
  /\ Fault
  /\ Fail("PUSHED")
  /\ UNCHANGED <<evidence, runs, intrusions>>

Crash ==
  /\ pc # "idle"
  /\ Fault
  /\ Fail("NONE")
  /\ UNCHANGED <<evidence, runs, intrusions>>

-----------------------------------------------------------------------------
(***************************************************************************)
(* The rest of the repository: an operator, an editor, another command.    *)
(***************************************************************************)

\* Nothing the finalizer keeps is touched.
Aside == UNCHANGED <<remote, evidence, pc, locals, result, records, runs, faults, made>>

Intrude(kind) ==
  /\ kind \in Interference
  /\ intrusions < MaxIntrusions
  /\ intrusions' = intrusions + 1
  /\ Aside

Edit(f, v) ==
  /\ Intrude("edit")
  /\ work' = [work EXCEPT ![f] = v]
  /\ UNCHANGED <<index, tree, parent, tip, ref, branch, custody, mover>>

Stage(f) ==
  /\ Intrude("stage")
  /\ index' = [index EXCEPT ![f] = work[f]]
  /\ UNCHANGED <<work, tree, parent, tip, ref, branch, custody, mover>>

\* git switch carries local changes along when both tips hold the same tree,
\* and is refused otherwise unless there are none.
Switch(b) ==
  /\ Intrude("switch")
  /\ b # branch
  /\ tree[ref[b]] = HeadTree \/ Changed = {}
  /\ branch' = b
  /\ IF tree[ref[b]] = HeadTree THEN UNCHANGED <<work, index, whole>>
     ELSE /\ work' = tree[ref[b]] /\ index' = tree[ref[b]]
          /\ whole' = tree[ref[b]][TaskFile]
  /\ UNCHANGED <<tree, parent, tip, ref, overwritten, mover>>

OperatorCommit == Intrude("commit") /\ NewCommit /\ UNCHANGED mover

\* Somebody else calls transition_task(), as the owner, who has the authority of
\* the other roles too; a call refused for the status it parses writes nothing
\* and is left out.
OperatorTransition(to) ==
  /\ Intrude("transition")
  /\ mover = NoCall
  /\ work[TaskFile] # Torn
  /\ IsTransitionAllowed(work[TaskFile], to, "owner")
  /\ mover' = Advanced(CallOf(to, "owner"), work[TaskFile])
  /\ UNCHANGED repo

\* The call takes its next step; one that was killed takes none any more.
OperatorContinues ==
  /\ mover # NoCall
  /\ \/ /\ Refused(mover, work[TaskFile])
        /\ mover' = NoCall
        /\ UNCHANGED repo
     \/ /\ ~Refused(mover, work[TaskFile])
        /\ Rewrite(mover)
        /\ mover' = Advanced(mover, work[TaskFile])
  /\ Aside /\ UNCHANGED intrusions

-----------------------------------------------------------------------------
Finalizer ==
  \/ TakeSnapshot \/ CheckEvidence \/ CheckPaths
  \/ WorkerTransition \/ Approve \/ Transition \/ Reread \/ PreviewChain
  \/ Recheck \/ Add \/ VerifyStaged \/ Commit \/ ReadSha \/ VerifyCommit
  \/ ChooseBranch \/ Push \/ CheckSync \/ Record

Faults == WriteFails \/ GitFails \/ PushFails \/ RecordFails \/ Crash

Intruders ==
  \/ \E f \in ImplFiles, v \in Versions : Edit(f, v)
  \/ \E f \in Files : Stage(f)
  \/ \E b \in Branches : Switch(b)
  \/ OperatorCommit
  \/ \E to \in TaskStatus : OperatorTransition(to)
  \/ OperatorContinues

Next == (\E a \in BOOLEAN : Start(a)) \/ Finalizer \/ Faults \/ Intruders

Spec == Init /\ [][Next]_vars

\* A started run goes on to its end.
FairSpec == Spec /\ WF_vars(Finalizer)

-----------------------------------------------------------------------------
(***************************************************************************)
(* Properties                                                              *)
(***************************************************************************)

FinalizationStatus == {"NONE", "READY_TO_FINALIZE", "PUSHED", "BLOCKED", "STALE_EVIDENCE",
                       "DECISION_REJECTED", "PUBLICATION_FAILED"}
Step == {"idle", "snapshot", "evidence", "paths", "worker", "transition", "reread",
         "recheck", "add", "staged", "commit", "sha", "verify", "branch", "push", "sync", "record"}

\* The type of every variable; commits are numbered in the order they are made.
TypeOK ==
  /\ work \in Tree /\ index \in Tree
  /\ tree \in [CommitIds -> Tree]
  /\ parent \in [CommitIds -> 0..MaxCommits]
  /\ tip \in CommitIds
  /\ ref \in [Branches -> CommitIds] /\ remote \in [Branches -> CommitIds]
  /\ branch \in Branches
  /\ decision \in [value : ControllerDecision, actor : ActorRole, linked : BOOLEAN]
  /\ bundle \in [branch : Branches, postHead : CommitIds,
                  paths : SUBSET Files]
  /\ pc \in Step
  /\ apply \in BOOLEAN
  /\ snap \in [branch : Branches, head : CommitIds]
  /\ chain \in TaskStatus /\ status \in TaskStatus
  /\ call \in TransitionCalls /\ mover \in TransitionCalls
  /\ preHead \in CommitIds /\ sha \in CommitIds /\ target \in Branches
  /\ result \in FinalizationStatus
  /\ records \subseteq [branch : Branches, sha : CommitIds]
  /\ runs \in 0..MaxRuns /\ faults \in 0..MaxFaults /\ intrusions \in 0..MaxIntrusions
  /\ made \subseteq CommitIds
  /\ whole \in TaskTexts /\ overwritten \in BOOLEAN

Approved == decision.value = "APPROVE" /\ decision.actor \in Reviewers /\ decision.linked

Published(c) == \E b \in Branches : remote[b] = c

\* Whatever is published by a finalizer that died, failed and was run again
\* stands on a reviewer's linked APPROVE, on the branch and the HEAD that were
\* reviewed, changes exactly the reviewed paths and the task file, and carries
\* the task as APPROVED, unless a transition that had checked another status
\* came between.
PublishedAsApproved ==
  \A c \in made : Published(c) =>
    /\ Approved
    /\ remote[bundle.branch] = c
    /\ parent[c] = bundle.postHead
    /\ Diff(c) = CommitSet
    /\ tree[c][TaskFile] = "APPROVED" \/ overwritten

\* One decision yields at most one commit, however often the run is repeated.
OneCommitPerApproval == \A c, d \in made : c = d

\* No other branch moves, locally or at the remote.
OnlyTheApprovedBranchMoves ==
  \A b \in Branches : b # bundle.branch => ref[b] = 1 /\ remote[b] = 1

\* A PUSHED line of finalize.jsonl names a commit that is the tip of that
\* branch at the remote: reconciliation may rely on it.
RecordsAreTrue == \A r \in records : r.sha \in made /\ remote[r.branch] = r.sha

\* "main is never pushed", whatever happens in the repository meanwhile.
MainIsNeverPushed == remote["main"] = 1

\* No branch of the remote moves without a reviewer's linked APPROVE.
PushNeedsApproval == (\E b \in Branches : remote[b] # 1) => Approved

\* Whoever moves the task, through every crash and with the file empty at times,
\* the status that comes was granted for the status that goes, as long as no
\* transition has replaced a status it had not checked.
MovesAreGranted ==
  [][whole' # whole => overwritten' \/ \E actor \in ActorRole :
                                         IsTransitionAllowed(whole, whole', actor)]_vars

\* Evidence on which run_finalization() has no reason to refuse.
GoodEvidence ==
  /\ Approved
  /\ branch = bundle.branch /\ branch \in Tracked /\ ref[branch] = bundle.postHead
  /\ Staged = {} /\ bundle.paths # {} /\ Changed = bundle.paths
  /\ work[TaskFile] \in {"READY", "IN_PROGRESS", "REVIEW", "APPROVED"}

\* No more faults and no more hands in the repository.
LeftAlone == faults = MaxFaults /\ intrusions = MaxIntrusions /\ mover = NoCall

\* Left alone from then on, an applying run on good evidence publishes, whatever
\* went before: no gate refuses what the gates before it have let through.
GoodEvidencePublishes ==
  pc = "snapshot" /\ apply /\ GoodEvidence /\ LeftAlone ~> result = "PUSHED"

-----------------------------------------------------------------------------
(***************************************************************************)
(* The inductive invariant behind them, in a repository where others may   *)
(* edit, stage and move the task, but neither commit nor switch branches.  *)
(***************************************************************************)

\* The steps of a run that has its evidence accepted and has not committed ...
Working == {"paths", "worker", "transition", "reread", "recheck", "add", "staged", "commit"}
\* ... of one that has committed, and of one whose commit is verified.
Verified == {"branch", "push", "sync", "record"}
Committed == {"sha", "verify"} \cup Verified

\* The reviewed branch is not main and holds at most one commit above the
\* reviewed one; no other branch has moved.
History ==
  /\ bundle.branch # "main" /\ bundle.postHead = 1
  /\ \A b \in Branches : ref[b] \in 1..tip /\ remote[b] \in 1..tip
  /\ OnlyTheApprovedBranchMoves
  /\ made \subseteq 2..tip
  /\ OneCommitPerApproval
  /\ made # {} => ref[bundle.branch] # 1

\* A run has seen the branch it works on, its approval, and an untouched HEAD.
RunIsApproved ==
  /\ pc \in {"evidence"} \cup Working \cup Committed => snap.branch = branch
  /\ pc = "evidence" => snap.head = ref[branch]
  /\ pc \in Working \cup Committed => Approved /\ bundle.branch = branch
  /\ pc \in Working => ref[branch] = 1

\* A run that has committed stands on its commit, which is as approved.
RunHasCommitted ==
  /\ pc = "commit" => preHead = 1
  /\ pc \in Committed =>
       /\ preHead = 1
       /\ made = {ref[branch]} /\ parent[ref[branch]] = 1
       /\ tree[ref[branch]][TaskFile] = "APPROVED" \/ overwritten
  /\ pc \in Committed \ {"sha"} => sha = ref[branch]
  /\ pc \in Verified => Diff(sha) = CommitSet
  /\ pc \in {"push", "sync", "record"} => target = branch
  /\ pc = "record" => remote[branch] = sha

\* A call that is past its check holds a granted move, and nothing has been
\* written since behind the back of one that has truncated the file.
CallsAreGranted ==
  /\ call.step # "none" <=> pc = "transition"
  /\ MoveGranted(call) /\ MoveGranted(mover)
  /\ ~overwritten =>
       /\ call.step = "fill" => work[TaskFile] = Torn /\ whole = call.from
       /\ mover.step = "fill" => work[TaskFile] = Torn /\ whole = mover.from
       /\ ~(call.step = "fill" /\ mover.step = "fill")
       /\ work[TaskFile] \in {whole, Torn}

\* APPROVED is final: once read or written it stays in the task file.
ApprovalIsKept ==
  /\ pc \in {"recheck", "add", "staged", "commit"} /\ apply =>
       work[TaskFile] = "APPROVED" \/ overwritten
  /\ status = "APPROVED" => work[TaskFile] = "APPROVED" \/ overwritten
  /\ pc = "transition" =>
       /\ apply
       /\ chain \notin DOMAIN ChainStep => call.to = "APPROVED"
  /\ pc \in {"add", "staged", "commit"} => apply
  /\ pc \in {"staged", "commit"} => index[TaskFile] = "APPROVED" \/ overwritten

IInv == /\ TypeOK
        /\ History
        /\ RunIsApproved
        /\ RunHasCommitted
        /\ CallsAreGranted
        /\ ApprovalIsKept
        /\ PublishedAsApproved
        /\ RecordsAreTrue
=============================================================================
