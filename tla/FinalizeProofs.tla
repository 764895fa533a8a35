--------------------------- MODULE FinalizeProofs ---------------------------
(***************************************************************************)
(* Proofs about Finalize, for every set of files, contents and branches    *)
(* and every number of runs, faults and intrusions.                        *)
(***************************************************************************)
EXTENDS Finalize, TransitionCallProofs

\* An emptied file carries no status.
LEMMA TornIsNoStatus == Torn \notin TaskStatus
  BY DEF Torn, TaskStatus

\* The arithmetic facts about commit numbers the bounds give.
LEMMA CommitFacts ==
  /\ 1 \in CommitIds
  /\ \A c \in CommitIds : c < MaxCommits => c + 1 \in CommitIds
  /\ CommitIds \subseteq 0..MaxCommits
  BY FinalizeAssumption DEF CommitIds

\* The constants a run resets its locals to are well typed.
LEMMA LocalFacts ==
  /\ "main" \in Branches
  /\ "DRAFT" \in TaskStatus /\ TaskFile \in Files
  /\ TaskTexts \subseteq Contents /\ Versions \subseteq Contents
  /\ TaskStatus \subseteq TaskTexts /\ Torn \in TaskTexts /\ TaskTexts \ {Torn} \subseteq TaskStatus
  /\ \A d \in ControllerDecision : DecisionToStatus[d] \in TaskStatus
  /\ \A s \in DOMAIN ChainStep : ChainStep[s] \in TaskStatus
  /\ NoCall \in TransitionCalls /\ NoCall.step = "none"
  BY FinalizeAssumption, CallOfType
  DEF Contents, TaskTexts, TaskStatus, ActorRole, Files, ControllerDecision, DecisionToStatus,
      ChainStep

\* The initial state is well typed.
LEMMA TypeInit == Init => TypeOK
<1> SUFFICES ASSUME Init PROVE TypeOK
  OBVIOUS
<1>1. /\ work \in Tree /\ index \in Tree /\ tree \in [CommitIds -> Tree]
      /\ branch \in Branches
  BY DEF Init
<1>2. /\ parent \in [CommitIds -> 0..MaxCommits]
      /\ ref \in [Branches -> CommitIds] /\ remote \in [Branches -> CommitIds]
      /\ tip \in CommitIds
  BY FinalizeAssumption, CommitFacts DEF Init
<1>3. bundle \in [branch : Branches, postHead : CommitIds,
                  paths : SUBSET Files]
  BY <1>1, CommitFacts DEF Init
<1>4. /\ pc \in Step /\ apply \in BOOLEAN /\ result \in FinalizationStatus
      /\ snap \in [branch : Branches, head : CommitIds]
      /\ chain \in TaskStatus /\ status \in TaskStatus
      /\ call \in TransitionCalls /\ mover \in TransitionCalls
      /\ preHead \in CommitIds /\ sha \in CommitIds /\ target \in Branches
  BY CommitFacts, LocalFacts DEF Init, Step, FinalizationStatus
<1>5. /\ records \subseteq [branch : Branches, sha : CommitIds] /\ made \subseteq CommitIds
      /\ runs \in 0..MaxRuns /\ faults \in 0..MaxFaults /\ intrusions \in 0..MaxIntrusions
  BY FinalizeAssumption, LocalFacts DEF Init
<1>6. whole \in TaskTexts /\ overwritten \in BOOLEAN
  BY DEF Init, TaskTexts
<1> QED BY <1>1, <1>2, <1>3, <1>4, <1>5, <1>6 DEF Init, TypeOK

\* The parts of TypeOK, named for the steps that disturb them.
TypeRepo ==
  /\ work \in Tree /\ index \in Tree
  /\ tree \in [CommitIds -> Tree]
  /\ parent \in [CommitIds -> 0..MaxCommits]
  /\ tip \in CommitIds
  /\ ref \in [Branches -> CommitIds]
  /\ branch \in Branches
  /\ whole \in TaskTexts /\ overwritten \in BOOLEAN
TypeRun ==
  /\ pc \in Step
  /\ apply \in BOOLEAN
  /\ snap \in [branch : Branches, head : CommitIds]
  /\ chain \in TaskStatus /\ status \in TaskStatus
  /\ call \in TransitionCalls
  /\ preHead \in CommitIds /\ sha \in CommitIds /\ target \in Branches
  /\ result \in FinalizationStatus
TypeRest ==
  /\ remote \in [Branches -> CommitIds]
  /\ decision \in [value : ControllerDecision, actor : ActorRole, linked : BOOLEAN]
  /\ bundle \in [branch : Branches, postHead : CommitIds,
                  paths : SUBSET Files]
  /\ records \subseteq [branch : Branches, sha : CommitIds]
  /\ runs \in 0..MaxRuns /\ faults \in 0..MaxFaults /\ intrusions \in 0..MaxIntrusions
  /\ made \subseteq CommitIds
  /\ mover \in TransitionCalls

\* A new commit is well typed.
LEMMA TypeNewCommit ==
  ASSUME TypeRepo, NewCommit
  PROVE  TypeRepo' /\ tip + 1 \in CommitIds
  BY CommitFacts DEF TypeRepo, NewCommit, custody

\* A step of a call leaves a well-typed task file.
LEMMA TypeRewrite ==
  ASSUME TypeRepo, NEW c \in TransitionCalls, ~Refused(c, work[TaskFile]), Rewrite(c)
  PROVE  TypeRepo' /\ Advanced(c, work[TaskFile]) \in TransitionCalls
<1> DEFINE text == Written(c, work[TaskFile])
<1>1. work[TaskFile] \in TaskTexts
  BY DEF TypeRepo, Tree
<1>2. text \in TaskTexts /\ Advanced(c, work[TaskFile]) \in TransitionCalls
  BY <1>1, CallSteps
<1> HIDE DEF text
<1>3. work' = [work EXCEPT ![TaskFile] = text] /\ whole' \in {whole, text}
  BY DEF Rewrite, text
<1>4. work' \in Tree
  BY <1>2, <1>3, LocalFacts DEF TypeRepo, Tree
<1>5. whole' \in TaskTexts
  BY <1>2, <1>3 DEF TypeRepo
<1>6. overwritten' \in BOOLEAN /\ UNCHANGED <<index, tree, parent, tip, ref, branch>>
  BY DEF Rewrite, Overwrites, TypeRepo
<1> QED BY <1>2, <1>4, <1>5, <1>6 DEF TypeRepo

\* The end of a run is well typed.
LEMMA TypeEnd ==
  ASSUME NEW outcome \in FinalizationStatus, End(outcome)
  PROVE  TypeRun'
  BY CommitFacts, LocalFacts DEF End, TypeRun, Step

\* The steps of the finalizer keep the types.
LEMMA TypeFinalizer == TypeOK /\ Finalizer => TypeOK'
<1> SUFFICES ASSUME TypeOK, Finalizer PROVE TypeOK'
  OBVIOUS
<1> USE CommitFacts, LocalFacts DEF repo, custody, evidence, locals, counters, Goto
<1>0. TypeRepo /\ TypeRun /\ TypeRest
  BY DEF TypeOK, TypeRepo, TypeRun, TypeRest
<1>a. ASSUME NEW outcome \in FinalizationStatus, Fail(outcome),
             UNCHANGED <<evidence, counters>>
      PROVE  TypeOK'
  BY <1>0, <1>a, TypeEnd DEF Fail, TypeOK, TypeRepo, TypeRun, TypeRest
<1>1. CASE TakeSnapshot
  <2>1. CASE Fail("BLOCKED")
    BY <1>1, <1>a, <2>1 DEF TakeSnapshot, FinalizationStatus
  <2>2. CASE ~Fail("BLOCKED")
    <3>1. snap' = [branch |-> branch, head |-> ref[branch]] /\ pc' = "evidence"
      BY <1>1, <2>2 DEF TakeSnapshot
    <3>2. snap' \in [branch : Branches, head : CommitIds] /\ pc' \in Step
      BY <3>1 DEF TypeOK, Step
    <3> QED BY <1>1, <2>2, <3>2 DEF TakeSnapshot, TypeOK
  <2> QED BY <2>1, <2>2
<1>2. CASE CheckEvidence
  BY <1>2, <1>a DEF CheckEvidence, TypeOK, Tree, Step, FinalizationStatus
<1>3. CASE CheckPaths
  BY <1>3, <1>a DEF CheckPaths, TypeOK, Step, FinalizationStatus
<1>4. CASE WorkerTransition
  <2>1. CallOf(ChainStep[chain], "worker") \in TransitionCalls
    BY <1>4, CallOfType DEF WorkerTransition, ActorRole
  <2> QED BY <1>4, <2>1 DEF WorkerTransition, TypeOK, Step
<1>5. CASE Reread
  BY <1>5, <1>a DEF Reread, TypeOK, Tree, Step, FinalizationStatus
<1>6. CASE Approve
  <2>1. CallOf(DecisionToStatus[decision.value], decision.actor) \in TransitionCalls
    BY CallOfType DEF TypeOK
  <2> QED BY <1>6, <1>a, <2>1 DEF Approve, TypeOK, Step, FinalizationStatus
<1>18. CASE Transition
  <2>1. CASE Fail("BLOCKED")
    BY <1>18, <1>a, <2>1 DEF Transition, FinalizationStatus
  <2>2. CASE ~Fail("BLOCKED")
    <3>1. ~Refused(call, work[TaskFile]) /\ Rewrite(call)
      BY <1>18, <2>2 DEF Transition
    <3>2. TypeRepo' /\ Advanced(call, work[TaskFile]) \in TransitionCalls
      BY <1>0, <3>1, TypeRewrite DEF TypeRun
    <3>3. TypeRun'
      BY <1>0, <1>18, <2>2, <3>2 DEF Transition, TypeRun, TransitionCalls, Step
    <3>4. TypeRest'
      BY <1>0, <1>18, <2>2 DEF Transition, TypeRest
    <3> QED BY <3>2, <3>3, <3>4 DEF TypeOK, TypeRepo, TypeRun, TypeRest
  <2> QED BY <2>1, <2>2
<1>7. CASE PreviewChain
  BY <1>7, <1>a DEF PreviewChain, TypeOK, Step, FinalizationStatus
<1>8. CASE Recheck
  BY <1>8, <1>a DEF Recheck, TypeOK, Step, FinalizationStatus
<1>9. CASE Add
  BY <1>9 DEF Add, TypeOK, Tree, Step
<1>10. CASE VerifyStaged
  BY <1>10, <1>a DEF VerifyStaged, TypeOK, Step, FinalizationStatus
<1>11. CASE Commit
  BY <1>0, <1>11, <1>a, TypeNewCommit
  DEF Commit, TypeOK, TypeRepo, TypeRun, TypeRest, Step, FinalizationStatus
<1>12. CASE ReadSha
  BY <1>12 DEF ReadSha, TypeOK, Step
<1>13. CASE VerifyCommit
  BY <1>13, <1>a DEF VerifyCommit, TypeOK, Step, FinalizationStatus
<1>14. CASE ChooseBranch
  BY <1>14, <1>a DEF ChooseBranch, PushBranch, TypeOK, Step, FinalizationStatus
<1>15. CASE Push
  BY <1>15 DEF Push, TypeOK, Step
<1>16. CASE CheckSync
  BY <1>16, <1>a DEF CheckSync, TypeOK, Step, FinalizationStatus
<1>17. CASE Record
  <2>1. TypeRun'
    BY <1>17, TypeEnd DEF Record, FinalizationStatus
  <2> QED BY <1>0, <1>17, <2>1 DEF Record, TypeOK, TypeRepo, TypeRun, TypeRest
<1> QED
  BY <1>1, <1>2, <1>3, <1>4, <1>5, <1>6, <1>7, <1>8, <1>9, <1>10, <1>11, <1>12, <1>13, <1>14,
     <1>15, <1>16, <1>17, <1>18
  DEF Finalizer

\* The faults, the rest of the repository and a new run keep the types.
LEMMA TypeOthers ==
  ASSUME TypeOK, (\E a \in BOOLEAN : Start(a)) \/ Faults \/ Intruders \/ UNCHANGED vars
  PROVE  TypeOK'
<1> USE FinalizeAssumption, CommitFacts, LocalFacts
    DEF repo, custody, evidence, locals, counters, Goto
<1>0. TypeRepo /\ TypeRun /\ TypeRest
  BY DEF TypeOK, TypeRepo, TypeRun, TypeRest
<1>1. ASSUME NEW a \in BOOLEAN, Start(a) PROVE TypeOK'
  BY <1>1 DEF Start, TypeOK, Step
<1>2. CASE WriteFails \/ GitFails \/ RecordFails \/ Crash
  <2>1. TypeRun'
    BY <1>2, TypeEnd DEF WriteFails, GitFails, RecordFails, Crash, Fail, FinalizationStatus
  <2>2. UNCHANGED <<repo, remote, records, mover, made, evidence, runs, intrusions>> /\ Fault
    BY <1>2 DEF WriteFails, GitFails, RecordFails, Crash, Fail
  <2>3. faults' \in 0..MaxFaults
    BY <2>2 DEF Fault, TypeOK
  <2>4. TypeRepo'
    BY <1>0, <2>2 DEF TypeRepo
  <2>5. TypeRest'
    BY <1>0, <2>2, <2>3 DEF TypeRest
  <2> QED BY <2>1, <2>4, <2>5 DEF TypeOK, TypeRepo, TypeRun, TypeRest
<1>3. CASE PushFails
  <2>1. TypeRun'
    BY <1>3, TypeEnd DEF PushFails, FinalizationStatus
  <2> QED BY <1>0, <1>3, <2>1 DEF PushFails, Fault, TypeOK, TypeRepo, TypeRun, TypeRest
<1>4. ASSUME TypeRepo', mover' \in TransitionCalls, NEW kind, Intrude(kind) PROVE TypeOK'
  BY <1>0, <1>4 DEF Intrude, Aside, TypeOK, TypeRepo, TypeRun, TypeRest
<1>5. ASSUME NEW f \in ImplFiles, NEW v \in Versions, Edit(f, v) PROVE TypeOK'
  <2>1. TypeRepo'
    BY <1>0, <1>5 DEF Edit, TypeRepo, Tree
  <2> QED BY <1>0, <1>4, <1>5, <2>1 DEF Edit, TypeRest
<1>6. ASSUME NEW f \in Files, Stage(f) PROVE TypeOK'
  <2>1. TypeRepo'
    BY <1>0, <1>6 DEF Stage, TypeRepo, Tree
  <2> QED BY <1>0, <1>4, <1>6, <2>1 DEF Stage, TypeRest
<1>7. ASSUME NEW b \in Branches, Switch(b) PROVE TypeOK'
  <2>1. tree[ref[b]] \in Tree
    BY <1>0, <1>7 DEF TypeRepo
  <2>2. TypeRepo'
    BY <1>0, <1>7, <2>1 DEF Switch, TypeRepo, Tree
  <2> QED BY <1>0, <1>4, <1>7, <2>2 DEF Switch, TypeRest
<1>8. CASE OperatorCommit
  BY <1>0, <1>4, <1>8, TypeNewCommit DEF OperatorCommit, TypeRest
<1>9. ASSUME NEW to \in TaskStatus, OperatorTransition(to) PROVE TypeOK'
  <2>1. TypeRepo'
    BY <1>0, <1>9 DEF OperatorTransition, TypeRepo
  <2>2. CallOf(to, "owner") \in TransitionCalls /\ CallOf(to, "owner").step = "find"
    BY CallOfType DEF ActorRole
  <2>3. work[TaskFile] \in TaskTexts /\ work[TaskFile] # Torn
    BY <1>0, <1>9 DEF OperatorTransition, TypeRepo, Tree
  <2>4. ~Refused(CallOf(to, "owner"), work[TaskFile])
    BY <2>2, <2>3 DEF Refused
  <2>5. mover' \in TransitionCalls
    BY <1>9, <2>2, <2>3, <2>4, CallSteps DEF OperatorTransition
  <2> QED BY <1>4, <1>9, <2>1, <2>5 DEF OperatorTransition
<1>10. CASE UNCHANGED vars
  BY <1>10 DEF vars, TypeOK
<1>11. CASE OperatorContinues
  <2>1. TypeRepo' /\ mover' \in TransitionCalls
    <3>1. CASE Refused(mover, work[TaskFile])
      BY <1>0, <1>11, <3>1 DEF OperatorContinues, TypeRepo
    <3>2. CASE ~Refused(mover, work[TaskFile])
      BY <1>0, <1>11, <3>2, TypeRewrite DEF OperatorContinues, TypeRest
    <3> QED BY <3>1, <3>2
  <2> QED BY <1>0, <1>11, <2>1 DEF OperatorContinues, Aside, TypeOK, TypeRepo, TypeRun, TypeRest
<1> QED
  BY <1>1, <1>2, <1>3, <1>5, <1>6, <1>7, <1>8, <1>9, <1>10, <1>11 DEF Faults, Intruders

\* Every step keeps the type invariant.
LEMMA TypeStep == TypeOK /\ [Next]_vars => TypeOK'
  BY TypeFinalizer, TypeOthers DEF Next

\* TypeOK is an invariant of every instance of the specification.
THEOREM TypeCorrect == Spec => []TypeOK
  BY TypeInit, TypeStep, PTL DEF Spec

-----------------------------------------------------------------------------
(***************************************************************************)
(* What holds whatever happens in the repository meanwhile.                *)
(***************************************************************************)

\* A run that is past the evidence check has its approval, and one that pushes
\* has refused main.
Gated ==
  /\ pc \in Working \cup Committed => Approved
  /\ pc \in {"push", "sync", "record"} => target # "main"
  /\ MainIsNeverPushed
  /\ PushNeedsApproval

\* Every step keeps what the gates have established.
LEMMA GatedStep == TypeOK /\ Gated /\ [Next]_vars => Gated'
<1> SUFFICES ASSUME TypeOK, Gated, [Next]_vars PROVE Gated'
  OBVIOUS
<1> USE DEF Goto, Working, Committed, Verified
<1>1. ASSUME UNCHANGED <<remote, evidence>>,
             pc' \in Working \cup Committed => Approved,
             pc' \in {"push", "sync", "record"} => target' # "main"
      PROVE  Gated'
  BY <1>1 DEF Gated, MainIsNeverPushed, PushNeedsApproval, Approved, evidence
<1>2. ASSUME NEW outcome, Fail(outcome), UNCHANGED evidence PROVE Gated'
  BY <1>1, <1>2 DEF Fail, End
<1>3. CASE TakeSnapshot
  BY <1>1, <1>2, <1>3 DEF TakeSnapshot
<1>4. CASE CheckEvidence
  <2>1. EvidenceOK => Approved
    BY DEF EvidenceOK, Approved, TypeOK, ActorRole, Reviewers
  <2> QED BY <1>1, <1>2, <1>4, <2>1 DEF CheckEvidence
<1>5. CASE CheckPaths \/ PreviewChain \/ Recheck \/ VerifyStaged \/ VerifyCommit
  BY <1>1, <1>2, <1>5
  DEF CheckPaths, PreviewChain, Recheck, VerifyStaged, VerifyCommit, Gated
<1>6. CASE WorkerTransition \/ Approve \/ Transition \/ Reread
  BY <1>1, <1>2, <1>6 DEF WorkerTransition, Approve, Transition, Reread, Gated
<1>7. CASE Add \/ ReadSha
  BY <1>1, <1>7 DEF Add, ReadSha, Gated
<1>8. CASE Commit
  BY <1>1, <1>2, <1>8 DEF Commit, Gated
<1>9. CASE ChooseBranch
  BY <1>1, <1>2, <1>9 DEF ChooseBranch, PushRefused, PushBranch, Gated
<1>10. CASE Push
  BY <1>10 DEF Push, Gated, TypeOK, MainIsNeverPushed, PushNeedsApproval, Approved, evidence,
              locals
<1>11. CASE CheckSync
  BY <1>1, <1>2, <1>11 DEF CheckSync, Gated, locals
<1>12. CASE Record
  BY <1>1, <1>12 DEF Record, End
<1>13. CASE WriteFails \/ GitFails \/ RecordFails \/ Crash
  BY <1>2, <1>13 DEF WriteFails, GitFails, RecordFails, Crash
<1>14. CASE PushFails
  <2>1. pc' = "idle" /\ Approved /\ Approved' /\ target # "main"
    BY <1>14 DEF PushFails, End, Gated, Approved, evidence
  <2>2. remote' = remote \/ remote' = [remote EXCEPT ![target] = ref[target]]
    BY <1>14 DEF PushFails
  <2>3. "main" \in Branches /\ remote \in [Branches -> CommitIds]
    BY FinalizeAssumption DEF TypeOK
  <2>4. remote'["main"] = remote["main"]
    BY <2>1, <2>2, <2>3
  <2> QED BY <2>1, <2>4 DEF Gated, MainIsNeverPushed, PushNeedsApproval
<1>15. CASE \E a \in BOOLEAN : Start(a)
  BY <1>1, <1>15 DEF Start
<1>16. CASE Intruders
  <2>1. Aside
    BY <1>16 DEF Intruders, Edit, Stage, Switch, OperatorCommit, OperatorTransition,
                OperatorContinues, Intrude
  <2> QED BY <1>1, <2>1 DEF Aside, Gated, locals
<1>17. CASE UNCHANGED vars
  BY <1>1, <1>17 DEF vars, locals, Gated
<1> QED
  BY <1>3, <1>4, <1>5, <1>6, <1>7, <1>8, <1>9, <1>10, <1>11, <1>12, <1>13, <1>14, <1>15,
     <1>16, <1>17
  DEF Next, Finalizer, Faults

\* The gates hold in every reachable state.
LEMMA GatedAlways == Spec => []Gated
<1>1. Init => Gated
  BY FinalizeAssumption
  DEF Init, Gated, Working, Committed, Verified, MainIsNeverPushed, PushNeedsApproval
<1> QED BY <1>1, TypeCorrect, GatedStep, PTL DEF Spec

\* The finalizer never pushes main, however the operator commits, switches
\* branches, stages and edits between its commands.
THEOREM MainIsSafe == Spec => []MainIsNeverPushed
  BY GatedAlways, PTL DEF Gated

\* Nothing is pushed without a reviewer's APPROVE linked to this bundle.
THEOREM NothingUnapproved == Spec => []PushNeedsApproval
  BY GatedAlways, PTL DEF Gated

-----------------------------------------------------------------------------
(***************************************************************************)
(* Who writes the task file, while nobody switches branches.               *)
(***************************************************************************)

\* What a step of a call leaves in the task file.
LEMMA RewriteText ==
  ASSUME TypeOK, NEW c, Rewrite(c)
  PROVE  /\ work'[TaskFile] = Written(c, work[TaskFile])
         /\ whole' = IF c.step = "fill" THEN Written(c, work[TaskFile]) ELSE whole
         /\ overwritten' = (overwritten \/ Overwrites(c, work[TaskFile]))
         /\ work[TaskFile] \in TaskTexts
  BY LocalFacts DEF Rewrite, TypeOK, Tree

\* A step that leaves the task file alone, for the calls: the finalizer's goes
\* on, ends or begins.
LEMMA CallsUntouched ==
  ASSUME CallsAreGranted, UNCHANGED custody, work'[TaskFile] = work[TaskFile],
         mover' = mover \/ mover'.step = "read",
         \/ call' = call /\ (pc' = "transition" <=> pc = "transition")
         \/ call' = NoCall /\ pc' # "transition"
         \/ call'.step = "find" /\ pc' = "transition"
  PROVE  CallsAreGranted'
<1> USE DEF custody
<1>1. MoveGranted(call') /\ MoveGranted(mover')
  BY DEF CallsAreGranted, MoveGranted, Writing, NoCall
<1>2. call'.step # "none" <=> pc' = "transition"
  BY DEF CallsAreGranted, NoCall
<1>3. /\ call'.step = "fill" => call' = call
      /\ mover'.step = "fill" => mover' = mover
  BY DEF NoCall
<1> QED BY <1>1, <1>2, <1>3 DEF CallsAreGranted, MoveGranted

\* One call takes a step; the other one stays where it is.
LEMMA CallsRewritten ==
  ASSUME TypeOK, CallsAreGranted, NEW c \in TransitionCalls, NEW d \in TransitionCalls,
         (c = call /\ d = mover) \/ (c = mover /\ d = call),
         ~Refused(c, work[TaskFile]), Rewrite(c), NEW a, a = Advanced(c, work[TaskFile])
  PROVE  ~overwritten' =>
           /\ a.step = "fill" => work'[TaskFile] = Torn /\ whole' = a.from
           /\ d.step = "fill" => work'[TaskFile] = Torn /\ whole' = d.from
           /\ ~(a.step = "fill" /\ d.step = "fill")
           /\ work'[TaskFile] \in {whole', Torn}
<1> SUFFICES ASSUME ~overwritten' PROVE
           /\ a.step = "fill" => work'[TaskFile] = Torn /\ whole' = a.from
           /\ d.step = "fill" => work'[TaskFile] = Torn /\ whole' = d.from
           /\ ~(a.step = "fill" /\ d.step = "fill")
           /\ work'[TaskFile] \in {whole', Torn}
  OBVIOUS
<1>1. /\ work'[TaskFile] = Written(c, work[TaskFile])
      /\ whole' = IF c.step = "fill" THEN Written(c, work[TaskFile]) ELSE whole
      /\ ~overwritten /\ ~Overwrites(c, work[TaskFile])
      /\ work[TaskFile] \in TaskTexts
  BY RewriteText
<1>2. /\ c.step = "fill" => work[TaskFile] = Torn /\ whole = c.from
      /\ d.step = "fill" => work[TaskFile] = Torn /\ whole = d.from
      /\ ~(c.step = "fill" /\ d.step = "fill")
      /\ work[TaskFile] \in {whole, Torn}
  BY <1>1 DEF CallsAreGranted
<1>3. /\ c.step \in CallStep
      /\ c.step \notin {"none", "fill"} => a.to = c.to /\ a.actor = c.actor
      /\ c.step = "find" => a.step = "read"
      /\ c.step \in {"read", "load", "truncate"} => a.from = c.from
      /\ c.step = "read" => a.step = "load"
      /\ c.step = "load" => a.step = "truncate"
      /\ c.step = "truncate" => a.step = "fill"
      /\ c.step \in {"none", "fill"} => a.step = "none"
  BY <1>1, CallSteps
<1>4. CASE c.step \in {"none", "find", "read", "load"}
  BY <1>1, <1>2, <1>3, <1>4 DEF Written
<1>5. CASE c.step = "truncate"
  <2>1. work[TaskFile] = c.from /\ c.from # Torn
    BY <1>1, <1>5, TornIsNoStatus DEF Overwrites, TransitionCalls
  <2> QED BY <1>1, <1>2, <1>3, <1>5, <2>1 DEF Written
<1>6. CASE c.step = "fill"
  BY <1>1, <1>2, <1>3, <1>6 DEF Written
<1> QED BY <1>3, <1>4, <1>5, <1>6 DEF CallStep

\* The finalizer's call takes its next step.
LEMMA TransitionCustody ==
  ASSUME TypeOK, CallsAreGranted, Transition, ~Fail("BLOCKED")
  PROVE  /\ CallsAreGranted'
         /\ whole' # whole => overwritten' \/ IsTransitionAllowed(whole, whole', call.actor)
<1> DEFINE text == work[TaskFile]
<1>1. /\ pc = "transition" /\ ~Refused(call, text) /\ Rewrite(call)
      /\ call' = Advanced(call, text) /\ mover' = mover
      /\ IF call.step = "fill" THEN pc' # "transition" ELSE pc' = "transition"
  BY DEF Transition, Goto
<1>2. call \in TransitionCalls /\ mover \in TransitionCalls /\ text \in TaskTexts
  BY RewriteText, <1>1 DEF TypeOK
<1> HIDE DEF text
<1>3. MoveGranted(call') /\ MoveGranted(mover')
  BY <1>1, <1>2, GrantIsKept DEF CallsAreGranted
<1>4. call.step # "none"
  BY <1>1 DEF CallsAreGranted
<1>5. call'.step # "none" <=> pc' = "transition"
  BY <1>1, <1>2, <1>4, CallSteps DEF CallStep
<1>6. ~overwritten' =>
           /\ call'.step = "fill" => work'[TaskFile] = Torn /\ whole' = call'.from
           /\ mover.step = "fill" => work'[TaskFile] = Torn /\ whole' = mover.from
           /\ ~(call'.step = "fill" /\ mover.step = "fill")
           /\ work'[TaskFile] \in {whole', Torn}
  BY <1>1, <1>2, CallsRewritten DEF text
<1>7. CallsAreGranted'
  BY <1>1, <1>3, <1>5, <1>6 DEF CallsAreGranted, MoveGranted
<1>8. whole' # whole => overwritten' \/ IsTransitionAllowed(whole, whole', call.actor)
  <2> SUFFICES ASSUME whole' # whole, ~overwritten' PROVE IsTransitionAllowed(whole, whole', call.actor)
    OBVIOUS
  <2>1. ~overwritten /\ call.step = "fill" /\ whole' = call.to
    BY <1>1, RewriteText DEF Written
  <2> QED BY <2>1 DEF CallsAreGranted, MoveGranted, Writing
<1> QED BY <1>7, <1>8

\* Somebody else's call takes its next step.
LEMMA OperatorCustody ==
  ASSUME TypeOK, CallsAreGranted, OperatorContinues, ~Refused(mover, work[TaskFile])
  PROVE  /\ CallsAreGranted'
         /\ whole' # whole => overwritten' \/ IsTransitionAllowed(whole, whole', mover.actor)
<1> DEFINE text == work[TaskFile]
<1>1. /\ Rewrite(mover) /\ mover' = Advanced(mover, text)
      /\ call' = call /\ pc' = pc
  BY DEF OperatorContinues, Aside, locals
<1>2. call \in TransitionCalls /\ mover \in TransitionCalls /\ text \in TaskTexts
  BY RewriteText, <1>1 DEF TypeOK
<1>3. MoveGranted(call') /\ MoveGranted(mover')
  BY <1>1, <1>2, GrantIsKept DEF CallsAreGranted
<1>6. ~overwritten' =>
           /\ mover'.step = "fill" => work'[TaskFile] = Torn /\ whole' = mover'.from
           /\ call.step = "fill" => work'[TaskFile] = Torn /\ whole' = call.from
           /\ ~(mover'.step = "fill" /\ call.step = "fill")
           /\ work'[TaskFile] \in {whole', Torn}
  BY <1>1, <1>2, CallsRewritten
<1>7. CallsAreGranted'
  BY <1>1, <1>3, <1>6 DEF CallsAreGranted, MoveGranted
<1>8. whole' # whole => overwritten' \/ IsTransitionAllowed(whole, whole', mover.actor)
  <2> SUFFICES ASSUME whole' # whole, ~overwritten' PROVE IsTransitionAllowed(whole, whole', mover.actor)
    OBVIOUS
  <2>1. ~overwritten /\ mover.step = "fill" /\ whole' = mover.to
    BY <1>1, RewriteText DEF Written
  <2> QED BY <2>1 DEF CallsAreGranted, MoveGranted, Writing
<1> QED BY <1>7, <1>8

\* What moves the task file is a call that holds its grant, or overwrites.
MovedByGrant ==
  whole' # whole => overwritten' \/ \E actor \in ActorRole :
                                      IsTransitionAllowed(whole, whole', actor)

LEMMA CustodyStep ==
  ASSUME "switch" \notin Interference, TypeOK, CallsAreGranted, [Next]_vars
  PROVE  CallsAreGranted' /\ MovedByGrant
<1> USE LocalFacts DEF repo, locals, custody, Goto
<1>1. work \in [Files -> Contents] /\ call \in TransitionCalls /\ mover \in TransitionCalls
  BY DEF TypeOK, Tree
<1>a. ASSUME UNCHANGED custody, work'[TaskFile] = work[TaskFile],
             mover' = mover \/ mover'.step = "read",
             \/ call' = call /\ (pc' = "transition" <=> pc = "transition")
             \/ call' = NoCall /\ pc' # "transition"
             \/ call'.step = "find" /\ pc' = "transition"
      PROVE  CallsAreGranted' /\ MovedByGrant
  BY <1>a, CallsUntouched DEF MovedByGrant
<1>b. ASSUME NEW outcome, Fail(outcome) PROVE CallsAreGranted' /\ MovedByGrant
  BY <1>a, <1>b DEF Fail, End
<1>2. CASE Transition
  <2>1. call.actor \in ActorRole
    BY <1>1 DEF TransitionCalls
  <2> QED BY <1>2, <1>b, <2>1, TransitionCustody DEF MovedByGrant
<1>3. CASE OperatorContinues
  <2>1. CASE Refused(mover, work[TaskFile])
    <3>1. mover' = NoCall /\ UNCHANGED <<repo, locals, pc>>
      BY <1>3, <2>1 DEF OperatorContinues, Aside
    <3>2. CallsAreGranted'
      BY <3>1 DEF CallsAreGranted, MoveGranted, Writing, NoCall
    <3> QED BY <3>1, <3>2 DEF MovedByGrant
  <2>2. CASE ~Refused(mover, work[TaskFile])
    <3>1. mover.actor \in ActorRole
      BY <1>1 DEF TransitionCalls
    <3> QED BY <1>3, <2>2, <3>1, OperatorCustody DEF MovedByGrant
  <2> QED BY <2>1, <2>2
<1>4. ASSUME NEW to \in TaskStatus, OperatorTransition(to)
      PROVE  CallsAreGranted' /\ MovedByGrant
  <2>1. CallOf(to, "owner") \in TransitionCalls /\ CallOf(to, "owner").step = "find"
    BY CallOfType DEF ActorRole
  <2>2. ~Refused(CallOf(to, "owner"), work[TaskFile]) /\ work[TaskFile] \in TaskTexts
    BY <1>4, <2>1 DEF Refused, OperatorTransition, TypeOK, Tree
  <2>3. mover'.step = "read"
    BY <1>4, <2>1, <2>2, CallSteps DEF OperatorTransition
  <2> QED BY <1>4, <1>a, <2>3 DEF OperatorTransition, Intrude, Aside
<1>5. ASSUME NEW f \in ImplFiles, NEW v \in Versions, Edit(f, v)
      PROVE  CallsAreGranted' /\ MovedByGrant
  <2>1. work'[TaskFile] = work[TaskFile]
    BY <1>1, <1>5, FinalizeAssumption DEF Edit
  <2> QED BY <1>5, <1>a, <2>1 DEF Edit, Intrude, Aside
<1>6. ASSUME NEW b \in Branches PROVE ~Switch(b)
  BY DEF Switch, Intrude
<1>7. CASE WorkerTransition \/ Approve
  <2>1. CASE \E outcome : Fail(outcome)
    BY <1>b, <2>1
  <2>2. CASE ~\E outcome : Fail(outcome)
    <3>1. \/ call' = call /\ pc' = "recheck" /\ pc = "worker"
          \/ call'.step = "find" /\ pc' = "transition"
      BY <1>7, <2>2 DEF WorkerTransition, Approve, CallOf, NoCall
    <3> QED BY <1>7, <1>a, <2>2, <3>1 DEF WorkerTransition, Approve
  <2> QED BY <2>1, <2>2
<1>8. CASE TakeSnapshot \/ CheckEvidence \/ CheckPaths \/ Reread \/ PreviewChain \/ Recheck
  BY <1>8, <1>a, <1>b DEF TakeSnapshot, CheckEvidence, CheckPaths, Reread, PreviewChain, Recheck
<1>9. CASE Add \/ VerifyStaged \/ Commit \/ ReadSha \/ VerifyCommit \/ ChooseBranch \/ Push
           \/ CheckSync \/ Record
  BY <1>9, <1>a, <1>b DEF Add, VerifyStaged, Commit, NewCommit, ReadSha, VerifyCommit,
     ChooseBranch, Push, CheckSync, Record, End
<1>10. CASE Faults \/ (\E a \in BOOLEAN : Start(a))
  BY <1>10, <1>a, <1>b DEF Faults, WriteFails, GitFails, PushFails, RecordFails, Crash, Start, End
<1>11. CASE OperatorCommit \/ (\E f \in Files : Stage(f)) \/ UNCHANGED vars
  BY <1>11, <1>a DEF OperatorCommit, NewCommit, Stage, Intrude, Aside, vars
<1> QED BY <1>2, <1>3, <1>4, <1>5, <1>6, <1>7, <1>8, <1>9, <1>10, <1>11
        DEF Next, Finalizer, Intruders

\* The calls hold their grants in every reachable state.
LEMMA CallsAlways ==
  ASSUME "switch" \notin Interference
  PROVE  Spec => []CallsAreGranted
<1>1. Init => CallsAreGranted
  BY LocalFacts DEF Init, CallsAreGranted, MoveGranted, Writing, NoCall
<1> QED BY <1>1, TypeCorrect, CustodyStep, PTL DEF Spec

\* Unless somebody switches the branch, the task is moved only by transitions the
\* table grants, by the finalizer and by whoever else calls transition_task(),
\* through every fault, up to the first transition that replaces a status it had
\* not checked.
THEOREM TaskMovesByGrant ==
  ASSUME "switch" \notin Interference
  PROVE  Spec => MovesAreGranted
<1>1. TypeOK /\ CallsAreGranted /\ [Next]_vars
        => [whole' # whole => overwritten' \/ \E actor \in ActorRole :
                                                IsTransitionAllowed(whole, whole', actor)]_vars
  BY CustodyStep DEF MovedByGrant
<1> QED BY <1>1, TypeCorrect, CallsAlways, PTL DEF Spec, MovesAreGranted

-----------------------------------------------------------------------------
(***************************************************************************)
(* What holds while nobody else commits or switches branches.              *)
(***************************************************************************)

Undisturbed == Interference \subseteq {"edit", "stage", "transition"}

\* What a step that neither commits nor pushes keeps.
CommitsUnchanged ==
  /\ UNCHANGED <<tree, parent, tip, ref, remote, branch, evidence, made>>
  /\ overwritten => overwritten'

\* The published history does not depend on the run.
LEMMA HistoryKept ==
  ASSUME IInv, CommitsUnchanged
  PROVE  History' /\ PublishedAsApproved'
<1> USE DEF CommitsUnchanged, evidence
<1>1. History'
  BY DEF IInv, History, OnlyTheApprovedBranchMoves, OneCommitPerApproval
<1>2. PublishedAsApproved'
  BY DEF IInv, PublishedAsApproved, Published, Approved, Diff, CommitSet
<1> QED BY <1>1, <1>2

\* A run that ends leaves nothing to keep.
LEMMA EndKeeps ==
  ASSUME IInv, NEW outcome, Fail(outcome), UNCHANGED <<evidence>>, TypeOK', CallsAreGranted'
  PROVE  IInv'
<1>1. pc' = "idle" /\ status' = "DRAFT"
  BY DEF Fail, End
<1>2. RunIsApproved' /\ RunHasCommitted' /\ ApprovalIsKept'
  BY <1>1 DEF RunIsApproved, RunHasCommitted, ApprovalIsKept, Working, Committed, Verified
<1>3. History' /\ PublishedAsApproved'
  BY HistoryKept DEF Fail, CommitsUnchanged, repo, custody
<1>4. RecordsAreTrue'
  BY DEF Fail, IInv, RecordsAreTrue
<1> QED BY <1>2, <1>3, <1>4 DEF IInv

\* A step of a run that neither commits nor pushes: what is left to show is
\* where the run is then.
LEMMA StepKeeps ==
  ASSUME IInv, TypeOK', CallsAreGranted', CommitsUnchanged, UNCHANGED records,
         RunIsApproved', RunHasCommitted', ApprovalIsKept'
  PROVE  IInv'
<1>1. RecordsAreTrue'
  BY DEF CommitsUnchanged, IInv, RecordsAreTrue
<1> QED BY <1>1, HistoryKept DEF IInv

\* The steps of a run up to its commit.
LEMMA EarlySteps ==
  ASSUME IInv, TypeOK', CallsAreGranted',
         \/ TakeSnapshot \/ CheckEvidence \/ CheckPaths \/ WorkerTransition \/ Approve
         \/ Transition \/ Reread \/ PreviewChain \/ Recheck \/ Add \/ VerifyStaged
  PROVE  IInv'
<1> USE DEF repo, custody, evidence, locals, counters, Goto, Working, Committed, Verified
<1>0. TypeOK /\ RunIsApproved /\ RunHasCommitted /\ ApprovalIsKept /\ CallsAreGranted
  BY DEF IInv
<1>1. ASSUME NEW outcome, Fail(outcome), UNCHANGED evidence PROVE IInv'
  BY <1>1, EndKeeps
<1>2. CASE TakeSnapshot
  <2>1. CASE Fail("BLOCKED")
    BY <1>1, <1>2, <2>1 DEF TakeSnapshot
  <2>2. CASE ~Fail("BLOCKED")
    <3>1. RunIsApproved' /\ RunHasCommitted' /\ ApprovalIsKept'
      BY <1>0, <1>2, <2>2 DEF TakeSnapshot, RunIsApproved, RunHasCommitted, ApprovalIsKept
    <3> QED BY <1>2, <2>2, <3>1, StepKeeps DEF TakeSnapshot, CommitsUnchanged
  <2> QED BY <2>1, <2>2
<1>3. CASE CheckEvidence
  <2>1. CASE \E outcome : Fail(outcome)
    BY <1>1, <1>3, <2>1 DEF CheckEvidence
  <2>2. CASE EvidenceOK /\ ~\E outcome : Fail(outcome)
    <3>1. Approved /\ bundle.branch = branch /\ ref[branch] = 1
      BY <1>0, <1>3, <2>2
      DEF EvidenceOK, Approved, CheckEvidence, RunIsApproved, IInv, History, TypeOK, ActorRole,
          Reviewers
    <3>2. RunIsApproved'
      BY <1>0, <1>3, <2>2, <3>1 DEF CheckEvidence, RunIsApproved, Approved
    <3>3. RunHasCommitted' /\ ApprovalIsKept'
      BY <1>0, <1>3, <2>2 DEF CheckEvidence, RunHasCommitted, ApprovalIsKept
    <3> QED BY <1>3, <2>2, <3>2, <3>3, StepKeeps DEF CheckEvidence, CommitsUnchanged
  <2> QED BY <1>3, <2>1, <2>2 DEF CheckEvidence
<1>4. ASSUME UNCHANGED <<index, snap, status>>, work'[TaskFile] = work[TaskFile],
             CommitsUnchanged, records' = records, apply' = apply,
             pc \in Working,
             pc' \in Working \ {"transition", "recheck", "add", "staged", "commit"}
      PROVE  IInv'
  <2>1. RunIsApproved' /\ RunHasCommitted'
    BY <1>0, <1>4 DEF RunIsApproved, RunHasCommitted, CommitsUnchanged, Approved
  <2>2. ApprovalIsKept'
    BY <1>0, <1>4 DEF ApprovalIsKept, CommitsUnchanged
  <2> QED BY <1>4, <2>1, <2>2, StepKeeps
<1>5. CASE CheckPaths
  BY <1>1, <1>4, <1>5 DEF CheckPaths, CommitsUnchanged
<1>6. CASE WorkerTransition
  <2>1. RunIsApproved' /\ RunHasCommitted' /\ ApprovalIsKept'
    BY <1>0, <1>6
    DEF WorkerTransition, RunIsApproved, RunHasCommitted, ApprovalIsKept, Approved
  <2> QED BY <1>6, <2>1, StepKeeps DEF WorkerTransition, CommitsUnchanged
<1>7. CASE Reread
  <2>1. CASE Fail("BLOCKED")
    BY <1>1, <1>7, <2>1 DEF Reread
  <2>2. CASE ~Fail("BLOCKED")
    <3>1. RunIsApproved' /\ RunHasCommitted' /\ ApprovalIsKept'
      BY <1>0, <1>7, <2>2 DEF Reread, RunIsApproved, RunHasCommitted, ApprovalIsKept, Approved
    <3> QED BY <1>7, <2>2, <3>1, StepKeeps DEF Reread, CommitsUnchanged
  <2> QED BY <2>1, <2>2
<1>8. CASE Approve
  <2>1. CASE \E outcome : Fail(outcome)
    BY <1>1, <1>8, <2>1 DEF Approve
  <2>2. CASE ~\E outcome : Fail(outcome)
    <3>1. DecisionToStatus[decision.value] = "APPROVED"
      BY <1>0, <1>8 DEF Approve, RunIsApproved, Approved, DecisionToStatus
    <3>2. \/ pc' = "transition" /\ call'.to = "APPROVED"
          \/ pc' = "recheck" /\ status = "APPROVED"
      BY <1>8, <2>2, <3>1 DEF Approve, CallOf, NoCall
    <3>3. /\ UNCHANGED <<work, index, tree, parent, tip, ref, branch, overwritten, remote,
                         evidence, apply, snap, chain, status, preHead, sha, target, records,
                         made>>
          /\ pc = "worker" /\ apply /\ pc' \in {"transition", "recheck"}
      BY <1>8, <2>2 DEF Approve
    <3>4. RunIsApproved' /\ RunHasCommitted'
      BY <1>0, <3>3 DEF RunIsApproved, RunHasCommitted, Approved
    <3>5. ApprovalIsKept'
      BY <1>0, <3>2, <3>3 DEF ApprovalIsKept
    <3>6. CommitsUnchanged /\ UNCHANGED records
      BY <3>3 DEF CommitsUnchanged
    <3> QED BY <3>4, <3>5, <3>6, StepKeeps
  <2> QED BY <2>1, <2>2
<1>14. CASE Transition
  <2>1. CASE Fail("BLOCKED")
    BY <1>1, <1>14, <2>1 DEF Transition
  <2>2. CASE ~Fail("BLOCKED")
    <3>1. /\ pc = "transition" /\ ~Refused(call, work[TaskFile]) /\ Rewrite(call)
          /\ call' = Advanced(call, work[TaskFile])
          /\ UNCHANGED <<index, apply, snap, status, preHead, sha, target, records, made>>
          /\ CommitsUnchanged
      BY <1>14, <2>2 DEF Transition, Rewrite, CommitsUnchanged
    <3>2. \/ call.step # "fill" /\ pc' = "transition" /\ chain' = chain
          \/ call.step = "fill" /\ pc' = "reread"
          \/ call.step = "fill" /\ chain \notin DOMAIN ChainStep /\ pc' = "recheck"
      BY <1>14, <2>2 DEF Transition
    <3>3. /\ work'[TaskFile] = Written(call, work[TaskFile])
          /\ overwritten' = (overwritten \/ Overwrites(call, work[TaskFile]))
          /\ work[TaskFile] \in TaskTexts /\ call \in TransitionCalls
      BY <1>0, <3>1, RewriteText DEF TypeOK
    <3>4. apply /\ (chain \notin DOMAIN ChainStep => call.to = "APPROVED") /\ call.step # "none"
      BY <1>0, <3>1 DEF ApprovalIsKept, CallsAreGranted
    <3>5. chain' \notin DOMAIN ChainStep /\ pc' = "transition" => call'.to = "APPROVED"
      BY <3>1, <3>2, <3>3, <3>4, CallSteps
    <3>6. pc' = "recheck" => work'[TaskFile] = "APPROVED"
      BY <3>2, <3>3, <3>4 DEF Written
    <3>7. status = "APPROVED" => work'[TaskFile] = "APPROVED" \/ overwritten'
      <4> SUFFICES ASSUME status = "APPROVED", ~overwritten' PROVE work'[TaskFile] = "APPROVED"
        OBVIOUS
      <4>1. work[TaskFile] = "APPROVED" /\ ~overwritten
        BY <1>0, <3>3 DEF ApprovalIsKept
      <4>2. CASE call.step = "truncate"
        BY <1>0, <3>3, <4>1, <4>2, ApprovedIsFinal
        DEF CallsAreGranted, MoveGranted, Writing, Overwrites
      <4>3. CASE call.step = "fill"
        BY <1>0, <4>1, <4>3 DEF CallsAreGranted, Torn
      <4>4. CASE call.step \notin {"truncate", "fill"}
        BY <3>3, <4>1, <4>4 DEF Written
      <4> QED BY <4>2, <4>3, <4>4
    <3>8. RunIsApproved' /\ RunHasCommitted'
      BY <1>0, <3>1, <3>2 DEF RunIsApproved, RunHasCommitted, CommitsUnchanged, Approved
    <3>9. ApprovalIsKept'
      BY <3>1, <3>2, <3>4, <3>5, <3>6, <3>7 DEF ApprovalIsKept
    <3> QED BY <3>1, <3>8, <3>9, StepKeeps
  <2> QED BY <2>1, <2>2
<1>9. ASSUME UNCHANGED <<work, snap, status, apply, records>>, CommitsUnchanged,
             pc \in Working, pc' \in Working \ {"transition"},
             pc' \in {"recheck", "add", "staged", "commit"} /\ apply
               => work[TaskFile] = "APPROVED" \/ overwritten,
             pc' \in {"add", "staged", "commit"} => apply,
             pc' \in {"staged", "commit"} => index'[TaskFile] = "APPROVED" \/ overwritten,
             pc' = "commit" => preHead' = 1
      PROVE  IInv'
  <2>1. RunIsApproved' /\ RunHasCommitted'
    BY <1>0, <1>9 DEF RunIsApproved, RunHasCommitted, CommitsUnchanged, Approved
  <2>2. ApprovalIsKept'
    BY <1>0, <1>9 DEF ApprovalIsKept, CommitsUnchanged
  <2> QED BY <1>9, <2>1, <2>2, StepKeeps
<1>10. CASE PreviewChain
  BY <1>0, <1>1, <1>9, <1>10 DEF PreviewChain, CommitsUnchanged
<1>11. CASE Recheck
  BY <1>0, <1>1, <1>9, <1>11 DEF Recheck, CommitsUnchanged, ApprovalIsKept
<1>12. CASE Add
  <2>1. index'[TaskFile] = "APPROVED" \/ overwritten
    BY <1>0, <1>12, LocalFacts DEF Add, ApprovalIsKept, CommitSet
  <2> QED BY <1>0, <1>9, <1>12, <2>1 DEF Add, CommitsUnchanged, ApprovalIsKept
<1>13. CASE VerifyStaged
  BY <1>0, <1>1, <1>9, <1>13 DEF VerifyStaged, CommitsUnchanged, ApprovalIsKept, RunIsApproved
<1> QED
  BY <1>2, <1>3, <1>5, <1>6, <1>7, <1>8, <1>10, <1>11, <1>12, <1>13, <1>14

\* The commit: the only one above the reviewed HEAD, and not yet published.
LEMMA CommitKeeps == ASSUME IInv, TypeOK', CallsAreGranted', Commit PROVE IInv'
<1> USE DEF repo, custody, evidence, locals, counters, Goto, Working, Committed, Verified
<1> DEFINE c == tip + 1
<1>0. TypeOK /\ History /\ RunIsApproved /\ RunHasCommitted /\ ApprovalIsKept
  BY DEF IInv
<1>1. CASE Staged = {}
  BY <1>1, EndKeeps DEF Commit, NewCommit
<1>2. CASE Staged # {}
  <2>1. /\ NewCommit /\ made' = made \cup {c} /\ pc = "commit" /\ pc' = "sha"
        /\ UNCHANGED <<remote, records, evidence, locals>>
    BY <1>2 DEF Commit
  <2>2. tip \in Nat /\ tip \in CommitIds /\ c \in CommitIds /\ tip >= 1
    BY <1>0, <2>1, CommitFacts DEF TypeOK, NewCommit, CommitIds
  <2>3. /\ Approved /\ bundle.branch = branch /\ branch \in Branches /\ ref[branch] = 1
        /\ preHead = 1 /\ (index[TaskFile] = "APPROVED" \/ overwritten)
        /\ bundle.postHead = 1
    BY <1>0, <2>1 DEF RunIsApproved, RunHasCommitted, ApprovalIsKept, TypeOK, History
  <2>4. made = {}
    BY <1>0, <2>3 DEF History
  <2>5. /\ tip' = c /\ branch' = branch /\ made' = {c}
        /\ ref'[branch] = c /\ \A b \in Branches : b # branch => ref'[b] = ref[b]
        /\ parent'[c] = 1 /\ tree'[c] = index /\ overwritten' = overwritten
    BY <1>0, <2>1, <2>2, <2>3, <2>4 DEF NewCommit, TypeOK
  <2>6. History'
    BY <1>0, <2>1, <2>2, <2>3, <2>5
    DEF History, OnlyTheApprovedBranchMoves, OneCommitPerApproval
  <2>7. RunIsApproved' /\ RunHasCommitted' /\ ApprovalIsKept'
    <3>1. RunIsApproved'
      BY <1>0, <2>1, <2>3, <2>5 DEF RunIsApproved, Approved
    <3>2. tree'[ref'[branch']][TaskFile] = "APPROVED" \/ overwritten'
      BY <2>3, <2>5
    <3>3. RunHasCommitted'
      BY <2>1, <2>3, <2>5, <3>2 DEF RunHasCommitted
    <3>4. ApprovalIsKept'
      BY <1>0, <2>1, <2>3 DEF ApprovalIsKept, NewCommit
    <3> QED BY <3>1, <3>3, <3>4
  <2>8. PublishedAsApproved'
    BY <1>0, <2>1, <2>2, <2>5 DEF PublishedAsApproved, Published, History
  <2>9. RecordsAreTrue'
    BY <2>1 DEF IInv, RecordsAreTrue
  <2> QED BY <2>6, <2>7, <2>8, <2>9 DEF IInv
<1> QED BY <1>1, <1>2

\* What a push that reaches the remote publishes.
LEMMA PushKeeps ==
  ASSUME IInv, pc = "push", remote' = [remote EXCEPT ![target] = ref[target]],
         UNCHANGED <<repo, evidence, records, made>>
  PROVE  History' /\ PublishedAsApproved' /\ RecordsAreTrue' /\ remote'[branch] = ref[branch]
<1> USE DEF repo, custody, evidence, Working, Committed, Verified
<1>1. /\ made = {ref[branch]} /\ parent[ref[branch]] = 1
      /\ (tree[ref[branch]][TaskFile] = "APPROVED" \/ overwritten) /\ sha = ref[branch]
      /\ Diff(ref[branch]) = CommitSet /\ target = branch
      /\ Approved /\ bundle.branch = branch
  BY DEF IInv, RunHasCommitted, RunIsApproved
<1>2. /\ remote'[branch] = ref[branch]
      /\ \A b \in Branches : b # branch => remote'[b] = remote[b]
  BY <1>1 DEF IInv, TypeOK
<1>3. History'
  BY <1>1, <1>2 DEF IInv, History, OnlyTheApprovedBranchMoves, OneCommitPerApproval
<1>4. PublishedAsApproved'
  BY <1>1, <1>2 DEF PublishedAsApproved, IInv, History, Approved, Diff, CommitSet
<1>5. RecordsAreTrue'
  <2> SUFFICES ASSUME NEW r \in records PROVE r.sha \in made /\ remote'[r.branch] = r.sha
    BY DEF RecordsAreTrue
  <2>1. r.sha = ref[branch] /\ r.branch \in Branches /\ remote[r.branch] = r.sha
    BY <1>1 DEF IInv, RecordsAreTrue, TypeOK
  <2> QED BY <1>1, <1>2, <2>1
<1> QED BY <1>2, <1>3, <1>4, <1>5

\* The steps of a run after its commit.
LEMMA LateSteps ==
  ASSUME IInv, TypeOK', CallsAreGranted',
         ReadSha \/ VerifyCommit \/ ChooseBranch \/ Push \/ CheckSync \/ Record
  PROVE  IInv'
<1> USE DEF repo, custody, evidence, locals, counters, Goto, Working, Committed, Verified
<1>0. TypeOK /\ RunIsApproved /\ RunHasCommitted /\ ApprovalIsKept
  BY DEF IInv
<1>1. ASSUME NEW outcome, Fail(outcome), UNCHANGED evidence PROVE IInv'
  BY <1>1, EndKeeps
<1>2. ASSUME pc \in Committed, pc' \in Committed \ {"sha"},
             CommitsUnchanged, UNCHANGED <<work, index, records, status, snap, preHead>>,
             sha' = ref[branch], pc' \in Verified => Diff(sha') = CommitSet,
             pc' \in {"push", "sync", "record"} => target' = branch,
             pc' = "record" => remote[branch] = sha'
      PROVE  IInv'
  <2>1. RunIsApproved' /\ ApprovalIsKept'
    BY <1>0, <1>2 DEF RunIsApproved, ApprovalIsKept, CommitsUnchanged, Approved
  <2>2. RunHasCommitted'
    BY <1>0, <1>2 DEF RunHasCommitted, CommitsUnchanged, Diff, CommitSet
  <2> QED BY <1>2, <2>1, <2>2, StepKeeps
<1>3. CASE ReadSha
  BY <1>2, <1>3 DEF ReadSha, CommitsUnchanged
<1>4. CASE VerifyCommit
  BY <1>0, <1>1, <1>2, <1>4 DEF VerifyCommit, CommitOK, CommitsUnchanged, RunHasCommitted
<1>5. CASE ChooseBranch
  BY <1>0, <1>1, <1>2, <1>5
  DEF ChooseBranch, PushBranch, CommitsUnchanged, RunHasCommitted
<1>6. CASE Push
  <2>1. History' /\ PublishedAsApproved' /\ RecordsAreTrue'
    BY <1>6, PushKeeps DEF Push
  <2>2. RunIsApproved' /\ RunHasCommitted' /\ ApprovalIsKept'
    BY <1>0, <1>6
    DEF Push, RunIsApproved, RunHasCommitted, ApprovalIsKept, Approved, Diff, CommitSet
  <2> QED BY <2>1, <2>2 DEF IInv
<1>7. CASE CheckSync
  BY <1>0, <1>1, <1>2, <1>7 DEF CheckSync, Synchronised, CommitsUnchanged, RunHasCommitted
<1>8. CASE Record
  <2>1. RunIsApproved' /\ RunHasCommitted' /\ ApprovalIsKept'
    BY <1>8 DEF Record, End, RunIsApproved, RunHasCommitted, ApprovalIsKept
  <2>2. History' /\ PublishedAsApproved'
    BY <1>8, HistoryKept DEF Record, CommitsUnchanged
  <2>3. sha \in made /\ remote[snap.branch] = sha
    BY <1>0, <1>8 DEF Record, RunHasCommitted, RunIsApproved
  <2>4. RecordsAreTrue'
    BY <1>8, <2>3 DEF Record, IInv, RecordsAreTrue
  <2> QED BY <2>1, <2>2, <2>4 DEF IInv
<1> QED BY <1>3, <1>4, <1>5, <1>6, <1>7, <1>8

\* The faults, a new run, and what else may happen in the repository.
LEMMA OtherSteps ==
  ASSUME Undisturbed, IInv, TypeOK', CallsAreGranted',
         (\E a \in BOOLEAN : Start(a)) \/ Faults \/ Intruders \/ UNCHANGED vars
  PROVE  IInv'
<1> USE DEF repo, custody, evidence, locals, counters, Goto, Working, Committed, Verified
<1>0. TypeOK /\ RunIsApproved /\ RunHasCommitted /\ ApprovalIsKept
  BY DEF IInv
<1>1. CASE \E a \in BOOLEAN : Start(a)
  <2>1. RunIsApproved' /\ RunHasCommitted' /\ ApprovalIsKept'
    BY <1>0, <1>1 DEF Start, RunIsApproved, RunHasCommitted, ApprovalIsKept
  <2> QED BY <1>1, <2>1, StepKeeps DEF Start, CommitsUnchanged
<1>2. CASE WriteFails \/ GitFails \/ RecordFails \/ Crash
  BY <1>2, EndKeeps DEF WriteFails, GitFails, RecordFails, Crash
<1>3. CASE PushFails
  <2>1. RunIsApproved' /\ RunHasCommitted' /\ ApprovalIsKept'
    BY <1>3 DEF PushFails, End, RunIsApproved, RunHasCommitted, ApprovalIsKept
  <2>2. CASE UNCHANGED remote
    BY <1>3, <2>1, <2>2, StepKeeps DEF PushFails, CommitsUnchanged
  <2>3. CASE remote' = [remote EXCEPT ![target] = ref[target]]
    <3>1. History' /\ PublishedAsApproved' /\ RecordsAreTrue'
      BY <1>3, <2>3, PushKeeps DEF PushFails
    <3> QED BY <2>1, <3>1 DEF IInv
  <2> QED BY <1>3, <2>2, <2>3 DEF PushFails
<1>4. ASSUME CommitsUnchanged, UNCHANGED <<pc, locals, records>>,
             work[TaskFile] = "APPROVED" => work'[TaskFile] = "APPROVED" \/ overwritten',
             index'[TaskFile] \in {index[TaskFile], work[TaskFile]}
      PROVE  IInv'
  <2>1. RunIsApproved' /\ RunHasCommitted'
    BY <1>0, <1>4
    DEF RunIsApproved, RunHasCommitted, CommitsUnchanged, Approved, Diff, CommitSet
  <2>2. ApprovalIsKept'
    BY <1>0, <1>4 DEF ApprovalIsKept, CommitsUnchanged
  <2> QED BY <1>4, <2>1, <2>2, StepKeeps
<1>5. ASSUME NEW f \in ImplFiles, NEW v \in Versions, Edit(f, v) PROVE IInv'
  <2>1. work'[TaskFile] = work[TaskFile]
    BY <1>0, <1>5, FinalizeAssumption DEF Edit, TypeOK, Tree, Files
  <2> QED BY <1>4, <1>5, <2>1 DEF Edit, Intrude, Aside, CommitsUnchanged
<1>6. ASSUME NEW f \in Files, Stage(f) PROVE IInv'
  <2>1. index'[TaskFile] \in {index[TaskFile], work[TaskFile]}
    BY <1>0, <1>6 DEF Stage, TypeOK, Tree, Files
  <2> QED BY <1>4, <1>6, <2>1 DEF Stage, Intrude, Aside, CommitsUnchanged
<1>7. ASSUME NEW to \in TaskStatus, OperatorTransition(to) PROVE IInv'
  BY <1>4, <1>7 DEF OperatorTransition, Intrude, Aside, CommitsUnchanged
<1>10. CASE OperatorContinues
  <2>1. CASE Refused(mover, work[TaskFile])
    BY <1>4, <1>10, <2>1 DEF OperatorContinues, Aside, CommitsUnchanged
  <2>2. CASE ~Refused(mover, work[TaskFile])
    <3>1. /\ Rewrite(mover) /\ UNCHANGED <<pc, locals, records, index>>
          /\ CommitsUnchanged
      BY <1>10, <2>2 DEF OperatorContinues, Aside, Rewrite, CommitsUnchanged
    <3>2. /\ work'[TaskFile] = Written(mover, work[TaskFile])
          /\ overwritten' = (overwritten \/ Overwrites(mover, work[TaskFile]))
      BY <1>0, <3>1, RewriteText
    <3>3. ASSUME work[TaskFile] = "APPROVED", ~overwritten'
          PROVE  work'[TaskFile] = "APPROVED"
      <4>1. CASE mover.step = "truncate"
        BY <3>2, <3>3, <4>1, ApprovedIsFinal
        DEF IInv, CallsAreGranted, MoveGranted, Writing, Overwrites
      <4>2. CASE mover.step = "fill"
        BY <3>2, <3>3, <4>2 DEF IInv, CallsAreGranted, Torn
      <4>3. CASE mover.step \notin {"truncate", "fill"}
        BY <3>2, <3>3, <4>3 DEF Written
      <4> QED BY <4>1, <4>2, <4>3
    <3> QED BY <1>4, <3>1, <3>3
  <2> QED BY <2>1, <2>2
<1>8. ~OperatorCommit /\ \A b \in Branches : ~Switch(b)
  BY DEF Undisturbed, OperatorCommit, Switch, Intrude
<1>9. CASE UNCHANGED vars
  BY <1>4, <1>9 DEF vars, CommitsUnchanged
<1> QED BY <1>1, <1>2, <1>3, <1>5, <1>6, <1>7, <1>8, <1>9, <1>10 DEF Faults, Intruders

\* The inductive invariant holds in every reachable state.
LEMMA Inductive ==
  ASSUME Undisturbed
  PROVE  Spec => []IInv
<1>1. Init => IInv
  <2> SUFFICES ASSUME Init PROVE IInv
    OBVIOUS
  <2>1. TypeOK
    BY TypeInit
  <2>2. History
    BY FinalizeAssumption DEF Init, History, OnlyTheApprovedBranchMoves, OneCommitPerApproval
  <2>3. RunIsApproved /\ RunHasCommitted /\ ApprovalIsKept
    BY DEF Init, RunIsApproved, RunHasCommitted, ApprovalIsKept, Working, Committed, Verified
  <2>4. PublishedAsApproved /\ RecordsAreTrue
    BY DEF Init, PublishedAsApproved, RecordsAreTrue
  <2>5. CallsAreGranted
    BY LocalFacts DEF Init, CallsAreGranted, MoveGranted, Writing, NoCall
  <2> QED BY <2>1, <2>2, <2>3, <2>4, <2>5 DEF IInv
<1>2. IInv /\ [Next]_vars => IInv'
  <2> SUFFICES ASSUME IInv, [Next]_vars PROVE IInv'
    OBVIOUS
  <2>1. TypeOK' /\ CallsAreGranted'
    BY TypeStep, CustodyStep DEF IInv, Undisturbed
  <2> QED BY <2>1, EarlySteps, CommitKeeps, LateSteps, OtherSteps DEF Next, Finalizer
<1> QED BY <1>1, <1>2, PTL DEF Spec

\* While others may edit, stage and move the task, but not commit or switch,
\* whatever the finalizer publishes is what a reviewer approved: the branch and
\* the HEAD of the bundle, its paths and the task file, the task APPROVED unless
\* a transition replaced a status it had not checked.
THEOREM PublicationIsApproved ==
  ASSUME Undisturbed
  PROVE  Spec => []PublishedAsApproved
  BY Inductive, PTL DEF IInv

\* One approval is good for one commit, through every crash, failed push and
\* repeated run.
THEOREM AtMostOneCommit ==
  ASSUME Undisturbed
  PROVE  Spec => []OneCommitPerApproval
  BY Inductive, PTL DEF IInv, History

\* No branch but the reviewed one moves.
THEOREM OtherBranchesStay ==
  ASSUME Undisturbed
  PROVE  Spec => []OnlyTheApprovedBranchMoves
  BY Inductive, PTL DEF IInv, History

\* The PUSHED lines of finalize.jsonl can be relied on.
THEOREM RecordsHold ==
  ASSUME Undisturbed
  PROVE  Spec => []RecordsAreTrue
  BY Inductive, PTL DEF IInv

=============================================================================
