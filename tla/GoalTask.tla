------------------------------ MODULE GoalTask -------------------------------
(***************************************************************************)
(* generate_goal_task() of advancore/agent_runner/goal_task.py, run by     *)
(* several command-line processes in one working tree: a planner, which is *)
(* a bounded worker (WorkerProcess), proposes a task; the repository is    *)
(* compared with what it was; and a DRAFT file is written under the next   *)
(* free number.  A second planner may take the place of one that is not    *)
(* available.                                                              *)
(*                                                                         *)
(* The branch is never main, and what the snapshots compare besides the    *)
(* tree - branch, HEAD, remotes - is the number of commits.  A dry run,    *)
(* which only reads, is left out.  A snapshot is taken by two commands, one *)
(* after the other: git rev-parse reads HEAD, and then git status the tree. *)
(***************************************************************************)
EXTENDS WorkerProcess, FiniteSetsExt

CONSTANTS Generators,    \* the processes that run generate_goal_task()
          WithFallback,  \* those of them called with a fallback planner
          Slugs,         \* the titles a proposal may have, as file names
          MaxCommits     \* bound on the commits of the operator

Attempt == {"primary", "fallback"}

ASSUME CallsAssumption == Calls = Generators \X Attempt
ASSUME FallbackAssumption == WithFallback \subseteq Generators
ASSUME CommitsAssumption == MaxCommits \in Nat

\* A stamp tells a draft from an edit, and a path a draft from Source.
ASSUME GeneratorsAssumption == IsFiniteSet(Generators) /\ Generators \cap Nat = {}
ASSUME SourceAssumption == Source \notin Nat \X Slugs

VARIABLES
  step,     \* step[g]: the next statement of the call
  attempt,  \* attempt[g]: the planner in use
  pre,      \* pre[g]: the HEAD that the snapshot before has read
  post,     \* post[g]: the one that the last snapshot after it has
  number,   \* number[g]: next_task_id
  slug,     \* slug[g]: the file name of the proposal, or NoSlug
  tasks,    \* the files of tasks/, each with the process that wrote it
  drafts,   \* ghost: every draft ever written, the overwritten ones too
  listed,   \* ghost: listed[g]: the drafts that the last snapshot could see
  slipped,  \* ghost: slipped[g]: the edits committed while it was taken
  offences, \* ghost: what planners did before their repository was compared
  history   \* ghost: the edits that a commit has made permanent

ghosts == <<listed, slipped, offences, history>>
goal == <<step, attempt, pre, post, number, slug, tasks, drafts, ghosts>>
vars == <<repository, workers, goal>>

NoSlug == "NO SLUG"
Step == {"idle", "snapshot", "number", "launch", "planning", "looking",
         "proposal", "write", "done", "killed"}

Init ==
  /\ WorkerInit
  /\ step = [g \in Generators |-> "idle"]
  /\ attempt = [g \in Generators |-> "primary"]
  /\ pre = [g \in Generators |-> NotSeen]
  /\ post = [g \in Generators |-> 0]
  /\ number = [g \in Generators |-> 0]
  /\ slug = [g \in Generators |-> NoSlug]
  /\ tasks = {}
  /\ drafts = {}
  /\ listed = [g \in Generators |-> {}]
  /\ slipped = [g \in Generators |-> {}]
  /\ offences = {}
  /\ history = {}

CallOf(g) == <<g, attempt[g]>>
Goto(g, s) == step' = [step EXCEPT ![g] = s]

\* The command ends, and its variables with it.  Its status is told by what it
\* leaves behind: DRAFT_CREATED by a draft, the other ones by none.
Leave(g, s) ==
  /\ Goto(g, s)
  /\ attempt' = [attempt EXCEPT ![g] = "primary"]
  /\ pre' = [pre EXCEPT ![g] = NotSeen]
  /\ post' = [post EXCEPT ![g] = 0]
  /\ number' = [number EXCEPT ![g] = 0]
  /\ slug' = [slug EXCEPT ![g] = NoSlug]
Finish(g) == Leave(g, "done")

\* The snapshot before: git rev-parse HEAD.
ReadHead(g) ==
  /\ step[g] = "idle"
  /\ \/ Finish(g)
     \/ /\ pre' = [pre EXCEPT ![g] = [head |-> head]]
        /\ Goto(g, "snapshot")
        /\ UNCHANGED <<attempt, post, number, slug>>
  /\ UNCHANGED <<repository, workers, tasks, drafts, ghosts>>

\* git status: the snapshot must be there and be clean.
TakeSnapshot(g) ==
  /\ step[g] = "snapshot"
  /\ \/ Finish(g)
     \/ /\ tree = {}
        /\ Goto(g, "number")
        /\ UNCHANGED <<attempt, pre, post, number, slug>>
  /\ UNCHANGED <<repository, workers, tasks, drafts, ghosts>>

\* assign_next_task_id(): one past the largest number in the directory.
Numbers == {f.number : f \in tasks}
NextFromZero == IF tasks = {} THEN 0 ELSE Max(Numbers) + 1 \* mutant: none found
NextNumber == Max({0} \cup Numbers) + 1

AssignNumber(g) ==
  /\ step[g] = "number"
  /\ number' = [number EXCEPT ![g] = NextNumber]
  /\ Goto(g, "launch")
  /\ UNCHANGED <<repository, workers, attempt, pre, post, slug, tasks, drafts, ghosts>>

Launch(g) ==
  /\ step[g] = "launch"
  /\ Goto(g, "planning")
  /\ StartWorker(CallOf(g)) \/ StartFails(CallOf(g))
  /\ UNCHANGED <<repository, attempt, pre, post, number, slug, tasks, drafts, ghosts>>

\* The planner has ended.  The snapshot after: git rev-parse HEAD, which sees the
\* drafts that are committed.
Uncommitted == {f \in tasks : <<f.number, f.slug>> \in Status}

LookAtHead(g) ==
  /\ step[g] = "planning"
  /\ call[CallOf(g)] = "ended"
  /\ \/ Finish(g) /\ UNCHANGED <<listed, slipped>>
     \/ /\ post' = [post EXCEPT ![g] = head]
        /\ Goto(g, "looking")
        /\ listed' = [listed EXCEPT ![g] = tasks \ Uncommitted]
        /\ slipped' = [slipped EXCEPT ![g] = {}]
        /\ UNCHANGED <<attempt, pre, number, slug>>
  /\ UNCHANGED <<repository, workers, tasks, drafts, offences, history>>

\* detect_repository_mutation(): the snapshot before was clean.
HeadMoved(g) == post[g] # pre[g].head \* mutant: the worktree is not looked at
Dirty(g) == tree # {}                 \* mutant: HEAD is not looked at
Mutated(g) == post[g] # pre[g].head \/ tree # {}

Succeeded(g) == reason[CallOf(g)] = "success"

\* _FALLBACK_ELIGIBLE, for one hop: a timeout or a cancellation is not.
MayFallBack(g) ==
  /\ g \in WithFallback
  /\ attempt[g] = "primary"
  /\ reason[CallOf(g)] = "unavailable"

\* git status, which sees the drafts that are not committed and may fail, and what
\* follows from the two snapshots.
Compare(g) ==
  /\ step[g] = "looking"
  /\ \/ /\ ~Mutated(g) /\ MayFallBack(g)
        /\ attempt' = [attempt EXCEPT ![g] = "fallback"]
        /\ Goto(g, "launch")
        /\ UNCHANGED <<pre, post, number, slug, listed>>
     \/ /\ ~Mutated(g) /\ Succeeded(g)
        /\ Goto(g, "proposal")
        /\ listed' = [listed EXCEPT ![g] = @ \cup Uncommitted]
        /\ UNCHANGED <<attempt, pre, post, number, slug>>
     \/ /\ Finish(g)
        /\ UNCHANGED listed
  /\ UNCHANGED <<repository, workers, tasks, drafts, slipped, offences, history>>

\* parse_planner_output(), validate_proposal() and task_path.exists().
Exists(n, s) == \E f \in tasks : f.number = n /\ f.slug = s

ReadProposal(g) ==
  /\ step[g] = "proposal"
  /\ \/ Finish(g)
     \/ \E s \in Slugs :
          /\ ~Exists(number[g], s)
          /\ slug' = [slug EXCEPT ![g] = s]
          /\ Goto(g, "write")
          /\ UNCHANGED <<attempt, pre, post, number>>
  /\ UNCHANGED <<repository, workers, tasks, drafts, ghosts>>

\* task_path.write_text() of the DRAFT, which replaces a file of the same name,
\* or fails.  A file that it leaves behind unfinished has the name of a draft and
\* counts as one.
WriteDraft(g) ==
  LET f == [number |-> number[g], slug |-> slug[g], author |-> g]
      path == <<f.number, f.slug>>
  IN /\ step[g] = "write"
     /\ Finish(g)
     /\ \/ UNCHANGED <<tasks, drafts, tree>>
        \/ /\ tasks' = {o \in tasks : <<o.number, o.slug>> # path} \cup {f}
           /\ drafts' = drafts \cup {f}
           /\ tree' = {e \in tree : e.path # path} \cup {[path |-> path, stamp |-> g]}
     /\ UNCHANGED <<head, edits, workers, ghosts>>

Kill(g) ==
  /\ step[g] \notin {"idle", "done", "killed"}
  /\ Leave(g, "killed")
  /\ Abandon(CallOf(g))
  /\ UNCHANGED <<tasks, drafts, ghosts>>

Generator(g) ==
  \/ ReadHead(g) \/ TakeSnapshot(g) \/ AssignNumber(g) \/ Launch(g)
  \/ LookAtHead(g) \/ Compare(g) \/ ReadProposal(g) \/ WriteDraft(g)
  \/ \E a \in Attempt : Caller(<<g, a>>) /\ UNCHANGED goal

-----------------------------------------------------------------------------
(* The planners at work, and the operator. *)

Stamps == {e.stamp : e \in tree}

\* A commit makes edits permanent; who is between the two commands of its last
\* snapshot does not see them.
Commits(stamps) ==
  /\ history' = history \cup stamps
  /\ slipped' = [g \in Generators |->
                  slipped[g] \cup IF step[g] = "looking" THEN stamps ELSE {}]

PlannerTouches(c) ==
  /\ Touch(c)
  /\ offences' = IF step[c[1]] \in {"launch", "planning", "looking"}
                 THEN offences \cup {[generator |-> c[1], stamp |-> edits']} ELSE offences
  /\ Commits(IF head' # head THEN Stamps \cup {edits'} ELSE {})
  /\ UNCHANGED <<step, attempt, pre, post, number, slug, tasks, drafts, listed>>

Planner(c) == (Exit(c) \/ Fork(c) \/ Interrupt(c)) /\ UNCHANGED goal

\* The operator commits what is in the tree.
Commit ==
  /\ tree # {}
  /\ head < MaxCommits
  /\ tree' = {}
  /\ head' = head + 1
  /\ Commits(Stamps)
  /\ UNCHANGED <<edits, workers, step, attempt, pre, post, number, slug, tasks, drafts,
                 listed, offences>>

Next ==
  \/ \E g \in Generators : Generator(g) \/ Kill(g)
  \/ \E c \in Calls : PlannerTouches(c) \/ Planner(c)
  \/ Commit

Spec == Init /\ [][Next]_vars

\* The commands are scheduled and a deadline comes; a planner need not ever end.
\* Every command has finitely many steps: that one of them goes on is enough.
FairSpec == Spec /\ WF_vars(\E g \in Generators : Generator(g))

-----------------------------------------------------------------------------
(* Properties. *)

Draft == [number : 1..Cardinality(Generators), slug : Slugs, author : Generators]

TypeOK ==
  /\ edits \in 0..MaxEdits
  /\ head \in 0..(MaxCommits + MaxEdits)
  /\ call \in [Calls -> CallStep]
  /\ reason \in [Calls -> Reason]
  /\ leader \in [Calls -> {"none", "alive", "exited"}]
  /\ child \in [Calls -> {"none", "dead"} \cup ChildAlive]
  /\ step \in [Generators -> Step]
  /\ attempt \in [Generators -> Attempt]
  /\ post \in [Generators -> 0..head]
  /\ number \in [Generators -> 0..Cardinality(Generators)]
  /\ slug \in [Generators -> Slugs \cup {NoSlug}]
  /\ tasks \subseteq drafts
  /\ drafts \subseteq Draft
  /\ listed \in [Generators -> SUBSET Draft]

(* Two drafts have one number only if neither generation could see the     *)
(* other's draft when it looked at the repository for the last time: one   *)
(* that is committed when it reads HEAD, or not committed when it reads    *)
(* the status, stops it (generate_goal_task() takes the number first and   *)
(* looks again later).  What an operator commits in between is not seen.   *)
SameNumberOnlyUnseen ==
  \A d, e \in drafts : d.number = e.number /\ d.author # e.author =>
    d \notin listed[e.author] /\ e \notin listed[d.author]

(* A generation whose planner, or whose fallback's predecessor, made a     *)
(* change before the comparison that is still in the working tree or was   *)
(* committed by anyone leaves no draft (detect_repository_mutation()),     *)
(* unless it was committed between the two commands of the last snapshot.  *)
DraftMeansNoOffence ==
  \A d \in drafts, o \in offences :
    d.author = o.generator /\ o.stamp \in history \cup Stamps =>
      o.stamp \in slipped[d.author]

(* Every generation ends, whatever its planner does with the output it     *)
(* inherited: nobody waits for that after a deadline.                      *)
GenerationEnds ==
  <>[](\A g \in Generators : step[g] \in {"idle", "done", "killed"})
=============================================================================
