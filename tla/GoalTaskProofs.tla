---------------------------- MODULE GoalTaskProofs ----------------------------
(***************************************************************************)
(* Proofs about GoalTask and the WorkerProcess it runs, for every finite   *)
(* set of generators and every bound.                                      *)
(***************************************************************************)
EXTENDS GoalTask, FiniteSetTheorems, TLAPS

-----------------------------------------------------------------------------
(***************************************************************************)
(* The inductive invariant                                                 *)
(***************************************************************************)

\* The statements of a generation, those of its planner, and those after the
\* last comparison of the repository.
Begun == {"snapshot", "number", "launch", "planning", "looking", "proposal", "write"}
Planning == {"launch", "planning", "looking"}
Compared == {"proposal", "write"}

\* A worker is known to be stopped before its call says so.
Stopped ==
  \A c \in Calls : call[c] = "stopped" \/ Terminated(c) =>
    leader[c] # "alive" /\ child[c] \notin InGroup

\* The evidence has the names of what was in the tree, and nothing else of it.
Witnessed ==
  \A c \in Calls : call[c] \in {"running", "grace", "stopped"} =>
    before[c].status = {e.path : e \in base[c]}

Shapes ==
  /\ before = [c \in Calls |-> before[c]]
  /\ base = [c \in Calls |-> base[c]]
  /\ pre = [g \in Generators |-> pre[g]]
  /\ slipped = [g \in Generators |-> slipped[g]]

WorkerInv == Stopped /\ Witnessed /\ RecoveryIsHonest

\* A generation writes one draft, the last thing it does.
OneDraft ==
  /\ \A d \in drafts : step[d.author] = "done"
  /\ \A d, e \in drafts : d.author = e.author => d = e

\* The stamps of edits are counted, and every commit.
Stamped ==
  /\ Stamps \cup history \subseteq Generators \cup 1..edits
  /\ offences \subseteq [generator : Generators, stamp : 1..edits]
  /\ head \leq MaxCommits + edits

\* What a generation has when it comes to a statement.
Equipped(g) ==
  /\ step[g] = "write" => slug[g] \in Slugs
  /\ step[g] \in Begun => pre[g].head \in 0..head

\* A number in use, or the next one if the numbers in use are 1..k.
Numbered(k, g) ==
  /\ number[g] \in 0..(k + 1)
  /\ step[g] \notin Begun => number[g] = 0
  /\ step[g] \in Planning \cup Compared => number[g] # 0

OffencesOf(g) == {o.stamp : o \in {x \in offences : x.generator = g}}

\* What a planner has done is found again: in the tree, or by the head if it is
\* gone from there, until the generation has looked at both.  Only what is committed
\* between the two looks slips through.
Noticed(g) ==
  /\ step[g] \in {"idle", "snapshot", "number"} => OffencesOf(g) = {}
  /\ step[g] \in Planning => head > pre[g].head \/ OffencesOf(g) \cap history = {}
  /\ step[g] = "looking" =>
       HeadMoved(g) \/ OffencesOf(g) \cap history \subseteq slipped[g]
  /\ step[g] \in Compared => OffencesOf(g) \cap (history \cup Stamps) \subseteq slipped[g]

\* A draft written since the number was taken is found in the same way.
Placed(g, f) == f.number < number[g] \/ <<f.number, f.slug>> \in Status \/ head > pre[g].head
Overtaken(g) ==
  /\ step[g] \in Planning => \A f \in tasks : Placed(g, f)
  /\ step[g] = "looking" => HeadMoved(g) \/ \A f \in listed[g] : f.number < number[g]
  /\ step[g] \in Compared => \A f \in listed[g] : f.number < number[g]

Ready(k, g) == Equipped(g) /\ Numbered(k, g) /\ Noticed(g) /\ Overtaken(g)
Generations == \E k \in Nat : Numbers = 1..k /\ \A g \in Generators : Ready(k, g)

\* A draft has a larger number than whatever its generation has listed.
Larger == \A d \in drafts : \A f \in listed[d.author] : f.number < d.number

IInv ==
  /\ TypeOK /\ Shapes /\ WorkerInv
  /\ OneDraft /\ Stamped /\ Generations /\ Larger /\ DraftMeansNoOffence

\* The steps of the module: those of a generation, of a call and of its worker,
\* of a planner that touches the repository, and of the operator.
Works(c) == Caller(c) \/ Exit(c) \/ Fork(c) \/ Interrupt(c)
Moves ==
  \/ \E g \in Generators : ReadHead(g)
  \/ \E g \in Generators : TakeSnapshot(g)
  \/ \E g \in Generators : AssignNumber(g)
  \/ \E g \in Generators : Launch(g)
  \/ \E g \in Generators : LookAtHead(g)
  \/ \E g \in Generators : Compare(g)
  \/ \E g \in Generators : ReadProposal(g)
  \/ \E g \in Generators : WriteDraft(g)
  \/ \E g \in Generators : Kill(g)
  \/ \E c \in Calls : Works(c) /\ UNCHANGED goal
  \/ \E c \in Calls : PlannerTouches(c)
  \/ Commit
  \/ UNCHANGED vars

LEMMA NextMoves ==
  ASSUME [Next]_vars
  PROVE  Moves
<1>1. \A g \in Generators, a \in Attempt : <<g, a>> \in Calls
  BY CallsAssumption
<1> QED BY <1>1 DEF Next, Generator, Planner, Works, Moves

LEMMA CallInCalls ==
  ASSUME TypeOK, NEW g \in Generators
  PROVE  CallOf(g) \in Calls
BY CallsAssumption DEF CallOf, TypeOK

-----------------------------------------------------------------------------
(***************************************************************************)
(* The calls and their workers                                             *)
(***************************************************************************)

CallTypes ==
  /\ call \in [Calls -> CallStep]
  /\ reason \in [Calls -> Reason]
  /\ leader \in [Calls -> {"none", "alive", "exited"}]
  /\ child \in [Calls -> {"none", "dead"} \cup ChildAlive]
CallShapes ==
  /\ before = [c \in Calls |-> before[c]]
  /\ base = [c \in Calls |-> base[c]]
CallInv == CallTypes /\ CallShapes /\ WorkerInv

\* A worker is started, or is not.
LEMMA LaunchCall ==
  ASSUME CallInv, NEW c \in Calls, StartWorker(c) \/ StartFails(c)
  PROVE  CallInv'
<1>1. CASE StartWorker(c)
  <2>1. CallTypes'
    BY <1>1 DEF StartWorker, CallInv, CallTypes, CallStep
  <2>2. CallShapes'
    BY <1>1 DEF StartWorker, CallInv, CallShapes
  <2>3. Stopped'
    BY <1>1 DEF StartWorker, CallInv, CallTypes, WorkerInv, Stopped, Terminated
  <2>4. before'[c].status = {e.path : e \in base'[c]}
    BY <1>1 DEF StartWorker, CallInv, CallShapes, Seen, Status
  <2>5. \A d \in Calls \ {c} : call'[d] = call[d] /\ before'[d] = before[d] /\ base'[d] = base[d]
    BY <1>1 DEF StartWorker, CallInv, CallTypes, CallShapes
  <2>6. Witnessed'
    BY <2>4, <2>5 DEF CallInv, WorkerInv, Witnessed
  <2>7. RecoveryIsHonest'
    BY <1>1 DEF StartWorker, CallInv, WorkerInv, RecoveryIsHonest
  <2> QED BY <2>1, <2>2, <2>3, <2>6, <2>7 DEF CallInv, WorkerInv
<1>2. CASE StartFails(c)
  <2>1. PICK r \in {"unavailable", "failure"} : EndCall(c, r) /\ UNCHANGED <<leader, child, evidence>>
    BY <1>2 DEF StartFails
  <2>2. CallTypes'
    BY <2>1 DEF EndCall, CallInv, CallTypes, CallStep, Reason, ExitReason
  <2>3. CallShapes' /\ RecoveryIsHonest'
    BY <2>1 DEF evidence, CallInv, CallShapes, WorkerInv, RecoveryIsHonest
  <2>4. Stopped'
    BY <2>1 DEF EndCall, CallInv, CallTypes, WorkerInv, Stopped, Terminated
  <2>5. Witnessed'
    BY <2>1 DEF EndCall, evidence, CallInv, CallTypes, WorkerInv, Witnessed
  <2> QED BY <2>2, <2>3, <2>4, <2>5 DEF CallInv, WorkerInv
<1> QED BY <1>1, <1>2

\* A deadline, Ctrl-C, or a worker that goes on: nothing is compared.
LEMMA WorkCall ==
  ASSUME CallInv, NEW c \in Calls, Deadline(c) \/ Interrupt(c) \/ KillGroup(c) \/ Exit(c) \/ Fork(c)
  PROVE  CallInv'
<1>1. CASE Deadline(c) \/ Interrupt(c)
  <2>1. PICK r \in {"timeout", "cancelled"} : StopFor(c, r)
    BY <1>1 DEF Deadline, Interrupt
  <2>2. CallTypes'
    BY <2>1 DEF StopFor, CallInv, CallTypes, CallStep, Reason
  <2>3. UNCHANGED evidence /\ call' = [call EXCEPT ![c] = "grace"] /\ call[c] = "running"
    BY <2>1 DEF StopFor
  <2>4. \A d \in Calls \ {c} : /\ call'[d] = call[d] /\ reason'[d] = reason[d]
                               /\ leader'[d] = leader[d] /\ child'[d] = child[d]
    BY <2>1 DEF StopFor, CallInv, CallTypes
  <2>5. Stopped'
    BY <2>3, <2>4 DEF CallInv, CallTypes, WorkerInv, Stopped, Terminated
  <2>6. CallShapes' /\ Witnessed' /\ RecoveryIsHonest'
    BY <2>3 DEF evidence, CallInv, CallTypes, CallShapes, WorkerInv, Witnessed, RecoveryIsHonest
  <2> QED BY <2>2, <2>5, <2>6 DEF CallInv, WorkerInv
<1>2. CASE KillGroup(c)
  <2>1. CallTypes'
    BY <1>2 DEF KillGroup, CallInv, CallTypes, CallStep
  <2>2. leader'[c] = "exited" /\ child'[c] \notin InGroup
    BY <1>2 DEF KillGroup, CallInv, CallTypes, KilledChildren, InGroup
  <2>3. \A d \in Calls \ {c} : /\ call'[d] = call[d] /\ reason'[d] = reason[d]
                               /\ leader'[d] = leader[d] /\ child'[d] = child[d]
    BY <1>2 DEF KillGroup, CallInv, CallTypes
  <2>4. Stopped'
    BY <2>2, <2>3 DEF CallInv, WorkerInv, Stopped, Terminated
  <2>5. CallShapes' /\ Witnessed' /\ RecoveryIsHonest'
    BY <1>2 DEF KillGroup, evidence, CallInv, CallTypes, CallShapes, WorkerInv, Witnessed,
                RecoveryIsHonest
  <2> QED BY <2>1, <2>4, <2>5 DEF CallInv, WorkerInv
<1>3. CASE Exit(c) \/ Fork(c)
  <2>1. UNCHANGED <<call, reason, evidence>>
    BY <1>3 DEF Exit, Fork
  <2>2. CallTypes'
    BY <1>3 DEF Exit, Fork, CallInv, CallTypes
  <2>3. CallShapes' /\ Witnessed' /\ RecoveryIsHonest'
    BY <2>1 DEF evidence, CallInv, CallShapes, WorkerInv, Witnessed, RecoveryIsHonest
  <2>4. Stopped'
    <3>1. CASE Exit(c)
      BY <2>1, <3>1 DEF Exit, CallInv, CallTypes, WorkerInv, Stopped, Terminated, InGroup
    <3>2. CASE Fork(c)
      BY <2>1, <3>2 DEF Fork, CallInv, CallTypes, WorkerInv, Stopped, Terminated
    <3> QED BY <1>3, <3>1, <3>2
  <2> QED BY <2>2, <2>3, <2>4 DEF CallInv, WorkerInv
<1> QED BY <1>1, <1>2, <1>3

\* A call ends by itself, or is abandoned.
LEMMA LeaveCall ==
  ASSUME CallInv, NEW c \in Calls, Complete(c) \/ Abandon(c)
  PROVE  CallInv'
<1>1. Forget(c) /\ UNCHANGED advised
  BY DEF Complete, Abandon
<1>2. CallTypes'
  BY DEF Complete, Abandon, EndCall, CallInv, CallTypes, CallStep, Reason, ExitReason
<1>3. CallShapes' /\ RecoveryIsHonest'
  BY <1>1 DEF Forget, CallInv, CallShapes, WorkerInv, RecoveryIsHonest
<1>4. Stopped'
  BY DEF Complete, Abandon, EndCall, CallInv, CallTypes, WorkerInv, Stopped, Terminated, ExitReason
<1>5. \A d \in Calls \ {c} : call'[d] = call[d] /\ before'[d] = before[d] /\ base'[d] = base[d]
  BY DEF Complete, Abandon, EndCall, Forget, CallInv, CallTypes, CallShapes
<1>6. call'[c] \notin {"running", "grace", "stopped"}
  BY DEF Complete, Abandon, EndCall, CallInv, CallTypes
<1>7. Witnessed'
  BY <1>5, <1>6 DEF CallInv, WorkerInv, Witnessed
<1> QED BY <1>2, <1>3, <1>4, <1>7 DEF CallInv, WorkerInv

\* A result says to resume when the names before and after are the same ones, so
\* that whatever differs has a name that was there before.
LEMMA ReportCall ==
  ASSUME CallInv, NEW c \in Calls, Report(c)
  PROVE  CallInv'
<1>1. /\ call[c] = "stopped" /\ call' = [call EXCEPT ![c] = "ended"]
      /\ reason' = [reason EXCEPT ![c] = reason[c]]
      /\ UNCHANGED <<leader, child>> /\ Forget(c)
  BY DEF Report, CanReport, EndCall
<1>2. CallTypes'
  BY <1>1 DEF CallInv, CallTypes, CallStep
<1>3. CallShapes'
  BY <1>1 DEF Forget, CallInv, CallShapes
<1>4. Stopped'
  BY <1>1 DEF CallInv, CallTypes, WorkerInv, Stopped, Terminated
<1>5. Witnessed'
  BY <1>1 DEF Forget, CallInv, CallTypes, CallShapes, WorkerInv, Witnessed
<1>6. CASE UNCHANGED advised
  <2>1. RecoveryIsHonest'
    BY <1>6 DEF CallInv, WorkerInv, RecoveryIsHonest
  <2> QED BY <1>2, <1>3, <1>4, <1>5, <2>1 DEF CallInv, WorkerInv
<1>7. CASE ~UNCHANGED advised
  <2> DEFINE r == [base |-> base[c], content |-> tree]
  <2>1. /\ \E seen \in {before[c], Ambiguous}, again \in {Seen, Ambiguous} : Unchanged(seen, again)
        /\ advised' = advised \cup {r}
    BY <1>7 DEF Report
  <2>2. before[c] = Seen
    BY <2>1 DEF Unchanged
  <2>3. Status = {e.path : e \in base[c]}
    BY <1>1, <2>2 DEF Seen, CallInv, WorkerInv, Witnessed
  <2>4. r.base = base[c] /\ r.content = tree
    OBVIOUS
  <2> HIDE DEF r
  <2>5. \A e \in (r.content \ r.base) \cup (r.base \ r.content) : \E d \in r.base : d.path = e.path
    BY <2>3, <2>4 DEF Status
  <2>6. RecoveryIsHonest'
    BY <2>1, <2>5 DEF CallInv, WorkerInv, RecoveryIsHonest
  <2> QED BY <1>2, <1>3, <1>4, <1>5, <2>6 DEF CallInv, WorkerInv
<1> QED BY <1>6, <1>7

LEMMA CallStepKeeps ==
  ASSUME IInv, Moves
  PROVE  CallInv'
<1>1. CallInv /\ TypeOK
  BY DEF IInv, TypeOK, Shapes, CallInv, CallTypes, CallShapes
<1>2. CASE UNCHANGED workers
  BY <1>1, <1>2 DEF workers, evidence, CallInv, CallTypes, CallShapes, WorkerInv, Stopped,
                    Terminated, Witnessed, RecoveryIsHonest
<1>3. ASSUME NEW g \in Generators, Launch(g) PROVE CallInv'
  BY <1>1, <1>3, LaunchCall, CallInCalls DEF Launch
<1>4. ASSUME NEW g \in Generators, Kill(g) PROVE CallInv'
  BY <1>1, <1>4, LeaveCall, CallInCalls DEF Kill
<1>5. ASSUME NEW c \in Calls, Works(c) PROVE CallInv'
  BY <1>1, <1>5, WorkCall, LeaveCall, ReportCall DEF Works, Caller
<1> QED
  BY <1>2, <1>3, <1>4, <1>5 DEF Moves, ReadHead, TakeSnapshot, AssignNumber, LookAtHead, Compare,
       ReadProposal, WriteDraft, PlannerTouches, Touch, Commit, vars

-----------------------------------------------------------------------------
(***************************************************************************)
(* The numbers                                                             *)
(***************************************************************************)

\* What the invariant says of the generations, and the rest of the type.
GenTypes ==
  /\ edits \in 0..MaxEdits
  /\ head \in 0..(MaxCommits + MaxEdits)
  /\ step \in [Generators -> Step]
  /\ attempt \in [Generators -> Attempt]
  /\ number \in [Generators -> 0..Cardinality(Generators)]
  /\ slug \in [Generators -> Slugs \cup {NoSlug}]
  /\ tasks \subseteq drafts
  /\ drafts \subseteq Draft
  /\ post \in [Generators -> 0..head]
  /\ listed \in [Generators -> SUBSET Draft]
  /\ slipped = [g \in Generators |-> slipped[g]]
  /\ pre = [g \in Generators |-> pre[g]]
GenInv ==
  GenTypes /\ OneDraft /\ Stamped /\ Generations /\ Larger /\ DraftMeansNoOffence

LEMMA TwoParts == IInv <=> CallInv /\ GenInv
BY DEF IInv, TypeOK, Shapes, CallInv, CallTypes, CallShapes, GenInv, GenTypes

\* assign_next_task_id() returns the number after the last one.
LEMMA NextIsFree ==
  ASSUME NEW k \in Nat, Numbers = 1..k
  PROVE  NextNumber = k + 1
<1> DEFINE S == {0} \cup Numbers
           m == CHOOSE x \in S : \A y \in S : x >= y
<1>1. k \in S /\ \A y \in S : y \in Nat /\ k >= y
  OBVIOUS
<1>2. m \in S /\ \A y \in S : m >= y
  BY <1>1
<1>3. m \in Nat /\ m >= k /\ k >= m
  BY <1>1, <1>2
<1>4. m = k
  BY <1>3
<1>5. NextNumber = m + 1
  BY DEF NextNumber, Max
<1> QED BY <1>4, <1>5

\* The drafts are by different generations, and not by one that is still going on.
LEMMA RoomForOne ==
  ASSUME GenTypes, OneDraft, NEW k \in Nat, Numbers = 1..k,
         NEW g \in Generators, step[g] # "done"
  PROVE  k + 1 \leq Cardinality(Generators)
<1> DEFINE G == Generators \ {g}
           author == [d \in tasks |-> d.author]
           numbered == [d \in tasks |-> d.number]
<1>1. IsFiniteSet(G) /\ Cardinality(G) = Cardinality(Generators) - 1
      /\ Cardinality(Generators) \in Nat
  BY GeneratorsAssumption, FS_RemoveElement, FS_CardinalityType
<1>2. \A d \in tasks : d.author \in G
  BY DEF GenTypes, OneDraft, Draft
<1>3. \A d, e \in tasks : d.author = e.author => d = e
  BY DEF GenTypes, OneDraft
<1> HIDE DEF G
<1>4. author \in Injection(tasks, G)
  BY <1>2, <1>3 DEF Injection, IsInjective
<1>5. IsFiniteSet(tasks) /\ Cardinality(tasks) \leq Cardinality(G)
  BY <1>1, <1>4, FS_Injection
<1>6. /\ \A d \in tasks : d.number \in 1..k
      /\ \A n \in 1..k : \E d \in tasks : d.number = n
  BY DEF Numbers
<1>7. numbered \in Surjection(tasks, 1..k)
  BY <1>6 DEF Surjection
<1>8. Cardinality(1..k) \leq Cardinality(tasks)
  BY <1>5, <1>7, FS_Surjection
<1>9. Cardinality(1..k) = k
  BY FS_Interval
<1>10. Cardinality(tasks) \in Nat /\ Cardinality(G) \in Nat
  BY <1>1, <1>5, FS_CardinalityType
<1> HIDE DEF author, numbered
<1> QED BY <1>1, <1>5, <1>8, <1>9, <1>10

-----------------------------------------------------------------------------
(***************************************************************************)
(* The statements of a generation                                          *)
(***************************************************************************)

\* A statement of one generation changes nothing of another one.
Alters(g) ==
  \A h \in Generators \ {g} :
    /\ step'[h] = step[h] /\ pre'[h] = pre[h] /\ number'[h] = number[h]
    /\ slug'[h] = slug[h] /\ listed'[h] = listed[h]
    /\ post'[h] = post[h] /\ slipped'[h] = slipped[h]

\* It changes nothing that the generations share, before it writes its draft.
Private == UNCHANGED <<repository, tasks, drafts, offences, history>>

LEMMA SameReady ==
  ASSUME NEW g \in Generators, NEW k, Private, Ready(k, g),
         step'[g] = step[g], pre'[g] = pre[g], number'[g] = number[g],
         slug'[g] = slug[g], listed'[g] = listed[g], post'[g] = post[g],
         slipped'[g] = slipped[g]
  PROVE  Ready(k, g)'
BY DEF Private, repository, Ready, Equipped, Numbered, Noticed, Overtaken, Placed, OffencesOf,
       HeadMoved, Status, Stamps

LEMMA ControlKeeps ==
  ASSUME GenInv, NEW g \in Generators, step[g] # "done", Private, Alters(g), GenTypes',
         \A k \in Nat : Numbers = 1..k /\ Ready(k, g) => Ready(k, g)'
  PROVE  GenInv'
<1>1. drafts' = drafts /\ \A d \in drafts : d.author \in Generators \ {g}
  BY DEF GenInv, GenTypes, OneDraft, Draft, Private
<1>2. OneDraft'
  BY <1>1 DEF GenInv, OneDraft, Alters
<1>3. Stamped'
  BY DEF Private, repository, GenInv, Stamped, Stamps
<1>4. Larger'
  BY <1>1 DEF GenInv, Larger, Alters
<1>5. DraftMeansNoOffence'
  BY <1>1 DEF Private, repository, GenInv, DraftMeansNoOffence, Stamps, Alters
<1>6. Generations'
  <2>1. PICK k \in Nat : Numbers = 1..k /\ \A h \in Generators : Ready(k, h)
    BY DEF GenInv, Generations
  <2>2. Numbers' = 1..k
    BY <2>1 DEF Private, Numbers
  <2>3. \A h \in Generators : Ready(k, h)'
    <3> SUFFICES ASSUME NEW h \in Generators PROVE Ready(k, h)'
      OBVIOUS
    <3>1. CASE h = g
      BY <2>1, <3>1
    <3>2. CASE h # g
      BY <2>1, <3>2, SameReady DEF Alters
    <3> QED BY <3>1, <3>2
  <2> QED BY <2>2, <2>3 DEF Generations
<1> QED BY <1>2, <1>3, <1>4, <1>5, <1>6 DEF GenInv

\* The command ends, whatever it has reached.
LEMMA LeaveKeeps ==
  ASSUME GenInv, NEW g \in Generators, step[g] # "done", NEW s \in {"done", "killed"},
         Leave(g, s), Private, UNCHANGED <<listed, slipped>>
  PROVE  GenInv'
<1>1. GenTypes'
  <2>1. 0 \in 0..Cardinality(Generators)
    BY GeneratorsAssumption, FS_CardinalityType
  <2>2. 0 \in 0..head
    BY WorkerBoundsAssumption, CommitsAssumption DEF GenInv, GenTypes
  <2> QED BY <2>1, <2>2 DEF Leave, Goto, Private, repository, GenInv, GenTypes, Step, Attempt
<1>2. Alters(g)
  BY DEF Leave, Goto, GenInv, GenTypes, Alters
<1>3. step'[g] = s /\ number'[g] = 0
  BY DEF Leave, Goto, GenInv, GenTypes
<1>4. \A k \in Nat : Ready(k, g)'
  BY <1>3 DEF Ready, Equipped, Numbered, Noticed, Overtaken, Begun, Planning, Compared
<1> QED BY <1>1, <1>2, <1>4, ControlKeeps

LEMMA ReadHeadKeeps ==
  ASSUME GenInv, NEW g \in Generators, ReadHead(g)
  PROVE  GenInv'
<1>1. step[g] = "idle" /\ Private /\ UNCHANGED <<listed, slipped>>
  BY DEF ReadHead, Private, ghosts
<1>2. CASE Finish(g)
  BY <1>1, <1>2, LeaveKeeps DEF Finish
<1>3. CASE ~Finish(g)
  <2>1. /\ pre' = [pre EXCEPT ![g] = [head |-> head]] /\ step' = [step EXCEPT ![g] = "snapshot"]
        /\ UNCHANGED <<attempt, post, number, slug>>
    BY <1>3 DEF ReadHead, Goto
  <2>2. GenTypes'
    BY <1>1, <2>1 DEF Private, repository, GenInv, GenTypes, Step
  <2>3. Alters(g)
    BY <1>1, <2>1 DEF GenInv, GenTypes, Alters
  <2>4. step'[g] = "snapshot" /\ pre'[g].head = head /\ head \in Nat /\ head' = head
    BY <1>1, <2>1 DEF Private, repository, GenInv, GenTypes
  <2>5. ASSUME NEW k \in Nat, Ready(k, g) PROVE Ready(k, g)'
    <3>1. Equipped(g)'
      BY <2>4 DEF Equipped
    <3>2. Numbered(k, g)'
      BY <1>1, <2>1, <2>4, <2>5 DEF Ready, Numbered, Planning, Compared, Begun
    <3>3. Noticed(g)' /\ Overtaken(g)'
      BY <1>1, <2>4, <2>5 DEF Private, Ready, Noticed, Overtaken, OffencesOf, Planning, Compared
    <3> QED BY <3>1, <3>2, <3>3 DEF Ready
  <2> QED BY <1>1, <2>2, <2>3, <2>5, ControlKeeps
<1> QED BY <1>2, <1>3

LEMMA TakeSnapshotKeeps ==
  ASSUME GenInv, NEW g \in Generators, TakeSnapshot(g)
  PROVE  GenInv'
<1>1. step[g] = "snapshot" /\ Private /\ UNCHANGED <<listed, slipped>>
  BY DEF TakeSnapshot, Private, ghosts
<1>2. CASE Finish(g)
  BY <1>1, <1>2, LeaveKeeps DEF Finish
<1>3. CASE ~Finish(g)
  <2>1. step' = [step EXCEPT ![g] = "number"] /\ UNCHANGED <<attempt, pre, post, number, slug>>
    BY <1>3 DEF TakeSnapshot, Goto
  <2>2. GenTypes' /\ Alters(g)
    BY <1>1, <2>1 DEF Private, repository, GenInv, GenTypes, Alters, Step
  <2>3. step'[g] = "number"
    BY <2>1 DEF GenInv, GenTypes
  <2>4. ASSUME NEW k \in Nat, Ready(k, g) PROVE Ready(k, g)'
    BY <1>1, <2>1, <2>3, <2>4 DEF Private, repository, Ready, Equipped, Numbered, Noticed,
       Overtaken, OffencesOf, Begun, Planning, Compared
  <2> QED BY <1>1, <2>2, <2>4, ControlKeeps
<1> QED BY <1>2, <1>3

\* The number taken is the next one, and every file has a smaller one.
LEMMA AssignNumberKeeps ==
  ASSUME GenInv, NEW g \in Generators, AssignNumber(g)
  PROVE  GenInv'
<1>1. /\ step[g] = "number" /\ Private /\ UNCHANGED <<listed, slipped>>
      /\ number' = [number EXCEPT ![g] = NextNumber] /\ step' = [step EXCEPT ![g] = "launch"]
      /\ UNCHANGED <<attempt, pre, post, slug>>
  BY DEF AssignNumber, Private, ghosts, Goto
<1>2. PICK k \in Nat : Numbers = 1..k /\ \A h \in Generators : Ready(k, h)
  BY DEF GenInv, Generations
<1>3. NextNumber = k + 1 /\ k + 1 \leq Cardinality(Generators) /\ Cardinality(Generators) \in Nat
  BY <1>1, <1>2, NextIsFree, RoomForOne, GeneratorsAssumption, FS_CardinalityType DEF GenInv
<1>4. GenTypes'
  BY <1>1, <1>3 DEF Private, repository, GenInv, GenTypes, Step
<1>5. Alters(g)
  BY <1>1 DEF GenInv, GenTypes, Alters
<1>6. step'[g] = "launch" /\ number'[g] = k + 1
  BY <1>1, <1>3 DEF GenInv, GenTypes
<1>7. ASSUME NEW j \in Nat, Numbers = 1..j, Ready(j, g) PROVE Ready(j, g)'
  <2>1. NextNumber = j + 1 /\ number'[g] = j + 1
    BY <1>7, <1>3, <1>6, NextIsFree
  <2>2. Equipped(g)'
    BY <1>1, <1>6, <1>7 DEF Private, repository, Ready, Equipped, Begun
  <2>3. Numbered(j, g)'
    BY <1>6, <2>1 DEF Numbered, Begun
  <2>4. Noticed(g)'
    <3>1. OffencesOf(g)' = {}
      BY <1>1, <1>7 DEF Private, Ready, Noticed, OffencesOf
    <3> QED BY <1>6, <3>1 DEF Noticed, Compared
  <2>5. Overtaken(g)'
    <3>1. \A f \in tasks' : f.number \in 1..j
      BY <1>1, <1>7 DEF Private, Numbers
    <3>2. \A f \in tasks' : Placed(g, f)'
      BY <2>1, <3>1 DEF Placed
    <3> QED BY <1>6, <3>2 DEF Overtaken, Compared
  <2> QED BY <2>2, <2>3, <2>4, <2>5 DEF Ready
<1> QED BY <1>1, <1>4, <1>5, <1>7, ControlKeeps

LEMMA LaunchKeeps ==
  ASSUME GenInv, NEW g \in Generators, Launch(g)
  PROVE  GenInv'
<1>1. /\ step[g] = "launch" /\ Private /\ UNCHANGED <<listed, slipped>>
      /\ step' = [step EXCEPT ![g] = "planning"]
      /\ UNCHANGED <<attempt, pre, post, number, slug>>
  BY DEF Launch, Private, ghosts, Goto
<1>2. GenTypes' /\ Alters(g)
  BY <1>1 DEF Private, repository, GenInv, GenTypes, Alters, Step
<1>3. step'[g] = "planning"
  BY <1>1 DEF GenInv, GenTypes
<1>4. ASSUME NEW k \in Nat, Ready(k, g) PROVE Ready(k, g)'
  BY <1>1, <1>3, <1>4 DEF Private, repository, Ready, Equipped, Numbered, Noticed, Overtaken,
     Placed, OffencesOf, Status, Begun, Planning, Compared
<1> QED BY <1>1, <1>2, <1>4, ControlKeeps

\* A HEAD that has not moved tells that no offence is committed, and that every
\* draft that is has a smaller number.
LEMMA HeadAtRest ==
  ASSUME GenInv, NEW g \in Generators, NEW k \in Nat, Ready(k, g),
         step[g] = "planning", head = pre[g].head
  PROVE  /\ OffencesOf(g) \cap history = {}
         /\ \A f \in tasks \ Uncommitted : f.number < number[g]
<1>1. ~(head > pre[g].head) /\ step[g] \in Planning
  BY DEF GenInv, GenTypes, Planning
<1>2. OffencesOf(g) \cap history = {} /\ \A f \in tasks : Placed(g, f)
  BY <1>1 DEF Ready, Noticed, Overtaken
<1> QED BY <1>1, <1>2 DEF Placed, Uncommitted

LEMMA LookAtHeadKeeps ==
  ASSUME GenInv, NEW g \in Generators, LookAtHead(g)
  PROVE  GenInv'
<1>1. step[g] = "planning" /\ Private
  BY DEF LookAtHead, Private
<1>2. CASE Finish(g) /\ UNCHANGED <<listed, slipped>>
  BY <1>1, <1>2, LeaveKeeps DEF Finish
<1>3. CASE /\ UNCHANGED <<attempt, pre, number, slug>>
           /\ post' = [post EXCEPT ![g] = head]
           /\ step' = [step EXCEPT ![g] = "looking"]
           /\ listed' = [listed EXCEPT ![g] = tasks \ Uncommitted]
           /\ slipped' = [slipped EXCEPT ![g] = {}]
  <2>1. tasks \ Uncommitted \subseteq Draft
    BY DEF GenInv, GenTypes
  <2>2. head \in 0..head
    BY DEF GenInv, GenTypes
  <2>3. GenTypes'
    BY <1>1, <1>3, <2>1, <2>2 DEF Private, repository, GenInv, GenTypes, Step
  <2>4. Alters(g)
    BY <1>3 DEF GenInv, GenTypes, Alters
  <2>5. /\ step'[g] = "looking" /\ post'[g] = head /\ pre'[g] = pre[g] /\ number'[g] = number[g]
        /\ listed'[g] = tasks \ Uncommitted
    BY <1>3 DEF GenInv, GenTypes
  <2>6. ASSUME NEW k \in Nat, Ready(k, g) PROVE Ready(k, g)'
    <3>1. Equipped(g)' /\ Numbered(k, g)'
      BY <1>1, <1>3, <2>5, <2>6 DEF Private, repository, Ready, Equipped, Numbered, Begun,
         Planning, Compared
    <3>2. /\ head > pre[g].head \/ OffencesOf(g) \cap history = {}
          /\ \A f \in tasks : Placed(g, f)
      BY <1>1, <2>6 DEF Ready, Noticed, Overtaken, Planning
    <3>3. OffencesOf(g)' = OffencesOf(g) /\ UNCHANGED <<head, history, tasks, Status>>
      BY <1>1 DEF Private, repository, OffencesOf, Status
    <3>4. CASE head = pre[g].head
      <4>1. /\ OffencesOf(g) \cap history = {}
            /\ \A f \in tasks \ Uncommitted : f.number < number[g]
        BY <1>1, <2>6, <3>4, HeadAtRest
      <4>2. Noticed(g)'
        BY <2>5, <3>3, <4>1 DEF Noticed, Compared
      <4>3. Overtaken(g)'
        BY <2>5, <3>2, <3>3, <4>1 DEF Overtaken, Placed, Compared
      <4> QED BY <3>1, <4>2, <4>3 DEF Ready
    <3>5. CASE head # pre[g].head
      <4>1. HeadMoved(g)'
        BY <2>5, <3>5 DEF HeadMoved
      <4>2. Noticed(g)'
        BY <2>5, <3>2, <3>3, <4>1 DEF Noticed, Compared
      <4>3. Overtaken(g)'
        BY <2>5, <3>2, <3>3, <4>1 DEF Overtaken, Placed, Compared
      <4> QED BY <3>1, <4>2, <4>3 DEF Ready
    <3> QED BY <3>4, <3>5
  <2> QED BY <1>1, <2>3, <2>4, <2>6, ControlKeeps
<1> QED BY <1>2, <1>3 DEF LookAtHead, Goto

\* What a clean comparison tells: of the offences only those that were committed
\* between the two looks are still to be found, and what is listed has a smaller number.
LEMMA CleanComparison ==
  ASSUME GenInv, NEW g \in Generators, NEW k \in Nat, Ready(k, g),
         step[g] = "looking", ~Mutated(g)
  PROVE  /\ OffencesOf(g) \cap history \subseteq slipped[g] /\ Stamps = {} /\ Uncommitted = {}
         /\ \A f \in listed[g] : f.number < number[g]
<1>1. ~HeadMoved(g) /\ tree = {}
  BY DEF Mutated, HeadMoved
<1>2. Status = {} /\ Stamps = {}
  BY <1>1 DEF Status, Stamps
<1>3. /\ OffencesOf(g) \cap history \subseteq slipped[g]
      /\ \A f \in listed[g] : f.number < number[g]
  BY <1>1 DEF Ready, Noticed, Overtaken
<1> QED BY <1>2, <1>3 DEF Uncommitted

LEMMA CompareKeeps ==
  ASSUME GenInv, NEW g \in Generators, Compare(g)
  PROVE  GenInv'
<1>1. step[g] = "looking" /\ Private /\ slipped' = slipped
  BY DEF Compare, Private
<1>2. CASE Finish(g) /\ UNCHANGED listed
  BY <1>1, <1>2, LeaveKeeps DEF Finish
<1>3. CASE /\ ~Mutated(g) /\ UNCHANGED <<pre, post, number, slug, listed>>
           /\ attempt' = [attempt EXCEPT ![g] = "fallback"]
           /\ step' = [step EXCEPT ![g] = "launch"]
  <2>1. GenTypes' /\ Alters(g)
    BY <1>1, <1>3 DEF Private, repository, GenInv, GenTypes, Alters, Step, Attempt
  <2>2. step'[g] = "launch"
    BY <1>3 DEF GenInv, GenTypes
  <2>3. ASSUME NEW k \in Nat, Ready(k, g) PROVE Ready(k, g)'
    BY <1>1, <1>3, <2>2, <2>3 DEF Private, repository, Ready, Equipped, Numbered, Noticed,
       Overtaken, Placed, OffencesOf, Status, Begun, Planning, Compared
  <2> QED BY <1>1, <2>1, <2>3, ControlKeeps
<1>4. CASE /\ ~Mutated(g) /\ UNCHANGED <<attempt, pre, post, number, slug>>
           /\ listed' = [listed EXCEPT ![g] = @ \cup Uncommitted]
           /\ step' = [step EXCEPT ![g] = "proposal"]
  <2>1. Uncommitted \subseteq Draft
    BY DEF GenInv, GenTypes, Uncommitted
  <2>2. GenTypes' /\ Alters(g)
    BY <1>1, <1>4, <2>1 DEF Private, repository, GenInv, GenTypes, Alters, Step
  <2>3. step'[g] = "proposal" /\ listed'[g] = listed[g] \cup Uncommitted
    BY <1>4 DEF GenInv, GenTypes
  <2>4. ASSUME NEW k \in Nat, Ready(k, g) PROVE Ready(k, g)'
    <3>1. Equipped(g)'
      BY <1>1, <1>4, <2>3, <2>4 DEF Private, repository, Ready, Equipped, Begun
    <3>2. Numbered(k, g)'
      BY <1>1, <1>4, <2>3, <2>4 DEF Ready, Numbered, Begun, Planning, Compared
    <3>3. /\ OffencesOf(g) \cap history \subseteq slipped[g] /\ Stamps = {} /\ Uncommitted = {}
          /\ \A f \in listed[g] : f.number < number[g]
      BY <1>1, <1>4, <2>4, CleanComparison
    <3>4. Noticed(g)'
      BY <1>1, <2>3, <3>3 DEF Private, repository, Noticed, OffencesOf, Stamps, Planning
    <3>5. Overtaken(g)'
      BY <1>4, <2>3, <3>3 DEF Overtaken, Planning
    <3> QED BY <3>1, <3>2, <3>4, <3>5 DEF Ready
  <2> QED BY <1>1, <2>2, <2>4, ControlKeeps
<1> QED BY <1>2, <1>3, <1>4 DEF Compare, Goto

LEMMA ReadProposalKeeps ==
  ASSUME GenInv, NEW g \in Generators, ReadProposal(g)
  PROVE  GenInv'
<1>1. step[g] = "proposal" /\ Private /\ UNCHANGED <<listed, slipped>>
  BY DEF ReadProposal, Private, ghosts
<1>2. CASE Finish(g)
  BY <1>1, <1>2, LeaveKeeps DEF Finish
<1>3. CASE ~Finish(g)
  <2>1. PICK s \in Slugs : /\ slug' = [slug EXCEPT ![g] = s]
                           /\ step' = [step EXCEPT ![g] = "write"]
                           /\ UNCHANGED <<attempt, pre, post, number>>
    BY <1>3 DEF ReadProposal, Goto
  <2>2. GenTypes' /\ Alters(g)
    BY <1>1, <2>1 DEF Private, repository, GenInv, GenTypes, Alters, Step
  <2>3. step'[g] = "write" /\ slug'[g] = s
    BY <2>1 DEF GenInv, GenTypes
  <2>4. ASSUME NEW k \in Nat, Ready(k, g) PROVE Ready(k, g)'
    BY <1>1, <2>1, <2>3, <2>4 DEF Private, repository, Ready, Equipped, Numbered, Noticed,
       Overtaken, OffencesOf, Stamps, Begun, Planning, Compared
  <2> QED BY <1>1, <2>2, <2>4, ControlKeeps
<1> QED BY <1>2, <1>3

LEMMA KillKeeps ==
  ASSUME GenInv, NEW g \in Generators, Kill(g)
  PROVE  GenInv'
<1>1. step[g] # "done" /\ Private /\ UNCHANGED <<listed, slipped>> /\ Leave(g, "killed")
  BY DEF Kill, Abandon, Private, ghosts
<1> QED BY <1>1, LeaveKeeps

\* What calls and workers do, without the repository, is nothing to a generation.
LEMMA WorkKeeps ==
  ASSUME GenInv, UNCHANGED <<repository, goal>>
  PROVE  GenInv'
<1>1. GenTypes' /\ OneDraft' /\ Stamped' /\ Larger' /\ DraftMeansNoOffence'
  BY DEF repository, goal, ghosts, GenInv, GenTypes, OneDraft, Stamped, Stamps, Larger,
         DraftMeansNoOffence
<1>2. \A k, g : Ready(k, g) => Ready(k, g)'
  <2>1. UNCHANGED <<step, pre, post, number, slug, tasks, listed, slipped, history, head>>
    BY DEF repository, goal, ghosts
  <2>2. UNCHANGED <<Status, Stamps>> /\ \A g : OffencesOf(g)' = OffencesOf(g)
    BY DEF repository, goal, ghosts, Status, Stamps, OffencesOf
  <2> QED BY <2>1, <2>2 DEF Ready, Equipped, Numbered, Noticed, Overtaken, Placed, HeadMoved
<1>3. Generations'
  BY <1>2 DEF goal, Numbers, GenInv, Generations
<1> QED BY <1>1, <1>3 DEF GenInv

-----------------------------------------------------------------------------
(***************************************************************************)
(* The repository                                                          *)
(***************************************************************************)

\* The stamp of an edit that this step makes.
Fresh == (edits + 1)..edits'

\* What a step may do to the repository besides the generations: count an edit or
\* a commit, which slips through the looks it comes between, blame the generation of a planner at work, and take a path out of the
\* tree only with a commit.
Changes ==
  /\ UNCHANGED <<step, attempt, pre, post, number, slug, tasks, drafts, listed>>
  /\ slipped' = [g \in Generators |-> slipped'[g]]
  /\ \A g \in Generators :
       /\ slipped[g] \subseteq slipped'[g]
       /\ step[g] = "looking" => history' \subseteq history \cup slipped'[g]
  /\ edits' \in {edits, edits + 1} /\ edits' \leq MaxEdits
  /\ head' \in {head, head + 1} /\ head' \leq MaxCommits + edits'
  /\ Stamps' \cup history' \subseteq history \cup Stamps \cup Fresh
  /\ head' = head => history' = history
  /\ offences' \subseteq
       offences \cup [generator : {g \in Generators : step[g] \in Planning}, stamp : Fresh]
  /\ \A f \in tasks : <<f.number, f.slug>> \in Status =>
       <<f.number, f.slug>> \in Status' \/ head' > head

\* A generation finds the change, or had looked before it.
LEMMA ChangeIsNoticed ==
  ASSUME GenInv, Changes, NEW g \in Generators, NEW k \in Nat, Ready(k, g)
  PROVE  Ready(k, g)'
<1>0. /\ edits \in Nat /\ head \in Nat /\ edits' \in Nat /\ head' \in Nat /\ head \leq head'
      /\ step'[g] = step[g] /\ pre'[g] = pre[g] /\ number'[g] = number[g]
      /\ slug'[g] = slug[g] /\ listed'[g] = listed[g] /\ HeadMoved(g)' = HeadMoved(g)
      /\ slipped[g] \subseteq slipped'[g]
      /\ step[g] = "looking" => history' \subseteq history \cup slipped'[g]
  BY WorkerBoundsAssumption DEF Changes, HeadMoved, GenInv, GenTypes
<1>1. Equipped(g)'
  BY <1>0 DEF Ready, Equipped
<1>2. Numbered(k, g)'
  BY <1>0 DEF Ready, Numbered
<1>3. OffencesOf(g) \subseteq 1..edits
  BY DEF OffencesOf, GenInv, Stamped
<1>4. history \cup Stamps \subseteq Generators \cup 1..edits
  BY DEF GenInv, Stamped
<1>5. Fresh \cap (Generators \cup 1..edits) = {}
  BY <1>0, GeneratorsAssumption DEF Fresh
<1>6. OffencesOf(g)' \subseteq OffencesOf(g) \cup (IF step[g] \in Planning THEN Fresh ELSE {})
  BY DEF Changes, OffencesOf
<1>7. Stamps' \cup history' \subseteq history \cup Stamps \cup Fresh
      /\ (head' = head => history' = history)
  BY DEF Changes
<1>8. Noticed(g)'
  <2>1. CASE step[g] \in {"idle", "snapshot", "number"}
    <3>1. OffencesOf(g)' = {}
      BY <1>6, <2>1 DEF Ready, Noticed, Planning
    <3> QED BY <1>0, <2>1, <3>1 DEF Noticed, Planning, Compared
  <2>2. CASE step[g] \in Planning
    <3>1. ASSUME ~(head' > pre[g].head) PROVE OffencesOf(g)' \cap history' = {}
      <4>1. pre[g].head \in 0..head
        BY <2>2 DEF Ready, Equipped, Planning, Begun
      <4>2. head' = head /\ ~(head > pre[g].head)
        BY <1>0, <3>1, <4>1
      <4>3. OffencesOf(g) \cap history = {} /\ history' = history
        BY <1>7, <2>2, <4>2 DEF Ready, Noticed
      <4> QED BY <1>4, <1>5, <1>6, <4>3
    <3>2. ASSUME step[g] = "looking", ~HeadMoved(g)
          PROVE  OffencesOf(g)' \cap history' \subseteq slipped'[g]
      <4>1. OffencesOf(g) \cap history \subseteq slipped[g]
        BY <3>2 DEF Ready, Noticed
      <4>2. OffencesOf(g)' \cap history \subseteq OffencesOf(g)
        BY <1>4, <1>5, <1>6
      <4>3. OffencesOf(g)' \cap history \subseteq slipped[g]
        BY <4>1, <4>2
      <4> QED BY <1>0, <3>2, <4>3
    <3> QED BY <1>0, <2>2, <3>1, <3>2 DEF Noticed, Planning, Compared
  <2>3. CASE step[g] \in Compared
    <3>1. OffencesOf(g) \cap (history \cup Stamps) \subseteq slipped[g] /\ step[g] \notin Planning
      BY <2>3 DEF Ready, Noticed, Planning, Compared
    <3>2. OffencesOf(g)' \cap (history' \cup Stamps') \subseteq slipped[g]
      BY <1>3, <1>5, <1>6, <1>7, <3>1
    <3>3. OffencesOf(g)' \cap (history' \cup Stamps') \subseteq slipped'[g]
      BY <1>0, <3>2
    <3> QED BY <1>0, <2>3, <3>1, <3>3 DEF Noticed, Compared, Planning
  <2>4. CASE step[g] \notin {"idle", "snapshot", "number"} \cup Planning \cup Compared
    BY <1>0, <2>4 DEF Noticed, Planning
  <2> QED BY <2>1, <2>2, <2>3, <2>4
<1>9. Overtaken(g)'
  <2>1. CASE step[g] \in Planning
    <3>1. pre[g].head \in 0..head
      BY <2>1 DEF Ready, Equipped, Planning, Begun
    <3>2. \A f \in tasks : Placed(g, f)
      BY <2>1 DEF Ready, Overtaken
    <3>3. \A f \in tasks : Placed(g, f)'
      <4> SUFFICES ASSUME NEW f \in tasks PROVE Placed(g, f)'
        OBVIOUS
      <4>1. CASE f.number < number[g]
        BY <1>0, <4>1 DEF Placed
      <4>2. CASE head' > pre[g].head
        BY <1>0, <4>2 DEF Placed
      <4>3. CASE <<f.number, f.slug>> \in Status
        <5>1. <<f.number, f.slug>> \in Status' \/ head' > head
          BY <4>3 DEF Changes
        <5>2. head' > head => head' > pre[g].head
          BY <1>0, <3>1
        <5> QED BY <1>0, <5>1, <5>2 DEF Placed
      <4>4. head > pre[g].head => head' > pre[g].head
        BY <1>0, <3>1
      <4> QED BY <3>2, <4>1, <4>2, <4>3, <4>4 DEF Placed
    <3>4. tasks' = tasks
      BY DEF Changes
    <3>5. step[g] = "looking" => HeadMoved(g)' \/ \A f \in listed'[g] : f.number < number'[g]
      BY <1>0 DEF Ready, Overtaken
    <3> QED BY <1>0, <2>1, <3>3, <3>4, <3>5 DEF Overtaken, Planning, Compared
  <2>2. CASE step[g] \notin Planning
    BY <1>0, <2>2 DEF Ready, Overtaken, Planning
  <2> QED BY <2>1, <2>2
<1> QED BY <1>1, <1>2, <1>8, <1>9 DEF Ready

LEMMA ChangesKeep ==
  ASSUME GenInv, Changes
  PROVE  GenInv'
<1>0. edits \in Nat /\ head \in Nat /\ edits' \in Nat /\ head' \in Nat /\ edits \leq edits'
  BY WorkerBoundsAssumption DEF Changes, GenInv, GenTypes
<1>1. GenTypes'
  BY <1>0, WorkerBoundsAssumption, CommitsAssumption DEF Changes, GenInv, GenTypes
<1>2. OneDraft' /\ Larger'
  BY DEF Changes, GenInv, OneDraft, Larger
<1>3. Fresh \subseteq 1..edits' /\ 1..edits \subseteq 1..edits'
  BY <1>0 DEF Fresh
<1>4. Stamped'
  BY <1>3 DEF Changes, GenInv, Stamped
<1>5. Generations'
  <2>1. PICK k \in Nat : Numbers = 1..k /\ \A g \in Generators : Ready(k, g)
    BY DEF GenInv, Generations
  <2>2. Numbers' = 1..k
    BY <2>1 DEF Changes, Numbers
  <2>3. \A g \in Generators : Ready(k, g)'
    BY <2>1, ChangeIsNoticed
  <2> QED BY <2>2, <2>3 DEF Generations
<1>6. DraftMeansNoOffence'
  <2> SUFFICES ASSUME NEW d \in drafts, NEW o \in offences', d.author = o.generator,
                      o.stamp \in history' \cup Stamps'
               PROVE  o.stamp \in slipped'[d.author]
    BY DEF Changes, DraftMeansNoOffence
  <2>1. step[o.generator] = "done"
    BY DEF GenInv, OneDraft
  <2>2. o \in offences
    BY <2>1 DEF Changes, Planning
  <2>3. o.stamp \in 1..edits
    BY <2>2 DEF GenInv, Stamped
  <2>4. o.stamp \notin Fresh
    BY <1>0, <2>3 DEF Fresh
  <2>5. o.stamp \in history \cup Stamps
    BY <2>4 DEF Changes
  <2>6. o.stamp \in slipped[d.author] /\ d.author \in Generators
    BY <2>2, <2>5 DEF GenInv, DraftMeansNoOffence, GenTypes, Draft
  <2> QED BY <2>6 DEF Changes
<1> QED BY <1>1, <1>2, <1>4, <1>5, <1>6 DEF GenInv

\* Who looks misses what is committed.
LEMMA CommitSlips ==
  ASSUME NEW S, Commits(S)
  PROVE  /\ slipped' = [g \in Generators |-> slipped'[g]]
         /\ \A g \in Generators :
              /\ slipped[g] \subseteq slipped'[g]
              /\ step[g] = "looking" => history' \subseteq history \cup slipped'[g]
BY DEF Commits

\* An edit, a restoration or a commit of a planner, and the commit of the operator.
LEMMA PlannerTouchesKeeps ==
  ASSUME GenInv, NEW c \in Calls, PlannerTouches(c)
  PROVE  GenInv'
<1>0. edits \in Nat /\ head \in Nat /\ head \leq MaxCommits + edits /\ MaxEdits \in Nat /\ MaxCommits \in Nat
      /\ c[1] \in Generators
  BY WorkerBoundsAssumption, CommitsAssumption, CallsAssumption DEF GenInv, GenTypes, Stamped
<1>1. /\ edits < MaxEdits /\ edits' = edits + 1
      /\ offences' = IF step[c[1]] \in Planning
                     THEN offences \cup {[generator |-> c[1], stamp |-> edits']} ELSE offences
      /\ Commits(IF head' # head THEN Stamps \cup {edits'} ELSE {})
      /\ UNCHANGED <<step, attempt, pre, post, number, slug, tasks, drafts, listed>>
  BY DEF PlannerTouches, Touch, Planning
<1>2. edits' \in Fresh
  BY <1>0, <1>1 DEF Fresh
<1>3. head' \in {head, head + 1}
  BY DEF PlannerTouches, Touch
<1>4. Stamps' \subseteq Stamps \cup {edits'}
  <2>1. \A e \in tree' : e \in tree \/ e.stamp = edits'
    BY <1>1 DEF PlannerTouches, Touch
  <2> QED BY <2>1 DEF Stamps
<1>5. ASSUME NEW f \in tasks, <<f.number, f.slug>> \in Status
      PROVE  <<f.number, f.slug>> \in Status' \/ head' > head
  <2> DEFINE path == <<f.number, f.slug>>
  <2>1. f.number \in Nat /\ f.slug \in Slugs
    BY DEF GenInv, GenTypes, Draft
  <2>2. path # Source
    BY <2>1, SourceAssumption
  <2>3. PICK e \in tree : e.path = path
    BY <1>5 DEF Status
  <2> HIDE DEF path
  <2>4. CASE head' = head + 1
    BY <1>0, <2>4
  <2>5. CASE tree' = {x \in tree : x.path # Source}
    BY <2>2, <2>3, <2>5 DEF Status, path
  <2>6. ASSUME NEW p \in Status \cup {Source},
               tree' = {x \in tree : x.path # p} \cup {[path |-> p, stamp |-> edits + 1]}
        PROVE  path \in Status'
    <3> DEFINE y == [path |-> p, stamp |-> edits + 1]
    <3>1. y \in tree' /\ y.path = p
      BY <2>6
    <3>2. path # p => e \in tree'
      BY <2>3, <2>6
    <3> QED BY <2>3, <3>1, <3>2 DEF Status
  <2> QED BY <2>4, <2>5, <2>6 DEF PlannerTouches, Touch, path
<1>6. Changes
  <2>1. edits' \in {edits, edits + 1} /\ edits' \leq MaxEdits /\ head' \leq MaxCommits + edits'
    BY <1>0, <1>1, <1>3
  <2>2. Stamps' \cup history' \subseteq history \cup Stamps \cup Fresh
    BY <1>1, <1>2, <1>4 DEF Commits
  <2>3. head' = head => history' = history
    BY <1>1 DEF Commits
  <2>4. offences' \subseteq
          offences \cup [generator : {g \in Generators : step[g] \in Planning}, stamp : Fresh]
    BY <1>0, <1>1, <1>2
  <2>5. /\ slipped' = [g \in Generators |-> slipped'[g]]
        /\ \A g \in Generators :
             /\ slipped[g] \subseteq slipped'[g]
             /\ step[g] = "looking" => history' \subseteq history \cup slipped'[g]
    BY <1>1, CommitSlips
  <2> QED BY <1>1, <1>3, <1>5, <2>1, <2>2, <2>3, <2>4, <2>5 DEF Changes
<1> QED BY <1>6, ChangesKeep

LEMMA CommitKeeps ==
  ASSUME GenInv, Commit
  PROVE  GenInv'
<1>0. edits \in Nat /\ head \in Nat /\ edits \leq MaxEdits /\ MaxCommits \in Nat
  BY WorkerBoundsAssumption, CommitsAssumption DEF GenInv, GenTypes
<1>1. /\ head < MaxCommits /\ head' = head + 1 /\ edits' = edits /\ tree' = {}
      /\ Commits(Stamps) /\ history' = history \cup Stamps /\ offences' = offences
      /\ UNCHANGED <<step, attempt, pre, post, number, slug, tasks, drafts, listed>>
  BY DEF Commit, Commits
<1>2. Stamps' = {}
  BY <1>1 DEF Stamps
<1>3. head' > head /\ head' # head /\ head' \leq MaxCommits + edits'
  BY <1>0, <1>1
<1>4. Changes
  BY <1>0, <1>1, <1>2, <1>3, CommitSlips DEF Changes
<1> QED BY <1>4, ChangesKeep

-----------------------------------------------------------------------------
(***************************************************************************)
(* The draft                                                               *)
(***************************************************************************)

DraftOf(g) == [number |-> number[g], slug |-> slug[g], author |-> g]

\* What write_text() does to the files and the tree.
Writes(g) ==
  LET f == DraftOf(g)
      path == <<number[g], slug[g]>>
  IN /\ tasks' = {o \in tasks : <<o.number, o.slug>> # path} \cup {f}
     /\ drafts' = drafts \cup {f}
     /\ tree' = {e \in tree : e.path # path} \cup {[path |-> path, stamp |-> g]}

LEMMA WriteDraftSteps ==
  ASSUME GenInv, NEW g \in Generators, WriteDraft(g)
  PROVE  /\ step[g] = "write" /\ Leave(g, "done")
         /\ UNCHANGED <<head, edits, listed, slipped, offences, history>>
         /\ Private \/ Writes(g)
BY DEF WriteDraft, Finish, ghosts, Private, repository, Writes, DraftOf

\* The draft and its number.
LEMMA DraftFacts ==
  ASSUME GenInv, NEW g \in Generators, step[g] = "write", NEW k \in Nat, Ready(k, g)
  PROVE  /\ DraftOf(g) \in Draft /\ number[g] \in 1..(k + 1)
         /\ DraftOf(g).number = number[g] /\ DraftOf(g).slug = slug[g] /\ DraftOf(g).author = g
         /\ \A f \in listed[g] : f.number < number[g]
         /\ OffencesOf(g) \cap (history \cup Stamps) \subseteq slipped[g]
<1>1. number[g] # 0 /\ number[g] \in 0..(k + 1) /\ number[g] \in 0..Cardinality(Generators)
  BY DEF Ready, Numbered, Planning, Compared, GenInv, GenTypes
<1>2. Cardinality(Generators) \in Nat
  BY GeneratorsAssumption, FS_CardinalityType
<1>3. number[g] \in 1..(k + 1) /\ number[g] \in 1..Cardinality(Generators)
  BY <1>1, <1>2
<1>4. slug[g] \in Slugs
  BY DEF Ready, Equipped
<1>5. DraftOf(g) \in Draft
  BY <1>3, <1>4 DEF DraftOf, Draft
<1>6. /\ \A f \in listed[g] : f.number < number[g]
      /\ OffencesOf(g) \cap (history \cup Stamps) \subseteq slipped[g]
  BY DEF Ready, Overtaken, Noticed, Compared
<1> QED BY <1>3, <1>5, <1>6 DEF DraftOf

\* A file is only replaced by one of the same number.
LEMMA WrittenNumbers ==
  ASSUME GenInv, NEW g \in Generators, Writes(g), step[g] = "write",
         NEW k \in Nat, Numbers = 1..k, Ready(k, g)
  PROVE  \E j \in {k, k + 1} : Numbers' = 1..j
<1>1. number[g] \in 1..(k + 1) /\ DraftOf(g).number = number[g]
  BY DraftFacts
<1>2. Numbers' = Numbers \cup {number[g]}
  <2>1. \A o \in tasks' : o \in tasks \/ o = DraftOf(g)
    BY DEF Writes
  <2>2. DraftOf(g) \in tasks'
    BY DEF Writes
  <2>3. \A o \in tasks : o \in tasks' \/ <<o.number, o.slug>> = <<number[g], slug[g]>>
    BY DEF Writes
  <2>4. \A o \in tasks : o \in tasks' \/ o.number = number[g]
    BY <2>3
  <2> QED BY <1>1, <2>1, <2>2, <2>4 DEF Numbers
<1>3. CASE number[g] = k + 1
  <2>1. Numbers' = 1..(k + 1)
    BY <1>2, <1>3
  <2> QED BY <2>1
<1>4. CASE number[g] # k + 1
  <2>1. Numbers' = 1..k
    BY <1>1, <1>2, <1>4
  <2> QED BY <2>1
<1> QED BY <1>3, <1>4

\* The others find the new draft in the tree.
LEMMA WrittenReady ==
  ASSUME GenInv, NEW g \in Generators, Writes(g), step[g] = "write", Leave(g, "done"),
         UNCHANGED <<head, edits, listed, slipped, offences, history>>,
         NEW k \in Nat, NEW j \in {k, k + 1}, Numbers = 1..k,
         NEW h \in Generators, h # g, Ready(k, g), Ready(k, h)
  PROVE  Ready(j, h)'
<1>1. /\ step'[h] = step[h] /\ pre'[h] = pre[h] /\ number'[h] = number[h]
      /\ slug'[h] = slug[h] /\ listed'[h] = listed[h] /\ OffencesOf(h)' = OffencesOf(h)
      /\ HeadMoved(h)' = HeadMoved(h)
  BY DEF Leave, Goto, GenInv, GenTypes, OffencesOf, HeadMoved
<1>2. Equipped(h)'
  BY <1>1 DEF Ready, Equipped
<1>3. Numbered(j, h)'
  <2>1. Numbered(k, h)
    BY DEF Ready
  <2>2. number[h] \in 0..(j + 1)
    BY <2>1 DEF Numbered
  <2> QED BY <1>1, <2>1, <2>2 DEF Numbered
<1>4. Noticed(h)'
  <2>1. Stamps' \subseteq Stamps \cup {g}
    BY DEF Writes, Stamps
  <2>2. g \notin OffencesOf(h)
    <3>1. OffencesOf(h) \subseteq 1..edits /\ edits \in Nat
      BY DEF OffencesOf, GenInv, Stamped, GenTypes
    <3> QED BY <3>1, GeneratorsAssumption
  <2> QED BY <1>1, <2>1, <2>2 DEF Ready, Noticed
<1>5. Overtaken(h)'
  <2>1. <<number[g], slug[g]>> \in Status' /\ Status \subseteq Status'
    <3>1. \A e \in tree : e \in tree' \/ e.path = <<number[g], slug[g]>>
      BY DEF Writes
    <3> DEFINE y == [path |-> <<number[g], slug[g]>>, stamp |-> g]
    <3>2. y \in tree' /\ y.path = <<number[g], slug[g]>>
      BY DEF Writes
    <3> QED BY <3>1, <3>2 DEF Status
  <2>2. CASE step[h] \in Planning
    <3>1. \A f \in tasks : Placed(h, f)
      BY <2>2 DEF Ready, Overtaken
    <3>2. \A f \in tasks : Placed(h, f)'
      BY <1>1, <2>1, <3>1 DEF Placed
    <3>3. \A f : f.number = number[g] /\ f.slug = slug[g] => Placed(h, f)'
      BY <2>1 DEF Placed
    <3>4. \A f \in tasks' : f \in tasks \/ (f.number = number[g] /\ f.slug = slug[g])
      BY DEF Writes, DraftOf
    <3>5. ASSUME NEW f \in tasks' PROVE Placed(h, f)'
      BY <3>2, <3>3, <3>4
    <3>6. step'[h] \in Planning /\ step'[h] \notin Compared
      BY <1>1, <2>2 DEF Planning, Compared
    <3>7. step[h] = "looking" => HeadMoved(h)' \/ \A f \in listed'[h] : f.number < number'[h]
      BY <1>1 DEF Ready, Overtaken
    <3> QED BY <1>1, <3>5, <3>6, <3>7 DEF Overtaken
  <2>3. CASE step[h] \notin Planning
    BY <1>1, <2>3 DEF Ready, Overtaken, Planning
  <2> QED BY <2>2, <2>3
<1> QED BY <1>2, <1>3, <1>4, <1>5 DEF Ready

LEMMA WriteDraftKeeps ==
  ASSUME GenInv, NEW g \in Generators, WriteDraft(g)
  PROVE  GenInv'
<1>1. /\ step[g] = "write" /\ Leave(g, "done")
      /\ UNCHANGED <<head, edits, listed, slipped, offences, history>>
  BY WriteDraftSteps
<1>2. CASE Private
  BY <1>1, <1>2, LeaveKeeps
<1>3. CASE Writes(g)
  <2> DEFINE f == DraftOf(g)
  <2>1. PICK k \in Nat : Numbers = 1..k /\ \A h \in Generators : Ready(k, h)
    BY DEF GenInv, Generations
  <2>2. /\ f \in Draft /\ f.number = number[g] /\ f.author = g
        /\ \A x \in listed[g] : x.number < number[g]
        /\ OffencesOf(g) \cap (history \cup Stamps) \subseteq slipped[g]
    BY <1>1, <2>1, DraftFacts
  <2>3. /\ drafts' = drafts \cup {f}
        /\ tasks' = {o \in tasks : <<o.number, o.slug>> # <<number[g], slug[g]>>} \cup {f}
    BY <1>3 DEF Writes
  <2>4. step'[g] = "done" /\ number'[g] = 0 /\ \A h \in Generators \ {g} : step'[h] = step[h]
    BY <1>1 DEF Leave, Goto, GenInv, GenTypes
  <2>5. \A d \in drafts : d.author \in Generators \ {g}
    BY <1>1 DEF GenInv, GenTypes, OneDraft, Draft
  <2> HIDE DEF f
  <2>6. GenTypes'
    <3>1. 0 \in 0..Cardinality(Generators)
      BY GeneratorsAssumption, FS_CardinalityType
    <3>2. tasks' \subseteq drafts' /\ drafts' \subseteq Draft
      BY <2>2, <2>3 DEF GenInv, GenTypes
    <3>3. 0 \in 0..head
      BY WorkerBoundsAssumption, CommitsAssumption DEF GenInv, GenTypes
    <3> QED BY <1>1, <3>1, <3>2, <3>3 DEF Leave, Goto, GenInv, GenTypes, Step, Attempt
  <2>7. OneDraft'
    <3>1. \A d \in drafts' : step'[d.author] = "done"
      BY <2>2, <2>3, <2>4, <2>5 DEF GenInv, OneDraft
    <3>2. \A d, e \in drafts' : d.author = e.author => d = e
      BY <2>2, <2>3, <2>5 DEF GenInv, OneDraft
    <3> QED BY <3>1, <3>2 DEF OneDraft
  <2>8. Stamps' \subseteq Stamps \cup {g}
    BY <1>3 DEF Writes, Stamps
  <2>9. Stamped'
    BY <1>1, <2>8 DEF GenInv, Stamped
  <2>10. Larger'
    BY <1>1, <2>2, <2>3 DEF GenInv, Larger
  <2>11. DraftMeansNoOffence'
    <3> SUFFICES ASSUME NEW d \in drafts', NEW o \in offences, d.author = o.generator,
                        o.stamp \in history \cup Stamps'
                 PROVE  o.stamp \in slipped[d.author]
      BY <1>1 DEF DraftMeansNoOffence
    <3>1. o.stamp # g
      <4>1. o.stamp \in 1..edits /\ edits \in Nat
        BY DEF GenInv, Stamped, GenTypes
      <4> QED BY <4>1, GeneratorsAssumption
    <3>2. o.stamp \in history \cup Stamps
      BY <2>8, <3>1
    <3>3. CASE d \in drafts
      BY <3>2, <3>3 DEF GenInv, DraftMeansNoOffence
    <3>4. CASE d = f
      <4>1. o.stamp \in OffencesOf(g)
        BY <2>2, <3>4 DEF OffencesOf
      <4> QED BY <2>2, <3>2, <3>4, <4>1
    <3> QED BY <2>3, <3>3, <3>4
  <2>12. PICK j \in {k, k + 1} : Numbers' = 1..j
    BY <1>1, <1>3, <2>1, WrittenNumbers
  <2>13. \A h \in Generators : Ready(j, h)'
    <3>1. \A h \in Generators : h # g => Ready(j, h)'
      BY <1>1, <1>3, <2>1, WrittenReady
    <3>2. Ready(j, g)'
      BY <2>4 DEF Ready, Equipped, Numbered, Noticed, Overtaken, Begun, Planning, Compared
    <3> QED BY <3>1, <3>2
  <2>14. Generations'
    BY <2>12, <2>13 DEF Generations
  <2> QED BY <2>6, <2>7, <2>9, <2>10, <2>11, <2>14 DEF GenInv
<1> QED BY <1>2, <1>3, WriteDraftSteps

LEMMA GenStepKeeps ==
  ASSUME IInv, Moves
  PROVE  GenInv'
<1>1. GenInv
  BY TwoParts
<1>2. ASSUME NEW c \in Calls, Works(c), UNCHANGED goal PROVE GenInv'
  BY <1>1, <1>2, WorkKeeps DEF Works, Caller, Complete, Deadline, Interrupt, StopFor, KillGroup,
     Report, Exit, Fork
<1>3. CASE UNCHANGED vars
  BY <1>1, <1>3, WorkKeeps DEF vars
<1> QED
  BY <1>1, <1>2, <1>3, ReadHeadKeeps, TakeSnapshotKeeps, AssignNumberKeeps, LaunchKeeps,
     LookAtHeadKeeps, CompareKeeps,
     ReadProposalKeeps, WriteDraftKeeps, KillKeeps, PlannerTouchesKeeps, CommitKeeps DEF Moves

-----------------------------------------------------------------------------
(***************************************************************************)
(* The theorems                                                            *)
(***************************************************************************)

\* Nothing has begun.
LEMMA InitIInv ==
  ASSUME Init
  PROVE  IInv
<1>1. CallInv
  BY DEF Init, WorkerInit, CallInv, CallTypes, CallShapes, WorkerInv, CallStep, Reason, Stopped,
         Terminated, Witnessed, RecoveryIsHonest
<1>2. GenTypes
  <2>1. 0 \in 0..Cardinality(Generators)
    BY GeneratorsAssumption, FS_CardinalityType
  <2>2. 0 \in 0..MaxEdits /\ 0 \in 0..(MaxCommits + MaxEdits)
    BY WorkerBoundsAssumption, CommitsAssumption
  <2> QED BY <2>1, <2>2 DEF Init, WorkerInit, GenTypes, Step, Attempt
<1>3. OneDraft /\ Larger /\ DraftMeansNoOffence
  BY DEF Init, OneDraft, Larger, DraftMeansNoOffence
<1>4. Stamped
  <2>1. Stamps = {} /\ 0 \leq MaxCommits + 0
    BY CommitsAssumption DEF Init, WorkerInit, Stamps
  <2> QED BY <2>1 DEF Init, WorkerInit, Stamped
<1>5. Generations
  <2>1. Numbers = 1..0
    BY DEF Init, Numbers
  <2>2. \A g \in Generators : Ready(0, g)
    BY DEF Init, Ready, Equipped, Numbered, Noticed, Overtaken, OffencesOf, Begun, Planning,
           Compared
  <2> QED BY <2>1, <2>2 DEF Generations
<1> QED BY <1>1, <1>2, <1>3, <1>4, <1>5, TwoParts DEF GenInv

\* Every step of the generations, the workers and the operator keeps the invariant.
LEMMA NextIInv ==
  ASSUME IInv, [Next]_vars
  PROVE  IInv'
<1>1. CallInv' /\ GenInv'
  BY NextMoves, CallStepKeeps, GenStepKeeps
<1>2. CallInv' /\ GenInv' => IInv'
  BY DEF IInv, TypeOK, Shapes, CallInv, CallTypes, CallShapes, GenInv, GenTypes
<1> QED BY <1>1, <1>2

(* The numbers in use have no gap, what planners do and drafts that appear *)
(* are found by the comparison, and a stopped worker is stopped: whatever  *)
(* the number of processes.                                                *)
THEOREM Invariance == Spec => []IInv
<1>1. Init => IInv
  BY InitIInv
<1>2. IInv /\ [Next]_vars => IInv'
  BY NextIInv
<1> QED BY <1>1, <1>2, PTL DEF Spec

(* The calls and the generations have their types; no number exceeds the   *)
(* number of generations (assign_next_task_id()).                          *)
THEOREM TypeCorrect == Spec => []TypeOK
<1>1. IInv => TypeOK
  BY DEF IInv
<1> QED BY <1>1, Invariance, PTL

(* Of two drafts with one number, neither could be seen by the generation  *)
(* of the other one: not committed when that read HEAD, and not in the     *)
(* status that it read next (generate_goal_task()).                        *)
THEOREM SharedNumberUnseen == Spec => []SameNumberOnlyUnseen
<1>1. IInv => SameNumberOnlyUnseen
  <2> SUFFICES ASSUME IInv, NEW d \in drafts, NEW e \in drafts, d.number = e.number
               PROVE  d \notin listed[e.author] /\ e \notin listed[d.author]
    BY DEF SameNumberOnlyUnseen
  <2>1. d.number \in Nat /\ e.number \in Nat
    <3>1. drafts \subseteq Draft
      BY DEF IInv, TypeOK
    <3> QED BY <3>1 DEF Draft
  <2>2. /\ d \in listed[e.author] => d.number < e.number
        /\ e \in listed[d.author] => e.number < d.number
    BY DEF IInv, Larger
  <2> QED BY <2>1, <2>2
<1> QED BY <1>1, Invariance, PTL

(* A generation that leaves a draft has a planner that made no change      *)
(* which stayed or was committed, but for what was committed between the   *)
(* two commands of the last snapshot (detect_repository_mutation()).       *)
THEOREM DraftIsClean == Spec => []DraftMeansNoOffence
<1>1. IInv => DraftMeansNoOffence
  BY DEF IInv
<1> QED BY <1>1, Invariance, PTL

(* After a timeout or a cancellation nothing of the worker's process group *)
(* is alive (_terminate_process_group()).                                  *)
THEOREM GroupIsEnded == Spec => []OnlyTheAwaySurvive
<1>1. IInv => OnlyTheAwaySurvive
  BY DEF IInv, WorkerInv, Stopped, OnlyTheAwaySurvive
<1> QED BY <1>1, Invariance, PTL

(* Where a result says to resume, whatever differs from the start was      *)
(* dirty then (_git_evidence()).                                           *)
THEOREM RecoveryHonest == Spec => []RecoveryIsHonest
<1>1. IInv => RecoveryIsHonest
  BY DEF IInv, WorkerInv
<1> QED BY <1>1, Invariance, PTL

=============================================================================
