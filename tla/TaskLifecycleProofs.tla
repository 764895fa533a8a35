------------------------ MODULE TaskLifecycleProofs -------------------------
(***************************************************************************)
(* Proofs about TaskLifecycle, for every set of processes, every set of    *)
(* calls and every number of faults.                                       *)
(***************************************************************************)
EXTENDS TaskLifecycle, TLAPS

\* What the authority table says of the statuses that matter below.
LEMMA AllowedFacts ==
  ASSUME NEW s, NEW t, NEW a, IsTransitionAllowed(s, t, a)
  PROVE  /\ t = "APPROVED" => s = "REVIEW" /\ a \in Reviewers
         /\ t = "REVIEW" => s = "IN_PROGRESS" /\ a \in Implementers
         /\ t \notin {"DRAFT", "BLOCKED"} /\ s \in {"DRAFT", "BLOCKED"}
              => t \in ExecutableStatuses /\ a \in Reviewers
  BY DEF IsTransitionAllowed, TransitionAuthority, Reviewers, Implementers,
         ExecutableStatuses

\* The initial state is well typed.
LEMMA TypeInit == Init => TypeOK
  BY BoundsAssumption
  DEF Init, TypeOK, NoRequest, Request, Step, TaskStatus, ActorRole

\* Every step keeps the type invariant.
LEMMA TypeStep == TypeOK /\ [Next]_vars => TypeOK'
<1> SUFFICES ASSUME TypeOK, [Next]_vars PROVE TypeOK'
  OBVIOUS
<1> USE BoundsAssumption
<1>1. ASSUME NEW p \in Procs, NEW r \in Calls, Call(p, r) PROVE TypeOK'
  <2>1. r \in Request
    BY CallsAssumption
  <2> QED BY <1>1, <2>1 DEF Call, TypeOK, Goto, Step
<1>2. ASSUME NEW p \in Procs, FindTask(p) PROVE TypeOK'
  BY <1>2 DEF FindTask, Parses, TypeOK, Goto, Step, Torn
<1>3. ASSUME NEW p \in Procs, ReadStatusLine(p) PROVE TypeOK'
  BY <1>3 DEF ReadStatusLine, Granted, TypeOK, Goto, Step
<1>4. ASSUME NEW p \in Procs, LoadText(p) PROVE TypeOK'
  BY <1>4 DEF LoadText, TypeOK, Goto, Step
<1>5. ASSUME NEW p \in Procs, Truncate(p) PROVE TypeOK'
  BY <1>5 DEF Truncate, TypeOK, Goto, Step
<1>6. ASSUME NEW p \in Procs, Fill(p) PROVE TypeOK'
  BY <1>6 DEF Fill, TypeOK, Goto, Step, Request
<1>7. ASSUME NEW p \in Procs, FillFails(p) PROVE TypeOK'
  BY <1>7 DEF FillFails, Fault, TypeOK, Goto, Step
<1>8. ASSUME NEW p \in Procs, Leave(p),
             faults' \in 0..MaxFaults, audit' \subseteq AuditRecord,
             UNCHANGED <<file, requests, whole, writes>>
      PROVE  TypeOK'
  <2>1. NoRequest \in Request
    BY DEF NoRequest, Request, TaskStatus, ActorRole
  <2> QED BY <1>8, <2>1 DEF Leave, TypeOK, Goto, Step
<1>9. ASSUME NEW p \in Procs, WriteAudit(p) PROVE TypeOK'
  <2>1. AuditOf(p) \in AuditRecord
    BY DEF TypeOK, AuditOf, AuditRecord, Request
  <2> QED BY <1>8, <1>9, <2>1 DEF WriteAudit, TypeOK
<1>10. ASSUME NEW p \in Procs, AuditFails(p) PROVE TypeOK'
  BY <1>8, <1>10 DEF AuditFails, Fault, TypeOK
<1>11. ASSUME NEW p \in Procs, Crash(p) PROVE TypeOK'
  BY <1>8, <1>11 DEF Crash, Fault, TypeOK
<1>12. CASE UNCHANGED vars
  BY <1>12 DEF vars, TypeOK
<1> QED
  BY <1>1, <1>2, <1>3, <1>4, <1>5, <1>6, <1>7, <1>9, <1>10, <1>11, <1>12
  DEF Next, Transition

\* TypeOK is an invariant of every instance of the specification.
THEOREM TypeCorrect == Spec => []TypeOK
  BY TypeInit, TypeStep, PTL DEF Spec

-----------------------------------------------------------------------------
(***************************************************************************)
(* The inductive invariant.                                                *)
(***************************************************************************)

\* The initial state, an untouched DRAFT, satisfies the inductive invariant.
LEMMA InitIInv == Init => IInv
  BY TypeInit
  DEF Init, IInv, OnlyKnownStatuses, Known, RewritesAreGranted, ResultsAreHonest,
      ChainOfCustody, WorkIsReleased, AuditIsHonest, NoStatus

\* Everything but the type, as one formula: its parts support each other.
Core == /\ OnlyKnownStatuses
        /\ RewritesAreGranted
        /\ ResultsAreHonest
        /\ ChainOfCustody
        /\ WorkIsReleased
        /\ AuditIsHonest

\* A step that rewrites nothing keeps what is said of the rewrites.
LEMMA NoRewrite ==
  ASSUME Core, UNCHANGED <<whole, writes>>
  PROVE  ChainOfCustody' /\ WorkIsReleased'
  BY DEF Core, ChainOfCustody, WorkIsReleased, Released

\* A process that leaves its call takes its locals with it.
LEMMA LeaveKeeps ==
  ASSUME TypeOK, Core, NEW p \in Procs, Leave(p), UNCHANGED <<file, whole, writes>>
  PROVE  OnlyKnownStatuses' /\ RewritesAreGranted' /\ ResultsAreHonest'
<1>1. OnlyKnownStatuses'
  BY DEF TypeOK, Core, Leave, OnlyKnownStatuses, Known
<1>2. RewritesAreGranted'
  BY DEF TypeOK, Core, Leave, Goto, RewritesAreGranted
<1>3. ResultsAreHonest'
  BY DEF TypeOK, Core, Leave, Goto, ResultsAreHonest
<1> QED BY <1>1, <1>2, <1>3

\* The rewrite itself: the one step that adds to the history.
LEMMA FillKeeps ==
  ASSUME TypeOK, Core, NEW p \in Procs, Fill(p)
  PROVE  Core'
<1> DEFINE w == <<previous[p], request[p].to, request[p].actor>>
<1>1. /\ IsTransitionAllowed(w[1], w[2], w[3])
      /\ Known(w[1])
  BY DEF Core, Fill, RewritesAreGranted, OnlyKnownStatuses
<1>2. writes' = writes \cup {w} /\ w[2] = whole' /\ file' = whole'
  BY DEF Fill
<1>3. ChainOfCustody'
  <2> SUFFICES ASSUME NEW v \in writes'
               PROVE  IsTransitionAllowed(v[1], v[2], v[3])
                      /\ (v[1] = "DRAFT" \/ \E u \in writes' : u[2] = v[1])
    BY DEF ChainOfCustody
  <2>1. CASE v \in writes
    BY <1>2, <2>1 DEF Core, ChainOfCustody
  <2>2. CASE v = w
    BY <1>1, <1>2, <2>2 DEF Known
  <2> QED BY <1>2, <2>1, <2>2
<1>4. WorkIsReleased'
  <2>1. Released => Released'
    BY <1>2 DEF Released
  <2>2. ASSUME w[2] \notin {"DRAFT", "BLOCKED"} PROVE Released'
    <3>1. CASE w[1] \in {"DRAFT", "BLOCKED"}
      <4>1. w[2] \in ExecutableStatuses /\ w[3] \in Reviewers
        BY <1>1, <2>2, <3>1, AllowedFacts
      <4> QED BY <1>2, <3>1, <4>1 DEF Released
    <3>2. CASE w[1] \notin {"DRAFT", "BLOCKED"}
      BY <1>1, <2>1, <3>2 DEF Known, Core, WorkIsReleased
    <3> QED BY <3>1, <3>2
  <2> QED BY <1>2, <2>1, <2>2 DEF Core, WorkIsReleased
<1>5. OnlyKnownStatuses'
  BY <1>2 DEF Core, Fill, OnlyKnownStatuses, Known
<1>6. RewritesAreGranted'
  BY DEF TypeOK, Core, Fill, Goto, RewritesAreGranted
<1>7. ResultsAreHonest'
  BY DEF TypeOK, Core, Fill, Goto, RewritesAreGranted, ResultsAreHonest
<1>8. AuditIsHonest'
  BY <1>2 DEF Core, Fill, AuditIsHonest
<1> QED BY <1>3, <1>4, <1>5, <1>6, <1>7, <1>8 DEF Core

\* Every step keeps the inductive invariant.
LEMMA CoreStep == TypeOK /\ Core /\ [Next]_vars => Core'
<1> SUFFICES ASSUME TypeOK, Core, [Next]_vars PROVE Core'
  OBVIOUS
<1>1. ASSUME NEW p \in Procs, NEW r \in Calls, Call(p, r) PROVE Core'
  <2>1. OnlyKnownStatuses'
    BY <1>1 DEF Core, Call, OnlyKnownStatuses, Known
  <2>2. RewritesAreGranted'
    BY <1>1 DEF TypeOK, Core, Call, Goto, RewritesAreGranted
  <2>3. ResultsAreHonest'
    BY <1>1 DEF TypeOK, Core, Call, Goto, RewritesAreGranted, ResultsAreHonest
  <2> QED BY <1>1, <2>1, <2>2, <2>3, NoRewrite DEF Call, Core, AuditIsHonest
<1>2. ASSUME NEW p \in Procs, FindTask(p) PROVE Core'
  <2>1. OnlyKnownStatuses'
    BY <1>2 DEF TypeOK, Core, FindTask, Parses, OnlyKnownStatuses, Known
  <2>2. RewritesAreGranted'
    BY <1>2 DEF TypeOK, Core, FindTask, Parses, Goto, RewritesAreGranted, Torn, NoStatus, TaskStatus
  <2>3. ResultsAreHonest'
    BY <1>2 DEF TypeOK, Core, FindTask, Parses, Goto, ResultsAreHonest
  <2> QED BY <1>2, <2>1, <2>2, <2>3, NoRewrite DEF FindTask, Parses, Core, AuditIsHonest
<1>3. ASSUME NEW p \in Procs, ReadStatusLine(p) PROVE Core'
  <2>1. OnlyKnownStatuses'
    BY <1>3 DEF Core, ReadStatusLine, Granted, OnlyKnownStatuses, Known
  <2>2. RewritesAreGranted'
    BY <1>3 DEF TypeOK, Core, ReadStatusLine, Granted, Goto, RewritesAreGranted
  <2>3. ResultsAreHonest'
    BY <1>3 DEF TypeOK, Core, ReadStatusLine, Granted, Goto, ResultsAreHonest
  <2> QED BY <1>3, <2>1, <2>2, <2>3, NoRewrite DEF ReadStatusLine, Granted, Core, AuditIsHonest
<1>4. ASSUME NEW p \in Procs, LoadText(p) \/ Truncate(p) \/ FillFails(p) PROVE Core'
  <2>1. OnlyKnownStatuses'
    BY <1>4 DEF Core, LoadText, Truncate, FillFails, OnlyKnownStatuses, Known
  <2>2. RewritesAreGranted'
    BY <1>4 DEF TypeOK, Core, LoadText, Truncate, FillFails, Goto, RewritesAreGranted
  <2>3. ResultsAreHonest'
    BY <1>4 DEF TypeOK, Core, LoadText, Truncate, FillFails, Goto, ResultsAreHonest
  <2> QED BY <1>4, <2>1, <2>2, <2>3, NoRewrite
          DEF LoadText, Truncate, FillFails, Core, AuditIsHonest
<1>5. ASSUME NEW p \in Procs, Fill(p) PROVE Core'
  BY <1>5, FillKeeps
<1>6. ASSUME NEW p \in Procs, WriteAudit(p) PROVE Core'
  <2> DEFINE r == AuditOf(p)
  <2>1. /\ r.applied => r.allowed /\ <<r.previous, r.to, r.actor>> \in writes
        /\ r.allowed => IsTransitionAllowed(r.previous, r.to, r.actor)
    BY DEF Core, AuditOf, ResultsAreHonest, RewritesAreGranted
  <2>2. audit' = audit \cup {r} /\ writes' = writes
    BY <1>6 DEF WriteAudit
  <2>3. AuditIsHonest'
    BY <2>1, <2>2, Zenon DEF Core, AuditIsHonest
  <2> QED BY <1>6, <2>3, LeaveKeeps, NoRewrite DEF WriteAudit, Core
<1>7. ASSUME NEW p \in Procs, AuditFails(p) \/ Crash(p) PROVE Core'
  <2>1. AuditIsHonest'
    BY <1>7 DEF Core, AuditFails, Crash, AuditIsHonest
  <2> QED BY <1>7, <2>1, LeaveKeeps, NoRewrite DEF AuditFails, Crash, Core
<1>8. CASE UNCHANGED vars
  BY <1>8 DEF vars, Core, OnlyKnownStatuses, Known, RewritesAreGranted, ResultsAreHonest,
              ChainOfCustody, WorkIsReleased, Released, AuditIsHonest
<1> QED
  BY <1>1, <1>2, <1>3, <1>4, <1>5, <1>6, <1>7, <1>8 DEF Next, Transition

\* The inductive invariant holds in every reachable state.
LEMMA Inductive == Spec => []IInv
<1>1. IInv /\ [Next]_vars => IInv'
  BY TypeStep, CoreStep DEF IInv, Core
<1> QED BY <1>1, InitIInv, PTL DEF Spec

\* Every rewrite of the task file was granted by the table, from a status an
\* earlier granted rewrite left behind.
THEOREM Custody == Spec => []ChainOfCustody
  BY Inductive, PTL DEF IInv

\* The audit trail never invents a change.
THEOREM HonestAudit == Spec => []AuditIsHonest
  BY Inductive, PTL DEF IInv

\* An APPROVED task was released by a reviewer, handed to review by an
\* implementer and approved by a reviewer, whatever raced or died on the way.
THEOREM FullHistory == Spec => []ApprovalHasFullHistory
<1>1. IInv => ApprovalHasFullHistory
  <2> SUFFICES ASSUME IInv, whole = "APPROVED" PROVE ApprovalHasFullHistory
    BY DEF ApprovalHasFullHistory
  <2>1. PICK v \in writes : v[2] = "APPROVED"
    BY DEF IInv, OnlyKnownStatuses, Known
  <2>2. v = <<v[1], v[2], v[3]>> /\ IsTransitionAllowed(v[1], v[2], v[3])
    BY DEF IInv, TypeOK, ChainOfCustody
  <2>3. v[1] = "REVIEW" /\ v[3] \in Reviewers
    BY <2>1, <2>2, AllowedFacts
  <2>4. PICK u \in writes : u[2] = "REVIEW"
    BY <2>3 DEF IInv, ChainOfCustody
  <2>5. u = <<u[1], u[2], u[3]>> /\ IsTransitionAllowed(u[1], u[2], u[3])
    BY DEF IInv, TypeOK, ChainOfCustody
  <2>6. u[1] = "IN_PROGRESS" /\ u[3] \in Implementers
    BY <2>4, <2>5, AllowedFacts
  <2>7. Released
    BY <2>1 DEF IInv, WorkIsReleased
  <2> QED
    BY <2>1, <2>2, <2>3, <2>4, <2>5, <2>6, <2>7 DEF ApprovalHasFullHistory, Released
<1> QED BY <1>1, Inductive, PTL

-----------------------------------------------------------------------------
(***************************************************************************)
(* One process at a time: the abstract task is implemented.                *)
(***************************************************************************)

\* What a process alone on the file knows: the status it parsed is current.
Undisturbed ==
  \A p \in Procs : pc[p] \in {"read", "load", "truncate", "fill"} => previous[p] = whole

\* With a single process, killed or failing anywhere, the status only changes
\* as the authority table allows from the status it has.
THEOREM AloneImplements ==
  ASSUME NEW self, Procs = {self}
  PROVE  Spec => AbstractSpec
<1>1. Init => Undisturbed /\ Abstract!Init
  BY DEF Init, Undisturbed, Abstract!Init
<1>2. IInv /\ Undisturbed /\ [Next]_vars => Undisturbed' /\ [Abstract!Next]_whole
  <2> SUFFICES ASSUME IInv, Undisturbed, [Next]_vars
               PROVE  Undisturbed' /\ [Abstract!Next]_whole
    OBVIOUS
  <2> DEFINE p == self
  <2>1. CASE Fill(p)
    <3>1. previous[p] = whole /\ IsTransitionAllowed(whole, request[p].to, request[p].actor)
      BY <2>1 DEF Fill, Undisturbed, IInv, RewritesAreGranted
    <3>2. request[p].to \in TaskStatus /\ request[p].actor \in ActorRole
      BY DEF IInv, TypeOK, Request
    <3>3. Abstract!Next
      BY <2>1, <3>1, <3>2
      DEF Fill, Abstract!Next, Abstract!Transition, Abstract!IsTransitionAllowed,
          IsTransitionAllowed, Abstract!TaskStatus, TaskStatus, Abstract!ActorRole, ActorRole,
          Abstract!NonFinalWorkingStates, NonFinalWorkingStates, Abstract!Reviewers, Reviewers,
          Abstract!TransitionAuthority, TransitionAuthority,
          Abstract!Implementers, Implementers
    <3>4. Undisturbed'
      BY <2>1 DEF Fill, Undisturbed, Goto, IInv, TypeOK
    <3> QED BY <3>3, <3>4
  <2>2. CASE FindTask(p)
    BY <2>2 DEF FindTask, Parses, Undisturbed, Goto, IInv, TypeOK, OnlyKnownStatuses
  <2>3. ASSUME NEW r \in Calls, Call(p, r) PROVE Undisturbed' /\ UNCHANGED whole
    BY <2>3 DEF Call, Undisturbed, Goto, IInv, TypeOK
  <2>4. CASE ReadStatusLine(p) \/ LoadText(p) \/ Truncate(p) \/ FillFails(p)
    BY <2>4 DEF ReadStatusLine, Granted, LoadText, Truncate, FillFails, Undisturbed, Goto, IInv, TypeOK
  <2>5. CASE WriteAudit(p) \/ AuditFails(p) \/ Crash(p)
    BY <2>5 DEF WriteAudit, AuditFails, Crash, Leave, Undisturbed, Goto, IInv, TypeOK
  <2>6. CASE UNCHANGED vars
    BY <2>6 DEF vars, Undisturbed
  <2> QED
    BY <2>1, <2>2, <2>3, <2>4, <2>5, <2>6 DEF Next, Transition
<1> QED
  BY <1>1, <1>2, Inductive, PTL DEF Spec, AbstractSpec, Abstract!Spec
=============================================================================
