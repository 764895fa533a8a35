--------------------------- MODULE TaskLifecycle ----------------------------
(***************************************************************************)
(* transition_task() of advancore/agent_runner/lifecycle.py run by several *)
(* command-line processes on one task file.  The code takes no lock: it    *)
(* parses the file, reads the STATUS line a second time, checks the        *)
(* authority table, reads the text a third time, truncates the file, fills *)
(* it again and finally appends an audit record.  Each of these is a step  *)
(* here, and a process may be killed between any two of them.              *)
(***************************************************************************)
EXTENDS LifecycleTable, Naturals, FiniteSets

CONSTANTS Procs,        \* the processes that may call transition_task
          Calls,        \* the arguments they may call it with
          MaxRequests,  \* bound on the calls made in one behaviour
          MaxFaults     \* bound on the faults: kills and failed writes

Request == [to : TaskStatus, actor : ActorRole, apply : BOOLEAN]

ASSUME BoundsAssumption == MaxRequests \in Nat /\ MaxFaults \in Nat
ASSUME CallsAssumption == Calls \subseteq Request

Torn == "TORN"      \* write_text has truncated the file and not yet filled it
NoStatus == "NONE"  \* previous_status of a call that could not parse the file

VARIABLES
  file,      \* the STATUS the task file carries, or Torn
  pc,        \* pc[p]: the next statement of p's call
  request,   \* request[p]: the arguments of p's call
  previous,  \* previous[p]: result.previous_status, the parsed status
  allowed,   \* the processes whose result.allowed is set
  applied,   \* the processes whose result.applied is set
  audit,     \* the lifecycle records of runner.jsonl
  requests,  \* calls made so far
  faults,    \* faults so far
  whole,     \* ghost: the last complete content of the file
  writes     \* ghost: the completed rewrites, <<status checked, written, role>>

vars == <<file, pc, request, previous, allowed, applied, audit, requests,
          faults, whole, writes>>

AuditRecord == [previous : TaskStatus \cup {NoStatus}, to : TaskStatus,
                actor : ActorRole, allowed : BOOLEAN, applied : BOOLEAN]
Step == {"idle", "find", "read", "load", "truncate", "fill", "audit"}

NoRequest == [to |-> "DRAFT", actor |-> "worker", apply |-> FALSE]

Init ==
  /\ file = "DRAFT"
  /\ pc = [p \in Procs |-> "idle"]
  /\ request = [p \in Procs |-> NoRequest]
  /\ previous = [p \in Procs |-> NoStatus]
  /\ allowed = {}
  /\ applied = {}
  /\ audit = {}
  /\ requests = 0
  /\ faults = 0
  /\ whole = "DRAFT"
  /\ writes = {}

Goto(p, step) == pc' = [pc EXCEPT ![p] = step]

\* The call is over: its arguments and its result go out of scope.
Leave(p) ==
  /\ Goto(p, "idle")
  /\ request' = [request EXCEPT ![p] = NoRequest]
  /\ previous' = [previous EXCEPT ![p] = NoStatus]
  /\ allowed' = allowed \ {p}
  /\ applied' = applied \ {p}

\* A call starts: normalised arguments, an empty LifecycleResult.
Call(p, r) ==
  /\ pc[p] = "idle"
  /\ requests < MaxRequests
  /\ request' = [request EXCEPT ![p] = r]
  /\ requests' = requests + 1
  /\ Goto(p, "find")
  /\ UNCHANGED <<file, previous, allowed, applied, audit, faults, whole, writes>>

\* parse_task(): an emptied file has no STATUS line.
Parses(text) == text # Torn

\* find_task(): the call fails when the file does not parse.
FindTask(p) ==
  /\ pc[p] = "find"
  /\ \/ ~Parses(file) /\ Goto(p, "audit") /\ UNCHANGED previous
     \/ /\ Parses(file)
        /\ previous' = [previous EXCEPT ![p] = file]
        /\ Goto(p, "read")
  /\ UNCHANGED <<file, request, allowed, applied, audit, requests, faults, whole, writes>>

\* _read_status_line(), its comparison with the parsed status and the authority
\* check, of which the mutant drops one.
GrantedUnparsed(p) == IsTransitionAllowed(file, request[p].to, request[p].actor)
Granted(p) ==
  /\ file = previous[p]
  /\ IsTransitionAllowed(previous[p], request[p].to, request[p].actor)

ReadStatusLine(p) ==
  /\ pc[p] = "read"
  /\ allowed' = IF Granted(p) THEN allowed \cup {p} ELSE allowed
  /\ Goto(p, IF Granted(p) /\ request[p].apply THEN "load" ELSE "audit")
  /\ UNCHANGED <<file, request, previous, applied, audit, requests, faults, whole, writes>>

\* The read_text() of _rewrite_status_line(): the index is out of range when
\* the file is empty.  Whatever status stands on the line is replaced.
LoadText(p) ==
  /\ pc[p] = "load"
  /\ Goto(p, IF file = Torn THEN "audit" ELSE "truncate")
  /\ UNCHANGED <<file, request, previous, allowed, applied, audit, requests, faults,
                 whole, writes>>

\* write_text() opens the file for writing ...
Truncate(p) ==
  /\ pc[p] = "truncate"
  /\ file' = Torn
  /\ Goto(p, "fill")
  /\ UNCHANGED <<request, previous, allowed, applied, audit, requests, faults, whole, writes>>

\* ... and flushes the new text when it closes it.
Fill(p) ==
  /\ pc[p] = "fill"
  /\ file' = request[p].to
  /\ whole' = request[p].to
  /\ writes' = writes \cup {<<previous[p], request[p].to, request[p].actor>>}
  /\ applied' = applied \cup {p}
  /\ Goto(p, "audit")
  /\ UNCHANGED <<request, previous, allowed, audit, requests, faults>>

AuditOf(p) == [previous |-> previous[p], to |-> request[p].to,
               actor |-> request[p].actor, allowed |-> p \in allowed,
               applied |-> p \in applied]

\* _maybe_write_audit().
WriteAudit(p) ==
  /\ pc[p] = "audit"
  /\ audit' = audit \cup {AuditOf(p)}
  /\ Leave(p)
  /\ UNCHANGED <<file, requests, faults, whole, writes>>

Fault == faults < MaxFaults /\ faults' = faults + 1

\* An AuditWriteError is only a warning in the result.
AuditFails(p) ==
  /\ pc[p] = "audit"
  /\ Fault
  /\ Leave(p)
  /\ UNCHANGED <<file, audit, requests, whole, writes>>

\* Mutant: the failed rewrite is reported as applied.
FillFailsQuietly(p) ==
  /\ pc[p] = "fill"
  /\ Fault
  /\ applied' = applied \cup {p}
  /\ Goto(p, "audit")
  /\ UNCHANGED <<file, request, previous, allowed, audit, requests, whole, writes>>

\* The flush raises (a full disk): the call reports that nothing was applied,
\* and the file stays empty.
FillFails(p) ==
  /\ pc[p] = "fill"
  /\ Fault
  /\ Goto(p, "audit")
  /\ UNCHANGED <<file, request, previous, allowed, applied, audit, requests, whole, writes>>

\* The process is killed; what it wrote to the file stays.
Crash(p) ==
  /\ pc[p] # "idle"
  /\ Fault
  /\ Leave(p)
  /\ UNCHANGED <<file, audit, requests, whole, writes>>

Transition(p) ==
  \/ FindTask(p) \/ ReadStatusLine(p) \/ LoadText(p)
  \/ Truncate(p) \/ Fill(p) \/ FillFails(p) \/ WriteAudit(p) \/ AuditFails(p)

Next ==
  \E p \in Procs :
    \/ \E r \in Calls : Call(p, r)
    \/ Transition(p)
    \/ Crash(p)

Spec == Init /\ [][Next]_vars

-----------------------------------------------------------------------------
(***************************************************************************)
(* Properties                                                              *)
(***************************************************************************)

\* The type of every variable: in particular the file holds one of the seven
\* statuses or nothing at all.
TypeOK ==
  /\ file \in TaskStatus \cup {Torn}
  /\ pc \in [Procs -> Step]
  /\ request \in [Procs -> Request]
  /\ previous \in [Procs -> TaskStatus \cup {NoStatus}]
  /\ allowed \subseteq Procs
  /\ applied \subseteq Procs
  /\ audit \subseteq AuditRecord
  /\ requests \in 0..MaxRequests
  /\ faults \in 0..MaxFaults
  /\ whole \in TaskStatus
  /\ writes \subseteq (TaskStatus \cup {NoStatus}) \X TaskStatus \X ActorRole

\* However many processes race and die, an APPROVED task has behind it a
\* release by a reviewer, a worker or owner handing the work to review, and an
\* approval by a reviewer who saw REVIEW: transition_task() can lose an update
\* but never lets a worker approve or an unreleased task through.
ApprovalHasFullHistory ==
  whole = "APPROVED" =>
    /\ \E a \in Reviewers : <<"REVIEW", "APPROVED", a>> \in writes
    /\ \E a \in Implementers : <<"IN_PROGRESS", "REVIEW", a>> \in writes
    /\ \E a \in Reviewers, s \in {"DRAFT", "BLOCKED"}, t \in ExecutableStatuses :
         <<s, t, a>> \in writes

\* Every rewrite was granted by the table for the status it checked, and that
\* status was the initial DRAFT or the result of an earlier granted rewrite:
\* no status appears out of thin air in the middle of a race.
ChainOfCustody ==
  \A w \in writes :
    /\ IsTransitionAllowed(w[1], w[2], w[3])
    /\ w[1] = "DRAFT" \/ \E v \in writes : v[2] = w[1]

\* A record that says "applied" describes a rewrite that reached the file, and
\* one that says "denied" never does: the trail may miss a change (a crash, a
\* full disk) but never invents one.
AuditIsHonest ==
  \A r \in audit :
    /\ r.applied => r.allowed /\ <<r.previous, r.to, r.actor>> \in writes
    /\ r.allowed => IsTransitionAllowed(r.previous, r.to, r.actor)

\* The abstract task: a torn file still stands for its last complete content.
Abstract == INSTANCE TaskStatus WITH status <- whole, InitialStatuses <- {"DRAFT"}

\* The status changes only as the table allows, from the status it has.
AbstractSpec == Abstract!Spec

-----------------------------------------------------------------------------
(***************************************************************************)
(* The inductive invariant behind them.                                    *)
(***************************************************************************)

\* A status is known when the file has carried it.
Known(s) == s = "DRAFT" \/ \E v \in writes : v[2] = s

\* What the file holds, and what any process has read from it, is known.
OnlyKnownStatuses ==
  /\ file \in {whole, Torn}
  /\ Known(whole)
  /\ \A p \in Procs : previous[p] = NoStatus \/ Known(previous[p])

\* A process on its way to the rewrite parsed a status and passed the check.
RewritesAreGranted ==
  \A p \in Procs :
    /\ pc[p] = "read" => previous[p] # NoStatus
    /\ pc[p] \in {"idle", "find", "read"} => p \notin allowed
    /\ pc[p] \in {"load", "truncate", "fill"} => p \in allowed
    /\ p \in allowed =>
         /\ previous[p] # NoStatus
         /\ IsTransitionAllowed(previous[p], request[p].to, request[p].actor)

\* A result that says "applied" belongs to a rewrite that was made.
ResultsAreHonest ==
  \A p \in Procs :
    p \in applied =>
      /\ pc[p] = "audit"
      /\ p \in allowed
      /\ <<previous[p], request[p].to, request[p].actor>> \in writes

Released == \E a \in Reviewers, s \in {"DRAFT", "BLOCKED"}, t \in ExecutableStatuses :
              <<s, t, a>> \in writes

\* Past DRAFT and BLOCKED a task has been released by a reviewer.
WorkIsReleased == \A w \in writes : w[2] \notin {"DRAFT", "BLOCKED"} => Released

IInv == /\ TypeOK
        /\ OnlyKnownStatuses
        /\ RewritesAreGranted
        /\ ResultsAreHonest
        /\ ChainOfCustody
        /\ WorkIsReleased
        /\ AuditIsHonest
=============================================================================
