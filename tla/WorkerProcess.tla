---------------------------- MODULE WorkerProcess ----------------------------
(***************************************************************************)
(* run_bounded_worker_process() of advancore/agent_runner/worker.py: a     *)
(* worker is started in a session of its own and waited for until its      *)
(* output is closed, at most until a deadline.  Then, or when the operator *)
(* interrupts, its process group gets SIGTERM, a second of grace and       *)
(* SIGKILL, and the repository is compared with what it was before.        *)
(*                                                                         *)
(* A worker is a leader and at most one child.  The child may close the    *)
(* output it inherited, or leave the group, and nobody but the signals     *)
(* above ever waits for it or ends it.                                     *)
(***************************************************************************)
EXTENDS Naturals, FiniteSets

CONSTANTS Calls,       \* the calls of run_bounded_worker_process()
          Source,      \* a file of the repository that a worker may touch
          MaxChildren, \* bound on the children that workers start
          MaxEdits     \* bound on what workers do to the repository

ASSUME WorkerBoundsAssumption == MaxChildren \in Nat /\ MaxEdits \in Nat

VARIABLES
  tree,      \* what differs from HEAD: the paths, and a stamp of their content
  head,      \* the number of commits on the branch
  edits,     \* what workers have done to the repository so far
  call,      \* call[c]: where the call is
  reason,    \* reason[c]: how it ended, the result the caller looks at
  leader,    \* leader[c]: the process the call has started
  child,     \* child[c]: the process that one has started
  before,    \* before[c]: _git_evidence() at the start
  base,      \* ghost: base[c]: the true content of the tree at the start
  advised    \* the results with a recovery_action, and what they were given for

repository == <<tree, head, edits>>
evidence == <<before, base, advised>>
workers == <<call, reason, leader, child, evidence>>

CallStep == {"none", "running", "grace", "stopped", "ended", "abandoned"}
ExitReason == {"success", "unavailable", "failure"}
Reason == {"none", "timeout", "cancelled"} \cup ExitReason

\* A child has the output of the worker or has closed it ("quiet"), or it has
\* left the process group ("away") with the output.
InGroup == {"child", "quiet"}
HoldsOutput == {"child", "away"}
ChildAlive == InGroup \cup {"away"}

Status == {e.path : e \in tree}
Seen == [status |-> Status, head |-> head]
Ambiguous == [seen |-> "ambiguous"] \* a git command failed or timed out
NotSeen == [seen |-> "not yet"]

WorkerInit ==
  /\ tree = {}
  /\ head = 0
  /\ edits = 0
  /\ call = [c \in Calls |-> "none"]
  /\ reason = [c \in Calls |-> "none"]
  /\ leader = [c \in Calls |-> "none"]
  /\ child = [c \in Calls |-> "none"]
  /\ before = [c \in Calls |-> NotSeen]
  /\ base = [c \in Calls |-> {}]
  /\ advised = {}

EndCall(c, r) ==
  /\ call' = [call EXCEPT ![c] = "ended"]
  /\ reason' = [reason EXCEPT ![c] = r]

\* The variables of a call are gone when it is.
Forget(c) ==
  /\ before' = [before EXCEPT ![c] = NotSeen]
  /\ base' = [base EXCEPT ![c] = {}]

\* The evidence, and then Popen().  Evidence that could not be read counts only
\* in Report.
StartWorker(c) ==
  /\ call[c] = "none"
  /\ before' = [before EXCEPT ![c] = Seen]
  /\ call' = [call EXCEPT ![c] = "running"]
  /\ leader' = [leader EXCEPT ![c] = "alive"]
  /\ base' = [base EXCEPT ![c] = tree]
  /\ UNCHANGED <<reason, child, advised>>

\* shutil.which() finds no executable, or Popen() raises.
StartFails(c) ==
  /\ call[c] = "none"
  /\ \E r \in {"unavailable", "failure"} : EndCall(c, r)
  /\ UNCHANGED <<leader, child, evidence>>

-----------------------------------------------------------------------------
(* The processes of the worker. *)

Alive(c) == leader[c] = "alive" \/ child[c] \in ChildAlive

Exit(c) ==
  /\ \/ /\ leader[c] = "alive"
        /\ leader' = [leader EXCEPT ![c] = "exited"]
        /\ UNCHANGED child
     \/ /\ child[c] \in ChildAlive
        /\ child' = [child EXCEPT ![c] = "dead"]
        /\ UNCHANGED leader
  /\ UNCHANGED <<repository, call, reason, evidence>>

Fork(c) ==
  /\ leader[c] = "alive"
  /\ child[c] = "none"
  /\ Cardinality({d \in Calls : child[d] # "none"}) < MaxChildren
  /\ \E kind \in ChildAlive : child' = [child EXCEPT ![c] = kind]
  /\ UNCHANGED <<repository, call, reason, leader, evidence>>

\* A process of the worker edits the file or one that is dirty already, restores
\* the file, or commits everything.
Touch(c) ==
  /\ Alive(c)
  /\ edits < MaxEdits
  /\ edits' = edits + 1
  /\ \/ /\ \E p \in Status \cup {Source} :
             tree' = {e \in tree : e.path # p} \cup {[path |-> p, stamp |-> edits + 1]}
        /\ UNCHANGED head
     \/ /\ Source \in Status
        /\ tree' = {e \in tree : e.path # Source}
        /\ UNCHANGED head
     \/ /\ tree # {}
        /\ tree' = {}
        /\ head' = head + 1
  /\ UNCHANGED workers

-----------------------------------------------------------------------------
(* The call. *)

\* communicate() returns when the output is closed and the leader has ended, in
\* one way or another.
Complete(c) ==
  /\ call[c] = "running"
  /\ leader[c] = "exited"
  /\ child[c] \notin HoldsOutput
  /\ \E r \in ExitReason : EndCall(c, r)
  /\ Forget(c)
  /\ UNCHANGED <<repository, leader, child, advised>>

\* The deadline, or Ctrl-C, and os.killpg(SIGTERM): every member of the group
\* may end, or ignore it.
StopFor(c, r) ==
  /\ call[c] = "running"
  /\ call' = [call EXCEPT ![c] = "grace"]
  /\ reason' = [reason EXCEPT ![c] = r]
  /\ leader' \in {leader, [leader EXCEPT ![c] = "exited"]}
  /\ child' \in {child, [child EXCEPT ![c] = IF @ \in InGroup THEN "dead" ELSE @]}
  /\ UNCHANGED <<repository, evidence>>

Deadline(c) == StopFor(c, "timeout")
Interrupt(c) == StopFor(c, "cancelled")

\* The second of grace is over: os.killpg(SIGKILL) and process.wait().
LeaderOnly == {}        \* mutant: process.kill() instead of the group
KilledChildren == InGroup

KillGroup(c) ==
  /\ call[c] = "grace"
  /\ call' = [call EXCEPT ![c] = "stopped"]
  /\ leader' = [leader EXCEPT ![c] = "exited"]
  /\ child' = [child EXCEPT ![c] = IF @ \in KilledChildren THEN "dead" ELSE @]
  /\ UNCHANGED <<repository, reason, evidence>>

\* The evidence again.  Only names and HEADs are compared.
SameHead(x, y) == \* mutant: the worktree is not compared
  Ambiguous \notin {x, y} /\ x.head = y.head
Unchanged(x, y) == Ambiguous \notin {x, y} /\ x = y

\* communicate() once more would wait for the output instead.
OutputClosed(c) == call[c] = "stopped" /\ child[c] \notin HoldsOutput \* mutant
CanReport(c) == call[c] = "stopped"

Report(c) ==
  /\ CanReport(c)
  /\ EndCall(c, reason[c])
  /\ \E seen \in {before[c], Ambiguous}, again \in {Seen, Ambiguous} :
       advised' = IF Unchanged(seen, again)
                  THEN advised \cup {[base |-> base[c], content |-> tree]}
                  ELSE advised
  /\ Forget(c)
  /\ UNCHANGED <<repository, leader, child>>

\* The process that called is killed, or interrupted while it terminates the
\* worker.  The worker is in a session of its own and goes on.
Abandon(c) ==
  /\ IF call[c] \in {"none", "ended"} THEN UNCHANGED call
     ELSE call' = [call EXCEPT ![c] = "abandoned"]
  /\ Forget(c)
  /\ UNCHANGED <<repository, reason, leader, child, advised>>

Caller(c) == Complete(c) \/ Deadline(c) \/ KillGroup(c) \/ Report(c)

-----------------------------------------------------------------------------
(* Properties. *)

Terminated(c) == call[c] = "ended" /\ reason[c] \in {"timeout", "cancelled"}

(* A call that reports a timeout or a cancellation has ended its worker,   *)
(* whatever that did with SIGTERM, its output and its children: what is    *)
(* still alive has left the process group (_terminate_process_group()).    *)
OnlyTheAwaySurvive ==
  \A c \in Calls : Terminated(c) =>
    leader[c] # "alive" /\ child[c] \notin InGroup

(* An operator is told to resume only over the content the worker found.   *)
(* The exception is a file that was dirty before the worker started, whose *)
(* content may have changed: the evidence has names (_git_evidence()).     *)
RecoveryIsHonest ==
  \A r \in advised : \A e \in (r.content \ r.base) \cup (r.base \ r.content) :
    \E d \in r.base : d.path = e.path
=============================================================================
