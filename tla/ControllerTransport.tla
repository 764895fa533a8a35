------------------------- MODULE ControllerTransport -------------------------
(***************************************************************************)
(* How a verdict on a review bundle gets back to the handoff request that  *)
(* asked for it: controller_handoff.py, controller_decision.py, the        *)
(* envelopes and the local driver of controller_transport.py and           *)
(* controller_transport_driver.py, and the dispatch of                     *)
(* controller_adapter.py.  Everything is a file in .agent_runner/ whose    *)
(* name holds a time in whole seconds, written with write_text(), which    *)
(* replaces what is there.  Several commands may run at once, the answers  *)
(* of the controller may come late, twice or contradict each other, and a  *)
(* command may be killed while it rewrites a handoff.                      *)
(*                                                                         *)
(* The branch is never switched here, so that every comparison of branches *)
(* holds; ids, file names and paths that the code compares one by one are  *)
(* one value when one of them determines the others.                       *)
(***************************************************************************)
EXTENDS Naturals, FiniteSets

CONSTANTS Tasks,        \* the tasks under review
          Verdicts,     \* the values of DecisionValue
          Heads,        \* the commits an execution may start from
          Clerks,       \* the processes that reconcile handoffs
          MaxSecond,    \* bound on the clock
          MaxRuns,      \* bound on the executions that leave a bundle
          MaxDecisions, \* bound on the decision records written
          MaxRequests   \* bound on the transport requests issued

ASSUME BoundsAssumption ==
  /\ MaxSecond \in Nat
  /\ MaxRuns \in Nat
  /\ MaxDecisions \in Nat
  /\ MaxRequests \in Nat

Absent == [file |-> "absent"]  \* there is no file of this name
Torn == [file |-> "torn"]      \* write_text() has truncated the file, not filled it
NoPath == [path |-> "none"]    \* a decision_path that is None
NoHead == "NO HEAD"            \* a post_head that was never captured

VARIABLES
  second,     \* the clock, in the seconds the file names are made of
  bundles,    \* .agent_runner/review: the bundle of a name
  decisions,  \* .agent_runner/decisions: the record of a name
  handoffs,   \* .agent_runner/controller_handoff: the request of a name
  requests,   \* the transport requests issued
  inbox,      \* controller_transport/inbox: the response of a name
  job,        \* job[k]: the reconciliation that process k is at
  executed,   \* ghost: the executions, with the name of their bundle
  recorded,   \* ghost: every decision record ever written, with its name
  received    \* ghost: what the driver's receive() has returned

vars == <<second, bundles, decisions, handoffs, requests, inbox, job,
          executed, recorded, received>>

Seconds == 0..MaxSecond
Posts == Heads \cup {NoHead}

\* The file names.  The name of a handoff keeps the state it was written in.
BundleName == [second : Seconds, task : Tasks]
HandoffName == [second : Seconds, task : Tasks]
DecisionName == [second : Seconds, task : Tasks, verdict : Verdicts]
ResponseName == [second : Seconds, request : 1..MaxRequests]

Bundle == [run : 1..MaxRuns, pre : Heads, post : Posts]
Decision == [bundle : BundleName, run : 1..MaxRuns, pre : Heads, post : Posts]
Handoff == [bundle : BundleName, run : 1..MaxRuns, pre : Heads, post : Posts,
            state : {"WAITING_DECISION", "DECISION_RECEIVED"},
            path : DecisionName \cup {NoPath}]
Request == [id : 1..MaxRequests, handoff : HandoffName]
Response == [state : {"PENDING", "DECISION_RECEIVED"},
             path : DecisionName \cup {NoPath}]

HandoffFile == Handoff \cup {Absent, Torn}
IsFile(content) == content \notin {Absent, Torn}

Idle == [step |-> "idle"]
Job == {Idle}
       \cup [step : {"check", "rewrite"}, handoff : HandoffName,
             decision : DecisionName, copy : Handoff]

Init ==
  /\ second = 0
  /\ bundles = [n \in BundleName |-> Absent]
  /\ decisions = [n \in DecisionName |-> Absent]
  /\ handoffs = [n \in HandoffName |-> Absent]
  /\ requests = {}
  /\ inbox = [n \in ResponseName |-> Absent]
  /\ job = [k \in Clerks |-> Idle]
  /\ executed = {}
  /\ recorded = {}
  /\ received = {}

Tick ==
  /\ second < MaxSecond
  /\ second' = second + 1
  /\ UNCHANGED <<bundles, decisions, handoffs, requests, inbox, job,
                 executed, recorded, received>>

-----------------------------------------------------------------------------
(* The files a verdict needs. *)

\* write_review_bundle(): the bundle of an execution, under its second.
Execute(t, pre, post) ==
  LET n == [second |-> second, task |-> t]
      r == Cardinality(executed) + 1
  IN /\ r \leq MaxRuns
     /\ bundles' = [bundles EXCEPT ![n] = [run |-> r, pre |-> pre, post |-> post]]
     /\ executed' = executed \cup {[run |-> r, bundle |-> n]}
     /\ UNCHANGED <<second, decisions, handoffs, requests, inbox, job,
                    recorded, received>>

\* The record's name has the verdict in it and nothing of the bundle.
DecisionFile(b, v) == [second |-> second, task |-> b.task, verdict |-> v]

\* build_controller_decision() and write_controller_decision(): the evidence of
\* the bundle as it is now.  The builder refuses a worker.
Decide(b, v) ==
  LET d == [bundle |-> b, run |-> bundles[b].run,
            pre |-> bundles[b].pre, post |-> bundles[b].post]
  IN /\ bundles[b] # Absent
     /\ Cardinality(recorded) < MaxDecisions
     /\ decisions' = [decisions EXCEPT ![DecisionFile(b, v)] = d]
     /\ recorded' = recorded \cup {[name |-> DecisionFile(b, v), record |-> d]}
     /\ UNCHANGED <<second, bundles, handoffs, requests, inbox, job,
                    executed, received>>

\* build_controller_handoff() and write_controller_handoff(), which replace a
\* handoff of this task written within the second, even a decided one.
Prepare(b) ==
  LET n == [second |-> second, task |-> b.task]
  IN /\ bundles[b] # Absent
     /\ handoffs' = [handoffs EXCEPT ![n] =
                       [bundle |-> b, run |-> bundles[b].run,
                        pre |-> bundles[b].pre, post |-> bundles[b].post,
                        state |-> "WAITING_DECISION", path |-> NoPath]]
     /\ UNCHANGED <<second, bundles, decisions, requests, inbox, job,
                    executed, recorded, received>>

-----------------------------------------------------------------------------
(* The envelopes and the driver. *)

\* handoff_to_transport_request() and send(): a fresh id for every call, so
\* that a handoff may be out under several ids.  To send a request once more
\* finds the identical file and leaves it.
Send(n) ==
  /\ IsFile(handoffs[n])
  /\ Cardinality(requests) < MaxRequests
  /\ requests' = requests \cup {[id |-> Cardinality(requests) + 1, handoff |-> n]}
  /\ UNCHANGED <<second, bundles, decisions, handoffs, inbox, job,
                 executed, recorded, received>>

\* The controller answers a request, at any time and as often as it likes:
\* build_transport_response() and write_driver_response().
Respond(r, a) ==
  /\ inbox' = [inbox EXCEPT ![[second |-> second, request |-> r.id]] = a]
  /\ UNCHANGED <<second, bundles, decisions, handoffs, requests, job,
                 executed, recorded, received>>

Responses(r) == {n \in ResponseName : n.request = r.id /\ inbox[n] # Absent}

\* receive() hands out the response of the request if there is just one.
LatestOf(candidates) == \* mutant: the latest of several is taken
  {m \in candidates : \A other \in candidates : other.second \leq m.second}
SingleOf(candidates) == IF Cardinality(candidates) = 1 THEN candidates ELSE {}

Receive(r) ==
  \E m \in SingleOf(Responses(r)) :
    /\ received' = received \cup {[request |-> r.id, response |-> m]}
    /\ UNCHANGED <<second, bundles, decisions, handoffs, requests, inbox, job,
                   executed, recorded>>

-----------------------------------------------------------------------------
(* reconcile_controller_handoff(), which everything ends in. *)

\* load_controller_handoff(): an absent or torn file ends the command at once.
Reconcile(k, n, d) ==
  /\ job[k] = Idle
  /\ IsFile(handoffs[n])
  /\ job' = [job EXCEPT ![k] = [step |-> "check", handoff |-> n, decision |-> d,
                               copy |-> handoffs[n]]]
  /\ UNCHANGED <<second, bundles, decisions, handoffs, requests, inbox,
                 executed, recorded, received>>

\* apply_transport_response(): what the response refers to, if it brings a
\* decision.  Whether it was received, or is the only one, is not asked.
Apply(k, r, m) ==
  /\ m \in Responses(r)
  /\ inbox[m].state = "DECISION_RECEIVED"
  /\ inbox[m].path # NoPath
  /\ Reconcile(k, r.handoff, inbox[m].path)

\* dispatch_controller_adapter() with the manual adapter: only a handoff that
\* has a decision leads to a reconciliation, with that decision.
Dispatch(k, n) ==
  /\ IsFile(handoffs[n])
  /\ handoffs[n].state = "DECISION_RECEIVED"
  /\ Reconcile(k, n, handoffs[n].path)

AtStep(k, step) == job[k].step = step
Goto(k, j) == job' = [job EXCEPT ![k] = j]

\* The comparisons of a record with a handoff: the bundle and its HEADs.  The
\* one after the run is left out for a handoff that has none.
FitsAnyBundle(h, d) == \* mutant: the bundles are not compared
  /\ h.pre = d.pre
  /\ h.post # NoHead => h.post = d.post
Fits(h, d) ==
  /\ h.bundle = d.bundle
  /\ h.pre = d.pre
  /\ h.post # NoHead => h.post = d.post

\* A handoff that has a decision is never given another one; with the same one
\* the command succeeds and writes nothing.
OpenToAll(h) == TRUE \* mutant: "already reconciled" is not looked at
Open(h) == h.state = "WAITING_DECISION"

\* load_controller_decision() and the comparisons with the copy just loaded.
CheckDecision(k) ==
  LET d == decisions[job[k].decision]
  IN /\ AtStep(k, "check")
     /\ IF d # Absent /\ Fits(job[k].copy, d) /\ Open(job[k].copy)
        THEN Goto(k, [job[k] EXCEPT !.step = "rewrite"])
        ELSE Goto(k, Idle)
     /\ UNCHANGED <<second, bundles, decisions, handoffs, requests, inbox,
                    executed, recorded, received>>

\* request_path.write_text(): the copy replaces whatever stands in the file by
\* now.  A command that meets the file while it is being written fails to parse
\* it and ends, which changes nothing.
ReconciledAsVerdict(h, d) == \* mutant: the state is the verdict
  [h EXCEPT !.state = d.verdict, !.path = d]
Reconciled(h, d) == [h EXCEPT !.state = "DECISION_RECEIVED", !.path = d]
Rewrite(k) ==
  /\ AtStep(k, "rewrite")
  /\ handoffs' = [handoffs EXCEPT ![job[k].handoff] =
                    Reconciled(job[k].copy, job[k].decision)]
  /\ Goto(k, Idle)
  /\ UNCHANGED <<second, bundles, decisions, requests, inbox, executed, recorded,
                 received>>

\* The process is killed, possibly after it has truncated the file.
Kill(k) ==
  /\ job[k] # Idle
  /\ Goto(k, Idle)
  /\ \/ UNCHANGED handoffs
     \/ /\ AtStep(k, "rewrite")
        /\ handoffs' = [handoffs EXCEPT ![job[k].handoff] = Torn]
  /\ UNCHANGED <<second, bundles, decisions, requests, inbox, executed, recorded,
                 received>>

-----------------------------------------------------------------------------

\* The files that exist, as arguments of the commands.
BundleFiles == {n \in BundleName : bundles[n] # Absent}
DecisionFiles == {n \in DecisionName : decisions[n] # Absent}
HandoffFiles == {n \in HandoffName : handoffs[n] # Absent}

\* What the controller may put into a response: a decision_path with a decision,
\* or none.  A response that says BLOCKED does what a PENDING one does.
Answers == {[state |-> "PENDING", path |-> NoPath]}
           \cup [state : {"DECISION_RECEIVED"}, path : DecisionFiles]

Next ==
  \/ Tick
  \/ \E t \in Tasks, pre \in Heads, post \in Posts : Execute(t, pre, post)
  \/ \E b \in BundleFiles : Prepare(b) \/ \E v \in Verdicts : Decide(b, v)
  \/ \E n \in HandoffFiles : Send(n)
  \/ \E r \in requests : Receive(r) \/ \E a \in Answers : Respond(r, a)
  \/ \E k \in Clerks :
       \/ \E n \in HandoffFiles : Dispatch(k, n) \/ \E d \in DecisionFiles : Reconcile(k, n, d)
       \/ \E r \in requests : \E m \in Responses(r) : Apply(k, r, m)
       \/ CheckDecision(k) \/ Rewrite(k) \/ Kill(k)

Spec == Init /\ [][Next]_vars

-----------------------------------------------------------------------------
(* Properties. *)

TypeOK ==
  /\ second \in Seconds
  /\ bundles \in [BundleName -> Bundle \cup {Absent}]
  /\ decisions \in [DecisionName -> Decision \cup {Absent}]
  /\ handoffs \in [HandoffName -> HandoffFile]
  /\ requests \subseteq Request
  /\ inbox \in [ResponseName -> Response \cup {Absent}]
  /\ job \in [Clerks -> Job]
  /\ executed \subseteq [run : 1..MaxRuns, bundle : BundleName]
  /\ recorded \subseteq [name : DecisionName, record : Decision]
  /\ received \subseteq [request : 1..MaxRequests, response : ResponseName]

Waiting(content) == IsFile(content) /\ content.state = "WAITING_DECISION"
Decided(content) == IsFile(content) /\ content.state = "DECISION_RECEIVED"

\* The name of a bundle that two executions have written.
SharedName(b) ==
  \E x, y \in executed : x.bundle = b /\ y.bundle = b /\ x.run # y.run

(* A handoff carries a verdict only if such a verdict was recorded on its  *)
(* own bundle with its own HEADs, and on the execution the handoff was     *)
(* prepared from, unless two executions shared the name of the bundle:     *)
(* late, repeated and contradictory answers, handoffs and records replaced *)
(* within a second and overlapping commands cannot give it the verdict on  *)
(* something else (reconcile_controller_handoff()).                        *)
DecidedOnItsExecution ==
  \A n \in HandoffName : Decided(handoffs[n]) =>
    \E e \in recorded :
      /\ e.name = handoffs[n].path
      /\ Fits(handoffs[n], e.record)
      /\ e.record.run = handoffs[n].run \/ SharedName(handoffs[n].bundle)

(* The verdict of a handoff stays.  It is lost in two ways only: a         *)
(* command that loaded the handoff before it was decided writes it back,   *)
(* or a handoff of the same task is prepared within the same second        *)
(* ("refusing to overwrite" of reconcile_controller_handoff()).            *)
DecisionIsKept ==
  [][\A n \in HandoffName :
       Decided(handoffs[n]) /\ handoffs'[n] # handoffs[n] =>
         \/ \E k \in Clerks : /\ AtStep(k, "rewrite")
                              /\ job[k].handoff = n
                              /\ job[k].copy.state = "WAITING_DECISION"
         \/ n.second = second /\ Waiting(handoffs'[n])]_vars

(* Whatever the driver has handed out for a request came under one name,   *)
(* that is within one second: as soon as an answer of another second has   *)
(* come the request is ambiguous for good, whichever was received          *)
(* (receive() of the local driver).                                        *)
OneAnswerPerRequest ==
  \A x, y \in received : x.request = y.request => x.response = y.response

=============================================================================
