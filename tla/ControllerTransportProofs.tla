---------------------- MODULE ControllerTransportProofs ----------------------
(***************************************************************************)
(* Proofs about ControllerTransport, for every set of tasks, verdicts,     *)
(* heads and processes and every bound.                                    *)
(***************************************************************************)
EXTENDS ControllerTransport, FiniteSetTheorems, TLAPS

-----------------------------------------------------------------------------
(***************************************************************************)
(* The inductive invariant                                                 *)
(***************************************************************************)

\* The run left its bundle under the name.
Traced(run, b) == [run |-> run, bundle |-> b] \in executed

\* Every bundle, record and handoff is about an execution that left the bundle it
\* names, the copy that a command works on too.
Provenance ==
  /\ \A b \in BundleName : bundles[b] # Absent => Traced(bundles[b].run, b)
  /\ \A n \in DecisionName :
       decisions[n] # Absent => [name |-> n, record |-> decisions[n]] \in recorded
  /\ \A e \in recorded : Traced(e.record.run, e.record.bundle)
  /\ \A n \in HandoffName : IsFile(handoffs[n]) => Traced(handoffs[n].run, handoffs[n].bundle)
  /\ \A k \in Clerks : job[k] # Idle => Traced(job[k].copy.run, job[k].copy.bundle)

\* A verdict of this name was recorded on the execution of the handoff.
Justified(h, name) ==
  \E e \in recorded :
    /\ e.name = name
    /\ Fits(h, e.record)
    /\ e.record.run = h.run \/ SharedName(h.bundle)

\* A command about to rewrite a handoff has checked its copy of it.
Checked ==
  \A k \in Clerks : AtStep(k, "rewrite") =>
    Justified(job[k].copy, job[k].decision) /\ Open(job[k].copy)

\* What was received is still in the inbox, under the request it answers.
StillThere ==
  \A x \in received : x.response.request = x.request /\ inbox[x.response] # Absent

Counted == IsFiniteSet(executed) /\ IsFiniteSet(requests)

IInv ==
  /\ TypeOK /\ Counted
  /\ Provenance /\ Checked /\ DecidedOnItsExecution
  /\ StillThere /\ OneAnswerPerRequest

-----------------------------------------------------------------------------
(***************************************************************************)
(* The operators                                                           *)
(***************************************************************************)

\* A request is neither an absent file nor a torn one.
LEMMA HandoffsAreFiles ==
  ASSUME NEW h \in Handoff
  PROVE  IsFile(h)
<1>1. DOMAIN h = {"bundle", "run", "pre", "post", "state", "path"}
  BY DEF Handoff
<1>2. DOMAIN Absent = {"file"} /\ DOMAIN Torn = {"file"}
  BY DEF Absent, Torn
<1>3. "bundle" \in DOMAIN h /\ "bundle" \notin DOMAIN Absent /\ "bundle" \notin DOMAIN Torn
  BY <1>1, <1>2
<1>4. h # Absent /\ h # Torn
  BY <1>3
<1> QED BY <1>4 DEF IsFile

\* The request with its verdict, which it gets on the same bundle.
LEMMA ReconciledFacts ==
  ASSUME NEW h \in Handoff, NEW d \in DecisionName
  PROVE  /\ Reconciled(h, d) \in Handoff
         /\ Reconciled(h, d).bundle = h.bundle /\ Reconciled(h, d).run = h.run
         /\ Reconciled(h, d).pre = h.pre /\ Reconciled(h, d).post = h.post
         /\ Reconciled(h, d).state = "DECISION_RECEIVED" /\ Reconciled(h, d).path = d
BY DEF Reconciled, Handoff

\* A job is idle or at one of its two steps.
LEMMA JobFacts ==
  ASSUME NEW k \in Clerks, job[k] \in Job
  PROVE  /\ job[k] # Idle => /\ job[k].handoff \in HandoffName
                             /\ job[k].decision \in DecisionName
                             /\ job[k].copy \in Handoff
         /\ AtStep(k, "check") \/ AtStep(k, "rewrite") => job[k] # Idle
BY DEF Job, Idle, AtStep

\* There are finitely many answers to a request.
LEMMA FiniteResponses ==
  ASSUME NEW r
  PROVE  IsFiniteSet(Responses(r))
<1>1. IsFiniteSet(0..MaxSecond)
  BY FS_Interval, BoundsAssumption
<1> DEFINE S == Responses(r)
           f == [n \in S |-> n.second]
<1>2. \A n \in S : n \in ResponseName /\ n.request = r.id
  BY DEF Responses
<1>3. \A n \in ResponseName : n = [second |-> n.second, request |-> n.request]
  BY DEF ResponseName
<1>4. \A m, n \in S : m.second = n.second => m = n
  BY <1>2, <1>3
<1>5. \A n \in S : n.second \in 0..MaxSecond
  BY <1>2 DEF ResponseName, Seconds
<1> HIDE DEF S
<1>6. f \in [S -> 0..MaxSecond]
  BY <1>5
<1>7. \A m, n \in S : f[m] = f[n] => m = n
  BY <1>4
<1> HIDE DEF f
<1>8. f \in Injection(S, 0..MaxSecond)
  BY <1>6, <1>7 DEF Injection, IsInjective
<1>9. IsFiniteSet(S)
  BY <1>1, <1>8, FS_Injection
<1> QED BY <1>9 DEF S

\* receive() hands out the response that there is.
LEMMA SingleResponse ==
  ASSUME NEW r, NEW m \in SingleOf(Responses(r))
  PROVE  Responses(r) = {m}
<1>1. Cardinality(Responses(r)) = 1 /\ m \in Responses(r)
  BY DEF SingleOf
<1>2. \E x : Responses(r) = {x}
  BY <1>1, FiniteResponses, FS_Singleton
<1> QED BY <1>1, <1>2

\* Whatever makes a command reconcile, it reconciles a handoff with a verdict.
Begins(k) == \E n \in HandoffName, d \in DecisionName : Reconcile(k, n, d)

LEMMA WaysToReconcile ==
  ASSUME IInv, NEW k \in Clerks
  PROVE  /\ \A n \in HandoffFiles : Dispatch(k, n) => Begins(k)
         /\ \A n \in HandoffFiles, d \in DecisionFiles : Reconcile(k, n, d) => Begins(k)
         /\ \A r \in requests : \A m \in Responses(r) : Apply(k, r, m) => Begins(k)
<1>1. ASSUME NEW n \in HandoffFiles, Dispatch(k, n) PROVE Begins(k)
  <2>1. n \in HandoffName /\ Decided(handoffs[n]) /\ Reconcile(k, n, handoffs[n].path)
    BY <1>1 DEF HandoffFiles, Dispatch, Decided
  <2>2. PICK e \in recorded : e.name = handoffs[n].path
    BY <2>1 DEF IInv, DecidedOnItsExecution
  <2>3. handoffs[n].path \in DecisionName
    BY <2>2 DEF IInv, TypeOK
  <2> QED BY <2>1, <2>3 DEF Begins
<1>2. ASSUME NEW n \in HandoffFiles, NEW d \in DecisionFiles, Reconcile(k, n, d) PROVE Begins(k)
  BY <1>2 DEF HandoffFiles, DecisionFiles, Begins
<1>3. ASSUME NEW r \in requests, NEW m \in Responses(r), Apply(k, r, m) PROVE Begins(k)
  <2>1. /\ r.handoff \in HandoffName /\ m \in ResponseName /\ inbox[m] \in Response
        /\ inbox[m].path # NoPath /\ Reconcile(k, r.handoff, inbox[m].path)
    BY <1>3 DEF IInv, TypeOK, Request, Apply, Responses
  <2>2. inbox[m].path \in DecisionName
    BY <2>1 DEF Response
  <2> QED BY <2>1, <2>2 DEF Begins
<1> QED BY <1>1, <1>2, <1>3

\* The steps of the module, with what they are given in its type.
Moves ==
  \/ Tick
  \/ \E t \in Tasks, pre \in Heads, post \in Posts : Execute(t, pre, post)
  \/ \E b \in BundleFiles : Prepare(b)
  \/ \E b \in BundleFiles, v \in Verdicts : Decide(b, v)
  \/ \E n \in HandoffFiles : Send(n)
  \/ \E r \in requests : Receive(r)
  \/ \E r \in requests, a \in Answers : Respond(r, a)
  \/ \E k \in Clerks : Begins(k)
  \/ \E k \in Clerks : CheckDecision(k)
  \/ \E k \in Clerks : Rewrite(k)
  \/ \E k \in Clerks : Kill(k)
  \/ UNCHANGED vars

LEMMA NextMoves ==
  ASSUME IInv, [Next]_vars
  PROVE  Moves
BY WaysToReconcile DEF Next, Moves

\* What the files that exist hold.
LEMMA FileTypes ==
  ASSUME IInv
  PROVE  /\ \A b \in BundleFiles : b \in BundleName /\ bundles[b] \in Bundle
         /\ \A n \in HandoffName : IsFile(handoffs[n]) => handoffs[n] \in Handoff
         /\ \A n \in DecisionName : decisions[n] # Absent => decisions[n] \in Decision
         /\ \A b \in BundleFiles, v \in Verdicts : DecisionFile(b, v) \in DecisionName
         /\ Answers \subseteq Response
         /\ \A k \in Clerks : job[k] \in Job
<1>1. \A b \in BundleFiles : b \in BundleName /\ bundles[b] \in Bundle
  BY DEF IInv, TypeOK, BundleFiles
<1>2. \A n \in HandoffName : IsFile(handoffs[n]) => handoffs[n] \in Handoff
  BY DEF IInv, TypeOK, IsFile, HandoffFile
<1>3. \A n \in DecisionName : decisions[n] # Absent => decisions[n] \in Decision
  BY DEF IInv, TypeOK
<1>4. \A b \in BundleFiles, v \in Verdicts : DecisionFile(b, v) \in DecisionName
  BY <1>1 DEF DecisionFile, DecisionName, BundleName, IInv, TypeOK
<1>5. Answers \subseteq Response
  BY DEF Answers, Response, DecisionFiles
<1>6. \A k \in Clerks : job[k] \in Job
  BY DEF IInv, TypeOK
<1> QED BY <1>1, <1>2, <1>3, <1>4, <1>5, <1>6

\* The record of a decision and the request about a bundle, as they are written.
Record(b) == [bundle |-> b, run |-> bundles[b].run,
              pre |-> bundles[b].pre, post |-> bundles[b].post]
Asked(b) == [bundle |-> b, run |-> bundles[b].run,
             pre |-> bundles[b].pre, post |-> bundles[b].post,
             state |-> "WAITING_DECISION", path |-> NoPath]

LEMMA EvidenceTypes ==
  ASSUME IInv, NEW b \in BundleFiles
  PROVE  /\ Record(b) \in Decision /\ Asked(b) \in Handoff
         /\ Record(b).bundle = b /\ Record(b).run = bundles[b].run
         /\ Asked(b).bundle = b /\ Asked(b).run = bundles[b].run
         /\ Asked(b).state = "WAITING_DECISION"
         /\ Traced(bundles[b].run, b)
<1>1. b \in BundleName /\ bundles[b] \in Bundle /\ bundles[b] # Absent
  BY FileTypes DEF BundleFiles
<1> QED BY <1>1 DEF IInv, Provenance, Record, Asked, Bundle, Decision, Handoff

\* The type of every variable.
LEMMA TypeStep ==
  ASSUME IInv, Moves
  PROVE  TypeOK' /\ Counted'
<1>0. TypeOK /\ Counted /\ MaxSecond \in Nat /\ MaxRuns \in Nat /\ MaxRequests \in Nat
  BY BoundsAssumption DEF IInv
<1>1. CASE Tick
  BY <1>0, <1>1 DEF Tick, TypeOK, Counted, Seconds
<1>2. ASSUME NEW t \in Tasks, NEW pre \in Heads, NEW post \in Posts, Execute(t, pre, post)
      PROVE  TypeOK' /\ Counted'
  <2> DEFINE n == [second |-> second, task |-> t]
             r == Cardinality(executed) + 1
             b == [run |-> r, pre |-> pre, post |-> post]
             x == [run |-> r, bundle |-> n]
  <2>1. /\ r \leq MaxRuns /\ bundles' = [bundles EXCEPT ![n] = b]
        /\ executed' = executed \cup {x}
        /\ UNCHANGED <<second, decisions, handoffs, requests, inbox, job, recorded, received>>
    BY <1>2 DEF Execute
  <2>2. Cardinality(executed) \in Nat
    BY <1>0, FS_CardinalityType DEF Counted
  <2>3. n \in BundleName /\ r \in 1..MaxRuns
    BY <1>0, <2>1, <2>2 DEF BundleName, TypeOK
  <2> HIDE DEF n, r
  <2>4. b \in Bundle /\ x \in [run : 1..MaxRuns, bundle : BundleName]
    BY <2>3 DEF Bundle
  <2>5. IsFiniteSet(executed')
    BY <1>0, <2>1, FS_AddElement DEF Counted
  <2> HIDE DEF b, x
  <2> QED BY <1>0, <2>1, <2>3, <2>4, <2>5 DEF TypeOK, Counted
<1>3. ASSUME NEW b \in BundleFiles, Prepare(b) PROVE TypeOK' /\ Counted'
  <2>1. /\ handoffs' = [handoffs EXCEPT ![[second |-> second, task |-> b.task]] = Asked(b)]
        /\ UNCHANGED <<second, bundles, decisions, requests, inbox, job,
                       executed, recorded, received>>
    BY <1>3 DEF Prepare, Asked
  <2>2. Asked(b) \in HandoffFile
    BY EvidenceTypes DEF HandoffFile
  <2> QED BY <1>0, <2>1, <2>2 DEF TypeOK, Counted
<1>4. ASSUME NEW b \in BundleFiles, NEW v \in Verdicts, Decide(b, v) PROVE TypeOK' /\ Counted'
  <2>1. /\ decisions' = [decisions EXCEPT ![DecisionFile(b, v)] = Record(b)]
        /\ recorded' = recorded \cup {[name |-> DecisionFile(b, v), record |-> Record(b)]}
        /\ UNCHANGED <<second, bundles, handoffs, requests, inbox, job, executed, received>>
    BY <1>4 DEF Decide, Record
  <2>2. Record(b) \in Decision /\ DecisionFile(b, v) \in DecisionName
    BY EvidenceTypes, FileTypes
  <2> QED BY <1>0, <2>1, <2>2 DEF TypeOK, Counted
<1>5. ASSUME NEW n \in HandoffFiles, Send(n) PROVE TypeOK' /\ Counted'
  <2> DEFINE q == [id |-> Cardinality(requests) + 1, handoff |-> n]
  <2>1. /\ requests' = requests \cup {q} /\ Cardinality(requests) < MaxRequests
        /\ UNCHANGED <<second, bundles, decisions, handoffs, inbox, job,
                       executed, recorded, received>>
    BY <1>5 DEF Send
  <2>2. Cardinality(requests) \in Nat
    BY <1>0, FS_CardinalityType DEF Counted
  <2>3. Cardinality(requests) + 1 \in 1..MaxRequests
    BY <1>0, <2>1, <2>2
  <2>4. q \in Request
    BY <2>3 DEF Request, HandoffFiles
  <2>5. IsFiniteSet(requests')
    BY <1>0, <2>1, FS_AddElement DEF Counted
  <2> HIDE DEF q
  <2> QED BY <1>0, <2>1, <2>4, <2>5 DEF TypeOK, Counted
<1>6. ASSUME NEW r \in requests, Receive(r) PROVE TypeOK' /\ Counted'
  <2>1. PICK m \in SingleOf(Responses(r)) :
          /\ received' = received \cup {[request |-> r.id, response |-> m]}
          /\ UNCHANGED <<second, bundles, decisions, handoffs, requests, inbox, job,
                         executed, recorded>>
    BY <1>6 DEF Receive
  <2>2. m \in ResponseName /\ r.id \in 1..MaxRequests
    BY <1>0 DEF SingleOf, Responses, TypeOK, Request
  <2> QED BY <1>0, <2>1, <2>2 DEF TypeOK, Counted
<1>7. ASSUME NEW r \in requests, NEW a \in Answers, Respond(r, a) PROVE TypeOK' /\ Counted'
  <2>1. a \in Response
    BY FileTypes
  <2> QED BY <1>0, <1>7, <2>1 DEF Respond, TypeOK, Counted
<1>8. ASSUME NEW k \in Clerks, Begins(k) PROVE TypeOK' /\ Counted'
  <2>1. PICK n \in HandoffName, d \in DecisionName : Reconcile(k, n, d)
    BY <1>8 DEF Begins
  <2>2. handoffs[n] \in Handoff
    BY <2>1, FileTypes DEF Reconcile
  <2>3. [step |-> "check", handoff |-> n, decision |-> d, copy |-> handoffs[n]] \in Job
    BY <2>2 DEF Job
  <2> QED BY <1>0, <2>1, <2>3 DEF Reconcile, TypeOK, Counted
<1>9. ASSUME NEW k \in Clerks, CheckDecision(k) PROVE TypeOK' /\ Counted'
  <2>1. /\ job' \in {[job EXCEPT ![k] = [job[k] EXCEPT !.step = "rewrite"]],
                     [job EXCEPT ![k] = Idle]}
        /\ AtStep(k, "check")
        /\ UNCHANGED <<second, bundles, decisions, handoffs, requests, inbox,
                       executed, recorded, received>>
    BY <1>9 DEF CheckDecision, Goto
  <2>2. job[k] \in Job
    BY FileTypes
  <2>3. Idle \in Job /\ [job[k] EXCEPT !.step = "rewrite"] \in Job
    BY <2>1, <2>2 DEF Job, Idle, AtStep
  <2> QED BY <1>0, <2>1, <2>3 DEF TypeOK, Counted
<1>10. ASSUME NEW k \in Clerks, Rewrite(k) PROVE TypeOK' /\ Counted'
  <2>1. Reconciled(job[k].copy, job[k].decision) \in HandoffFile
    BY <1>10, JobFacts, FileTypes, ReconciledFacts DEF Rewrite, HandoffFile
  <2>2. Idle \in Job
    BY DEF Job
  <2> QED BY <1>0, <1>10, <2>1, <2>2 DEF Rewrite, Goto, TypeOK, Counted
<1>11. ASSUME NEW k \in Clerks, Kill(k) PROVE TypeOK' /\ Counted'
  <2>1. Idle \in Job /\ Torn \in HandoffFile
    BY DEF Job, HandoffFile
  <2> QED BY <1>0, <1>11, <2>1 DEF Kill, Goto, TypeOK, Counted
<1>12. CASE UNCHANGED vars
  BY <1>0, <1>12 DEF vars, TypeOK, Counted
<1> QED BY <1>1, <1>2, <1>3, <1>4, <1>5, <1>6, <1>7, <1>8, <1>9, <1>10, <1>11, <1>12 DEF Moves

-----------------------------------------------------------------------------
(***************************************************************************)
(* What a step may do to the files and the jobs                            *)
(***************************************************************************)

\* What was executed and recorded stays so, and a justification with it.
LEMMA Grows ==
  ASSUME IInv, Moves
  PROVE  /\ executed \subseteq executed' /\ recorded \subseteq recorded'
         /\ \A run, b : Traced(run, b) => Traced(run, b)'
         /\ \A h, name : Justified(h, name) => Justified(h, name)'
<1>1. executed \subseteq executed' /\ recorded \subseteq recorded'
  BY DEF Moves, Tick, Execute, Prepare, Decide, Send, Receive, Respond, Begins, Reconcile,
         CheckDecision, Rewrite, Kill, vars
<1>2. \A b : SharedName(b) => SharedName(b)'
  BY <1>1 DEF SharedName
<1> QED BY <1>1, <1>2 DEF Traced, Justified

\* The ways in which a handoff file changes: a new request of this second, the
\* copy of a command with its verdict, or a write that was cut short.
Rewritten(n, content) ==
  \E k \in Clerks : /\ AtStep(k, "rewrite") /\ job[k].handoff = n
                    /\ content \in {Torn, Reconciled(job[k].copy, job[k].decision)}
Renewed(n, content) ==
  n.second = second /\ \E b \in BundleFiles : content = Asked(b)

LEMMA HandoffStep ==
  ASSUME IInv, Moves, NEW n \in HandoffName, handoffs'[n] # handoffs[n]
  PROVE  Rewritten(n, handoffs'[n]) \/ Renewed(n, handoffs'[n])
<1>0. handoffs \in [HandoffName -> HandoffFile]
  BY DEF IInv, TypeOK
<1>1. CASE UNCHANGED handoffs
  BY <1>1
<1>2. ASSUME NEW b \in BundleFiles, Prepare(b)
      PROVE  Renewed(n, handoffs'[n])
  <2> DEFINE f == [second |-> second, task |-> b.task]
  <2>1. handoffs' = [handoffs EXCEPT ![f] = Asked(b)]
    BY <1>2 DEF Prepare, Asked
  <2>2. f = n /\ handoffs'[n] = Asked(b)
    BY <1>0, <2>1
  <2> QED BY <2>2 DEF Renewed
<1>3. ASSUME NEW k \in Clerks, Rewrite(k)
      PROVE  Rewritten(n, handoffs'[n])
  BY <1>0, <1>3 DEF Rewrite, Rewritten
<1>4. ASSUME NEW k \in Clerks, Kill(k)
      PROVE  Rewritten(n, handoffs'[n])
  BY <1>0, <1>4 DEF Kill, Rewritten
<1> QED
  BY <1>1, <1>2, <1>3, <1>4 DEF Moves, Tick, Execute, Decide, Send, Receive, Respond, Begins,
       Reconcile, CheckDecision, vars

\* The ways in which a job changes: it ends, begins with a copy of a handoff
\* file, or has checked its copy.
Loads(j) ==
  \E n \in HandoffName, d \in DecisionName :
    IsFile(handoffs[n]) /\ j = [step |-> "check", handoff |-> n, decision |-> d,
                                copy |-> handoffs[n]]
Passes(k, j) ==
  /\ AtStep(k, "check")
  /\ decisions[job[k].decision] # Absent
  /\ Fits(job[k].copy, decisions[job[k].decision])
  /\ Open(job[k].copy)
  /\ j = [job[k] EXCEPT !.step = "rewrite"]

LEMMA JobStep ==
  ASSUME IInv, Moves, NEW k \in Clerks, job'[k] # job[k]
  PROVE  job'[k] = Idle \/ Loads(job'[k]) \/ Passes(k, job'[k])
<1>0. job \in [Clerks -> Job]
  BY DEF IInv, TypeOK
<1>1. CASE UNCHANGED job
  BY <1>1
<1>2. ASSUME NEW c \in Clerks, Begins(c)
      PROVE  Loads(job'[k])
  BY <1>0, <1>2 DEF Begins, Reconcile, Loads
<1>3. ASSUME NEW c \in Clerks, CheckDecision(c)
      PROVE  job'[k] = Idle \/ Passes(k, job'[k])
  BY <1>0, <1>3 DEF CheckDecision, Goto, Passes
<1>4. ASSUME NEW c \in Clerks, Rewrite(c) \/ Kill(c)
      PROVE  job'[k] = Idle
  BY <1>0, <1>4 DEF Rewrite, Kill, Goto
<1> QED
  BY <1>1, <1>2, <1>3, <1>4 DEF Moves, Tick, Execute, Prepare, Decide, Send, Receive, Respond, vars

-----------------------------------------------------------------------------
(***************************************************************************)
(* The parts of the invariant                                              *)
(***************************************************************************)

\* What a file or a copy is about has been executed.
LEMMA ProvenanceStep ==
  ASSUME IInv, Moves
  PROVE  Provenance'
<1>1. ASSUME NEW b \in BundleName, bundles'[b] # Absent
      PROVE  Traced(bundles[b].run, b)'
  <2>1. CASE bundles'[b] = bundles[b]
    BY <1>1, <2>1, Grows DEF IInv, Provenance
  <2>2. ASSUME NEW t \in Tasks, NEW pre \in Heads, NEW post \in Posts, Execute(t, pre, post),
               bundles'[b] # bundles[b]
        PROVE  Traced(bundles[b].run, b)'
    <3> DEFINE n == [second |-> second, task |-> t]
               r == Cardinality(executed) + 1
    <3>1. /\ bundles' = [bundles EXCEPT ![n] = [run |-> r, pre |-> pre, post |-> post]]
          /\ executed' = executed \cup {[run |-> r, bundle |-> n]}
      BY <2>2 DEF Execute
    <3> HIDE DEF n, r
    <3>2. b = n /\ bundles'[b] = [run |-> r, pre |-> pre, post |-> post]
      BY <2>2, <3>1 DEF IInv, TypeOK
    <3> QED BY <3>1, <3>2 DEF Traced
  <2> QED
    BY <2>1, <2>2 DEF Moves, Tick, Prepare, Decide, Send, Receive, Respond, Begins,
         Reconcile, CheckDecision, Rewrite, Kill, vars
<1>2. /\ \A n \in DecisionName :
           decisions'[n] # Absent => [name |-> n, record |-> decisions'[n]] \in recorded'
      /\ \A e \in recorded' : Traced(e.record.run, e.record.bundle)
  <2>1. CASE UNCHANGED <<decisions, recorded>>
    BY <2>1 DEF IInv, Provenance
  <2>2. ASSUME NEW b \in BundleFiles, NEW v \in Verdicts, Decide(b, v)
        PROVE  <1>2!:
    <3> DEFINE x == [name |-> DecisionFile(b, v), record |-> Record(b)]
    <3>1. /\ decisions' = [decisions EXCEPT ![DecisionFile(b, v)] = Record(b)]
          /\ recorded' = recorded \cup {x}
      BY <2>2 DEF Decide, Record
    <3>2. Traced(x.record.run, x.record.bundle)
      BY EvidenceTypes
    <3>3. \A n \in DecisionName :
            decisions'[n] # Absent => [name |-> n, record |-> decisions'[n]] \in recorded'
      BY <3>1 DEF IInv, TypeOK, Provenance
    <3> HIDE DEF x
    <3>4. \A e \in recorded' : Traced(e.record.run, e.record.bundle)
      BY <3>1, <3>2 DEF IInv, Provenance
    <3> QED BY <3>3, <3>4
  <2> QED
    BY <2>1, <2>2 DEF Moves, Tick, Execute, Prepare, Send, Receive, Respond, Begins,
         Reconcile, CheckDecision, Rewrite, Kill, vars
<1>3. ASSUME NEW n \in HandoffName, IsFile(handoffs'[n])
      PROVE  Traced(handoffs'[n].run, handoffs'[n].bundle)
  <2>1. CASE handoffs'[n] = handoffs[n]
    BY <1>3, <2>1 DEF IInv, Provenance
  <2>2. CASE Rewritten(n, handoffs'[n])
    <3>1. PICK k \in Clerks : /\ AtStep(k, "rewrite")
                              /\ handoffs'[n] = Reconciled(job[k].copy, job[k].decision)
      BY <1>3, <2>2 DEF Rewritten, IsFile
    <3>2. job[k] # Idle /\ job[k].copy \in Handoff /\ job[k].decision \in DecisionName
      BY <3>1, JobFacts, FileTypes
    <3> QED BY <3>1, <3>2, ReconciledFacts DEF IInv, Provenance
  <2>3. CASE Renewed(n, handoffs'[n])
    BY <2>3, EvidenceTypes DEF Renewed
  <2> QED BY <2>1, <2>2, <2>3, HandoffStep
<1>4. ASSUME NEW k \in Clerks, job'[k] # Idle
      PROVE  Traced(job'[k].copy.run, job'[k].copy.bundle)
  <2>1. CASE job'[k] = job[k]
    BY <1>4, <2>1 DEF IInv, Provenance
  <2>2. CASE Loads(job'[k])
    BY <2>2 DEF Loads, IInv, Provenance
  <2>3. CASE Passes(k, job'[k])
    <3>1. job[k] # Idle /\ job[k] \in Job
      BY <2>3, JobFacts, FileTypes DEF Passes
    <3>2. job'[k].copy = job[k].copy
      BY <2>3, <3>1 DEF Passes, Job
    <3> QED BY <3>1, <3>2 DEF IInv, Provenance
  <2> QED BY <1>4, <2>1, <2>2, <2>3, JobStep
<1>5. \A e \in recorded' : Traced(e.record.run, e.record.bundle)'
  BY <1>2, Grows
<1>6. \A n \in HandoffName :
        IsFile(handoffs'[n]) => Traced(handoffs[n].run, handoffs[n].bundle)'
  BY <1>3, Grows
<1>7. \A k \in Clerks : job'[k] # Idle => Traced(job[k].copy.run, job[k].copy.bundle)'
  BY <1>4, Grows
<1> QED BY <1>1, <1>2, <1>5, <1>6, <1>7 DEF Provenance

\* A copy that passes its check is justified by the record on which it passed:
\* both are about the bundle, and it was left by the run of each.
LEMMA CheckedStep ==
  ASSUME IInv, Moves
  PROVE  Checked'
<1> SUFFICES ASSUME NEW k \in Clerks, AtStep(k, "rewrite")'
             PROVE  Justified(job[k].copy, job[k].decision)' /\ Open(job[k].copy)'
  BY DEF Checked
<1>1. CASE job'[k] = job[k]
  BY <1>1, Grows DEF IInv, Checked, AtStep
<1>2. CASE job'[k] = Idle
  BY <1>2 DEF AtStep, Idle
<1>3. CASE Loads(job'[k])
  BY <1>3 DEF AtStep, Loads
<1>4. CASE Passes(k, job'[k])
  <2> DEFINE h == job[k].copy
             d == decisions[job[k].decision]
             e == [name |-> job[k].decision, record |-> d]
  <2>1. job[k] # Idle /\ job[k] \in Job
    BY <1>4, JobFacts, FileTypes DEF Passes
  <2>2. h \in Handoff /\ job[k].decision \in DecisionName /\ d # Absent /\ d \in Decision
    BY <1>4, <2>1, JobFacts, FileTypes DEF Passes
  <2>3. job'[k].copy = h /\ job'[k].decision = job[k].decision
    BY <1>4, <2>1 DEF Passes, Job
  <2>4. e \in recorded /\ e.name = job[k].decision /\ e.record = d
    BY <2>2 DEF IInv, Provenance
  <2>5. Traced(d.run, d.bundle) /\ Traced(h.run, h.bundle)
    BY <2>1, <2>4 DEF IInv, Provenance
  <2>6. Fits(h, d) /\ Open(h)
    BY <1>4 DEF Passes
  <2>7. d.bundle = h.bundle
    BY <2>6 DEF Fits
  <2> HIDE DEF h, d, e
  <2>8. d.run = h.run \/ SharedName(h.bundle)
    BY <2>5, <2>7 DEF Traced, SharedName
  <2>9. Justified(h, job[k].decision)
    BY <2>4, <2>6, <2>8 DEF Justified
  <2> QED BY <2>3, <2>6, <2>9, Grows
<1> QED BY <1>1, <1>2, <1>3, <1>4, JobStep

\* A command that writes a verdict has checked the copy it writes.
LEMMA DecidedStep ==
  ASSUME IInv, Moves
  PROVE  DecidedOnItsExecution'
<1> SUFFICES ASSUME NEW n \in HandoffName, Decided(handoffs'[n])
             PROVE  Justified(handoffs[n], handoffs[n].path)'
  BY DEF DecidedOnItsExecution, Justified
<1>1. CASE handoffs'[n] = handoffs[n]
  <2>1. Justified(handoffs[n], handoffs[n].path)
    BY <1>1 DEF IInv, DecidedOnItsExecution, Justified
  <2> QED BY <1>1, <2>1, Grows
<1>2. CASE Rewritten(n, handoffs'[n])
  <2>1. PICK k \in Clerks : /\ AtStep(k, "rewrite")
                            /\ handoffs'[n] = Reconciled(job[k].copy, job[k].decision)
    BY <1>2 DEF Rewritten, Decided, IsFile
  <2>2. job[k] # Idle /\ job[k].copy \in Handoff /\ job[k].decision \in DecisionName
    BY <2>1, JobFacts, FileTypes
  <2>3. Justified(job[k].copy, job[k].decision)
    BY <2>1 DEF IInv, Checked
  <2>4. Justified(handoffs'[n], handoffs'[n].path)
    BY <2>1, <2>2, <2>3, ReconciledFacts DEF Justified, Fits
  <2> QED BY <2>4, Grows
<1>3. CASE Renewed(n, handoffs'[n])
  <2>1. handoffs'[n].state = "WAITING_DECISION"
    BY <1>3, EvidenceTypes DEF Renewed
  <2> QED BY <2>1 DEF Decided
<1> QED BY <1>1, <1>2, <1>3, HandoffStep

\* The inbox keeps what it has: an answer is only ever replaced by an answer.
LEMMA InboxGrows ==
  ASSUME IInv, Moves, NEW m \in ResponseName, inbox[m] # Absent
  PROVE  inbox'[m] # Absent
<1>0. inbox \in [ResponseName -> Response \cup {Absent}]
  BY DEF IInv, TypeOK
<1>1. CASE UNCHANGED inbox
  BY <1>1
<1>2. ASSUME NEW r \in requests, NEW a \in Answers, Respond(r, a)
      PROVE  inbox'[m] # Absent
  <2>1. DOMAIN a = {"state", "path"} /\ DOMAIN Absent = {"file"}
    BY FileTypes DEF Response, Absent
  <2>2. "state" \in DOMAIN a /\ "state" \notin DOMAIN Absent
    BY <2>1
  <2>3. a # Absent
    BY <2>2
  <2> QED BY <1>0, <1>2, <2>3 DEF Respond
<1> QED
  BY <1>1, <1>2 DEF Moves, Tick, Execute, Prepare, Decide, Send, Receive, Begins, Reconcile,
       CheckDecision, Rewrite, Kill, vars

\* The response handed out is the only one in the inbox, and whatever was handed
\* out before is there as well.
LEMMA ReceivedStep ==
  ASSUME IInv, Moves
  PROVE  StillThere' /\ OneAnswerPerRequest'
<1>0. \A x \in received : x.response \in ResponseName
  BY DEF IInv, TypeOK
<1>1. CASE UNCHANGED received
  <2>1. StillThere'
    BY <1>0, <1>1, InboxGrows DEF IInv, StillThere
  <2> QED BY <1>1, <2>1 DEF IInv, OneAnswerPerRequest
<1>2. ASSUME NEW r \in requests, Receive(r)
      PROVE  StillThere' /\ OneAnswerPerRequest'
  <2>1. PICK m \in SingleOf(Responses(r)) :
          received' = received \cup {[request |-> r.id, response |-> m]} /\ inbox' = inbox
    BY <1>2 DEF Receive
  <2> DEFINE x == [request |-> r.id, response |-> m]
  <2>2. Responses(r) = {m}
    BY SingleResponse
  <2>3. m \in ResponseName /\ m.request = r.id /\ inbox[m] # Absent
    BY <2>2 DEF Responses
  <2>4. \A y \in received : y.request = r.id => y.response = m
    <3> SUFFICES ASSUME NEW y \in received, y.request = r.id PROVE y.response = m
      OBVIOUS
    <3>1. y.response \in Responses(r)
      BY <1>0 DEF Responses, IInv, StillThere
    <3> QED BY <2>2, <3>1
  <2>5. x.request = r.id /\ x.response = m
    OBVIOUS
  <2>6. received' = received \cup {x}
    BY <2>1
  <2> HIDE DEF x
  <2>7. StillThere'
    BY <2>1, <2>3, <2>5, <2>6 DEF IInv, StillThere
  <2>8. OneAnswerPerRequest'
    BY <2>4, <2>5, <2>6 DEF IInv, OneAnswerPerRequest
  <2> QED BY <2>7, <2>8
<1> QED
  BY <1>1, <1>2 DEF Moves, Tick, Execute, Prepare, Decide, Send, Respond, Begins, Reconcile,
       CheckDecision, Rewrite, Kill, vars

-----------------------------------------------------------------------------
(***************************************************************************)
(* The theorems                                                            *)
(***************************************************************************)

\* There is nothing at first.
LEMMA InitIInv ==
  ASSUME Init
  PROVE  IInv
<1>1. TypeOK
  <2>1. \A k \in Clerks : Idle \in Job
    BY DEF Job
  <2> QED BY <2>1, BoundsAssumption DEF Init, TypeOK, Seconds, HandoffFile
<1>2. Counted
  BY FS_EmptySet DEF Init, Counted
<1>3. \A n \in HandoffName : ~IsFile(handoffs[n])
  BY DEF Init, IsFile
<1>4. Provenance /\ DecidedOnItsExecution
  BY <1>3 DEF Init, Provenance, Decided, DecidedOnItsExecution
<1>5. Checked
  BY DEF Init, Checked, AtStep, Idle
<1>6. StillThere /\ OneAnswerPerRequest
  BY DEF Init, StillThere, OneAnswerPerRequest
<1> QED BY <1>1, <1>2, <1>4, <1>5, <1>6 DEF IInv

\* Every step of the files and commands keeps the invariant.
LEMMA NextIInv ==
  ASSUME IInv, [Next]_vars
  PROVE  IInv'
BY NextMoves, TypeStep, ProvenanceStep, CheckedStep, DecidedStep, ReceivedStep DEF IInv

(* Every file, record and copy is about an execution that left the bundle  *)
(* it names, a command rewrites only what it has checked, and what the     *)
(* driver handed out is in the inbox: whatever the number of processes.    *)
THEOREM Invariance == Spec => []IInv
<1>1. Init => IInv
  BY InitIInv
<1>2. IInv /\ [Next]_vars => IInv'
  BY NextIInv
<1> QED BY <1>1, <1>2, PTL DEF Spec

(* The files of .agent_runner/ and the jobs have their types always.       *)
THEOREM TypeCorrect == Spec => []TypeOK
<1>1. IInv => TypeOK
  BY DEF IInv
<1> QED BY <1>1, Invariance, PTL

(* A handoff carries only a verdict that was recorded on its own bundle,   *)
(* its own HEADs and its own execution, unless two executions shared the   *)
(* name of the bundle (reconcile_controller_handoff()).                    *)
THEOREM VerdictOnItsExecution == Spec => []DecidedOnItsExecution
<1>1. IInv => DecidedOnItsExecution
  BY DEF IInv
<1> QED BY <1>1, Invariance, PTL

(* The driver's receive() has handed out a single name for every request.  *)
THEOREM SingleAnswer == Spec => []OneAnswerPerRequest
<1>1. IInv => OneAnswerPerRequest
  BY DEF IInv
<1> QED BY <1>1, Invariance, PTL

\* What DecisionIsKept says of a step.
KeepsDecision(n) ==
  Decided(handoffs[n]) /\ handoffs'[n] # handoffs[n] =>
    \/ \E k \in Clerks : /\ AtStep(k, "rewrite")
                         /\ job[k].handoff = n
                         /\ job[k].copy.state = "WAITING_DECISION"
    \/ n.second = second /\ Waiting(handoffs'[n])

(* The verdict of a handoff is lost in two ways only, to a command that    *)
(* loaded the handoff while it was still open, and to a handoff of the     *)
(* same task prepared in the same second.                                  *)
THEOREM VerdictStays == Spec => DecisionIsKept
<1>1. ASSUME IInv, [Next]_vars, NEW n \in HandoffName
      PROVE  KeepsDecision(n)
  <2> SUFFICES ASSUME handoffs'[n] # handoffs[n]
               PROVE  \/ \E k \in Clerks : /\ AtStep(k, "rewrite")
                                           /\ job[k].handoff = n
                                           /\ job[k].copy.state = "WAITING_DECISION"
                      \/ n.second = second /\ Waiting(handoffs'[n])
    BY DEF KeepsDecision
  <2>1. Moves
    BY <1>1, NextMoves
  <2>2. CASE Rewritten(n, handoffs'[n])
    BY <1>1, <2>2 DEF Rewritten, IInv, Checked, Open
  <2>3. CASE Renewed(n, handoffs'[n])
    BY <1>1, <2>3, EvidenceTypes, HandoffsAreFiles DEF Renewed, Waiting
  <2> QED BY <1>1, <2>1, <2>2, <2>3, HandoffStep
<1>2. IInv /\ [Next]_vars => [\A n \in HandoffName : KeepsDecision(n)]_vars
  BY <1>1
<1>3. [\A n \in HandoffName : KeepsDecision(n)]_vars =>
        [\A n \in HandoffName :
           Decided(handoffs[n]) /\ handoffs'[n] # handoffs[n] =>
             \/ \E k \in Clerks : /\ AtStep(k, "rewrite")
                                  /\ job[k].handoff = n
                                  /\ job[k].copy.state = "WAITING_DECISION"
             \/ n.second = second /\ Waiting(handoffs'[n])]_vars
  BY DEF KeepsDecision
<1> QED BY <1>2, <1>3, Invariance, PTL DEF Spec, DecisionIsKept

-----------------------------------------------------------------------------
(***************************************************************************)
(* One process that reconciles                                             *)
(***************************************************************************)

OneClerk == \A j, k \in Clerks : j = k

\* The copy of a handoff that has its verdict has it as well.
CopyIsCurrent ==
  \A k \in Clerks : job[k] # Idle /\ Decided(handoffs[job[k].handoff]) =>
    job[k].copy.state = "DECISION_RECEIVED"

\* Nobody else can give the handoff its verdict while the one process is at it.
LEMMA CopyIsCurrentStep ==
  ASSUME OneClerk, IInv, CopyIsCurrent, Moves
  PROVE  CopyIsCurrent'
<1> SUFFICES ASSUME NEW k \in Clerks, job'[k] # Idle, Decided(handoffs'[job'[k].handoff])
             PROVE  job'[k].copy.state = "DECISION_RECEIVED"
  BY DEF CopyIsCurrent, Decided, IsFile
<1>0. job \in [Clerks -> Job] /\ handoffs \in [HandoffName -> HandoffFile]
  BY DEF IInv, TypeOK
<1>1. UNCHANGED handoffs \/ (UNCHANGED job /\ \E b \in BundleFiles : Prepare(b))
  <2>1. ASSUME NEW c \in Clerks, Rewrite(c) \/ Kill(c) PROVE FALSE
    <3>1. job' = [job EXCEPT ![c] = Idle] /\ c = k
      BY <2>1 DEF OneClerk, Rewrite, Kill, Goto
    <3> QED BY <1>0, <3>1
  <2> QED BY <2>1 DEF Moves, Tick, Execute, Prepare, Decide, Send, Receive, Respond, Begins,
         Reconcile, CheckDecision, vars
<1>2. CASE job'[k] = job[k]
  <2> DEFINE n == job[k].handoff
  <2>1. n \in HandoffName
    BY <1>2, JobFacts, FileTypes
  <2>2. CASE handoffs'[n] = handoffs[n]
    BY <1>2, <2>2 DEF CopyIsCurrent
  <2>3. CASE handoffs'[n] # handoffs[n]
    <3>1. PICK b \in BundleFiles : handoffs' = [handoffs EXCEPT ![[second |-> second, task |-> b.task]] = Asked(b)]
      BY <1>1, <2>3 DEF Prepare, Asked
    <3>2. handoffs'[n] = Asked(b)
      BY <1>0, <2>1, <2>3, <3>1
    <3>3. Asked(b).state = "WAITING_DECISION"
      BY EvidenceTypes
    <3> QED BY <1>2, <3>2, <3>3 DEF Decided
  <2> QED BY <2>2, <2>3
<1>3. CASE Loads(job'[k]) /\ job'[k] # job[k]
  <2>1. UNCHANGED handoffs
    BY <1>1, <1>3
  <2> QED BY <1>3, <2>1 DEF Loads, Decided
<1>4. CASE Passes(k, job'[k])
  <2>1. job[k] # Idle /\ job[k] \in Job
    BY <1>4, JobFacts, FileTypes DEF Passes
  <2>2. job'[k].copy = job[k].copy /\ job'[k].handoff = job[k].handoff
    BY <1>4, <2>1 DEF Passes, Job
  <2>3. job'[k] # job[k]
    BY <1>4, <2>1 DEF Passes, Job, AtStep, Idle
  <2>4. UNCHANGED handoffs
    BY <1>1, <2>3
  <2> QED BY <2>1, <2>2, <2>4 DEF CopyIsCurrent
<1> QED BY <1>2, <1>3, <1>4, JobStep

(* If a single process reconciles, the verdict of a handoff stays until a  *)
(* handoff of the same task is prepared in the same second, whenever that  *)
(* process is killed: "already reconciled" is then enough.                 *)
THEOREM VerdictStaysAlone ==
  ASSUME OneClerk
  PROVE  Spec => [][\A n \in HandoffName :
                      Decided(handoffs[n]) /\ handoffs'[n] # handoffs[n] =>
                        n.second = second /\ Waiting(handoffs'[n])]_vars
<1>1. Init => CopyIsCurrent
  BY DEF Init, CopyIsCurrent
<1>2. IInv /\ CopyIsCurrent /\ [Next]_vars => CopyIsCurrent'
  BY CopyIsCurrentStep, NextMoves
<1>3. IInv /\ CopyIsCurrent /\ [Next]_vars =>
        [\A n \in HandoffName :
           Decided(handoffs[n]) /\ handoffs'[n] # handoffs[n] =>
             n.second = second /\ Waiting(handoffs'[n])]_vars
  <2> SUFFICES ASSUME IInv, CopyIsCurrent, [Next]_vars, NEW n \in HandoffName,
                      Decided(handoffs[n]), handoffs'[n] # handoffs[n]
               PROVE  n.second = second /\ Waiting(handoffs'[n])
    OBVIOUS
  <2>1. ~Rewritten(n, handoffs'[n])
    <3> SUFFICES ASSUME NEW k \in Clerks, AtStep(k, "rewrite"), job[k].handoff = n PROVE FALSE
      BY DEF Rewritten
    <3>1. job[k].copy.state = "DECISION_RECEIVED"
      BY JobFacts, FileTypes DEF CopyIsCurrent
    <3> QED BY <3>1 DEF IInv, Checked, Open
  <2>2. Renewed(n, handoffs'[n])
    BY <2>1, NextMoves, HandoffStep
  <2> QED BY <2>2, EvidenceTypes, HandoffsAreFiles DEF Renewed, Waiting
<1> QED BY <1>1, <1>2, <1>3, Invariance, PTL DEF Spec

=============================================================================
