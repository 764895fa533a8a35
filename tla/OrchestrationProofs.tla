------------------------- MODULE OrchestrationProofs -------------------------
(***************************************************************************)
(* Proofs about Orchestration and its inbox, for every set of files, every *)
(* budget and every number of commands, faults and operator actions.       *)
(***************************************************************************)
EXTENDS OrchestrationInbox, TransitionCallProofs, SequenceTheorems, FiniteSetTheorems, TLAPS

-----------------------------------------------------------------------------
(***************************************************************************)
(* The inductive invariant                                                 *)
(***************************************************************************)

Drafting == {"GOAL_VALIDATION", "TASK_DRAFT_GENERATION"}
Early == Drafting \cup {"AWAITING_TASK_APPROVAL", "TASK_EXECUTION"}
InReview == "AWAITING_IMPLEMENTATION_DECISION"

\* The steps of a command by the phase it is in, and what it has got so far.
Reviewing == {"handoffSave", "match", "matchWrite", "dispatch", "confirm"}
Reworking == {"toProgress", "toReview", "handed", "bridge", "reworkSave"}
Decided == {"act"} \cup Reworking
Committed == {"push", "record", "publishedSave"}
Approving == {"lifecycle", "started", "submitted", "commit"}
Finalizing == {"gates"} \cup Approving \cup Committed

\* The transitions the command makes in each phase.
Requested ==
  [AWAITING_TASK_APPROVAL |-> {"READY", "BLOCKED"},
   AWAITING_IMPLEMENTATION_DECISION |-> {"IN_PROGRESS", "REVIEW", "REWORK"},
   FINALIZATION |-> {"IN_PROGRESS", "REVIEW", "APPROVED"}]
InReworkCall == pc = "transition" /\ mem.phase = InReview
InApproval == pc = "transition" /\ mem.phase = "FINALIZATION"

BundleRecord == [head : 1..MaxCommits, paths : SUBSET ImplFiles]
DecisionRecord(n) == [value : ControllerDecision, actor : Reviewers, bundle : 1..n]
HandoffRecord(n, m) == [bundle : 1..n, decision : 0..m]

\* The type of the three sequences of records, which refer to each other.
Typed(bs, ds, hs) ==
  /\ bs \in Seq(BundleRecord) /\ Len(bs) <= MaxBundles
  /\ ds \in Seq(DecisionRecord(Len(bs))) /\ Len(ds) <= MaxDecisions
  /\ hs \in Seq(HandoffRecord(Len(bs), Len(ds))) /\ Len(hs) <= MaxHandoffs

\* Records are added; of those that are there only the decision of a handoff
\* changes, and a handoff that has one keeps one.
Grown(bs, ds, hs, bs2, ds2, hs2) ==
  /\ Len(bs) <= Len(bs2) /\ \A b \in 1..Len(bs) : bs2[b] = bs[b]
  /\ Len(ds) <= Len(ds2) /\ \A d \in 1..Len(ds) : ds2[d] = ds[d]
  /\ Len(hs) <= Len(hs2)
  /\ \A h \in 1..Len(hs) : /\ hs2[h].bundle = hs[h].bundle
                           /\ hs[h].decision # 0 => hs2[h].decision # 0

\* A checkpoint whose references do not dangle.
Named(c, bs, ds, hs) ==
  /\ c \in Checkpoint
  /\ c.bundle <= Len(bs) /\ c.handoff <= Len(hs)
  /\ c.decision <= Len(ds) /\ c.consumed \subseteq 1..Len(ds)

\* What a checkpoint refers to is the evidence of its own cycle.
Coherent(c, bs, ds, hs) ==
  /\ c.phase \in Early => c.handoff = 0 /\ c.decision = 0
  /\ c.phase \in {InReview, "FINALIZATION"} =>
       /\ c.bundle # 0 /\ c.bundle = Len(bs)
       /\ c.handoff # 0 => hs[c.handoff].bundle = c.bundle
       /\ c.decision # 0 => ds[c.decision].bundle = c.bundle
  /\ c.phase = "FINALIZATION" =>
       /\ c.handoff # 0 /\ c.decision # 0
       /\ ds[c.decision].value = "APPROVE"
       /\ hs[c.handoff].decision # 0

\* Consumed decisions are REWORKs of earlier cycles, one for each cycle.
Consumption(c, ds) ==
  /\ c.decision \notin c.consumed
  /\ c.rework = Cardinality(c.consumed) /\ c.rework <= MaxRework
  /\ \A d \in c.consumed :
       /\ ds[d].value = "REWORK"
       /\ c.phase # "PUBLISHED" => ds[d].bundle # c.bundle

Sound(c, bs, ds, hs) ==
  Named(c, bs, ds, hs) /\ Coherent(c, bs, ds, hs) /\ Consumption(c, ds)

\* A reconciled handoff has a decision on its own bundle.
Agree(ds, hs) ==
  \A h \in DOMAIN hs : hs[h].decision # 0 => ds[hs[h].decision].bundle = hs[h].bundle

\* Between commands nothing is in memory; a command that writes has saved every
\* phase it has reached; one that does not write never gets past the loop.
InStep ==
  /\ pc = "idle" => mem = NoCkpt /\ ~apply /\ ~fresh
  /\ pc \notin {"idle", "loop", "owner"} => apply
  /\ apply => mem.phase = ckpt.phase
  /\ pc # "idle" => mem.consumed = ckpt.consumed /\ mem.rework = ckpt.rework
  /\ ckpt.phase \in Early => ckpt.bundle = 0
  /\ mem.phase \in Early /\ pc # "workerDone" => mem.bundle = 0

\* What a command has in hand at each of its steps.
InHand ==
  /\ pc = "preserve" => mem.phase = "AWAITING_TASK_APPROVAL"
  /\ pc \in {"ownerDecide", "ownerReconcile", "ownerWrite"} =>
       mem.phase = InReview /\ mem.handoff # 0
  /\ pc = "ownerDecide" => action \in ImplementationActions
  /\ pc \in {"ownerReconcile", "ownerWrite"} => mem.decision # 0
  /\ pc = "ownerSave" => mem.phase \in {"AWAITING_TASK_APPROVAL", InReview}
  /\ pc = "draftSave" => mem.phase = "TASK_DRAFT_GENERATION"
  /\ pc \in {"worker", "workerDone"} => mem.phase = "TASK_EXECUTION"
  /\ pc = "workerDone" => mem.bundle # 0 /\ mem.bundle = Len(bundles)
  /\ pc \in Reviewing \cup Decided => mem.phase = InReview /\ mem.handoff # 0
  /\ pc \in {"confirm", "act"} => handoffs[mem.handoff].decision # 0
  /\ pc \in Decided => mem.decision # 0
  /\ pc \in Reworking \/ InReworkCall =>
       /\ mem.handoff # 0 /\ mem.decision # 0
       /\ decisions[mem.decision].value = "REWORK"
       /\ mem.rework < MaxRework
  /\ pc \in Finalizing => mem.phase = "FINALIZATION"

\* A call of transition_task() is one of its phase, and no call writes what the
\* table does not grant.
Calling ==
  /\ pc = "transition" <=> call.step # "none"
  /\ pc = "transition" =>
       mem.phase \in DOMAIN Requested /\ call.to \in Requested[mem.phase]
  /\ mover = NoCall \/ mover.step \in Writing
  /\ MoveGranted(call) /\ MoveGranted(mover)

\* What a reconciliation is about to write is a decision on the handoff's bundle.
Reconciling ==
  /\ pc \in {"ownerWrite", "matchWrite", "confirm"} <=> found # 0
  /\ pc \in {"ownerWrite", "matchWrite"} =>
       decisions[found].bundle = handoffs[mem.handoff].bundle
  /\ copy # NoCopy => decisions[copy.decision].bundle = handoffs[copy.handoff].bundle

\* Before the run has a draft there is nothing else of it.
NothingYet ==
  ckpt.phase = "GOAL_VALIDATION" \/ (fresh /\ mem.phase \in Drafting /\ pc # "draftSave")
    => task = NoTask /\ taskHead = NoTask /\ bundles = <<>> /\ mover = NoCall

\* Commits only pile up.
Heads ==
  /\ remote <= head
  /\ \A b \in DOMAIN bundles : bundles[b].head <= head

\* A publication is a commit of the approved bundle above its base.
Authorized ==
  \A p \in published :
    /\ p.decision \in DOMAIN decisions /\ p.bundle \in DOMAIN bundles
    /\ decisions[p.decision].value = "APPROVE"
    /\ decisions[p.decision].bundle = p.bundle
    /\ p.paths = bundles[p.bundle].paths
    /\ p.commit <= head

\* Once something is published, nothing is left that could be published: every
\* bundle has fallen behind, and no worker will be launched to make a new one,
\* unless a transition replaced a status it had not checked.
TaskIsFinal == task = "APPROVED" /\ taskHead = "APPROVED"
Closed ==
  published # {} /\ ~overwritten =>
    /\ \A p, q \in published : p = q
    /\ \A b \in DOMAIN bundles : bundles[b].head < head
    /\ TaskIsFinal \/ ckpt.phase \in {"FINALIZATION", "PUBLISHED"}
    /\ pc \in Approving \/ InApproval => TaskIsFinal

\* A run on its way to the record has made its publication.
OnItsWay ==
  pc \in Committed =>
    \E p \in published : /\ p.decision = mem.decision /\ p.bundle = mem.bundle
                         /\ pc # "push" => p.commit <= remote

\* Without faults every decision the bridge has applied is consumed or about to be.
Applications ==
  faults = 0 => \A d \in 1..MaxDecisions :
    /\ applied[d] <= 1
    /\ applied[d] = 1 => d \in ckpt.consumed \/ (pc = "reworkSave" /\ d = mem.decision)

\* TypeOK in parts.
RepoOK ==
  /\ task \in TaskTexts \cup {NoTask} /\ taskHead \in TaskTexts \cup {NoTask}
  /\ impl \subseteq ImplFiles
  /\ head \in 1..MaxCommits /\ remote \in 1..MaxCommits
  /\ whole \in TaskStatus \cup {NoTask} /\ overwritten \in BOOLEAN
RunOK ==
  /\ pc \in Step
  /\ apply \in BOOLEAN /\ fresh \in BOOLEAN
  /\ action \in OwnerAction \cup {"none"}
  /\ runs \in 0..MaxRuns /\ faults \in 0..MaxFaults /\ ops \in 0..MaxOps
CallsOK ==
  /\ call \in TransitionCalls /\ mover \in TransitionCalls
  /\ found \in {0} \cup DOMAIN decisions
  /\ copy = NoCopy \/ copy \in [handoff : DOMAIN handoffs, decision : DOMAIN decisions]
GhostsOK ==
  /\ records \subseteq published
  /\ published \subseteq PublicationType
  /\ applied \in [1..MaxDecisions -> Nat] /\ worked \in Nat

IInv ==
  /\ RepoOK /\ RunOK /\ CallsOK /\ GhostsOK
  /\ Typed(bundles, decisions, handoffs)
  /\ \A c \in {ckpt, mem} : Sound(c, bundles, decisions, handoffs)
  /\ Agree(decisions, handoffs)
  /\ InStep /\ InHand /\ Calling /\ Reconciling
  /\ NothingYet
  /\ Heads /\ Authorized /\ Closed /\ OnItsWay /\ PublishedIsTrue
  /\ Applications

-----------------------------------------------------------------------------
(***************************************************************************)
(* The evidence                                                            *)
(***************************************************************************)

\* Append() adds one element at the end.
LEMMA AppendFacts ==
  ASSUME NEW S, NEW s \in Seq(S), NEW e \in S
  PROVE  /\ Append(s, e) \in Seq(S)
         /\ Len(s) \in Nat /\ Len(Append(s, e)) = Len(s) + 1
         /\ \A i \in 1..Len(s) : Append(s, e)[i] = s[i]
         /\ Append(s, e)[Len(s) + 1] = e
  OBVIOUS

\* A sequence is one over every larger set.
LEMMA WiderSeq ==
  ASSUME NEW S, NEW T, NEW s \in Seq(S), S \subseteq T
  PROVE  s \in Seq(T)
  BY SeqMonotonic

\* A new bundle.
LEMMA AddBundle ==
  ASSUME NEW bs, NEW ds, NEW hs, Typed(bs, ds, hs), Len(bs) < MaxBundles,
         NEW b \in BundleRecord
  PROVE  /\ Typed(Append(bs, b), ds, hs)
         /\ Grown(bs, ds, hs, Append(bs, b), ds, hs)
         /\ Len(Append(bs, b)) = Len(bs) + 1
         /\ Append(bs, b)[Len(bs) + 1] = b
<1>1. /\ Append(bs, b) \in Seq(BundleRecord) /\ Len(bs) \in Nat
      /\ Len(Append(bs, b)) = Len(bs) + 1
      /\ \A i \in 1..Len(bs) : Append(bs, b)[i] = bs[i]
      /\ Append(bs, b)[Len(bs) + 1] = b
  BY AppendFacts DEF Typed
<1>2. /\ DecisionRecord(Len(bs)) \subseteq DecisionRecord(Len(bs) + 1)
      /\ HandoffRecord(Len(bs), Len(ds)) \subseteq HandoffRecord(Len(bs) + 1, Len(ds))
  BY <1>1 DEF DecisionRecord, HandoffRecord
<1>3. /\ ds \in Seq(DecisionRecord(Len(bs) + 1))
      /\ hs \in Seq(HandoffRecord(Len(bs) + 1, Len(ds)))
  BY <1>2, WiderSeq DEF Typed
<1>4. Len(ds) \in Nat /\ Len(hs) \in Nat
  BY DEF Typed
<1> QED BY <1>1, <1>3, <1>4, OrchestrationAssumption DEF Typed, Grown

\* A new decision record.
LEMMA AddDecision ==
  ASSUME NEW bs, NEW ds, NEW hs, Typed(bs, ds, hs), Len(ds) < MaxDecisions,
         NEW d \in DecisionRecord(Len(bs))
  PROVE  /\ Typed(bs, Append(ds, d), hs)
         /\ Grown(bs, ds, hs, bs, Append(ds, d), hs)
         /\ Len(Append(ds, d)) = Len(ds) + 1
         /\ Append(ds, d)[Len(ds) + 1] = d
<1>1. /\ Append(ds, d) \in Seq(DecisionRecord(Len(bs))) /\ Len(ds) \in Nat
      /\ Len(Append(ds, d)) = Len(ds) + 1
      /\ \A i \in 1..Len(ds) : Append(ds, d)[i] = ds[i]
      /\ Append(ds, d)[Len(ds) + 1] = d
  BY AppendFacts DEF Typed
<1>2. HandoffRecord(Len(bs), Len(ds)) \subseteq HandoffRecord(Len(bs), Len(ds) + 1)
  BY <1>1 DEF HandoffRecord
<1>3. hs \in Seq(HandoffRecord(Len(bs), Len(ds) + 1))
  BY <1>2, WiderSeq DEF Typed
<1>4. Len(bs) \in Nat /\ Len(hs) \in Nat
  BY DEF Typed
<1> QED BY <1>1, <1>3, <1>4, OrchestrationAssumption DEF Typed, Grown

\* A new handoff request.
LEMMA AddHandoff ==
  ASSUME NEW bs, NEW ds, NEW hs, Typed(bs, ds, hs), Len(hs) < MaxHandoffs,
         NEW h \in HandoffRecord(Len(bs), Len(ds))
  PROVE  /\ Typed(bs, ds, Append(hs, h))
         /\ Grown(bs, ds, hs, bs, ds, Append(hs, h))
         /\ Len(Append(hs, h)) = Len(hs) + 1
         /\ Append(hs, h)[Len(hs) + 1] = h
<1>1. /\ Append(hs, h) \in Seq(HandoffRecord(Len(bs), Len(ds))) /\ Len(hs) \in Nat
      /\ Len(Append(hs, h)) = Len(hs) + 1
      /\ \A i \in 1..Len(hs) : Append(hs, h)[i] = hs[i]
      /\ Append(hs, h)[Len(hs) + 1] = h
  BY AppendFacts DEF Typed
<1>2. Len(bs) \in Nat /\ Len(ds) \in Nat
  BY DEF Typed
<1> QED BY <1>1, <1>2, OrchestrationAssumption DEF Typed, Grown

\* The handoffs with h reconciled to d.
Reconciled(hs, h, d) == [hs EXCEPT ![h].decision = d]

\* A handoff is reconciled to a decision on its bundle.
LEMMA ReconcileOne ==
  ASSUME NEW bs, NEW ds, NEW hs, Typed(bs, ds, hs), Agree(ds, hs),
         NEW h \in 1..Len(hs), NEW d \in 1..Len(ds),
         ds[d].bundle = hs[h].bundle,
         NEW hs2, hs2 = Reconciled(hs, h, d)
  PROVE  /\ Typed(bs, ds, hs2) /\ Agree(ds, hs2)
         /\ Grown(bs, ds, hs, bs, ds, hs2)
         /\ Len(hs2) = Len(hs) /\ hs2[h].decision = d
<1>1. /\ Len(bs) \in Nat /\ Len(ds) \in Nat /\ Len(hs) \in Nat
      /\ hs \in [1..Len(hs) -> HandoffRecord(Len(bs), Len(ds))]
  BY DEF Typed
<1>2. [hs[h] EXCEPT !.decision = d] \in HandoffRecord(Len(bs), Len(ds))
  BY <1>1 DEF HandoffRecord
<1> DEFINE r == [hs[h] EXCEPT !.decision = d]
<1>0. hs2 = [hs EXCEPT ![h] = r]
  BY DEF Reconciled
<1>3. /\ hs2 \in Seq(HandoffRecord(Len(bs), Len(ds))) /\ Len(hs2) = Len(hs)
      /\ \A j \in 1..Len(hs) : hs2[j] = IF j = h THEN [hs[h] EXCEPT !.decision = d]
                                        ELSE hs[j]
  BY <1>0, <1>1, <1>2, ExceptSeq DEF Typed
<1>4. \A j \in 1..Len(hs) :
        hs2[j].bundle = hs[j].bundle /\ hs2[j].decision = (IF j = h THEN d ELSE hs[j].decision)
  BY <1>1, <1>3 DEF HandoffRecord
<1>5. DOMAIN hs = 1..Len(hs) /\ DOMAIN hs2 = 1..Len(hs)
  BY <1>1, <1>3
<1>6. Agree(ds, hs2)
  BY <1>4, <1>5 DEF Agree
<1>7. Typed(bs, ds, hs2) /\ Grown(bs, ds, hs, bs, ds, hs2)
  BY <1>1, <1>3, <1>4 DEF Typed, Grown
<1>8. hs2[h].decision = d
  BY <1>4
<1> QED BY <1>3, <1>6, <1>7, <1>8

\* What a checkpoint refers to stays what it was while records are added, unless
\* a new bundle is added to a cycle that has one.
LEMMA EvidenceKept ==
  ASSUME NEW c, NEW bs, NEW ds, NEW hs, NEW bs2, NEW ds2, NEW hs2,
         Typed(bs, ds, hs), Typed(bs2, ds2, hs2), Grown(bs, ds, hs, bs2, ds2, hs2),
         Sound(c, bs, ds, hs), bs2 = bs \/ c.phase \in Early
  PROVE  Sound(c, bs2, ds2, hs2)
<1>1. /\ Len(bs) \in Nat /\ Len(ds) \in Nat /\ Len(hs) \in Nat
      /\ Len(bs2) \in Nat /\ Len(ds2) \in Nat /\ Len(hs2) \in Nat
  BY DEF Typed
<1>n. Named(c, bs, ds, hs)
  BY DEF Sound
<1>c. /\ c.bundle \in Nat /\ c.handoff \in Nat /\ c.decision \in Nat
      /\ Named(c, bs, ds, hs)
  BY <1>n, OrchestrationAssumption DEF Named, Checkpoint
<1>2. Named(c, bs2, ds2, hs2)
  <2>1. Len(bs) <= Len(bs2) /\ Len(ds) <= Len(ds2) /\ Len(hs) <= Len(hs2)
    BY DEF Grown
  <2> QED BY <1>1, <1>c, <2>1 DEF Named
<1>3. /\ c.decision # 0 => ds2[c.decision] = ds[c.decision]
      /\ c.handoff # 0 => hs2[c.handoff].bundle = hs[c.handoff].bundle
      /\ c.handoff # 0 /\ hs[c.handoff].decision # 0 => hs2[c.handoff].decision # 0
      /\ \A d \in c.consumed : ds2[d] = ds[d]
  <2>1. /\ c.decision # 0 => c.decision \in 1..Len(ds)
        /\ c.handoff # 0 => c.handoff \in 1..Len(hs)
        /\ c.consumed \subseteq 1..Len(ds)
    BY <1>1, <1>c DEF Named
  <2> QED BY <2>1 DEF Grown
<1>4. Coherent(c, bs2, ds2, hs2)
  BY <1>3 DEF Sound, Coherent, Early, Drafting, InReview
<1>5. Consumption(c, ds2)
  BY <1>3 DEF Sound, Consumption
<1> QED BY <1>2, <1>4, <1>5 DEF Sound

\* The invariant gives the type invariant of the module.
LEMMA TypeFromInv == IInv => TypeOK
<1> SUFFICES ASSUME IInv PROVE TypeOK
  OBVIOUS
<1>1. /\ Len(bundles) \in Nat /\ DOMAIN bundles = 1..Len(bundles)
      /\ Len(decisions) \in Nat /\ DOMAIN decisions = 1..Len(decisions)
  BY DEF IInv, Typed
<1>2. /\ bundles \in Seq([head : 1..MaxCommits, paths : SUBSET ImplFiles])
      /\ decisions \in Seq([value : ControllerDecision, actor : Reviewers,
                            bundle : DOMAIN bundles])
  BY <1>1 DEF IInv, Typed, BundleRecord, DecisionRecord
<1>3. HandoffRecord(Len(bundles), Len(decisions)) \subseteq
        [bundle : DOMAIN bundles, decision : {0} \cup DOMAIN decisions]
  BY <1>1 DEF HandoffRecord
<1>4. handoffs \in Seq([bundle : DOMAIN bundles, decision : {0} \cup DOMAIN decisions])
  BY <1>3, WiderSeq DEF IInv, Typed
<1>5. /\ ckpt \in Checkpoint /\ mem \in Checkpoint
      /\ \A c \in {ckpt, mem} :
           /\ c.bundle <= Len(bundles) /\ c.handoff <= Len(handoffs)
           /\ c.decision <= Len(decisions) /\ c.consumed \subseteq DOMAIN decisions
  BY <1>1 DEF IInv, Sound, Named
<1>6. /\ call \in TransitionCalls /\ mover \in TransitionCalls
      /\ found \in {0} \cup DOMAIN decisions
      /\ copy = NoCopy \/ copy \in [handoff : DOMAIN handoffs, decision : DOMAIN decisions]
  BY DEF IInv, CallsOK
<1> QED BY <1>2, <1>4, <1>5, <1>6 DEF IInv, TypeOK, RepoOK, RunOK, GhostsOK, Typed

\* The records new steps write.
LEMMA HandoffStep ==
  ASSUME IInv, NEW b \in 1..Len(bundles), NewHandoff(b), UNCHANGED <<bundles, decisions>>
  PROVE  /\ Typed(bundles', decisions', handoffs')
         /\ Grown(bundles, decisions, handoffs, bundles', decisions', handoffs')
         /\ Agree(decisions', handoffs')
         /\ Len(handoffs') = Len(handoffs) + 1
         /\ handoffs'[Len(handoffs) + 1] = [bundle |-> b, decision |-> 0]
<1> DEFINE h == [bundle |-> b, decision |-> 0]
<1>1. Typed(bundles, decisions, handoffs) /\ Agree(decisions, handoffs)
  BY DEF IInv
<1>2. h \in HandoffRecord(Len(bundles), Len(decisions))
  BY <1>1 DEF HandoffRecord, Typed
<1>3. handoffs' = Append(handoffs, h) /\ Len(handoffs) < MaxHandoffs
  BY DEF NewHandoff
<1> HIDE DEF h
<1>4. /\ Typed(bundles, decisions, handoffs')
      /\ Grown(bundles, decisions, handoffs, bundles, decisions, handoffs')
      /\ Len(handoffs') = Len(handoffs) + 1
      /\ handoffs'[Len(handoffs) + 1] = h
  BY <1>1, <1>2, <1>3, AddHandoff
<1>5. /\ Len(handoffs) \in Nat /\ DOMAIN handoffs' = 1..(Len(handoffs) + 1)
      /\ DOMAIN handoffs = 1..Len(handoffs)
      /\ \A i \in 1..Len(handoffs) : handoffs'[i] = handoffs[i]
  BY <1>1, <1>3, <1>4, AppendFacts, <1>2 DEF Typed
<1>6. Agree(decisions, handoffs')
  BY <1>1, <1>4, <1>5 DEF Agree, h
<1> QED BY <1>4, <1>6 DEF h

LEMMA DecisionStep ==
  ASSUME IInv, NEW v \in ControllerDecision, NEW a \in Reviewers, NEW b \in 1..Len(bundles),
         NewDecision(v, a, b), UNCHANGED <<bundles, handoffs>>
  PROVE  /\ Typed(bundles', decisions', handoffs')
         /\ Grown(bundles, decisions, handoffs, bundles', decisions', handoffs')
         /\ Agree(decisions', handoffs')
         /\ Len(decisions') = Len(decisions) + 1
         /\ decisions'[Len(decisions) + 1] = [value |-> v, actor |-> a, bundle |-> b]
<1> DEFINE d == [value |-> v, actor |-> a, bundle |-> b]
<1>1. Typed(bundles, decisions, handoffs) /\ Agree(decisions, handoffs)
  BY DEF IInv
<1>2. d \in DecisionRecord(Len(bundles))
  BY DEF DecisionRecord
<1>3. decisions' = Append(decisions, d) /\ Len(decisions) < MaxDecisions
  BY DEF NewDecision
<1> HIDE DEF d
<1>4. /\ Typed(bundles, decisions', handoffs)
      /\ Grown(bundles, decisions, handoffs, bundles, decisions', handoffs)
      /\ Len(decisions') = Len(decisions) + 1
      /\ decisions'[Len(decisions) + 1] = d
  BY <1>1, <1>2, <1>3, AddDecision
<1>5. \A h \in DOMAIN handoffs : handoffs[h].decision \in 0..Len(decisions)
  <2>1. /\ DOMAIN handoffs = 1..Len(handoffs)
        /\ handoffs \in Seq(HandoffRecord(Len(bundles), Len(decisions)))
    BY <1>1 DEF Typed
  <2>2. \A h \in DOMAIN handoffs : handoffs[h] \in HandoffRecord(Len(bundles), Len(decisions))
    BY <2>1, ElementOfSeq
  <2> QED BY <2>2 DEF HandoffRecord
<1>6. Agree(decisions', handoffs)
  BY <1>1, <1>4, <1>5 DEF Agree, Grown
<1> QED BY <1>4, <1>6 DEF d

LEMMA ReconcileStep ==
  ASSUME IInv, NEW h \in 1..Len(handoffs), NEW d \in 1..Len(decisions),
         decisions[d].bundle = handoffs[h].bundle, WriteBack(h, d),
         UNCHANGED <<bundles, decisions>>
  PROVE  /\ Typed(bundles', decisions', handoffs')
         /\ Grown(bundles, decisions, handoffs, bundles', decisions', handoffs')
         /\ Agree(decisions', handoffs')
         /\ Len(handoffs') = Len(handoffs) /\ handoffs'[h].decision = d
<1>1. Typed(bundles, decisions, handoffs) /\ Agree(decisions, handoffs)
  BY DEF IInv
<1>2. /\ handoffs' = Reconciled(handoffs, h, d)
      /\ bundles' = bundles /\ decisions' = decisions
  BY DEF WriteBack, Reconciled
<1> DEFINE hs2 == handoffs'
<1>3. hs2 = Reconciled(handoffs, h, d)
  BY <1>2
<1> HIDE DEF hs2
<1>4. /\ Typed(bundles, decisions, hs2) /\ Agree(decisions, hs2)
      /\ Grown(bundles, decisions, handoffs, bundles, decisions, hs2)
      /\ Len(hs2) = Len(handoffs) /\ hs2[h].decision = d
  BY <1>1, <1>2, <1>3, ReconcileOne
<1> QED BY <1>2, <1>4 DEF hs2

LEMMA BundleStep ==
  ASSUME IInv, RunWorker, Launchable
  PROVE  /\ Typed(bundles', decisions', handoffs')
         /\ Grown(bundles, decisions, handoffs, bundles', decisions', handoffs')
         /\ Agree(decisions', handoffs')
         /\ UNCHANGED <<decisions, handoffs>>
         /\ Len(bundles') = Len(bundles) + 1
         /\ bundles'[Len(bundles) + 1].head = head
<1>1. PICK paths \in SUBSET ImplFiles :
        bundles' = Append(bundles, [head |-> head, paths |-> paths])
  BY DEF RunWorker
<1>2. Len(bundles) < MaxBundles /\ UNCHANGED <<decisions, handoffs>>
  BY DEF RunWorker
<1> DEFINE b == [head |-> head, paths |-> paths]
<1>3. b \in BundleRecord /\ Typed(bundles, decisions, handoffs) /\ Agree(decisions, handoffs)
  BY DEF BundleRecord, IInv, RepoOK
<1>4. b.head = head
  OBVIOUS
<1>5. bundles' = Append(bundles, b)
  BY <1>1
<1> HIDE DEF b
<1>6. /\ Typed(bundles', decisions, handoffs)
      /\ Grown(bundles, decisions, handoffs, bundles', decisions, handoffs)
      /\ Len(bundles') = Len(bundles) + 1
      /\ bundles'[Len(bundles) + 1] = b
  BY <1>2, <1>3, <1>5, AddBundle
<1>7. decisions' = decisions /\ handoffs' = handoffs
  BY <1>2
<1> QED BY <1>3, <1>4, <1>6, <1>7

\* Every step of a run, of an operator or of a fault keeps the evidence in order.
LEMMA EvidenceStep ==
  ASSUME IInv, [Next]_vars
  PROVE  /\ Typed(bundles', decisions', handoffs')
         /\ Grown(bundles, decisions, handoffs, bundles', decisions', handoffs')
         /\ Agree(decisions', handoffs')
         /\ bundles' = bundles \/ (RunWorker /\ Launchable)
<1>0. /\ Typed(bundles, decisions, handoffs) /\ Agree(decisions, handoffs)
      /\ Len(bundles) \in Nat /\ DOMAIN bundles = 1..Len(bundles)
      /\ Len(decisions) \in Nat /\ DOMAIN decisions = 1..Len(decisions)
      /\ Len(handoffs) \in Nat /\ DOMAIN handoffs = 1..Len(handoffs)
      /\ mem.bundle \in 0..Len(bundles) /\ mem.decision \in 0..Len(decisions)
      /\ mem.handoff \in 0..Len(handoffs)
  <2>1. Typed(bundles, decisions, handoffs) /\ Agree(decisions, handoffs)
        /\ Named(mem, bundles, decisions, handoffs)
    BY DEF IInv, Sound
  <2>2. /\ Len(bundles) \in Nat /\ DOMAIN bundles = 1..Len(bundles)
        /\ Len(decisions) \in Nat /\ DOMAIN decisions = 1..Len(decisions)
        /\ Len(handoffs) \in Nat /\ DOMAIN handoffs = 1..Len(handoffs)
    BY <2>1 DEF Typed
  <2> QED BY <2>1, <2>2 DEF Named, Checkpoint
<1>same. ASSUME UNCHANGED <<bundles, decisions, handoffs>>
         PROVE  /\ Typed(bundles', decisions', handoffs')
                /\ Grown(bundles, decisions, handoffs, bundles', decisions', handoffs')
                /\ Agree(decisions', handoffs')
                /\ bundles' = bundles
  BY <1>0, <1>same DEF Grown
<1>1. CASE OwnerHandoff
  <2>1. CASE UNCHANGED handoffs
    BY <1>1, <2>1, <1>same DEF OwnerHandoff
  <2>2. CASE NewHandoff(mem.bundle)
    <3>1. mem.bundle \in 1..Len(bundles) /\ UNCHANGED <<bundles, decisions>>
      BY <1>0, <1>1 DEF OwnerHandoff, ImplementationActionOK
    <3> QED BY <2>2, <3>1, HandoffStep
  <2> QED BY <1>1, <2>1, <2>2 DEF OwnerHandoff
<1>2. CASE RequestReview
  <2>1. CASE NewHandoff(mem.bundle) /\ UNCHANGED <<bundles, decisions>>
    <3>1. mem.bundle \in 1..Len(bundles)
      BY <1>0, <1>2 DEF RequestReview, At, IInv, Sound, Coherent, InReview
    <3> QED BY <2>1, <3>1, HandoffStep
  <2> QED BY <1>2, <2>1, <1>same DEF RequestReview, Pause, repo, evidence
<1>3. CASE OwnerDecide
  <2>1. CASE NewDecision(DecisionOf[action], "owner", mem.bundle)
    <3>1. action \in ImplementationActions /\ mem.bundle # 0
      BY <1>3 DEF OwnerDecide, IInv, Sound, InHand, Coherent, InReview
    <3>2. DecisionOf[action] \in ControllerDecision /\ "owner" \in Reviewers
      BY <3>1 DEF ImplementationActions, DecisionOf, ControllerDecision, Reviewers
    <3>3. UNCHANGED <<bundles, handoffs>>
      BY <1>3 DEF OwnerDecide
    <3>4. mem.bundle \in 1..Len(bundles)
      BY <1>0, <3>1
    <3> DEFINE v == DecisionOf[action]
    <3>5. v \in ControllerDecision /\ NewDecision(v, "owner", mem.bundle)
      BY <2>1, <3>2
    <3> HIDE DEF v
    <3> QED BY <3>2, <3>3, <3>4, <3>5, DecisionStep
  <2> QED BY <1>3, <2>1, <1>same DEF OwnerDecide
<1>4. CASE WriteHandoff
  <2>1. /\ WriteBack(mem.handoff, found) /\ UNCHANGED <<bundles, decisions>>
        /\ pc \in {"ownerWrite", "matchWrite"}
    BY <1>4 DEF WriteHandoff
  <2>2. /\ mem.handoff # 0 /\ found # 0 /\ found \in {0} \cup DOMAIN decisions
        /\ decisions[found].bundle = handoffs[mem.handoff].bundle
    BY <2>1 DEF IInv, InHand, Reconciling, Reviewing, CallsOK
  <2> QED BY <1>0, <2>1, <2>2, ReconcileStep
<1>5. CASE OwnerReconcile \/ MatchDecision \/ Confirm \/ Transition
  <2>1. UNCHANGED <<bundles, decisions, handoffs>>
    BY <1>5 DEF OwnerReconcile, MatchDecision, Confirm, Transition, Reconcile, Pause, evidence
  <2> QED BY <2>1, <1>same
<1>6. CASE RunWorker
  BY <1>6, <1>same, BundleStep DEF RunWorker, Pause, repo, evidence
<1>7. CASE Operator
  <2>1. ASSUME NEW v \in ControllerDecision, NEW a \in Reviewers, NEW b \in DOMAIN bundles,
               Decide(v, a, b)
        PROVE  /\ Typed(bundles', decisions', handoffs')
               /\ Grown(bundles, decisions, handoffs, bundles', decisions', handoffs')
               /\ Agree(decisions', handoffs')
               /\ bundles' = bundles
    BY <1>0, <2>1, DecisionStep DEF Decide
  <2>2. ASSUME NEW h \in DOMAIN handoffs, NEW d \in DOMAIN decisions, OperatorReconcile(h, d)
        PROVE  /\ Typed(bundles', decisions', handoffs')
               /\ Grown(bundles, decisions, handoffs, bundles', decisions', handoffs')
               /\ Agree(decisions', handoffs')
               /\ bundles' = bundles
    BY <1>same, <2>2 DEF OperatorReconcile, evidence
  <2>3. ASSUME OperatorWrites
        PROVE  /\ Typed(bundles', decisions', handoffs')
               /\ Grown(bundles, decisions, handoffs, bundles', decisions', handoffs')
               /\ Agree(decisions', handoffs')
               /\ bundles' = bundles
    <3>1. /\ copy \in [handoff : DOMAIN handoffs, decision : DOMAIN decisions]
          /\ decisions[copy.decision].bundle = handoffs[copy.handoff].bundle
          /\ WriteBack(copy.handoff, copy.decision) /\ UNCHANGED <<bundles, decisions>>
      BY <2>3 DEF OperatorWrites, IInv, CallsOK, Reconciling
    <3> QED BY <1>0, <3>1, ReconcileStep
  <2> QED BY <1>7, <1>same, <2>1, <2>2, <2>3
          DEF Operator, OperatorTransition, OperatorContinues, OperatorCommit, Discard, Edit,
              FinalizeByHand, evidence
<1>8. CASE \/ MoveTask \/ PreserveTask \/ OwnerSave \/ OwnerRefused
           \/ ValidateGoal \/ GenerateDraft \/ SaveDraft \/ AwaitTaskApproval
           \/ BeginExecution \/ SaveExecution \/ SaveHandoff \/ Dispatch \/ ActOnDecision
  <2>1. UNCHANGED <<bundles, decisions, handoffs>>
    BY <1>8 DEF MoveTask, PreserveTask, OwnerSave, OwnerRefused, ValidateGoal, GenerateDraft,
                SaveDraft, AwaitTaskApproval, BeginExecution, SaveExecution, SaveHandoff,
                Dispatch, ActOnDecision, Pause, evidence, Request, Reconcile
  <2> QED BY <2>1, <1>same
<1>9. CASE \/ HandToReview \/ ApplyRework \/ SaveRework
           \/ BeginFinalization \/ PassGates \/ Approve \/ Commit \/ Push \/ Record
           \/ SavePublished \/ Finish \/ ReconcileCompleted \/ Crash \/ RecordFails
           \/ (\E a \in BOOLEAN : StartRun(a))
           \/ (\E a \in BOOLEAN, act \in OwnerAction \cup {"none"} : Resume(a, act))
           \/ UNCHANGED vars
  <2>1. UNCHANGED <<bundles, decisions, handoffs>>
    BY <1>9 DEF HandToReview, Request, ApplyRework, SaveRework, BeginFinalization, PassGates,
                Approve, Commit, Push, Record, SavePublished, Finish, ReconcileCompleted, Crash,
                RecordFails, StartRun, Resume, Command, Pause, evidence, vars
  <2> QED BY <2>1, <1>same
<1> QED BY <1>1, <1>2, <1>3, <1>4, <1>5, <1>6, <1>7, <1>8, <1>9
        DEF Next, Orchestrator, OwnerIntake, Phases

-----------------------------------------------------------------------------
(***************************************************************************)
(* Types of the repository, the command and the ghosts                     *)
(***************************************************************************)

\* Facts about the references that the steps below keep needing.
LEMMA References ==
  ASSUME IInv
  PROVE  /\ Len(bundles) \in Nat /\ DOMAIN bundles = 1..Len(bundles)
         /\ Len(decisions) \in Nat /\ DOMAIN decisions = 1..Len(decisions)
         /\ Len(handoffs) \in Nat /\ DOMAIN handoffs = 1..Len(handoffs)
         /\ Len(bundles) <= MaxBundles /\ Len(decisions) <= MaxDecisions
         /\ Len(handoffs) <= MaxHandoffs
         /\ \A b \in 1..Len(bundles) : bundles[b] \in BundleRecord
         /\ \A d \in 1..Len(decisions) : decisions[d] \in DecisionRecord(Len(bundles))
         /\ \A h \in 1..Len(handoffs) :
              handoffs[h] \in HandoffRecord(Len(bundles), Len(decisions))
         /\ ckpt \in Checkpoint /\ mem \in Checkpoint
         /\ Sound(ckpt, bundles, decisions, handoffs)
         /\ Sound(mem, bundles, decisions, handoffs)
<1>1. Typed(bundles, decisions, handoffs)
  BY DEF IInv
<1>2. /\ Sound(ckpt, bundles, decisions, handoffs)
      /\ Sound(mem, bundles, decisions, handoffs)
  BY DEF IInv
<1>3. /\ Len(bundles) \in Nat /\ DOMAIN bundles = 1..Len(bundles)
      /\ Len(decisions) \in Nat /\ DOMAIN decisions = 1..Len(decisions)
      /\ Len(handoffs) \in Nat /\ DOMAIN handoffs = 1..Len(handoffs)
      /\ Len(bundles) <= MaxBundles /\ Len(decisions) <= MaxDecisions
      /\ Len(handoffs) <= MaxHandoffs
  BY <1>1 DEF Typed
<1>4. /\ \A b \in 1..Len(bundles) : bundles[b] \in BundleRecord
      /\ \A d \in 1..Len(decisions) : decisions[d] \in DecisionRecord(Len(bundles))
      /\ \A h \in 1..Len(handoffs) :
           handoffs[h] \in HandoffRecord(Len(bundles), Len(decisions))
  BY <1>1, ElementOfSeq DEF Typed
<1> QED BY <1>2, <1>3, <1>4 DEF Sound, Named

\* The repository keeps its type, and HEAD does not move back.
LEMMA RepoStep ==
  ASSUME IInv, [Next]_vars
  PROVE  RepoOK' /\ head <= head' /\ remote' \in {remote, head, head'}
<1>1. RepoOK /\ MaxCommits \in Nat
  BY OrchestrationAssumption DEF IInv
<1>same. ASSUME UNCHANGED repo
         PROVE  RepoOK' /\ head <= head' /\ remote' \in {remote, head, head'}
  BY <1>1, <1>same DEF repo, custody, RepoOK
<1>2. CASE \/ OwnerHandoff \/ OwnerDecide \/ OwnerReconcile \/ OwnerSave \/ OwnerRefused
           \/ MoveTask \/ WriteHandoff \/ ValidateGoal \/ SaveDraft \/ AwaitTaskApproval
           \/ BeginExecution \/ SaveExecution \/ RequestReview \/ SaveHandoff \/ MatchDecision
           \/ Dispatch \/ Confirm \/ ActOnDecision \/ HandToReview \/ ApplyRework
           \/ SaveRework \/ BeginFinalization \/ PassGates \/ Approve \/ Record
           \/ SavePublished \/ Finish
  <2>1. UNCHANGED repo
    BY <1>2 DEF OwnerHandoff, OwnerDecide, OwnerReconcile, OwnerSave, OwnerRefused, ValidateGoal,
         SaveDraft, AwaitTaskApproval, BeginExecution, SaveExecution, RequestReview, SaveHandoff,
         MatchDecision, Dispatch, ActOnDecision, SaveRework, BeginFinalization, PassGates, Record,
         SavePublished, Finish, Pause, MoveTask, WriteHandoff, Confirm, HandToReview, ApplyRework,
         Approve, Request, Reconcile
  <2> QED BY <2>1, <1>same
<1>3. CASE \/ ReconcileCompleted \/ RecordFails \/ UNCHANGED vars
           \/ (\E a \in BOOLEAN : StartRun(a))
           \/ (\E a \in BOOLEAN, act \in OwnerAction \cup {"none"} : Resume(a, act))
           \/ (\E v \in ControllerDecision, a \in Reviewers, b \in DOMAIN bundles :
                 Decide(v, a, b))
           \/ (\E h \in DOMAIN handoffs, d \in DOMAIN decisions : OperatorReconcile(h, d))
           \/ (\E to \in TaskStatus : OperatorTransition(to)) \/ OperatorWrites
  <2>1. UNCHANGED repo
    BY <1>3 DEF ReconcileCompleted, RecordFails, vars, StartRun, Resume, Command, Decide,
         OperatorReconcile, OperatorTransition, OperatorWrites
  <2> QED BY <2>1, <1>same
<1>4. CASE Transition \/ OperatorContinues
  <2>0. Text \in TaskTexts /\ TaskTexts = TaskStatus \cup {Torn}
    BY <1>1 DEF RepoOK, Text, TaskTexts
  <2>1. ASSUME NEW c \in TransitionCalls, ~Refused(c, Text), Rewrite(c)
        PROVE  RepoOK' /\ head <= head' /\ remote' \in {remote, head, head'}
    <3>1. Written(c, Text) \in TaskTexts /\ Advanced(c, Text) \in TransitionCalls
      BY <2>0, <2>1, CallSteps
    <3>2. task' = Written(c, Text) /\ whole' \in {whole, task'}
          /\ (task' = Torn => whole' = whole)
          /\ overwritten' \in BOOLEAN /\ UNCHANGED <<taskHead, impl, head, remote>>
      BY <1>1, <2>1 DEF Rewrite, TaskBecomes, RepoOK
    <3>3. whole' \in TaskStatus \cup {NoTask}
      BY <1>1, <2>0, <3>1, <3>2 DEF RepoOK
    <3> QED BY <1>1, <3>1, <3>2, <3>3 DEF RepoOK
  <2>2. call \in TransitionCalls /\ mover \in TransitionCalls
    BY DEF IInv, CallsOK
  <2> QED BY <1>4, <1>same, <2>1, <2>2 DEF Transition, OperatorContinues, Pause
<1>10. CASE GenerateDraft
  <2>1. CASE UNCHANGED repo
    BY <2>1, <1>same
  <2>2. CASE ~UNCHANGED repo
    <3>1. /\ TaskBecomes("DRAFT")
          /\ UNCHANGED <<taskHead, impl, head, remote, overwritten>>
      BY <1>10, <2>2 DEF GenerateDraft, Pause
    <3> QED BY <1>1, <3>1 DEF TaskBecomes, RepoOK, TaskStatus, TaskTexts, Torn
  <2> QED BY <2>1, <2>2
<1>5. CASE PreserveTask \/ Commit \/ OperatorCommit
  BY <1>1, <1>5, <1>same
     DEF PreserveTask, Commit, OperatorCommit, NewCommit, Pause, repo, custody, RepoOK
<1>6. CASE RunWorker \/ Crash
  <2>1. /\ UNCHANGED <<task, taskHead, head, remote, whole, overwritten>>
        /\ impl' = impl \/ impl' \in SUBSET ImplFiles
    BY <1>6 DEF RunWorker, Crash, Pause, repo, custody
  <2> QED BY <1>1, <2>1 DEF RepoOK
<1>8. CASE Push \/ \E f \in ImplFiles : Edit(f)
  BY <1>1, <1>8 DEF Push, Edit, RepoOK, custody
<1>9. CASE Discard
  <2>1. /\ task' = taskHead /\ whole' = IF taskHead = Torn THEN whole ELSE taskHead
        /\ impl' = {} /\ UNCHANGED <<taskHead, head, remote, overwritten>>
    BY <1>9 DEF Discard, TaskBecomes
  <2> QED BY <1>1, <2>1 DEF RepoOK, TaskTexts
<1>7. CASE \E d \in DOMAIN decisions : FinalizeByHand(d)
  <2>1. /\ task' = "APPROVED" /\ taskHead' = "APPROVED" /\ whole' \in {whole, "APPROVED"}
        /\ impl' = {} /\ head < MaxCommits /\ head' = head + 1 /\ remote' = head + 1
        /\ overwritten' = overwritten
    BY <1>7 DEF FinalizeByHand, TaskBecomes
  <2> QED BY <1>1, <2>1 DEF RepoOK, TaskStatus, TaskTexts
<1> QED BY <1>2, <1>3, <1>4, <1>5, <1>6, <1>7, <1>8, <1>9, <1>10
        DEF Next, Orchestrator, OwnerIntake, Phases, Operator

\* Neither the remote nor the base of a bundle is ahead of HEAD.
LEMMA HeadsStep ==
  ASSUME IInv, [Next]_vars
  PROVE  Heads'
<1>1. /\ head \in Nat /\ head' \in Nat /\ head <= head'
      /\ remote \in Nat /\ remote <= head /\ remote' \in {remote, head, head'}
      /\ \A b \in 1..Len(bundles) : bundles[b] \in BundleRecord /\ bundles[b].head <= head
      /\ Len(bundles) \in Nat
  <2>1. RepoOK' /\ head <= head' /\ remote' \in {remote, head, head'}
    BY RepoStep
  <2>2. RepoOK /\ Heads
    BY DEF IInv
  <2> QED BY <2>1, <2>2, References, OrchestrationAssumption DEF RepoOK, Heads
<1>2. remote' <= head'
  BY <1>1
<1>3. \A b \in DOMAIN bundles' : bundles'[b].head <= head'
  <2>1. CASE bundles' = bundles
    BY <1>1, <2>1, References DEF BundleRecord
  <2>2. CASE RunWorker /\ Launchable
    <3>1. /\ Len(bundles') = Len(bundles) + 1
          /\ bundles'[Len(bundles) + 1].head = head
          /\ \A b \in 1..Len(bundles) : bundles'[b] = bundles[b]
          /\ DOMAIN bundles' = 1..Len(bundles')
      BY <2>2, BundleStep DEF Typed, Grown
    <3>2. ASSUME NEW b \in DOMAIN bundles' PROVE bundles'[b].head <= head
      BY <1>1, <3>1 DEF BundleRecord
    <3>3. head' = head
      BY <2>2 DEF RunWorker
    <3> QED BY <3>2, <3>3
  <2> QED BY <2>1, <2>2, EvidenceStep
<1> QED BY <1>2, <1>3 DEF Heads

\* The command and its counters keep their type.
LEMMA RunStep ==
  ASSUME IInv, [Next]_vars
  PROVE  RunOK'
<1>1. RunOK /\ MaxRuns \in Nat /\ MaxFaults \in Nat /\ MaxOps \in Nat
  BY OrchestrationAssumption DEF IInv
<1>2. CASE OwnerIntake
  <2>1. /\ UNCHANGED counters /\ pc' \in Step
        /\ UNCHANGED <<apply, fresh, action>> \/ End
    BY <1>1, <1>2 DEF OwnerIntake, MoveTask, PreserveTask, OwnerHandoff, OwnerDecide,
         OwnerReconcile, WriteHandoff, Request, Reconcile, OwnerSave, OwnerRefused, Pause, End,
         Goto, Remember, locals, command, counters, operators, RunOK, Step
  <2> QED BY <1>1, <2>1 DEF RunOK, End, counters, operators
<1>3. CASE \/ ValidateGoal \/ GenerateDraft \/ SaveDraft \/ AwaitTaskApproval
           \/ BeginExecution \/ RunWorker \/ SaveExecution
           \/ RequestReview \/ SaveHandoff \/ MatchDecision \/ Dispatch \/ Confirm
           \/ ActOnDecision
  <2>1. /\ UNCHANGED counters /\ pc' \in Step
        /\ UNCHANGED <<apply, fresh, action>> \/ End
    BY <1>1, <1>3 DEF ValidateGoal, GenerateDraft, SaveDraft, AwaitTaskApproval, BeginExecution,
         RunWorker, SaveExecution, RequestReview, SaveHandoff, MatchDecision, Dispatch,
         Confirm, Reconcile, ActOnDecision, Pause, End, Goto, Remember, locals, command, counters,
         operators, RunOK, Step
  <2> QED BY <1>1, <2>1 DEF RunOK, End, counters, operators
<1>8. CASE Transition
  <2>1. /\ UNCHANGED counters
        /\ UNCHANGED <<apply, fresh, action>> \/ End
        /\ pc' = "idle" \/ pc' = "transition" \/ pc' = AfterCall
    BY <1>8 DEF Transition, Pause, End, Goto, command, counters, operators
  <2>2. CASE pc' = AfterCall
    <3>1. call.to \in Requested[mem.phase] /\ mem.phase \in DOMAIN Requested
      BY <1>8 DEF Transition, IInv, Calling
    <3>2. AfterCall \in Step
      BY <3>1 DEF AfterCall, Requested, Step
    <3> QED BY <1>1, <2>1, <2>2, <3>2 DEF RunOK, End, counters, operators, Step
  <2>3. CASE pc' \in {"idle", "transition"}
    BY <1>1, <2>1, <2>3 DEF RunOK, End, counters, operators, Step
  <2> QED BY <2>1, <2>2, <2>3
<1>4. CASE \/ HandToReview \/ ApplyRework \/ SaveRework
           \/ BeginFinalization \/ PassGates \/ Approve \/ Commit \/ Push \/ Record
           \/ SavePublished \/ Finish
  <2>1. /\ UNCHANGED counters /\ pc' \in Step
        /\ UNCHANGED <<apply, fresh, action>> \/ End
    BY <1>1, <1>4 DEF HandToReview, Request, ApplyRework, SaveRework, BeginFinalization,
         PassGates, Approve, Commit, Push, Record, SavePublished, Finish, Pause, End, Goto,
         Remember, locals, command, counters, operators, RunOK, Step
  <2> QED BY <1>1, <2>1 DEF RunOK, End, counters, operators
<1>5. CASE ReconcileCompleted \/ Crash \/ RecordFails \/ UNCHANGED vars
  <2>1. /\ pc' \in Step
        /\ UNCHANGED <<apply, fresh, action>> \/ End
    BY <1>1, <1>5 DEF ReconcileCompleted, Crash, RecordFails, End, Goto, vars, locals, command,
         RunOK, Step
  <2>2. /\ runs' = runs \/ (runs < MaxRuns /\ runs' = runs + 1)
        /\ faults' = faults \/ (faults < MaxFaults /\ faults' = faults + 1)
        /\ ops' = ops
    BY <1>5 DEF ReconcileCompleted, Crash, RecordFails, Fault, vars, counters, operators
  <2>3. runs' \in 0..MaxRuns /\ faults' \in 0..MaxFaults /\ ops' \in 0..MaxOps
    BY <1>1, <2>2 DEF RunOK
  <2>4. apply' \in BOOLEAN /\ fresh' \in BOOLEAN /\ action' \in OwnerAction \cup {"none"}
    BY <1>1, <2>1 DEF RunOK, End
  <2> QED BY <2>1, <2>3, <2>4 DEF RunOK
<1>6. CASE Operator
  <2>1. /\ ops' = ops \/ (ops < MaxOps /\ ops' = ops + 1)
        /\ UNCHANGED <<pc, apply, fresh, action, runs, faults>>
    BY <1>6 DEF Operator, Decide, OperatorTransition, OperatorContinues, OperatorCommit, Discard,
         Edit, OperatorReconcile, OperatorWrites, FinalizeByHand, Operate, Aside, locals, command
  <2> QED BY <1>1, <2>1 DEF RunOK
<1>7. CASE \/ \E a \in BOOLEAN : StartRun(a)
           \/ \E a \in BOOLEAN, act \in OwnerAction \cup {"none"} : Resume(a, act)
  <2>1. /\ pc' \in {"loop", "owner"} /\ apply' \in BOOLEAN /\ fresh' \in BOOLEAN
        /\ action' \in OwnerAction \cup {"none"}
        /\ runs < MaxRuns /\ runs' = runs + 1 /\ UNCHANGED <<faults, ops>>
    BY <1>7 DEF StartRun, Resume, Command, Goto, operators
  <2> QED BY <1>1, <2>1 DEF RunOK, Step
<1> QED BY <1>2, <1>3, <1>4, <1>5, <1>6, <1>7, <1>8 DEF Next, Orchestrator, Phases

\* The decision in hand at the steps that need one.
LEMMA DecisionInHand ==
  ASSUME IInv, pc \in Decided \cup Finalizing \/ InReworkCall
  PROVE  mem.decision \in 1..Len(decisions) /\ mem.handoff \in 1..Len(handoffs)
<1>1. mem.decision # 0 /\ mem.handoff # 0
  BY DEF IInv, InHand, Sound, Coherent
<1> QED BY <1>1, References DEF Sound, Named, Checkpoint

\* The transition a command is making is one of its phase, and it and an operator's
\* write only what the authority table grants.
LEMMA CallsStep ==
  ASSUME IInv, [Next]_vars
  PROVE  /\ call' \in TransitionCalls /\ mover' \in TransitionCalls
         /\ MoveGranted(call') /\ MoveGranted(mover')
         /\ mover' = NoCall \/ mover'.step \in Writing
<1>1. /\ call \in TransitionCalls /\ mover \in TransitionCalls
      /\ MoveGranted(call) /\ MoveGranted(mover)
      /\ mover = NoCall \/ mover.step \in Writing
  BY DEF IInv, CallsOK, Calling
<1>2. Text \in TaskTexts
  BY DEF IInv, RepoOK, Text, TaskTexts
<1>3. NoCall \in TransitionCalls /\ MoveGranted(NoCall)
  BY DEF NoCall, TransitionCalls, CallStep, TaskStatus, ActorRole, MoveGranted, Writing
<1>4. ASSUME NEW c \in TransitionCalls, MoveGranted(c), ~Refused(c, Text)
      PROVE  Advanced(c, Text) \in TransitionCalls /\ MoveGranted(Advanced(c, Text))
  <2> DEFINE a == Advanced(c, Text)
  <2>1. a = Advanced(c, Text)
    OBVIOUS
  <2> HIDE DEF a
  <2>2. a \in TransitionCalls /\ MoveGranted(a)
    BY <1>2, <1>4, <2>1, CallSteps, GrantIsKept
  <2> QED BY <2>1, <2>2
<1>5. ASSUME NEW to \in TaskStatus, NEW role \in ActorRole
      PROVE  CallOf(to, role) \in TransitionCalls /\ MoveGranted(CallOf(to, role))
  <2>1. CallOf(to, role) \in TransitionCalls /\ CallOf(to, role).step = "find"
    BY CallOfType
  <2> QED BY <2>1 DEF MoveGranted, Writing
<1>6. call' \in TransitionCalls /\ MoveGranted(call')
  <2>1. CASE call' = call \/ call' = NoCall
    BY <1>1, <1>3, <2>1
  <2>2. CASE Transition
    BY <1>1, <1>4, <2>1, <2>2 DEF Transition, Pause, End
  <2>3. ASSUME NEW to \in TaskStatus, NEW role \in ActorRole, Request(to, role)
        PROVE  call' \in TransitionCalls /\ MoveGranted(call')
    BY <1>5, <2>3 DEF Request
  <2>4. CASE MoveTask
    BY <2>3, <2>4 DEF MoveTask, TaskStatus, ActorRole
  <2>5. CASE HandToReview
    BY <2>1, <2>3, <2>5 DEF HandToReview, Pause, End, locals, TaskStatus, ActorRole
  <2>6. CASE ApplyRework \/ Approve
    <3>1. CASE Pause \/ UNCHANGED locals
      BY <2>1, <3>1 DEF Pause, End, locals
    <3>2. decisions[mem.decision].actor \in ActorRole
      <4>1. mem.decision \in 1..Len(decisions)
        BY <2>6, DecisionInHand DEF ApplyRework, Approve, Decided, Reworking, Finalizing, Approving
      <4>2. decisions[mem.decision] \in DecisionRecord(Len(bundles))
        BY <4>1, References
      <4> QED BY <4>2 DEF DecisionRecord, Reviewers, ActorRole
    <3>3. \/ Pause \/ UNCHANGED locals
          \/ \E to \in TaskStatus, role \in ActorRole : Request(to, role)
      BY <2>6, <3>2 DEF ApplyRework, Approve, ApprovalChain, TaskStatus, ActorRole
    <3> QED BY <2>3, <3>1, <3>3
  <2>7. CASE \/ PreserveTask \/ OwnerHandoff \/ OwnerDecide \/ OwnerReconcile \/ WriteHandoff
             \/ OwnerSave \/ OwnerRefused \/ ValidateGoal \/ GenerateDraft \/ SaveDraft
             \/ AwaitTaskApproval \/ BeginExecution \/ RunWorker \/ SaveExecution
             \/ RequestReview \/ SaveHandoff \/ MatchDecision \/ Dispatch \/ Confirm
             \/ ActOnDecision
    BY <2>1, <2>7 DEF PreserveTask, OwnerHandoff, OwnerDecide, OwnerReconcile, WriteHandoff,
         OwnerSave, OwnerRefused, ValidateGoal, GenerateDraft, SaveDraft, AwaitTaskApproval,
         BeginExecution, RunWorker, SaveExecution, RequestReview, SaveHandoff, MatchDecision,
         Dispatch, Confirm, ActOnDecision, Reconcile, Pause, End, Remember, locals
  <2>8. CASE \/ SaveRework \/ BeginFinalization \/ PassGates \/ Commit \/ Push \/ Record
             \/ SavePublished \/ Finish \/ ReconcileCompleted \/ Crash \/ RecordFails
             \/ Operator \/ UNCHANGED vars
             \/ (\E a \in BOOLEAN : StartRun(a))
             \/ (\E a \in BOOLEAN, act \in OwnerAction \cup {"none"} : Resume(a, act))
    BY <2>1, <2>8 DEF SaveRework, BeginFinalization, PassGates, Commit, Push, Record,
         SavePublished, Finish, ReconcileCompleted, Crash, RecordFails, Operator, Decide,
         OperatorTransition, OperatorContinues, OperatorCommit, Discard, Edit, OperatorReconcile,
         OperatorWrites, FinalizeByHand, Operate, Aside, StartRun, Resume, Command, Pause, End,
         Remember, locals, vars
  <2> QED BY <2>2, <2>4, <2>5, <2>6, <2>7, <2>8 DEF Next, Orchestrator, OwnerIntake, Phases
<1>7. /\ mover' \in TransitionCalls /\ MoveGranted(mover')
      /\ mover' = NoCall \/ mover'.step \in Writing
  <2>1. CASE mover' = mover \/ mover' = NoCall
    BY <1>1, <1>3, <2>1
  <2>2. CASE OperatorContinues
    <3>1. CASE ~Refused(mover, Text) /\ mover' = Advanced(mover, Text)
      <4>1. mover # NoCall /\ mover.step \in Writing
        BY <1>1, <2>2 DEF OperatorContinues
      <4>2. Advanced(mover, Text) = NoCall \/ Advanced(mover, Text).step \in Writing
        BY <1>1, <4>1 DEF Advanced, NextStep, Writing, TransitionCalls
      <4> QED BY <1>1, <1>4, <3>1, <4>2
    <3> QED BY <2>1, <2>2, <3>1 DEF OperatorContinues
  <2>3. ASSUME NEW to \in TaskStatus, OperatorTransition(to)
        PROVE  /\ mover' \in TransitionCalls /\ MoveGranted(mover')
               /\ mover' = NoCall \/ mover'.step \in Writing
    <3>1. /\ mover' = [CallOf(to, "owner") EXCEPT !.step = "load", !.from = task]
          /\ IsTransitionAllowed(task, to, "owner")
      BY <2>3 DEF OperatorTransition
    <3>2. /\ CallOf(to, "owner") \in TransitionCalls
          /\ CallOf(to, "owner").to = to /\ CallOf(to, "owner").actor = "owner"
      BY CallOfType DEF ActorRole
    <3>3. task \in TaskStatus
      BY <3>1 DEF IsTransitionAllowed, TransitionAuthority, NonFinalWorkingStates, TaskStatus
    <3> QED BY <3>1, <3>2, <3>3 DEF TransitionCalls, CallStep, MoveGranted, Writing
  <2>4. CASE \/ OwnerIntake \/ ReconcileCompleted \/ Crash \/ RecordFails \/ UNCHANGED vars
             \/ (\E a \in BOOLEAN : StartRun(a))
             \/ (\E a \in BOOLEAN, act \in OwnerAction \cup {"none"} : Resume(a, act))
    BY <2>1, <2>4 DEF OwnerIntake, MoveTask, PreserveTask, OwnerHandoff, OwnerDecide,
         OwnerReconcile, WriteHandoff, OwnerSave, OwnerRefused, ReconcileCompleted, Crash,
         RecordFails, StartRun, Resume, Command, Request, Reconcile, Pause, counters, operators,
         vars
  <2>5. CASE Phases
    BY <2>1, <2>5 DEF Phases, ValidateGoal, GenerateDraft, SaveDraft, AwaitTaskApproval,
         BeginExecution, RunWorker, SaveExecution, RequestReview, SaveHandoff, MatchDecision,
         Dispatch, Confirm, ActOnDecision, Transition, HandToReview, ApplyRework, SaveRework,
         BeginFinalization, PassGates, Approve, Commit, Push, Record, SavePublished, Finish,
         Request, Reconcile, Pause, counters, operators
  <2>6. CASE \/ (\E v \in ControllerDecision, a \in Reviewers, b \in DOMAIN bundles :
                   Decide(v, a, b))
             \/ OperatorCommit \/ Discard \/ (\E f \in ImplFiles : Edit(f))
             \/ (\E h \in DOMAIN handoffs, d \in DOMAIN decisions : OperatorReconcile(h, d))
             \/ OperatorWrites \/ (\E d \in DOMAIN decisions : FinalizeByHand(d))
    BY <2>1, <2>6 DEF Decide, OperatorCommit, Discard, Edit, OperatorReconcile, OperatorWrites,
         FinalizeByHand
  <2> QED BY <2>2, <2>3, <2>4, <2>5, <2>6 DEF Next, Orchestrator, Operator
<1> QED BY <1>6, <1>7

\* A publication that is added is one of the bundle that was reviewed.
LEMMA PublicationFacts ==
  ASSUME IInv, NEW d \in 1..Len(decisions), head < MaxCommits
  PROVE  /\ Publication(d) \in PublicationType
         /\ Publication(d).commit = head + 1
         /\ Publication(d).decision = d
         /\ Publication(d).bundle = decisions[d].bundle
         /\ Publication(d).bundle \in 1..Len(bundles)
         /\ Publication(d).paths = impl
<1>1. /\ decisions[d] \in DecisionRecord(Len(bundles))
      /\ Len(bundles) \in Nat /\ Len(bundles) <= MaxBundles
      /\ Len(decisions) \in Nat /\ Len(decisions) <= MaxDecisions
  BY References
<1>2. /\ decisions[d].bundle \in 1..Len(bundles) /\ decisions[d].bundle \in 1..MaxBundles
      /\ d \in 1..MaxDecisions
  BY <1>1, OrchestrationAssumption DEF DecisionRecord
<1>3. head + 1 \in 1..MaxCommits /\ impl \in SUBSET ImplFiles
  BY OrchestrationAssumption DEF IInv, RepoOK
<1> QED BY <1>2, <1>3 DEF Publication, PublicationType

\* What finalizers and commands add to the publications and to the records.
LEMMA PublicationStep ==
  ASSUME IInv, [Next]_vars
  PROVE  /\ \/ published' = published
            \/ Commit
            \/ \E d \in DOMAIN decisions : FinalizeByHand(d)
         /\ \/ records' = records
            \/ Record
            \/ \E d \in DOMAIN decisions : FinalizeByHand(d)
<1>1. CASE OwnerIntake
  BY <1>1 DEF OwnerIntake, MoveTask, PreserveTask, OwnerHandoff, OwnerDecide, OwnerReconcile,
       WriteHandoff, Request, Reconcile, OwnerSave, OwnerRefused, Pause, evidence, ghosts
<1>2. CASE \/ ValidateGoal \/ GenerateDraft \/ SaveDraft \/ AwaitTaskApproval
           \/ BeginExecution \/ RunWorker \/ SaveExecution
           \/ RequestReview \/ SaveHandoff \/ MatchDecision \/ Dispatch \/ Confirm
           \/ ActOnDecision \/ Transition
  BY <1>2 DEF ValidateGoal, GenerateDraft, SaveDraft, AwaitTaskApproval, BeginExecution,
       RunWorker, SaveExecution, RequestReview, SaveHandoff, MatchDecision, Dispatch,
       Confirm, Reconcile, Transition, ActOnDecision, Pause, evidence, ghosts
<1>3. CASE \/ HandToReview \/ ApplyRework \/ SaveRework
           \/ BeginFinalization \/ PassGates \/ Approve \/ Commit \/ Push \/ Record
           \/ SavePublished \/ Finish
  BY <1>3 DEF HandToReview, Request, ApplyRework, SaveRework, BeginFinalization,
       PassGates, Approve, Commit, Push, Record, SavePublished, Finish, Pause, evidence, ghosts
<1>4. CASE ReconcileCompleted \/ Crash \/ RecordFails \/ UNCHANGED vars
  BY <1>4 DEF ReconcileCompleted, Crash, RecordFails, vars, evidence, ghosts
<1>5. CASE Operator
  BY <1>5 DEF Operator, Decide, OperatorTransition, OperatorContinues, OperatorCommit, Discard,
       Edit, OperatorReconcile, OperatorWrites, evidence
<1>6. CASE \/ \E a \in BOOLEAN : StartRun(a)
           \/ \E a \in BOOLEAN, act \in OwnerAction \cup {"none"} : Resume(a, act)
  BY <1>6 DEF StartRun, Resume, Command, evidence, ghosts
<1> QED BY <1>1, <1>2, <1>3, <1>4, <1>5, <1>6 DEF Next, Orchestrator, Phases

\* The ghosts keep their type.
LEMMA GhostsStep ==
  ASSUME IInv, [Next]_vars
  PROVE  GhostsOK'
<1>1. GhostsOK
  BY DEF IInv
<1>2. published' \subseteq PublicationType /\ records' \subseteq published'
  <2>1. CASE Commit
    <3>1. published' = published \/ published' = published \cup {Publication(mem.decision)}
      BY <2>1 DEF Commit, Pause, ghosts
    <3>2. records' = records
      BY <2>1 DEF Commit, Pause, evidence
    <3>3. published' # published => head < MaxCommits
      BY <2>1 DEF Commit, NewCommit, Pause, ghosts
    <3>4. mem.decision \in 1..Len(decisions)
      BY <2>1, DecisionInHand DEF Commit, Finalizing, Approving
    <3> QED BY <1>1, <3>1, <3>2, <3>3, <3>4, PublicationFacts DEF GhostsOK
  <2>2. ASSUME NEW d \in DOMAIN decisions, FinalizeByHand(d)
        PROVE  published' \subseteq PublicationType /\ records' \subseteq published'
    <3>1. /\ published' = published \cup {Publication(d)}
          /\ records' = records \cup {Publication(d)} /\ head < MaxCommits
      BY <2>2 DEF FinalizeByHand
    <3> QED BY <1>1, <3>1, PublicationFacts, References DEF GhostsOK
  <2>3. CASE Record
    BY <1>1, <2>3 DEF Record, GhostsOK, ghosts
  <2>4. CASE published' = published /\ records' = records
    BY <1>1, <2>4 DEF GhostsOK
  <2> QED BY <2>1, <2>2, <2>3, <2>4, PublicationStep DEF Record, Commit, Pause, ghosts, evidence
<1>3. applied' \in [1..MaxDecisions -> Nat] /\ worked' \in Nat
  <2>1. CASE Transition
    <3>1. /\ worked' = worked
          /\ applied' = applied \/ applied' = [applied EXCEPT ![mem.decision] = @ + 1]
      BY <2>1 DEF Transition, Pause, ghosts
    <3> QED BY <1>1, <3>1 DEF GhostsOK
  <2>2. CASE RunWorker
    <3>1. applied' = applied /\ (worked' = worked \/ worked' = worked + 1)
      BY <2>2 DEF RunWorker, Pause, ghosts
    <3> QED BY <1>1, <3>1 DEF GhostsOK
  <2>3. CASE OwnerIntake
    BY <1>1, <2>3 DEF OwnerIntake, MoveTask, PreserveTask, OwnerHandoff, OwnerDecide,
         OwnerReconcile, WriteHandoff, Request, Reconcile, OwnerSave, OwnerRefused, Pause, ghosts,
         GhostsOK
  <2>4. CASE \/ ValidateGoal \/ GenerateDraft \/ SaveDraft \/ AwaitTaskApproval
             \/ BeginExecution \/ SaveExecution
             \/ RequestReview \/ SaveHandoff \/ MatchDecision \/ Dispatch \/ Confirm
             \/ ActOnDecision
    BY <1>1, <2>4 DEF ValidateGoal, GenerateDraft, SaveDraft, AwaitTaskApproval, BeginExecution,
         SaveExecution, RequestReview, SaveHandoff, MatchDecision, Dispatch,
         Confirm, Reconcile, ActOnDecision, Pause, ghosts, GhostsOK
  <2>5. CASE \/ HandToReview \/ ApplyRework \/ SaveRework
             \/ BeginFinalization \/ PassGates \/ Approve \/ Commit \/ Push \/ Record
             \/ SavePublished \/ Finish
    BY <1>1, <2>5 DEF HandToReview, Request, ApplyRework, SaveRework, BeginFinalization,
         PassGates, Approve, Commit, Push, Record, SavePublished, Finish, Pause, ghosts, GhostsOK
  <2>6. CASE ReconcileCompleted \/ Crash \/ RecordFails \/ UNCHANGED vars
    BY <1>1, <2>6 DEF ReconcileCompleted, Crash, RecordFails, vars, ghosts, GhostsOK
  <2>7. CASE Operator
    BY <1>1, <2>7 DEF Operator, Decide, OperatorTransition, OperatorContinues, OperatorCommit,
         Discard, Edit, OperatorReconcile, OperatorWrites, FinalizeByHand, Operate, Aside, GhostsOK
  <2>8. CASE \/ \E a \in BOOLEAN : StartRun(a)
             \/ \E a \in BOOLEAN, act \in OwnerAction \cup {"none"} : Resume(a, act)
    BY <1>1, <2>8 DEF StartRun, Resume, Command, ghosts, GhostsOK
  <2> QED BY <2>1, <2>2, <2>3, <2>4, <2>5, <2>6, <2>7, <2>8 DEF Next, Orchestrator, Phases
<1> QED BY <1>2, <1>3 DEF GhostsOK

-----------------------------------------------------------------------------
(***************************************************************************)
(* The checkpoints                                                         *)
(***************************************************************************)

\* The empty checkpoint refers to nothing.
LEMMA SoundNoCkpt ==
  ASSUME NEW bs, NEW ds, NEW hs, Typed(bs, ds, hs), NEW c \in Checkpoint,
         c.phase = "GOAL_VALIDATION", c.bundle = 0, c.handoff = 0, c.decision = 0,
         c.consumed = {}, c.rework = 0
  PROVE  Sound(c, bs, ds, hs)
<1>1. Len(bs) \in Nat /\ Len(ds) \in Nat /\ Len(hs) \in Nat
  BY DEF Typed
<1>2. Cardinality({}) = 0 /\ MaxRework \in {0, 1}
  BY FS_EmptySet, OrchestrationAssumption
<1> QED BY <1>1, <1>2 DEF Sound, Named, Coherent, Consumption, InReview

\* The checkpoint m refers to what c refers to, and differs at most in its phase
\* and in what it says of the tree.
Relabelled(m, c) ==
  /\ m \in Checkpoint
  /\ m.bundle = c.bundle /\ m.handoff = c.handoff /\ m.decision = c.decision
  /\ m.consumed = c.consumed /\ m.rework = c.rework

\* What the tree is like is noted in a checkpoint.
Noted(c, h, f) == [c EXCEPT !.expectedHead = h, !.fingerprint = f]
LEMMA TreeNoted ==
  ASSUME NEW c \in Checkpoint, NEW h \in 0..MaxCommits, NEW f \in SUBSET Files
  PROVE  Noted(c, h, f).phase = c.phase /\ Relabelled(Noted(c, h, f), c)
BY DEF Noted, Checkpoint, Relabelled

\* A checkpoint enters a phase.
Entered(c, p) == [c EXCEPT !.phase = p]
LEMMA PhaseEntered ==
  ASSUME NEW c \in Checkpoint, NEW p \in Phase
  PROVE  Entered(c, p).phase = p /\ Relabelled(Entered(c, p), c)
BY DEF Entered, Checkpoint, Relabelled

\* A checkpoint enters a phase at a head.
EnteredAt(c, p, h) == [c EXCEPT !.phase = p, !.expectedHead = h]
LEMMA PhaseEnteredAt ==
  ASSUME NEW c \in Checkpoint, NEW p \in Phase, NEW h \in 0..MaxCommits
  PROVE  EnteredAt(c, p, h).phase = p /\ Relabelled(EnteredAt(c, p, h), c)
BY DEF EnteredAt, Checkpoint, Relabelled

\* A checkpoint that refers to the same evidence in another phase.
LEMMA SoundInPhase ==
  ASSUME NEW c, NEW bs, NEW ds, NEW hs, Sound(c, bs, ds, hs), NEW c2, Relabelled(c2, c),
         c2.phase = "PUBLISHED" \/ c.phase # "PUBLISHED",
         Coherent(c2, bs, ds, hs)
  PROVE  Sound(c2, bs, ds, hs)
BY DEF Sound, Named, Consumption, Relabelled

\* The checkpoint m is c but for what it refers to.
Refers(m, c, b, h, d) ==
  /\ m \in Checkpoint
  /\ m.phase = c.phase /\ m.consumed = c.consumed /\ m.rework = c.rework
  /\ m.bundle = b /\ m.handoff = h /\ m.decision = d

WithBundle(c, b) == [c EXCEPT !.bundle = b]
LEMMA BundleNoted ==
  ASSUME NEW c \in Checkpoint, NEW b \in 0..MaxBundles
  PROVE  Refers(WithBundle(c, b), c, b, c.handoff, c.decision)
BY DEF WithBundle, Checkpoint, Refers

WithHandoff(c, h) == [c EXCEPT !.handoff = h]
LEMMA HandoffNoted ==
  ASSUME NEW c \in Checkpoint, NEW h \in 0..MaxHandoffs
  PROVE  Refers(WithHandoff(c, h), c, c.bundle, h, c.decision)
BY DEF WithHandoff, Checkpoint, Refers

WithDecision(c, d) == [c EXCEPT !.decision = d]
LEMMA DecisionNoted ==
  ASSUME NEW c \in Checkpoint, NEW d \in 0..MaxDecisions
  PROVE  Refers(WithDecision(c, d), c, c.bundle, c.handoff, d)
BY DEF WithDecision, Checkpoint, Refers

WithBoth(c, h, d) == [c EXCEPT !.handoff = h, !.decision = d]
LEMMA BothNoted ==
  ASSUME NEW c \in Checkpoint, NEW h \in 0..MaxHandoffs, NEW d \in 0..MaxDecisions
  PROVE  Refers(WithBoth(c, h, d), c, c.bundle, h, d)
BY DEF WithBoth, Checkpoint, Refers

\* The checkpoint of the next cycle, which has consumed the decision in hand.
AfterRework(c) ==
  [[c EXCEPT !.bundle = 0, !.handoff = 0, !.decision = 0]
     EXCEPT !.phase = "TASK_EXECUTION", !.rework = @ + 1, !.consumed = @ \cup {c.decision}]
LEMMA ReworkNoted ==
  ASSUME NEW c \in Checkpoint, c.decision \in 1..MaxDecisions
  PROVE  /\ AfterRework(c) \in Checkpoint
         /\ AfterRework(c).phase = "TASK_EXECUTION" /\ AfterRework(c).rework = c.rework + 1
         /\ AfterRework(c).consumed = c.consumed \cup {c.decision}
         /\ AfterRework(c).bundle = 0 /\ AfterRework(c).handoff = 0
         /\ AfterRework(c).decision = 0
<1> DEFINE c1 == [c EXCEPT !.bundle = 0, !.handoff = 0, !.decision = 0]
<1>1. 0 \in 0..MaxBundles /\ 0 \in 0..MaxHandoffs /\ 0 \in 0..MaxDecisions
  BY OrchestrationAssumption
<1>2. c1 \in Checkpoint
  BY <1>1 DEF Checkpoint
<1>3. c1.rework = c.rework /\ c1.consumed = c.consumed
  BY <1>1 DEF Checkpoint
<1>4. AfterRework(c) = [c1 EXCEPT !.phase = "TASK_EXECUTION", !.rework = c.rework + 1,
                                  !.consumed = c.consumed \cup {c.decision}]
  BY <1>3 DEF AfterRework
<1>5. /\ AfterRework(c).phase = "TASK_EXECUTION" /\ AfterRework(c).rework = c.rework + 1
      /\ AfterRework(c).consumed = c.consumed \cup {c.decision}
      /\ AfterRework(c).bundle = 0 /\ AfterRework(c).handoff = 0
      /\ AfterRework(c).decision = 0
  BY DEF AfterRework, Checkpoint
<1> HIDE DEF c1
<1>6. /\ c.rework + 1 \in Nat /\ c.consumed \cup {c.decision} \in SUBSET (1..MaxDecisions)
      /\ "TASK_EXECUTION" \in Phase
  BY DEF Phase, Checkpoint
<1>7. AfterRework(c) \in Checkpoint
  BY <1>2, <1>4, <1>6 DEF Checkpoint
<1> QED BY <1>5, <1>7

\* A checkpoint that refers to other evidence of the same cycle.
LEMMA SoundReference ==
  ASSUME NEW c, NEW bs, NEW ds, NEW hs, Sound(c, bs, ds, hs),
         NEW c2, NEW b, NEW h, NEW d, Refers(c2, c, b, h, d),
         b <= Len(bs), h <= Len(hs), d <= Len(ds), d \notin c.consumed,
         \A x \in c.consumed : ds[x].bundle # b,
         Coherent(c2, bs, ds, hs)
  PROVE  Sound(c2, bs, ds, hs)
BY DEF Sound, Named, Consumption, Refers

\* The checkpoints stay sound while the evidence grows.
LEMMA StillSound ==
  ASSUME IInv, [Next]_vars
  PROVE  /\ Sound(ckpt, bundles', decisions', handoffs')
         /\ Sound(mem, bundles', decisions', handoffs')
<1>1. /\ Typed(bundles', decisions', handoffs')
      /\ Grown(bundles, decisions, handoffs, bundles', decisions', handoffs')
      /\ bundles' = bundles \/ (RunWorker /\ Launchable)
  BY EvidenceStep
<1>2. RunWorker => ckpt.phase \in Early /\ mem.phase \in Early
  BY DEF RunWorker, IInv, InHand, InStep, Early
<1>3. /\ Sound(ckpt, bundles, decisions, handoffs)
      /\ Sound(mem, bundles, decisions, handoffs)
      /\ Typed(bundles, decisions, handoffs)
  BY DEF IInv
<1> QED BY <1>1, <1>2, <1>3, EvidenceKept

\* The steps that leave the memory of the command alone, or end it.
LEMMA MemoryKept ==
  ASSUME \/ MoveTask \/ OwnerReconcile \/ OwnerSave \/ OwnerRefused
         \/ WriteHandoff \/ GenerateDraft \/ BeginExecution \/ SaveHandoff \/ MatchDecision
         \/ Dispatch \/ Transition \/ HandToReview \/ ApplyRework \/ BeginFinalization
         \/ PassGates \/ Approve
         \/ Commit \/ Push \/ Record \/ Finish
         \/ ReconcileCompleted \/ Crash \/ RecordFails \/ Operator \/ UNCHANGED vars
  PROVE  mem' = mem \/ mem' = NoCkpt
<1>1. CASE \/ MoveTask \/ OwnerReconcile \/ OwnerSave \/ OwnerRefused
           \/ WriteHandoff \/ GenerateDraft \/ BeginExecution \/ SaveHandoff \/ MatchDecision
           \/ Dispatch \/ Transition
  BY <1>1 DEF MoveTask, OwnerReconcile, OwnerSave, OwnerRefused, WriteHandoff, GenerateDraft,
       BeginExecution, SaveHandoff, MatchDecision, Dispatch, Transition, Request, Reconcile,
       Remember, Pause, End, locals
<1>2. CASE \/ HandToReview \/ ApplyRework \/ BeginFinalization \/ PassGates \/ Approve
           \/ Commit \/ Push \/ Record \/ Finish
           \/ ReconcileCompleted \/ Crash \/ RecordFails \/ UNCHANGED vars
  BY <1>2 DEF HandToReview, Request, ApplyRework, BeginFinalization, PassGates, Approve,
       Commit, Push, Record, Finish, ReconcileCompleted, Crash, RecordFails, Pause, End, locals,
       vars
<1>3. CASE Operator
  BY <1>3 DEF Operator, Decide, OperatorTransition, OperatorContinues, OperatorCommit, Discard,
       Edit, OperatorReconcile, OperatorWrites, FinalizeByHand, Operate, Aside, locals
<1> QED BY <1>1, <1>2, <1>3

\* The phase a step enters; what the checkpoint refers to stays.
LEMMA PhaseFacts ==
  ASSUME IInv
  PROVE  /\ PreserveTask =>
              Pause \/ mem' = mem \/ (mem'.phase = mem.phase /\ Relabelled(mem', mem))
         /\ ValidateGoal => mem'.phase = "TASK_DRAFT_GENERATION" /\ Relabelled(mem', mem)
         /\ SaveDraft => mem'.phase = "AWAITING_TASK_APPROVAL" /\ Relabelled(mem', mem)
         /\ AwaitTaskApproval =>
              Pause \/ (mem'.phase = "TASK_EXECUTION" /\ Relabelled(mem', mem))
         /\ SaveExecution => mem'.phase = InReview /\ Relabelled(mem', mem)
         /\ ActOnDecision =>
              \/ Pause \/ mem' = mem
              \/ mem'.phase = "FINALIZATION" /\ Relabelled(mem', mem) /\ Approves(mem.decision)
         /\ SavePublished => mem'.phase = "PUBLISHED" /\ Relabelled(mem', mem)
<1>mem. mem \in Checkpoint
  BY References
<1>head. head \in 0..MaxCommits
  BY OrchestrationAssumption DEF IInv, RepoOK
<1>tree. Changed \in SUBSET Files
  BY DEF IInv, RepoOK, Changed, Files
<1>note. ASSUME NEW p \in Phase
         PROVE  /\ Noted(Entered(mem, p), head, Changed).phase = p
                /\ Relabelled(Noted(Entered(mem, p), head, Changed), mem)
  <2> DEFINE c1 == Entered(mem, p)
             c == Noted(c1, head, Changed)
  <2>1. c1.phase = p /\ Relabelled(c1, mem)
    BY <1>mem, PhaseEntered
  <2> HIDE DEF c1
  <2>2. c.phase = p /\ Relabelled(c, mem)
    BY <1>head, <1>tree, <2>1, TreeNoted DEF Relabelled
  <2> QED BY <2>2 DEF c1
<1>1. ASSUME PreserveTask
      PROVE  Pause \/ mem' = mem \/ (mem'.phase = mem.phase /\ Relabelled(mem', mem))
  <2>1. CASE mem' = [mem EXCEPT !.expectedHead = head + 1, !.fingerprint = {}]
             /\ head < MaxCommits
    <3> DEFINE c == Noted(mem, head + 1, {})
    <3>1. head + 1 \in 0..MaxCommits /\ {} \in SUBSET Files
      BY <1>head, <2>1, OrchestrationAssumption
    <3>2. c.phase = mem.phase /\ Relabelled(c, mem)
      BY <1>mem, <3>1, TreeNoted
    <3>3. mem' = c
      BY <2>1 DEF Noted
    <3> HIDE DEF c
    <3> QED BY <3>2, <3>3
  <2> QED BY <1>1, <2>1 DEF PreserveTask, NewCommit, Remember, locals
<1>2. ASSUME ValidateGoal
      PROVE  mem'.phase = "TASK_DRAFT_GENERATION" /\ Relabelled(mem', mem)
  BY <1>mem, <1>2 DEF ValidateGoal, Remember, Checkpoint, Relabelled, Phase
<1>3. ASSUME SaveDraft
      PROVE  mem'.phase = "AWAITING_TASK_APPROVAL" /\ Relabelled(mem', mem)
  <2>1. mem' = Noted(Entered(mem, "AWAITING_TASK_APPROVAL"), head, Changed)
    BY <1>3 DEF Entered, Noted, SaveDraft, Remember, Snapshot
  <2> QED BY <1>note, <2>1 DEF Phase
<1>4. ASSUME AwaitTaskApproval
      PROVE  Pause \/ (mem'.phase = "TASK_EXECUTION" /\ Relabelled(mem', mem))
  <2> DEFINE c == EnteredAt(mem, "TASK_EXECUTION", head)
  <2>1. c.phase = "TASK_EXECUTION" /\ Relabelled(c, mem)
    BY <1>mem, <1>head, PhaseEnteredAt DEF Phase
  <2>2. Pause \/ mem' = c
    BY <1>4 DEF EnteredAt, AwaitTaskApproval, Remember
  <2> HIDE DEF c
  <2> QED BY <2>1, <2>2
<1>5. ASSUME SaveExecution
      PROVE  mem'.phase = InReview /\ Relabelled(mem', mem)
  <2>1. mem' = Noted(Entered(mem, InReview), head, Changed)
    BY <1>5 DEF Entered, Noted, SaveExecution, Remember, Snapshot, InReview
  <2>2. InReview \in Phase
    BY DEF Phase, InReview
  <2> QED BY <1>note, <2>1, <2>2
<1>6. ASSUME ActOnDecision
      PROVE  \/ Pause \/ mem' = mem
             \/ mem'.phase = "FINALIZATION" /\ Relabelled(mem', mem) /\ Approves(mem.decision)
  <2>1. \/ Pause \/ mem' = mem
        \/ /\ mem' = Noted(Entered(mem, "FINALIZATION"), head, Changed)
           /\ Approves(mem.decision)
    BY <1>6 DEF Entered, Noted, ActOnDecision, Remember, Snapshot, locals
  <2> QED BY <1>note, <2>1 DEF Phase
<1>7. ASSUME SavePublished
      PROVE  mem'.phase = "PUBLISHED" /\ Relabelled(mem', mem)
  <2>1. mem' = Noted(Entered(mem, "PUBLISHED"), head, Changed)
    BY <1>7 DEF Entered, Noted, SavePublished, Remember, Snapshot
  <2> QED BY <1>note, <2>1 DEF Phase
<1> QED BY <1>1, <1>2, <1>3, <1>4, <1>5, <1>6, <1>7

\* What the command holds in memory stays sound.
LEMMA MemorySound ==
  ASSUME IInv, [Next]_vars
  PROVE  Sound(mem', bundles', decisions', handoffs')
<1>1. /\ Typed(bundles', decisions', handoffs')
      /\ Sound(ckpt, bundles', decisions', handoffs')
      /\ Sound(mem, bundles', decisions', handoffs')
  BY EvidenceStep, StillSound
<1>ckpt. NoCkpt \in Checkpoint
  BY OrchestrationAssumption DEF Checkpoint, NoCkpt, Phase
<1>mem. mem \in Checkpoint
  BY References
<1>head. head \in 0..MaxCommits
  BY OrchestrationAssumption DEF IInv, RepoOK
<1>tree. Changed \in SUBSET Files
  BY DEF IInv, RepoOK, Changed, Files
<1>3. Sound(NoCkpt, bundles', decisions', handoffs')
  BY <1>1, <1>ckpt, SoundNoCkpt DEF NoCkpt
<1>4. CASE mem' = mem \/ mem' = NoCkpt
  BY <1>1, <1>3, <1>4
<1>5. CASE \/ \E a \in BOOLEAN : StartRun(a)
           \/ \E a \in BOOLEAN, act \in OwnerAction \cup {"none"} : Resume(a, act)
  <2>1. CASE mem' = ckpt
    BY <1>1, <2>1
  <2>2. CASE mem' = [NoCkpt EXCEPT !.expectedHead = head, !.fingerprint = Changed]
    <3>1. /\ Noted(NoCkpt, head, Changed).phase = NoCkpt.phase
          /\ Relabelled(Noted(NoCkpt, head, Changed), NoCkpt)
      BY <1>ckpt, <1>head, <1>tree, TreeNoted
    <3>2. mem' = Noted(NoCkpt, head, Changed)
      BY <2>2 DEF Noted
    <3>3. /\ mem' \in Checkpoint /\ mem'.phase = "GOAL_VALIDATION" /\ mem'.bundle = 0
          /\ mem'.handoff = 0 /\ mem'.decision = 0 /\ mem'.consumed = {} /\ mem'.rework = 0
      BY <3>1, <3>2 DEF Relabelled, NoCkpt
    <3> QED BY <1>1, <3>3, SoundNoCkpt
  <2> QED BY <1>5, <2>1, <2>2 DEF StartRun, Resume, Command
<1>relabel. ASSUME Relabelled(mem', mem), mem'.phase = "PUBLISHED" \/ mem.phase # "PUBLISHED",
                   Coherent(mem', bundles', decisions', handoffs')
            PROVE  Sound(mem', bundles', decisions', handoffs')
  BY <1>1, <1>relabel, SoundInPhase
<1>6. CASE PreserveTask
  <2>1. mem.phase = "AWAITING_TASK_APPROVAL"
    BY <1>6 DEF PreserveTask, IInv, InHand
  <2>2. CASE mem'.phase = mem.phase /\ Relabelled(mem', mem)
    <3>1. Coherent(mem', bundles', decisions', handoffs')
      BY <1>1, <2>1, <2>2 DEF Coherent, Sound, Relabelled, InReview
    <3> QED BY <2>1, <2>2, <3>1, <1>relabel
  <2> QED BY <1>4, <1>6, <2>2, PhaseFacts DEF Pause, End
<1>7. CASE ValidateGoal \/ SaveDraft \/ AwaitTaskApproval
  <2>1. mem.phase \in Early
    BY <1>7 DEF ValidateGoal, SaveDraft, AwaitTaskApproval, At, IInv, InHand, Early, Drafting
  <2>2. CASE mem'.phase \in Early /\ Relabelled(mem', mem)
    <3>1. Coherent(mem', bundles', decisions', handoffs')
      BY <1>1, <2>1, <2>2 DEF Coherent, Sound, Relabelled, InReview, Early, Drafting
    <3> QED BY <2>1, <2>2, <3>1, <1>relabel DEF Early, Drafting
  <2> QED BY <1>4, <1>7, <2>2, PhaseFacts DEF Early, Drafting, Pause, End
<1>8. CASE SaveExecution
  <2>1. /\ mem.phase = "TASK_EXECUTION"
        /\ mem.bundle # 0 /\ mem.bundle = Len(bundles')
    BY <1>8 DEF SaveExecution, IInv, InHand, evidence
  <2>2. mem'.phase = InReview /\ Relabelled(mem', mem)
    BY <1>8, PhaseFacts
  <2>3. Coherent(mem', bundles', decisions', handoffs')
    BY <1>1, <2>1, <2>2 DEF Coherent, Sound, Relabelled, InReview, Early, Drafting
  <2> QED BY <2>1, <2>2, <2>3, <1>relabel
<1>9. CASE SavePublished
  <2>1. mem'.phase = "PUBLISHED" /\ Relabelled(mem', mem)
    BY <1>9, PhaseFacts
  <2>2. Coherent(mem', bundles', decisions', handoffs')
    BY <2>1 DEF Coherent, InReview, Early, Drafting
  <2> QED BY <2>1, <2>2, <1>relabel
<1>refer. ASSUME NEW c, NEW b, NEW h, NEW d, Refers(c, mem, b, h, d), mem' = c,
                 b <= Len(bundles'), h <= Len(handoffs'), d <= Len(decisions'),
                 d \notin mem.consumed, \A x \in mem.consumed : decisions'[x].bundle # b,
                 Coherent(c, bundles', decisions', handoffs')
          PROVE  Sound(mem', bundles', decisions', handoffs')
  BY <1>1, <1>refer, SoundReference
\* A matching record that is already there is on the bundle, and not consumed.
<1>exact. ASSUME NEW d \in Exact
          PROVE  /\ d \in 1..Len(decisions) /\ d \notin mem.consumed
                 /\ decisions[d].bundle = mem.bundle
  BY References DEF Exact, OnBundle
<1>10. CASE OwnerHandoff
  <2> DEFINE d == IF Exact = {} THEN 0 ELSE CHOOSE x \in Exact : TRUE
  <2>1. d = 0 \/ d \in Exact
    OBVIOUS
  <2>2. /\ mem.phase = InReview
        /\ UNCHANGED <<bundles, decisions>>
        /\ \/ mem.handoff # 0 /\ mem' = [mem EXCEPT !.decision = d] /\ UNCHANGED handoffs
           \/ NewHandoff(mem.bundle) /\ mem' = [mem EXCEPT !.handoff = Len(handoffs) + 1,
                                                            !.decision = d]
    BY <1>10 DEF OwnerHandoff, ImplementationActionOK, OwnerGate, TaskActions,
                 ImplementationActions, InReview, Remember
  <2> HIDE DEF d
  <2>3. /\ d \in 0..MaxDecisions /\ d <= Len(decisions') /\ d \notin mem.consumed
        /\ d # 0 => decisions'[d].bundle = mem.bundle
    BY <1>1, <1>exact, <2>1, <2>2, References, OrchestrationAssumption
       DEF Sound, Named
  <2>4. CASE UNCHANGED handoffs /\ mem' = [mem EXCEPT !.decision = d]
    <3>1. Refers(WithDecision(mem, d), mem, mem.bundle, mem.handoff, d)
      BY <1>mem, <2>3, DecisionNoted
    <3>2. Coherent(WithDecision(mem, d), bundles', decisions', handoffs')
      BY <1>1, <2>2, <2>3, <3>1 DEF Sound, Coherent, Refers, InReview, Early, Drafting
    <3>3. \A x \in mem.consumed : decisions'[x].bundle # mem.bundle
      BY <1>1, <2>2 DEF Sound, Consumption, InReview
    <3>4. mem.bundle <= Len(bundles') /\ mem.handoff <= Len(handoffs')
      BY <1>1 DEF Sound, Named
    <3>5. mem' = WithDecision(mem, d)
      BY <2>4 DEF WithDecision
    <3> QED BY <2>3, <3>1, <3>2, <3>3, <3>4, <3>5, <1>refer
  <2>5. CASE NewHandoff(mem.bundle) /\ mem' = [mem EXCEPT !.handoff = Len(handoffs) + 1,
                                                          !.decision = d]
    <3> DEFINE h == Len(handoffs) + 1
    <3>1. mem.bundle \in 1..Len(bundles)
      BY <2>2, References DEF Sound, Named, Coherent, Checkpoint, InReview
    <3>2. Len(handoffs') = h /\ handoffs'[h] = [bundle |-> mem.bundle, decision |-> 0]
      BY <2>2, <2>5, <3>1, HandoffStep
    <3>3. h \in 0..MaxHandoffs /\ h <= Len(handoffs')
      BY <2>5, <3>2, References, OrchestrationAssumption DEF NewHandoff
    <3>4. handoffs'[h].bundle = mem.bundle
      BY <3>2
    <3>5. mem' = WithBoth(mem, h, d)
      BY <2>5 DEF WithBoth
    <3> HIDE DEF h
    <3>6. Refers(WithBoth(mem, h, d), mem, mem.bundle, h, d)
      BY <1>mem, <2>3, <3>3, BothNoted
    <3>7. Coherent(WithBoth(mem, h, d), bundles', decisions', handoffs')
      BY <1>1, <2>2, <2>3, <3>4, <3>6 DEF Sound, Coherent, Refers, InReview, Early, Drafting
    <3>8. \A x \in mem.consumed : decisions'[x].bundle # mem.bundle
      BY <1>1, <2>2 DEF Sound, Consumption, InReview
    <3>9. mem.bundle <= Len(bundles')
      BY <1>1 DEF Sound, Named
    <3> QED BY <2>3, <3>3, <3>5, <3>6, <3>7, <3>8, <3>9, <1>refer
  <2> QED BY <2>2, <2>4, <2>5
<1>11. CASE OwnerDecide
  <2>1. CASE mem' = [mem EXCEPT !.decision = Len(decisions) + 1]
             /\ NewDecision(DecisionOf[action], "owner", mem.bundle)
    <3> DEFINE d == Len(decisions) + 1
               v == DecisionOf[action]
    <3>1. /\ action \in ImplementationActions /\ UNCHANGED <<bundles, handoffs>>
          /\ mem.phase = InReview
      BY <1>11 DEF OwnerDecide, IInv, InHand
    <3>2. mem.bundle \in 1..Len(bundles)
      BY <3>1, References DEF Sound, Named, Coherent, Checkpoint, InReview
    <3>3. v \in ControllerDecision /\ "owner" \in Reviewers
      BY <3>1 DEF ImplementationActions, DecisionOf, ControllerDecision, Reviewers
    <3>4. NewDecision(v, "owner", mem.bundle)
      BY <2>1
    <3> HIDE DEF v
    <3>5. /\ Len(decisions') = d
          /\ decisions'[d] = [value |-> v, actor |-> "owner", bundle |-> mem.bundle]
      BY <3>1, <3>2, <3>3, <3>4, DecisionStep
    <3>6. decisions'[d].bundle = mem.bundle
      BY <3>5
    <3>7. d \in 0..MaxDecisions /\ d <= Len(decisions') /\ d \notin mem.consumed
      BY <3>4, <3>5, References, OrchestrationAssumption DEF NewDecision, Sound, Named
    <3>8. mem' = WithDecision(mem, d)
      BY <2>1 DEF WithDecision
    <3> HIDE DEF d
    <3>9. Refers(WithDecision(mem, d), mem, mem.bundle, mem.handoff, d)
      BY <1>mem, <3>7, DecisionNoted
    <3>10. Coherent(WithDecision(mem, d), bundles', decisions', handoffs')
      BY <1>1, <3>1, <3>6, <3>9 DEF Sound, Coherent, Refers, InReview, Early, Drafting
    <3>11. \A x \in mem.consumed : decisions'[x].bundle # mem.bundle
      BY <1>1, <3>1 DEF Sound, Consumption, InReview
    <3>12. mem.bundle <= Len(bundles') /\ mem.handoff <= Len(handoffs')
      BY <1>1 DEF Sound, Named
    <3> QED BY <3>7, <3>8, <3>9, <3>10, <3>11, <3>12, <1>refer
  <2> QED BY <1>4, <1>11, <2>1 DEF OwnerDecide, Remember, locals
<1>12. CASE RunWorker
  <2>1. CASE Launchable /\ mem' = [mem EXCEPT !.bundle = Len(bundles) + 1]
    <3> DEFINE b == Len(bundles) + 1
    <3>1. Len(bundles') = b /\ b \in 0..MaxBundles /\ b <= Len(bundles')
      <4>1. Len(bundles) < MaxBundles /\ Len(bundles) \in Nat
        BY <1>12, <2>1, References DEF RunWorker
      <4>2. Len(bundles') = b
        BY <1>12, <2>1, BundleStep
      <4> QED BY <4>1, <4>2, OrchestrationAssumption
    <3>2. /\ mem.phase = "TASK_EXECUTION" /\ UNCHANGED <<decisions, handoffs>>
          /\ mem.decision \notin mem.consumed
      BY <1>12, <2>1, References DEF RunWorker, IInv, InHand, Sound, Consumption
    <3>3. \A x \in mem.consumed : decisions'[x].bundle # b
      BY <3>2, References DEF Sound, Named, DecisionRecord
    <3>4. mem' = WithBundle(mem, b)
      BY <2>1 DEF WithBundle
    <3> HIDE DEF b
    <3>5. Refers(WithBundle(mem, b), mem, b, mem.handoff, mem.decision)
      BY <1>mem, <3>1, BundleNoted
    <3>6. Coherent(WithBundle(mem, b), bundles', decisions', handoffs')
      BY <1>1, <3>2, <3>5 DEF Sound, Coherent, Refers, InReview, Early, Drafting
    <3>7. mem.handoff <= Len(handoffs') /\ mem.decision <= Len(decisions')
      BY <1>1 DEF Sound, Named
    <3> QED BY <3>1, <3>2, <3>3, <3>4, <3>5, <3>6, <3>7, <1>refer
  <2>2. mem' = NoCkpt \/ (Launchable /\ mem' = [mem EXCEPT !.bundle = Len(bundles) + 1])
    BY <1>12 DEF RunWorker, Remember, Pause, End
  <2> QED BY <1>4, <2>1, <2>2
<1>13. CASE RequestReview
  <2>1. CASE NewHandoff(mem.bundle) /\ mem' = [mem EXCEPT !.handoff = Len(handoffs) + 1]
    <3> DEFINE h == Len(handoffs) + 1
    <3>1. mem.phase = InReview /\ UNCHANGED <<bundles, decisions>>
      BY <1>13 DEF RequestReview, At, InReview, Pause, evidence
    <3>2. mem.bundle \in 1..Len(bundles)
      BY <3>1, References DEF Sound, Named, Coherent, Checkpoint, InReview
    <3>3. Len(handoffs') = h /\ handoffs'[h] = [bundle |-> mem.bundle, decision |-> 0]
      BY <2>1, <3>1, <3>2, HandoffStep
    <3>4. h \in 0..MaxHandoffs /\ h <= Len(handoffs')
      BY <2>1, <3>3, References, OrchestrationAssumption DEF NewHandoff
    <3>5. handoffs'[h].bundle = mem.bundle
      BY <3>3
    <3>6. mem' = WithHandoff(mem, h)
      BY <2>1 DEF WithHandoff
    <3> HIDE DEF h
    <3>7. Refers(WithHandoff(mem, h), mem, mem.bundle, h, mem.decision)
      BY <1>mem, <3>4, HandoffNoted
    <3>8. Coherent(WithHandoff(mem, h), bundles', decisions', handoffs')
      BY <1>1, <3>1, <3>5, <3>7 DEF Sound, Coherent, Refers, InReview, Early, Drafting
    <3>9. \A x \in mem.consumed : decisions'[x].bundle # mem.bundle
      BY <1>1, <3>1 DEF Sound, Consumption, InReview
    <3>10. /\ mem.bundle <= Len(bundles') /\ mem.decision <= Len(decisions')
           /\ mem.decision \notin mem.consumed
      BY <1>1 DEF Sound, Named, Consumption
    <3> QED BY <3>4, <3>6, <3>7, <3>8, <3>9, <3>10, <1>refer
  <2> QED BY <1>4, <1>13, <2>1 DEF RequestReview, Remember, Pause, End, locals
<1>14. CASE Confirm
  <2> DEFINE d == found
  <2>1. CASE Reconcilable(mem.handoff, found) /\ mem' = [mem EXCEPT !.decision = d]
             /\ UNCHANGED evidence
    <3>0. /\ mem.phase = InReview /\ mem.handoff # 0 /\ d # 0 /\ d \in 1..Len(decisions)
          /\ mem.handoff \in 1..Len(handoffs)
      BY <1>14, References DEF Confirm, IInv, InHand, Reconciling, Reviewing, CallsOK, Sound,
           Named, Checkpoint
    <3>1. mem' = WithDecision(mem, d)
      BY <2>1 DEF WithDecision
    <3>7. decisions[d].bundle = mem.bundle
      BY <2>1, <3>0, References DEF Reconcilable, Sound, Coherent, InReview
    <3> HIDE DEF d
    <3>2. \A x \in mem.consumed : decisions'[x].bundle # mem.bundle
      BY <1>1, <3>0 DEF Sound, Consumption, InReview
    <3>3. /\ d \in 0..MaxDecisions /\ d <= Len(decisions') /\ d \notin mem.consumed
          /\ decisions'[d].bundle = mem.bundle
      BY <2>1, <3>0, <3>7, <3>2, References, OrchestrationAssumption DEF evidence
    <3>4. Refers(WithDecision(mem, d), mem, mem.bundle, mem.handoff, d)
      BY <1>mem, <3>3, DecisionNoted
    <3>5. Coherent(WithDecision(mem, d), bundles', decisions', handoffs')
      BY <1>1, <3>0, <3>3, <3>4 DEF Sound, Coherent, Refers, InReview, Early, Drafting
    <3>6. mem.bundle <= Len(bundles') /\ mem.handoff <= Len(handoffs')
      BY <1>1 DEF Sound, Named
    <3> QED BY <3>1, <3>2, <3>3, <3>4, <3>5, <3>6, <1>refer
  <2> QED BY <1>4, <1>14, <2>1 DEF Confirm, Pause, End
<1>15. CASE ActOnDecision
  <2>1. /\ mem.phase = InReview /\ mem.handoff # 0 /\ mem.decision # 0
        /\ handoffs[mem.handoff].decision # 0
        /\ UNCHANGED evidence
    BY <1>15 DEF ActOnDecision, Pause, IInv, InHand, Decided
  <2>2. CASE mem'.phase = "FINALIZATION" /\ Relabelled(mem', mem) /\ Approves(mem.decision)
    <3>1. Coherent(mem', bundles', decisions', handoffs')
      BY <1>1, <2>1, <2>2
         DEF Coherent, Sound, Relabelled, InReview, Early, Drafting, Approves, evidence
    <3> QED BY <2>1, <2>2, <3>1, <1>relabel DEF InReview
  <2> QED BY <1>4, <1>15, <2>2, PhaseFacts DEF Pause, End
<1>16. CASE SaveRework
  <2>1. /\ mem.phase = InReview /\ mem.decision \in 1..Len(decisions)
        /\ decisions[mem.decision].value = "REWORK" /\ mem.rework < MaxRework
        /\ UNCHANGED evidence
    BY <1>16, DecisionInHand DEF SaveRework, IInv, InHand, Reworking, Decided
  <2> DEFINE c == AfterRework(mem)
  <2>2. mem' = c
    BY <1>16 DEF SaveRework, Remember, Forgotten, AfterRework
  <2>3. mem.decision \in 1..MaxDecisions
    BY <2>1, References, OrchestrationAssumption
  <2>4. /\ c \in Checkpoint /\ c.phase = "TASK_EXECUTION" /\ c.rework = mem.rework + 1
        /\ c.consumed = mem.consumed \cup {mem.decision}
        /\ c.bundle = 0 /\ c.handoff = 0 /\ c.decision = 0
    BY <1>mem, <2>3, ReworkNoted
  <2> HIDE DEF c
  <2>5. Named(c, bundles', decisions', handoffs')
    BY <2>1, <2>4, References DEF Named, Sound, evidence
  <2>6. Coherent(c, bundles', decisions', handoffs')
    BY <2>4 DEF Coherent, InReview
  <2>7. Cardinality(c.consumed) = Cardinality(mem.consumed) + 1
    <3>1. IsFiniteSet(mem.consumed)
      <4>1. IsFiniteSet(1..MaxDecisions)
        BY FS_Interval, OrchestrationAssumption
      <4>2. mem.consumed \subseteq 1..MaxDecisions
        BY <1>mem DEF Checkpoint
      <4> QED BY <4>1, <4>2, FS_Subset
    <3>2. mem.decision \notin mem.consumed
      BY References DEF Sound, Consumption
    <3>3. Cardinality(mem.consumed \cup {mem.decision}) = Cardinality(mem.consumed) + 1
      BY <3>1, <3>2, FS_AddElement
    <3> QED BY <2>4, <3>3
  <2>8. Consumption(c, decisions')
    <3>1. /\ c.rework = Cardinality(c.consumed) /\ c.rework <= MaxRework
          /\ c.decision \notin c.consumed
      <4>1. mem.rework \in Nat /\ mem.rework = Cardinality(mem.consumed)
        BY <1>mem, References DEF Sound, Consumption, Checkpoint
      <4>2. c.rework = Cardinality(c.consumed)
        BY <2>4, <2>7, <4>1
      <4>3. c.rework <= MaxRework
        BY <2>1, <2>4, <4>1, OrchestrationAssumption
      <4>4. c.decision \notin c.consumed
        BY <2>4 DEF Checkpoint
      <4> QED BY <4>2, <4>3, <4>4
    <3>2. ASSUME NEW d \in c.consumed
          PROVE  decisions'[d].value = "REWORK" /\ decisions'[d].bundle # c.bundle
      <4>1. decisions' = decisions /\ d \in 1..Len(decisions) /\ decisions[d].value = "REWORK"
        BY <2>1, <2>4, <3>2, References DEF Sound, Consumption, Named, evidence
      <4>2. decisions[d].bundle \in 1..Len(bundles)
        BY <4>1, References DEF DecisionRecord
      <4> QED BY <2>4, <4>1, <4>2
    <3> QED BY <3>1, <3>2 DEF Consumption
  <2> QED BY <2>2, <2>5, <2>6, <2>8 DEF Sound
<1> QED BY <1>4, <1>5, <1>6, <1>7, <1>8, <1>9, <1>10, <1>11, <1>12, <1>13, <1>14,
           <1>15, <1>16, MemoryKept
        DEF Next, Orchestrator, OwnerIntake, Phases

\* The checkpoint file stays as it is, is replaced by what a command that writes
\* holds, or by the recovery.
LEMMA CheckpointStep ==
  ASSUME [Next]_vars
  PROVE  \/ ckpt' = ckpt
         \/ ckpt' = mem' /\ (apply \/ pc \notin {"idle", "loop", "owner"})
         \/ ReconcileCompleted
<1>1. CASE OwnerIntake
  BY <1>1 DEF OwnerIntake, MoveTask, PreserveTask, OwnerHandoff, OwnerDecide, OwnerReconcile,
       WriteHandoff, Request, Reconcile, OwnerSave, OwnerRefused, Pause, Save
<1>2. CASE \/ ValidateGoal \/ GenerateDraft \/ SaveDraft \/ AwaitTaskApproval
           \/ BeginExecution \/ RunWorker \/ SaveExecution
           \/ RequestReview \/ SaveHandoff \/ MatchDecision \/ Dispatch \/ Confirm
           \/ ActOnDecision \/ Transition
  BY <1>2 DEF ValidateGoal, GenerateDraft, SaveDraft, AwaitTaskApproval, BeginExecution,
       RunWorker, SaveExecution, RequestReview, SaveHandoff, MatchDecision, Dispatch, Confirm,
       ActOnDecision, Transition, Reconcile, Pause, Save, SaveIfApplied
<1>3. CASE \/ HandToReview \/ ApplyRework \/ SaveRework
           \/ BeginFinalization \/ PassGates \/ Approve \/ Commit \/ Push \/ Record
           \/ SavePublished \/ Finish
  BY <1>3 DEF HandToReview, Request, ApplyRework, SaveRework, BeginFinalization,
       PassGates, Approve, Commit, Push, Record, SavePublished, Finish, Pause, Save
<1>4. CASE Crash \/ RecordFails \/ UNCHANGED vars
  BY <1>4 DEF Crash, RecordFails, vars
<1>5. CASE Operator
  BY <1>5 DEF Operator, Decide, OperatorTransition, OperatorContinues, OperatorCommit, Discard,
       Edit, OperatorReconcile, OperatorWrites, FinalizeByHand, Operate, Aside
<1>6. CASE \/ \E a \in BOOLEAN : StartRun(a)
           \/ \E a \in BOOLEAN, act \in OwnerAction \cup {"none"} : Resume(a, act)
  BY <1>6 DEF StartRun, Resume, Command
<1> QED BY <1>1, <1>2, <1>3, <1>4, <1>5, <1>6 DEF Next, Orchestrator, Phases

\* What the recovery writes.
Recovered(c, h, d, b) == [c EXCEPT !.phase = "PUBLISHED", !.expectedHead = h,
                                   !.decision = d, !.bundle = b]

\* The recovery names the publication of the one record.
LEMMA RecoveryFacts ==
  ASSUME IInv, ReconcileCompleted
  PROVE  \E p \in records :
           /\ ckpt' \in Checkpoint /\ ckpt'.phase = "PUBLISHED"
           /\ ckpt'.decision = p.decision /\ ckpt'.bundle = p.bundle
           /\ ckpt'.handoff = ckpt.handoff /\ ckpt'.consumed = ckpt.consumed
           /\ ckpt'.rework = ckpt.rework
           /\ Completed(p) /\ p \in published
           /\ p.decision \in 1..Len(decisions) /\ p.bundle \in 1..Len(bundles)
           /\ decisions[p.decision].value = "APPROVE"
<1>1. PICK p \in records : Completed(p) /\ ckpt' = Recovered(ckpt, head, p.decision, p.bundle)
  BY DEF ReconcileCompleted, Recovered
<1>2. /\ p \in published /\ p.decision \in 1..Len(decisions) /\ p.bundle \in 1..Len(bundles)
      /\ decisions[p.decision].value = "APPROVE"
  BY References DEF IInv, GhostsOK, Authorized
<1> DEFINE d == p.decision
           b == p.bundle
<1>3. d \in 0..MaxDecisions /\ b \in 0..MaxBundles /\ head \in 0..MaxCommits
  BY <1>2, References, OrchestrationAssumption DEF IInv, RepoOK
<1> HIDE DEF d, b
<1>4. ckpt \in Checkpoint
  BY References
<1> DEFINE c == Recovered(ckpt, head, d, b)
<1>5. c \in Checkpoint
  BY <1>3, <1>4 DEF Recovered, Checkpoint, Phase
<1>6. /\ c.phase = "PUBLISHED" /\ c.decision = d /\ c.bundle = b
      /\ c.handoff = ckpt.handoff /\ c.consumed = ckpt.consumed /\ c.rework = ckpt.rework
  BY <1>4 DEF Recovered, Checkpoint
<1>7. ckpt' = c
  BY <1>1 DEF d, b
<1> HIDE DEF c
<1> QED BY <1>1, <1>2, <1>5, <1>6, <1>7 DEF d, b

\* The checkpoint file stays sound.
LEMMA CheckpointSound ==
  ASSUME IInv, [Next]_vars
  PROVE  Sound(ckpt', bundles', decisions', handoffs')
<1>1. CASE ckpt' = ckpt
  BY <1>1, StillSound
<1>2. CASE ckpt' = mem'
  BY <1>2, MemorySound
<1>3. CASE ReconcileCompleted
  <2>1. PICK p \in records :
           /\ ckpt' \in Checkpoint /\ ckpt'.phase = "PUBLISHED"
           /\ ckpt'.decision = p.decision /\ ckpt'.bundle = p.bundle
           /\ ckpt'.handoff = ckpt.handoff /\ ckpt'.consumed = ckpt.consumed
           /\ ckpt'.rework = ckpt.rework
           /\ p.decision \in 1..Len(decisions) /\ p.bundle \in 1..Len(bundles)
           /\ decisions[p.decision].value = "APPROVE"
    BY <1>3, RecoveryFacts
  <2>2. /\ UNCHANGED evidence /\ Sound(ckpt, bundles, decisions, handoffs)
    BY <1>3, References DEF ReconcileCompleted
  <2>3. Named(ckpt', bundles', decisions', handoffs')
    BY <2>1, <2>2, References DEF Named, Sound, evidence
  <2>4. Coherent(ckpt', bundles', decisions', handoffs')
    BY <2>1 DEF Coherent, Early, Drafting, InReview
  <2>5. p.decision \notin ckpt.consumed
    BY <2>1, <2>2 DEF Sound, Consumption
  <2>6. Consumption(ckpt', decisions')
    BY <2>1, <2>2, <2>5 DEF Sound, Consumption, evidence
  <2> QED BY <2>3, <2>4, <2>6 DEF Sound
<1> QED BY <1>1, <1>2, <1>3, CheckpointStep

-----------------------------------------------------------------------------
(***************************************************************************)
(* The control of a command                                                *)
(***************************************************************************)

\* The checkpoint m belongs to the cycle of c.
SameCycle(m, c) ==
  /\ m.phase = c.phase /\ m.bundle = c.bundle
  /\ m.consumed = c.consumed /\ m.rework = c.rework

\* What the steps that note evidence leave in the memory of the command.
LEMMA ReferenceFacts ==
  ASSUME IInv
  PROVE  /\ OwnerHandoff => SameCycle(mem', mem) /\ mem'.handoff # 0
         /\ OwnerDecide =>
              SameCycle(mem', mem) /\ mem'.handoff = mem.handoff /\ mem'.decision # 0
         /\ RunWorker =>
              \/ End /\ ckpt' = ckpt
              \/ /\ mem'.phase = mem.phase /\ mem'.bundle = Len(bundles) + 1
                 /\ mem'.consumed = mem.consumed /\ mem'.rework = mem.rework
         /\ RequestReview =>
              Pause \/ mem' = mem \/ (SameCycle(mem', mem) /\ mem'.handoff # 0)
         /\ Confirm =>
              \/ Pause
              \/ /\ SameCycle(mem', mem) /\ mem'.handoff = mem.handoff
                 /\ mem'.decision = found /\ mem'.decision # 0
         /\ SaveRework =>
              /\ mem'.phase = "TASK_EXECUTION" /\ mem'.bundle = 0
              /\ mem'.handoff = 0 /\ mem'.decision = 0
              /\ mem'.consumed = mem.consumed \cup {mem.decision}
              /\ mem'.rework = mem.rework + 1
<1>mem. /\ mem \in Checkpoint /\ Len(handoffs) \in Nat /\ Len(decisions) \in Nat
        /\ MaxDecisions \in Nat /\ Len(decisions) <= MaxDecisions
  BY References, OrchestrationAssumption
<1>1. ASSUME OwnerHandoff PROVE SameCycle(mem', mem) /\ mem'.handoff # 0
  <2>1. PICK d : \/ mem.handoff # 0 /\ mem' = WithDecision(mem, d)
                 \/ mem' = WithBoth(mem, Len(handoffs) + 1, d)
    BY <1>1 DEF OwnerHandoff, Remember, WithDecision, WithBoth
  <2>2. CASE mem.handoff # 0 /\ mem' = WithDecision(mem, d)
    BY <1>mem, <2>2 DEF WithDecision, Checkpoint, SameCycle
  <2>3. CASE mem' = WithBoth(mem, Len(handoffs) + 1, d)
    BY <1>mem, <2>3 DEF WithBoth, Checkpoint, SameCycle
  <2> QED BY <2>1, <2>2, <2>3
<1>2. ASSUME OwnerDecide
      PROVE  SameCycle(mem', mem) /\ mem'.handoff = mem.handoff /\ mem'.decision # 0
  <2>1. \/ mem.decision # 0 /\ mem' = mem
        \/ mem' = WithDecision(mem, Len(decisions) + 1)
    BY <1>2 DEF OwnerDecide, Remember, WithDecision, locals
  <2> QED BY <1>mem, <2>1 DEF WithDecision, Checkpoint, SameCycle
<1>3. ASSUME RunWorker
      PROVE  \/ End /\ ckpt' = ckpt
             \/ /\ mem'.phase = mem.phase /\ mem'.bundle = Len(bundles) + 1
                /\ mem'.consumed = mem.consumed /\ mem'.rework = mem.rework
  <2>1. (End /\ ckpt' = ckpt) \/ mem' = WithBundle(mem, Len(bundles) + 1)
    BY <1>3 DEF RunWorker, Remember, Pause, WithBundle
  <2> QED BY <1>mem, <2>1 DEF WithBundle, Checkpoint
<1>4. ASSUME RequestReview
      PROVE  Pause \/ mem' = mem \/ (SameCycle(mem', mem) /\ mem'.handoff # 0)
  <2>1. Pause \/ mem' = mem \/ mem' = WithHandoff(mem, Len(handoffs) + 1)
    BY <1>4 DEF RequestReview, Remember, WithHandoff, locals
  <2> QED BY <1>mem, <2>1 DEF WithHandoff, Checkpoint, SameCycle
<1>5. ASSUME Confirm
      PROVE  \/ Pause
             \/ /\ SameCycle(mem', mem) /\ mem'.handoff = mem.handoff
                /\ mem'.decision = found /\ mem'.decision # 0
  <2>1. Pause \/ mem' = WithDecision(mem, found)
    BY <1>5 DEF Confirm, WithDecision
  <2>2. found # 0
    BY <1>5 DEF Confirm, IInv, Reconciling
  <2> QED BY <1>mem, <2>1, <2>2 DEF WithDecision, Checkpoint, SameCycle
<1>6. ASSUME SaveRework
      PROVE  /\ mem'.phase = "TASK_EXECUTION" /\ mem'.bundle = 0
             /\ mem'.handoff = 0 /\ mem'.decision = 0
             /\ mem'.consumed = mem.consumed \cup {mem.decision}
             /\ mem'.rework = mem.rework + 1
  <2>1. mem' = AfterRework(mem)
    BY <1>6 DEF SaveRework, Remember, Forgotten, AfterRework
  <2>2. mem.decision \in 1..MaxDecisions
    BY <1>mem, <1>6, DecisionInHand DEF SaveRework, Decided, Reworking
  <2> QED BY <1>mem, <2>1, <2>2, ReworkNoted
<1> QED BY <1>1, <1>2, <1>3, <1>4, <1>5, <1>6

\* A command that ends leaves nothing behind.
LEMMA ControlEnded ==
  ASSUME IInv, End, ckpt' = ckpt
  PROVE  InStep' /\ InHand'
BY DEF IInv, End, Goto, NoCkpt, InStep, InHand, Reviewing, Decided, Reworking, InReworkCall,
       Finalizing, Approving, Committed

\* What a command has in hand stays what it was while others act.
LEMMA ControlKept ==
  ASSUME IInv, [Next]_vars, UNCHANGED <<ckpt, pc, mem, command>>
  PROVE  InStep' /\ InHand'
<1>1. InStep'
  BY DEF IInv, InStep, command
<1>2. InHand'
  <2>1. Grown(bundles, decisions, handoffs, bundles', decisions', handoffs')
        /\ (pc = "workerDone" => bundles' = bundles)
    BY EvidenceStep DEF RunWorker
  <2>2. /\ pc \in Decided \/ InReworkCall =>
             mem.decision \in 1..Len(decisions) /\ mem.handoff \in 1..Len(handoffs)
        /\ pc \in {"confirm", "act"} => mem.handoff \in 1..Len(handoffs)
    <3>1. pc \in {"confirm", "act"} => mem.handoff # 0
      BY DEF IInv, InHand, Reviewing, Decided
    <3> QED BY <3>1, DecisionInHand, References DEF Sound, Named, Checkpoint
  <2>3. /\ pc \in Decided \/ InReworkCall => decisions'[mem.decision] = decisions[mem.decision]
        /\ pc \in {"confirm", "act"} /\ handoffs[mem.handoff].decision # 0 =>
             handoffs'[mem.handoff].decision # 0
    BY <2>1, <2>2 DEF Grown
  <2> QED BY <2>1, <2>3 DEF IInv, InHand, InReworkCall, Decided, Reworking, command
<1> QED BY <1>1, <1>2

\* Every step leaves the command where its phase and its checkpoint say.
LEMMA ControlStep ==
  ASSUME IInv, [Next]_vars
  PROVE  InStep' /\ InHand'
<1>0. InStep /\ InHand /\ apply \in BOOLEAN /\ fresh \in BOOLEAN
  BY DEF IInv, RunOK
<1>end. ASSUME End, ckpt' = ckpt PROVE InStep' /\ InHand'
  BY <1>end, ControlEnded
<1>kept. ASSUME UNCHANGED <<ckpt, pc, mem, command>> PROVE InStep' /\ InHand'
  BY <1>kept, ControlKept
\* A step that only goes on.
<1>goto. ASSUME UNCHANGED <<ckpt, mem, command>>, pc # "workerDone", pc' # "idle", pc # "idle",
                pc' \in {"loop", "owner"} \/ apply, InHand'
         PROVE  InStep' /\ InHand'
  BY <1>0, <1>goto DEF InStep, command
\* A step that saves what it has in memory.
<1>save. ASSUME ckpt' = mem', apply, UNCHANGED <<apply, fresh, action>>, pc' # "idle",
                mem'.phase \in Early => mem'.bundle = 0, InHand'
         PROVE  InStep' /\ InHand'
  BY <1>save DEF InStep
<1>1. CASE \/ \E a \in BOOLEAN : StartRun(a)
           \/ \E a \in BOOLEAN, act \in OwnerAction \cup {"none"} : Resume(a, act)
  <2>1. CASE ckpt = NoCkpt /\ \E a \in BOOLEAN : StartRun(a)
    <3>1. mem' = Noted(NoCkpt, head, Changed) /\ pc' = "loop" /\ ckpt' = ckpt
      BY <2>1 DEF StartRun, Command, Goto, Noted
    <3>2. /\ mem'.phase = "GOAL_VALIDATION" /\ mem'.bundle = 0
          /\ mem'.consumed = {} /\ mem'.rework = 0
      BY <3>1 DEF Noted, NoCkpt
    <3> QED BY <1>0, <2>1, <3>1, <3>2
            DEF InStep, InHand, NoCkpt, Early, Drafting, Reviewing, Decided, Reworking,
                Finalizing, Committed, InReworkCall, Approving, InReview
  <2>2. CASE \E a \in BOOLEAN, act \in OwnerAction \cup {"none"} : Resume(a, act)
    <3>1. mem' = ckpt /\ pc' \in {"loop", "owner"} /\ ckpt' = ckpt
      BY <2>2 DEF Resume, Command, Goto
    <3> QED BY <1>0, <3>1
            DEF InStep, InHand, Reviewing, Decided, Reworking, Finalizing, Approving, Committed,
                InReworkCall, InReview
  <2> QED BY <1>1, <2>1, <2>2 DEF StartRun
<1>2. CASE Operator \/ ReconcileCompleted \/ Crash \/ RecordFails \/ UNCHANGED vars
  <2>1. CASE Operator \/ UNCHANGED vars
    BY <2>1, <1>kept DEF Operator, Decide, OperatorTransition, OperatorContinues, OperatorCommit,
         Discard, Edit, OperatorReconcile, OperatorWrites, FinalizeByHand, Operate, Aside, vars,
         locals
  <2>2. CASE ReconcileCompleted
    <3>1. pc = "idle" /\ pc' = "idle" /\ UNCHANGED locals /\ ckpt'.phase = "PUBLISHED"
      BY <2>2, RecoveryFacts DEF ReconcileCompleted
    <3> QED BY <1>0, <3>1
            DEF InStep, InHand, locals, command, Early, Drafting, Reviewing, Decided, Reworking,
                Finalizing, Committed, NoCkpt, InReworkCall, Approving, InReview
  <2>3. CASE Crash
    BY <2>3, <1>end DEF Crash
  <2>4. CASE RecordFails
    BY <1>0, <2>4, <1>goto DEF RecordFails, Goto, InHand, InStep, locals, Finalizing, Approving,
        Committed, Reviewing, Decided, Reworking, InReworkCall, InReview
  <2> QED BY <1>2, <2>1, <2>2, <2>3, <2>4
<1>3. CASE OwnerHandoff
  <2>1. SameCycle(mem', mem) /\ mem'.handoff # 0
    BY <1>3, ReferenceFacts
  <2>2. /\ pc = "owner" /\ pc' \in {"ownerDecide", "ownerSave"} /\ apply /\ ckpt' = ckpt
        /\ action \in ImplementationActions /\ mem.phase = InReview
        /\ UNCHANGED <<apply, fresh, action>>
    BY <1>3 DEF OwnerHandoff, ImplementationActionOK, OwnerGate, TaskActions,
         ImplementationActions, InReview, Remember, Goto, command
  <2> QED BY <1>0, <2>1, <2>2
          DEF InStep, InHand, SameCycle, Early, Drafting, InReview, Reviewing, Decided,
              Reworking, Finalizing, Committed, InReworkCall, Approving
<1>4. CASE OwnerDecide
  <2>1. SameCycle(mem', mem) /\ mem'.handoff = mem.handoff /\ mem'.decision # 0
    BY <1>4, ReferenceFacts
  <2>2. /\ pc = "ownerDecide" /\ pc' = "ownerReconcile" /\ ckpt' = ckpt
        /\ UNCHANGED <<apply, fresh, action>>
    BY <1>4 DEF OwnerDecide, Remember, Goto, locals, command
  <2> QED BY <1>0, <2>1, <2>2
          DEF InStep, InHand, SameCycle, Early, Drafting, InReview, Reviewing, Decided,
              Reworking, Finalizing, Committed, InReworkCall, Approving
\* A call of transition_task() begins.
<1>call. ASSUME NEW to, NEW role, Request(to, role), apply, pc # "workerDone", pc # "idle",
                mem.phase = InReview => pc \in Reworking
         PROVE  InStep' /\ InHand'
  <2>1. pc' = "transition" /\ UNCHANGED <<ckpt, mem, command, evidence>>
    BY <1>call DEF Request, Goto
  <2>2. InHand'
    BY <1>0, <1>call, <2>1
       DEF InHand, evidence, Reviewing, Decided, Reworking, InReworkCall, Finalizing,
           Approving, Committed
  <2> QED BY <1>call, <2>1, <2>2, <1>goto
<1>5. CASE MoveTask \/ PreserveTask \/ OwnerReconcile \/ OwnerSave \/ OwnerRefused
  <2>1. CASE MoveTask
    <3>1. /\ pc = "owner" /\ apply /\ mem.phase = "AWAITING_TASK_APPROVAL"
          /\ \E to \in TaskStatus : Request(to, "owner")
      BY <2>1 DEF MoveTask, TaskActionOK, OwnerGate, TaskActions, TaskStatus
    <3> QED BY <3>1, <1>call DEF InReview
  <2>2. CASE PreserveTask
    <3>1. CASE ckpt' = ckpt /\ pc' = "ownerSave" /\ UNCHANGED <<apply, fresh, action>>
               /\ mem'.phase = mem.phase /\ Relabelled(mem', mem)
      BY <1>0, <2>2, <3>1
         DEF PreserveTask, InStep, InHand, Relabelled, Reviewing, Decided, Reworking, Finalizing,
             Approving, Committed, InReworkCall, InReview
    <3>2. CASE UNCHANGED <<ckpt, mem, command>> /\ pc' = "ownerSave"
      <4>1. InHand'
        BY <1>0, <2>2, <3>2 DEF PreserveTask, InHand, Reviewing, Decided, Reworking, Finalizing,
            Committed, locals, InReworkCall, Approving, InReview
      <4> QED BY <1>0, <2>2, <3>2, <4>1, <1>goto DEF PreserveTask, InStep
    <3>3. CASE End /\ ckpt' = ckpt
      BY <3>3, <1>end
    <3>4. \/ End /\ ckpt' = ckpt
          \/ UNCHANGED <<ckpt, mem, command>> /\ pc' = "ownerSave"
          \/ /\ ckpt' = ckpt /\ pc' = "ownerSave" /\ UNCHANGED <<apply, fresh, action>>
             /\ mem' = Noted(mem, head + 1, {}) /\ head < MaxCommits
      BY <2>2 DEF PreserveTask, NewCommit, Remember, Pause, Goto, Noted, locals, command
    <3>5. CASE mem' = Noted(mem, head + 1, {}) /\ head < MaxCommits
      <4>1. mem \in Checkpoint /\ head + 1 \in 0..MaxCommits /\ {} \in SUBSET Files
        BY <3>5, References, OrchestrationAssumption DEF IInv, RepoOK
      <4>2. /\ Noted(mem, head + 1, {}).phase = mem.phase
            /\ Relabelled(Noted(mem, head + 1, {}), mem)
        BY <4>1, TreeNoted
      <4> QED BY <3>1, <3>2, <3>3, <3>4, <3>5, <4>2
    <3> QED BY <3>2, <3>3, <3>4, <3>5
  <2>3. CASE OwnerReconcile
    <3>1. CASE /\ UNCHANGED <<ckpt, mem, command, evidence>> /\ pc = "ownerReconcile"
               /\ pc' \in {"ownerWrite", "ownerSave"}
      <4>1. InHand'
        BY <1>0, <3>1 DEF InHand, evidence, Reviewing, Decided, Reworking, InReworkCall,
             Finalizing, Approving, Committed, InReview
      <4> QED BY <1>0, <3>1, <4>1, <1>goto DEF InStep
    <3> QED BY <2>3, <3>1, <1>end DEF OwnerReconcile, Reconcile, Pause, Goto
  <2>4. CASE OwnerSave
    <3>1. mem' = mem /\ ckpt' = mem' /\ pc = "ownerSave" /\ pc' = "loop"
          /\ UNCHANGED <<apply, fresh, action>>
      BY <2>4 DEF OwnerSave, Remember, Save, Goto, command
    <3>2. InHand' /\ apply /\ (mem'.phase \in Early => mem'.bundle = 0)
      BY <1>0, <3>1 DEF InStep, InHand, Reviewing, Decided, Reworking, Finalizing, Approving,
          Committed, InReworkCall, InReview
    <3> QED BY <3>1, <3>2, <1>save
  <2>5. CASE OwnerRefused
    BY <2>5, <1>end DEF OwnerRefused, Pause
  <2> QED BY <1>5, <2>1, <2>2, <2>3, <2>4, <2>5
<1>6. CASE ValidateGoal \/ AwaitTaskApproval
  <2>1. CASE End /\ ckpt' = ckpt
    BY <2>1, <1>end
  <2>2. CASE /\ mem'.phase \in Early \ {"GOAL_VALIDATION"} /\ Relabelled(mem', mem)
             /\ pc = "loop" /\ pc' = "loop" /\ UNCHANGED <<apply, fresh, action>>
             /\ mem.phase \in Early
             /\ ckpt' = IF apply THEN mem' ELSE ckpt
    BY <1>0, <2>2
       DEF InStep, InHand, Relabelled, Early, Drafting, InReview, Reviewing, Decided, Reworking,
           Finalizing, Committed, InReworkCall, Approving
  <2>3. ValidateGoal => /\ pc = "loop" /\ pc' = "loop" /\ UNCHANGED <<apply, fresh, action>>
                        /\ mem.phase \in Early
                        /\ ckpt' = IF apply THEN mem' ELSE ckpt
    BY DEF ValidateGoal, At, Remember, Goto, SaveIfApplied, Save, Early, Drafting, command
  <2>4. AwaitTaskApproval => \/ End /\ ckpt' = ckpt
                             \/ /\ pc = "loop" /\ pc' = "loop"
                                /\ UNCHANGED <<apply, fresh, action>>
                                /\ mem.phase \in Early
                                /\ ckpt' = IF apply THEN mem' ELSE ckpt
    BY DEF AwaitTaskApproval, At, Remember, Goto, Pause, SaveIfApplied, Save, Early, Drafting,
         command
  <2>5. /\ ValidateGoal => mem'.phase \in Early \ {"GOAL_VALIDATION"} /\ Relabelled(mem', mem)
        /\ AwaitTaskApproval =>
             Pause \/ (mem'.phase \in Early \ {"GOAL_VALIDATION"} /\ Relabelled(mem', mem))
    BY PhaseFacts DEF Early, Drafting
  <2> QED BY <1>6, <2>1, <2>2, <2>3, <2>4, <2>5 DEF Pause
<1>7. CASE GenerateDraft \/ BeginExecution
  <2>1. CASE End /\ ckpt' = ckpt
    BY <2>1, <1>end
  <2>2. CASE /\ pc = "loop" /\ apply /\ UNCHANGED <<ckpt, mem, command>>
             /\ \/ mem.phase = "TASK_DRAFT_GENERATION" /\ pc' = "draftSave"
                \/ mem.phase = "TASK_EXECUTION" /\ pc' = "worker"
    <3>1. InHand'
      BY <1>0, <2>2 DEF InHand, locals, InReview, Reviewing, Decided, Reworking, Finalizing,
          Approving, Committed, InReworkCall
    <3> QED BY <2>2, <3>1, <1>goto
  <2> QED BY <1>7, <2>1, <2>2 DEF GenerateDraft, BeginExecution, At, Pause, Goto, locals
<1>8. CASE SaveDraft \/ SaveExecution \/ SavePublished
  <2>1. /\ ckpt' = mem' /\ apply /\ UNCHANGED <<apply, fresh, action>> /\ pc' = "loop"
        /\ mem.phase \in Early /\ pc # "workerDone" => mem.bundle = 0
    BY <1>0, <1>8 DEF SaveDraft, SaveExecution, SavePublished, Remember, Save, Goto, InStep,
         InHand,
         command
  <2>2. mem'.phase \in Early => mem'.bundle = 0
    <3>1. SaveDraft => mem'.bundle = 0
      BY <1>0, PhaseFacts DEF SaveDraft, InStep, InHand, Relabelled, Early, Drafting
    <3>2. SaveExecution \/ SavePublished => mem'.phase \notin Early
      BY PhaseFacts DEF Early, Drafting, InReview
    <3> QED BY <1>8, <3>1, <3>2
  <2>3. InHand'
    BY <2>1 DEF InHand, Reviewing, Decided, Reworking, Finalizing, Approving, Committed,
        InReworkCall, InReview
  <2> QED BY <2>1, <2>2, <2>3, <1>save
<1>9. CASE RunWorker
  <2>1. CASE End /\ ckpt' = ckpt
    BY <2>1, <1>end
  <2>2. CASE /\ pc = "worker" /\ pc' = "workerDone" /\ Launchable
             /\ UNCHANGED <<ckpt, apply, fresh, action>>
             /\ mem' = WithBundle(mem, Len(bundles) + 1)
    <3>1. /\ mem'.phase = mem.phase /\ mem'.bundle = Len(bundles) + 1
          /\ mem'.consumed = mem.consumed /\ mem'.rework = mem.rework
      BY <2>2, References DEF WithBundle, Checkpoint
    <3>2. Len(bundles') = Len(bundles) + 1 /\ Len(bundles) \in Nat
      BY <1>9, <2>2, BundleStep, References
    <3> QED BY <1>0, <2>2, <3>1, <3>2
            DEF InStep, InHand, Early, Drafting, InReview, Reviewing, Decided, Reworking,
                Finalizing, Committed, InReworkCall, Approving
  <2> QED BY <1>9, <2>1, <2>2 DEF RunWorker, Pause, Remember, Goto, WithBundle, command
<1>10. CASE RequestReview
  <2>1. CASE End /\ ckpt' = ckpt
    BY <2>1, <1>end
  <2>2. CASE /\ pc = "loop" /\ apply /\ UNCHANGED <<ckpt, mem, command>>
             /\ pc' = "match" /\ mem.handoff # 0
    <3>1. InHand'
      BY <1>0, <1>10, <2>2 DEF RequestReview, At, InHand, locals, InReview, Reviewing, Decided,
          Reworking, Finalizing, Approving, Committed, InReworkCall
    <3> QED BY <2>2, <3>1, <1>goto
  <2>3. CASE /\ pc' = "handoffSave" /\ UNCHANGED <<ckpt, apply, fresh, action>>
             /\ mem' = WithHandoff(mem, Len(handoffs) + 1)
    <3>1. SameCycle(mem', mem) /\ mem'.handoff # 0
      BY <2>3, References DEF WithHandoff, Checkpoint, SameCycle
    <3>2. pc = "loop" /\ apply /\ mem.phase = InReview
      BY <1>10, <2>3, <1>0, <3>1 DEF RequestReview, At, InReview, Pause, End, Goto
    <3> QED BY <1>0, <2>3, <3>1, <3>2
            DEF InStep, InHand, SameCycle, Early, Drafting, InReview, Reviewing, Decided,
                Reworking, Finalizing, Committed, InReworkCall, Approving
  <2> QED BY <1>10, <2>1, <2>2, <2>3 DEF RequestReview, At, Pause, Remember, Goto, WithHandoff,
         locals, command
<1>11. CASE SaveHandoff \/ MatchDecision
  <2>1. CASE SaveHandoff
    <3>1. /\ mem' = mem /\ ckpt' = mem' /\ pc = "handoffSave" /\ pc' = "match"
          /\ UNCHANGED <<apply, fresh, action>>
      BY <2>1 DEF SaveHandoff, Remember, Save, Goto, command
    <3>2. InHand' /\ apply /\ (mem'.phase \in Early => mem'.bundle = 0)
      BY <1>0, <3>1 DEF InStep, InHand, InReview, Early, Drafting, Reviewing, Decided, Reworking,
          Finalizing, Committed, InReworkCall, Approving
    <3> QED BY <3>1, <3>2, <1>save
  <2>2. CASE MatchDecision
    <3>1. CASE /\ UNCHANGED <<ckpt, mem, command, evidence>> /\ pc = "match"
               /\ pc' \in {"matchWrite", "dispatch"}
      <4>1. InHand'
        BY <1>0, <3>1 DEF InHand, evidence, Reviewing, Decided, Reworking, InReworkCall,
             Finalizing, Approving, Committed, InReview
      <4> QED BY <1>0, <3>1, <4>1, <1>goto DEF InStep
    <3> QED BY <2>2, <3>1, <1>end DEF MatchDecision, Reconcile, Pause, Goto
  <2> QED BY <1>11, <2>1, <2>2
<1>17. CASE WriteHandoff
  <2>1. /\ UNCHANGED <<ckpt, mem, command, bundles, decisions>>
        /\ \/ pc = "ownerWrite" /\ pc' = "ownerSave"
           \/ pc = "matchWrite" /\ pc' = "dispatch"
    BY <1>17 DEF WriteHandoff, Goto
  <2>2. InHand'
    BY <1>0, <2>1 DEF InHand, Reviewing, Decided, Reworking, InReworkCall, Finalizing,
         Approving, Committed, InReview
  <2> QED BY <1>0, <2>1, <2>2, <1>goto DEF InStep
<1>12. CASE Dispatch \/ Confirm
  <2>1. CASE Pause
    BY <2>1, <1>end DEF Pause
  <2>2. CASE Dispatch /\ ~Pause
    <3>1. /\ UNCHANGED <<ckpt, mem, command, evidence>> /\ pc = "dispatch" /\ pc' = "confirm"
          /\ handoffs[mem.handoff].decision # 0
      BY <2>2 DEF Dispatch, Reconcile, Goto
    <3>2. InHand'
      BY <1>0, <3>1 DEF InHand, evidence, Reviewing, Decided, Reworking, InReworkCall,
           Finalizing, Approving, Committed, InReview
    <3> QED BY <1>0, <3>1, <3>2, <1>goto DEF InStep
  <2>3. CASE Confirm /\ ~Pause
    <3>1. /\ pc = "confirm" /\ pc' = "act" /\ ckpt' = mem' /\ UNCHANGED <<apply, fresh, action>>
          /\ handoffs' = handoffs
      BY <2>3 DEF Confirm, Save, Goto, evidence, command
    <3>2. SameCycle(mem', mem) /\ mem'.handoff = mem.handoff /\ mem'.decision # 0
      BY <2>3, ReferenceFacts
    <3>3. apply /\ mem'.phase = InReview /\ mem'.handoff # 0 /\ mem'.decision # 0
          /\ handoffs'[mem'.handoff].decision # 0
      BY <1>0, <3>1, <3>2 DEF InStep, InHand, SameCycle, Reviewing
    <3>5. InHand'
      BY <3>1, <3>3 DEF InHand, InReview, Reviewing, Decided, Reworking, InReworkCall, Finalizing,
           Approving, Committed
    <3>6. mem'.phase \in Early => mem'.bundle = 0
      BY <3>3 DEF Early, Drafting, InReview
    <3>7. ckpt' = mem' /\ UNCHANGED <<apply, fresh, action>> /\ pc' # "idle" /\ apply
      BY <3>1, <3>3
    <3> QED BY <3>5, <3>6, <3>7, <1>save
  <2> QED BY <1>12, <2>1, <2>2, <2>3
<1>13. CASE ActOnDecision
  <2>1. CASE End /\ ckpt' = ckpt
    BY <2>1, <1>end
  <2>2. CASE /\ pc' = "toProgress" /\ UNCHANGED <<ckpt, mem, command, evidence>> /\ pc = "act"
             /\ decisions[mem.decision].value = "REWORK" /\ ReworkLeft
    <3>1. InHand'
      BY <1>0, <2>2 DEF InHand, ReworkLeft, locals, evidence, Reviewing, Decided, Reworking,
          Finalizing, Committed, InReworkCall, Approving, InReview
    <3> QED BY <1>0, <2>2, <3>1, <1>goto DEF InStep
  <2>3. CASE /\ mem' = Noted(Entered(mem, "FINALIZATION"), head, Changed) /\ pc = "act"
             /\ pc' = "loop" /\ ckpt' = mem' /\ UNCHANGED <<apply, fresh, action>>
    <3>1. mem'.phase = "FINALIZATION"
      <4>1. Entered(mem, "FINALIZATION").phase = "FINALIZATION"
            /\ Relabelled(Entered(mem, "FINALIZATION"), mem)
        BY References, PhaseEntered DEF Phase
      <4>2. head \in 0..MaxCommits /\ Changed \in SUBSET Files
        BY OrchestrationAssumption DEF IInv, RepoOK, Changed, Files
      <4>3. Noted(Entered(mem, "FINALIZATION"), head, Changed).phase = "FINALIZATION"
        BY <4>1, <4>2, TreeNoted DEF Relabelled
      <4> QED BY <2>3, <4>3
    <3>2. InHand' /\ apply
      BY <1>0, <2>3 DEF InStep, InHand, Reviewing, Decided, Reworking, Finalizing, Approving,
          Committed, InReworkCall, InReview
    <3> QED BY <2>3, <3>1, <3>2, <1>save DEF Early, Drafting
  <2> QED BY <1>13, <2>1, <2>2, <2>3
          DEF ActOnDecision, Approves, Pause, Remember, Snapshot, Save, Goto, Noted, Entered,
              locals, command
<1>14. CASE HandToReview \/ ApplyRework
  <2>0. pc \in Reworking /\ apply
    BY <1>0, <1>14 DEF HandToReview, ApplyRework, InStep, Reworking
  <2>1. CASE End /\ ckpt' = ckpt
    BY <2>1, <1>end
  <2>2. CASE UNCHANGED <<ckpt, mem, command, evidence>> /\ pc' = "bridge"
    <3>1. InHand'
      BY <1>0, <2>0, <2>2 DEF InHand, evidence, Reviewing, Decided, Reworking, InReworkCall,
           Finalizing, Approving, Committed, InReview
    <3> QED BY <2>0, <2>2, <3>1, <1>goto DEF Reworking
  <2>3. ASSUME NEW to, NEW role, Request(to, role)
        PROVE  InStep' /\ InHand'
    BY <2>0, <2>3, <1>call DEF Reworking
  <2> QED BY <1>14, <2>1, <2>2, <2>3 DEF HandToReview, ApplyRework, Pause, Goto, locals
<1>15. CASE SaveRework
  <2>1. mem'.phase = "TASK_EXECUTION" /\ mem'.bundle = 0
    BY <1>15, ReferenceFacts
  <2>2. /\ pc = "reworkSave" /\ pc' = "loop" /\ ckpt' = mem' /\ UNCHANGED <<apply, fresh, action>>
    BY <1>15 DEF SaveRework, Remember, Save, Goto, command
  <2>3. InHand' /\ apply
    BY <1>0, <2>2 DEF InStep, InHand, Reviewing, Decided, Reworking, Finalizing, Approving,
        Committed, InReworkCall, InReview
  <2> QED BY <2>1, <2>2, <2>3, <1>save
<1>16. CASE BeginFinalization \/ PassGates \/ Approve \/ Commit \/ Push \/ Record \/ Finish
  <2>1. CASE End /\ ckpt' = ckpt
    BY <2>1, <1>end
  <2>2. CASE /\ UNCHANGED <<ckpt, mem, command>> /\ pc' \in Finalizing
             /\ pc \in Finalizing \/ (pc = "loop" /\ apply /\ mem.phase = "FINALIZATION")
    <3>1. InHand'
      BY <1>0, <2>2 DEF InHand, Reviewing, Decided, Reworking, InReworkCall, InReview,
           Finalizing, Approving, Committed
    <3> QED BY <1>0, <2>2, <3>1, <1>goto DEF InStep, Finalizing, Approving, Committed
  <2>3. CASE pc \in Finalizing /\ \E to \in TaskStatus, role \in ActorRole : Request(to, role)
    <3>1. /\ mem.phase = "FINALIZATION" /\ apply /\ pc # "workerDone" /\ pc # "idle"
          /\ \E to \in TaskStatus, role \in ActorRole : Request(to, role)
      BY <1>0, <2>3 DEF InHand, InStep, Finalizing, Approving, Committed
    <3> QED BY <3>1, <1>call DEF InReview
  <2>4. CASE Approve
    <3>1. pc \in Approving
      BY <2>4 DEF Approve, Approving
    <3>2. \/ Pause
          \/ UNCHANGED <<ckpt, mem, command>> /\ pc' = "commit"
          \/ \E to \in TaskStatus, role \in ActorRole : Request(to, role)
      <4>1. decisions[mem.decision] \in DecisionRecord(Len(bundles))
        BY <3>1, DecisionInHand, References DEF Finalizing
      <4>2. decisions[mem.decision].actor \in ActorRole
        BY <4>1 DEF DecisionRecord, Reviewers, ActorRole
      <4> QED BY <2>4, <4>2 DEF Approve, ApprovalChain, Goto, locals, TaskStatus, ActorRole
    <3> QED BY <3>1, <3>2, <2>1, <2>2, <2>3 DEF Pause, Finalizing, Approving
  <2>5. CASE BeginFinalization \/ PassGates \/ Commit \/ Push \/ Record \/ Finish
    BY <2>5, <2>1, <2>2
       DEF BeginFinalization, PassGates, Commit, Push, Record, Finish, At, Pause, Goto,
           Finalizing, Approving, Committed, locals
  <2> QED BY <1>16, <2>4, <2>5
<1>18. CASE Transition
  <2>1. CASE Pause
    BY <2>1, <1>end DEF Pause
  <2>2. CASE ~Pause
    <3>1. /\ pc = "transition" /\ UNCHANGED <<ckpt, mem, command, evidence>>
          /\ pc' \in {"transition", AfterCall}
      BY <1>18, <2>2 DEF Transition, Goto
    <3>2. mem.phase \in DOMAIN Requested /\ call.to \in Requested[mem.phase] /\ apply
      BY <3>1 DEF IInv, Calling, InStep
    <3>3. \/ pc' = "transition"
          \/ mem.phase = "AWAITING_TASK_APPROVAL" /\ pc' \in {"preserve", "ownerSave"}
          \/ mem.phase = InReview /\ pc' \in {"toReview", "handed", "reworkSave"}
          \/ mem.phase = "FINALIZATION" /\ pc' \in {"started", "submitted", "commit"}
      BY <3>1, <3>2 DEF AfterCall, Requested, InReview
    <3>4. InHand'
      BY <1>0, <3>1, <3>3 DEF InHand, evidence, Reviewing, Decided, Reworking, InReworkCall,
           InReview, Finalizing, Approving, Committed
    <3> QED BY <3>1, <3>2, <3>3, <3>4, <1>goto
  <2> QED BY <2>1, <2>2
<1> QED BY <1>1, <1>2, <1>3, <1>4, <1>5, <1>6, <1>7, <1>8, <1>9, <1>10, <1>11, <1>12, <1>13,
           <1>14, <1>15, <1>16, <1>17, <1>18
        DEF Next, Orchestrator, OwnerIntake, Phases

\* The steps at which a command holds a transition or a decision of its own.
Holding == {"transition", "ownerWrite", "matchWrite", "confirm"}

\* A command asks for a transition of its phase.
Asks ==
  /\ pc \notin Holding
  /\ \E to \in TaskStatus, role \in ActorRole :
       Request(to, role) /\ mem.phase \in DOMAIN Requested /\ to \in Requested[mem.phase]

\* What steps do with the transition and the decision a command holds.
LEMMA HandsStep ==
  ASSUME IInv, [Next]_vars
  PROVE  \/ pc' = "idle" /\ call' = NoCall /\ found' = 0
         \/ UNCHANGED <<pc, call, found, mem>>
         \/ pc \notin Holding /\ pc' \notin Holding /\ UNCHANGED <<call, found>>
         \/ Transition /\ ~Pause
         \/ Asks
         \/ (OwnerReconcile \/ WriteHandoff \/ MatchDecision \/ Dispatch \/ Confirm) /\ ~Pause
<1> DEFINE Quiet == \/ pc' = "idle" /\ call' = NoCall /\ found' = 0
                    \/ pc \notin Holding /\ pc' \notin Holding /\ UNCHANGED <<call, found>>
<1>0. InHand
  BY DEF IInv
<1>p. Pause => Quiet
  BY DEF Pause, End, Goto
<1>1. CASE MoveTask
  <2>1. /\ pc = "owner" /\ mem.phase = "AWAITING_TASK_APPROVAL"
        /\ Request("READY", "owner") \/ Request("BLOCKED", "owner")
    BY <1>1 DEF MoveTask, TaskActionOK, OwnerGate, TaskActions
  <2> QED BY <2>1 DEF Asks, Requested, Holding, TaskStatus, ActorRole
<1>2. CASE HandToReview
  <2>1. pc \in {"toProgress", "toReview", "handed"} /\ mem.phase = InReview
    BY <1>0, <1>2 DEF HandToReview, InHand, Reworking, Decided
  <2>2. \/ Pause
        \/ pc' = "bridge" /\ UNCHANGED <<call, found>>
        \/ Request("IN_PROGRESS", "worker") \/ Request("REVIEW", "worker")
    BY <1>2 DEF HandToReview, Goto, locals
  <2> QED BY <1>p, <2>1, <2>2 DEF Asks, Requested, Holding, TaskStatus, ActorRole, InReview
<1>3. CASE ApplyRework
  <2>1. pc = "bridge" /\ mem.phase = InReview /\ mem.decision \in 1..Len(decisions)
    BY <1>0, <1>3, DecisionInHand DEF ApplyRework, InHand, Reworking, Decided
  <2>2. decisions[mem.decision].actor \in ActorRole
    BY <2>1, References DEF DecisionRecord, Reviewers, ActorRole
  <2>3. Pause \/ Request("REWORK", decisions[mem.decision].actor)
    BY <1>3 DEF ApplyRework
  <2> QED BY <1>p, <2>1, <2>2, <2>3 DEF Asks, Requested, Holding, TaskStatus, InReview
<1>4. CASE Approve
  <2>1. pc \in Approving /\ mem.phase = "FINALIZATION" /\ mem.decision \in 1..Len(decisions)
    BY <1>0, <1>4, DecisionInHand DEF Approve, InHand, Finalizing, Approving
  <2>2. decisions[mem.decision].actor \in ActorRole
    BY <2>1, References DEF DecisionRecord, Reviewers, ActorRole
  <2>3. \/ Pause
        \/ pc' = "commit" /\ UNCHANGED <<call, found>>
        \/ \E to \in {"IN_PROGRESS", "REVIEW", "APPROVED"}, role \in ActorRole :
             Request(to, role)
    BY <1>4, <2>2 DEF Approve, ApprovalChain, Goto, locals, ActorRole
  <2> QED BY <1>p, <2>1, <2>3 DEF Asks, Requested, Holding, TaskStatus, Approving
<1>5. CASE PreserveTask \/ OwnerHandoff \/ OwnerDecide \/ OwnerSave \/ OwnerRefused
  <2>1. Quiet
    BY <1>5, <1>p DEF PreserveTask, OwnerHandoff, OwnerDecide, OwnerSave, OwnerRefused, Goto,
         Remember, locals, Holding
  <2> QED BY <2>1
<1>6. CASE \/ ValidateGoal \/ GenerateDraft \/ SaveDraft \/ AwaitTaskApproval
           \/ BeginExecution \/ SaveExecution \/ RequestReview \/ SaveHandoff
           \/ ActOnDecision \/ SaveRework
  <2>1. Quiet
    BY <1>6, <1>p DEF ValidateGoal, GenerateDraft, SaveDraft, AwaitTaskApproval, BeginExecution,
         SaveExecution, RequestReview, SaveHandoff, ActOnDecision, SaveRework, At, Goto,
         Remember, locals, Holding
  <2> QED BY <2>1
<1>7. CASE RunWorker \/ Crash
  <2>1. Quiet
    BY <1>7, <1>p DEF RunWorker, Crash, End, Goto, Remember, Holding
  <2> QED BY <2>1
<1>8. CASE \/ BeginFinalization \/ PassGates \/ Commit \/ Push \/ Record \/ SavePublished
           \/ Finish \/ RecordFails
  <2>1. Quiet
    BY <1>8, <1>p DEF BeginFinalization, PassGates, Commit, Push, Record, SavePublished, Finish,
         RecordFails, At, End, Goto, Remember, locals, Holding
  <2> QED BY <2>1
<1>9. CASE \/ \E a \in BOOLEAN : StartRun(a)
           \/ \E a \in BOOLEAN, act \in OwnerAction \cup {"none"} : Resume(a, act)
  <2>1. Quiet
    BY <1>9 DEF StartRun, Resume, Command, Goto, Holding
  <2> QED BY <2>1
<1>10. CASE ReconcileCompleted \/ Operator \/ UNCHANGED vars
  BY <1>10 DEF ReconcileCompleted, Operator, Decide, OperatorTransition, OperatorContinues,
       OperatorCommit, Discard, Edit, OperatorReconcile, OperatorWrites, FinalizeByHand, Operate,
       Aside, locals, vars
<1>11. CASE Pause
  BY <1>11, <1>p
<1> HIDE DEF Quiet
<1> QED BY <1>1, <1>2, <1>3, <1>4, <1>5, <1>6, <1>7, <1>8, <1>9, <1>10, <1>11
        DEF Next, Orchestrator, OwnerIntake, Phases

\* The transition a command makes is one of its phase.
LEMMA CallingStep ==
  ASSUME IInv, [Next]_vars
  PROVE  Calling'
<1>1. /\ pc = "transition" <=> call.step # "none"
      /\ pc = "transition" =>
           mem.phase \in DOMAIN Requested /\ call.to \in Requested[mem.phase]
      /\ call \in TransitionCalls
  BY DEF IInv, Calling, CallsOK
<1>2. NoCall.step = "none"
  BY DEF NoCall
<1> SUFFICES /\ pc' = "transition" <=> call'.step # "none"
             /\ pc' = "transition" =>
                  mem'.phase \in DOMAIN Requested /\ call'.to \in Requested[mem'.phase]
  BY CallsStep DEF Calling
<1>3. CASE Transition /\ ~Pause
  <2>1. /\ pc = "transition" /\ ~Refused(call, Text) /\ call' = Advanced(call, Text)
        /\ mem' = mem
        /\ pc' = IF call.step = "fill" THEN AfterCall ELSE "transition"
    BY <1>3 DEF Transition, Goto
  <2>2. Text \in TaskTexts
    BY DEF IInv, RepoOK, Text, TaskTexts
  <2>3. /\ call.step \in CallStep /\ call.step # "none"
        /\ call.step \notin {"none", "fill"} => call'.to = call.to /\ call'.step # "none"
        /\ call.step = "fill" => call'.step = "none"
    <3>1. /\ call.step \in CallStep
          /\ call.step \notin {"none", "fill"} => call'.to = call.to
          /\ call.step = "find" => call'.step = "read"
          /\ call.step = "read" => call'.step = "load"
          /\ call.step = "load" => call'.step = "truncate"
          /\ call.step = "truncate" => call'.step = "fill"
          /\ call.step \in {"none", "fill"} => call'.step = "none"
      BY <1>1, <2>1, <2>2, CallSteps
    <3> QED BY <1>1, <2>1, <3>1 DEF CallStep
  <2>4. AfterCall # "transition"
    BY <1>1, <2>1 DEF AfterCall, Requested
  <2> QED BY <1>1, <2>1, <2>3, <2>4
<1>4. CASE Asks
  <2>1. PICK to \in TaskStatus, role \in ActorRole :
          Request(to, role) /\ mem.phase \in DOMAIN Requested /\ to \in Requested[mem.phase]
    BY <1>4 DEF Asks
  <2>2. CallOf(to, role).step = "find" /\ CallOf(to, role).to = to
    BY CallOfType
  <2> QED BY <2>1, <2>2 DEF Request, Goto
<1>5. CASE (OwnerReconcile \/ WriteHandoff \/ MatchDecision \/ Dispatch \/ Confirm) /\ ~Pause
  <2>1. pc # "transition" /\ pc' # "transition" /\ call' = call
    BY <1>5 DEF OwnerReconcile, WriteHandoff, MatchDecision, Dispatch, Confirm, Reconcile, Goto
  <2> QED BY <1>1, <2>1
<1>6. CASE pc \notin Holding /\ pc' \notin Holding /\ UNCHANGED <<call, found>>
  BY <1>1, <1>6 DEF Holding
<1>7. CASE pc' = "idle" /\ call' = NoCall /\ found' = 0
  BY <1>2, <1>7
<1>8. CASE UNCHANGED <<pc, call, found, mem>>
  BY <1>1, <1>8
<1> QED BY <1>3, <1>4, <1>5, <1>6, <1>7, <1>8, HandsStep

\* What a reconciliation is about to write stays a decision on the handoff's bundle.
LEMMA ReconcilingStep ==
  ASSUME IInv, [Next]_vars
  PROVE  CallsOK' /\ Reconciling'
<1>1. /\ Grown(bundles, decisions, handoffs, bundles', decisions', handoffs')
      /\ Len(decisions) \in Nat /\ DOMAIN decisions = 1..Len(decisions)
      /\ Len(handoffs) \in Nat /\ DOMAIN handoffs = 1..Len(handoffs)
      /\ Len(decisions') \in Nat /\ DOMAIN decisions' = 1..Len(decisions')
      /\ Len(handoffs') \in Nat /\ DOMAIN handoffs' = 1..Len(handoffs')
  BY EvidenceStep, References DEF Typed
<1>2. /\ pc \in {"ownerWrite", "matchWrite", "confirm"} <=> found # 0
      /\ pc \in {"ownerWrite", "matchWrite"} =>
           decisions[found].bundle = handoffs[mem.handoff].bundle
      /\ copy # NoCopy => decisions[copy.decision].bundle = handoffs[copy.handoff].bundle
      /\ found \in {0} \cup DOMAIN decisions
      /\ copy = NoCopy \/ copy \in [handoff : DOMAIN handoffs, decision : DOMAIN decisions]
  BY DEF IInv, Reconciling, CallsOK
<1>3. /\ DOMAIN decisions \subseteq DOMAIN decisions' /\ DOMAIN handoffs \subseteq DOMAIN handoffs'
      /\ \A d \in DOMAIN decisions : decisions'[d] = decisions[d]
      /\ \A h \in DOMAIN handoffs : handoffs'[h].bundle = handoffs[h].bundle
  BY <1>1 DEF Grown
<1>4. pc \in {"ownerWrite", "matchWrite", "confirm", "ownerReconcile", "match", "dispatch"} =>
        mem.handoff \in DOMAIN handoffs
  <2>1. pc \in {"ownerWrite", "matchWrite", "confirm", "ownerReconcile", "match", "dispatch"} =>
          mem.handoff # 0
    BY DEF IInv, InHand, Reviewing
  <2> QED BY <1>1, <2>1, References DEF Sound, Named, Checkpoint
<1>5. /\ copy' = NoCopy \/ copy' \in [handoff : DOMAIN handoffs', decision : DOMAIN decisions']
      /\ copy' # NoCopy => decisions'[copy'.decision].bundle = handoffs'[copy'.handoff].bundle
  <2>1. CASE copy' = copy
    BY <1>2, <1>3, <2>1
  <2>2. CASE copy' = NoCopy
    BY <2>2
  <2>3. ASSUME NEW h \in DOMAIN handoffs, NEW d \in DOMAIN decisions, OperatorReconcile(h, d)
        PROVE  /\ copy' \in [handoff : DOMAIN handoffs', decision : DOMAIN decisions']
               /\ decisions'[copy'.decision].bundle = handoffs'[copy'.handoff].bundle
    <3>1. copy' = [handoff |-> h, decision |-> d] /\ decisions[d].bundle = handoffs[h].bundle
      BY <2>3 DEF OperatorReconcile, Reconcilable
    <3> QED BY <1>3, <3>1
  <2>4. CASE \/ OwnerIntake \/ ReconcileCompleted \/ Crash \/ RecordFails \/ UNCHANGED vars
             \/ (\E a \in BOOLEAN : StartRun(a))
             \/ (\E a \in BOOLEAN, act \in OwnerAction \cup {"none"} : Resume(a, act))
    BY <2>1, <2>4 DEF OwnerIntake, MoveTask, PreserveTask, OwnerHandoff, OwnerDecide,
         OwnerReconcile, WriteHandoff, OwnerSave, OwnerRefused, ReconcileCompleted, Crash,
         RecordFails, StartRun, Resume, Command, Request, Reconcile, Pause, counters, operators,
         vars
  <2>5. CASE Phases
    BY <2>1, <2>5 DEF Phases, ValidateGoal, GenerateDraft, SaveDraft, AwaitTaskApproval,
         BeginExecution, RunWorker, SaveExecution, RequestReview, SaveHandoff, MatchDecision,
         Dispatch, Confirm, ActOnDecision, Transition, HandToReview, ApplyRework, SaveRework,
         BeginFinalization, PassGates, Approve, Commit, Push, Record, SavePublished, Finish,
         Request, Reconcile, Pause, counters, operators
  <2>6. CASE \/ (\E v \in ControllerDecision, a \in Reviewers, b \in DOMAIN bundles :
                   Decide(v, a, b))
             \/ OperatorCommit \/ Discard \/ (\E f \in ImplFiles : Edit(f))
             \/ (\E to \in TaskStatus : OperatorTransition(to)) \/ OperatorContinues
             \/ OperatorWrites \/ (\E d \in DOMAIN decisions : FinalizeByHand(d))
    BY <2>1, <2>2, <2>6 DEF Decide, OperatorCommit, Discard, Edit, OperatorTransition,
         OperatorContinues, OperatorWrites, FinalizeByHand
  <2> QED BY <2>1, <2>2, <2>3, <2>4, <2>5, <2>6 DEF Next, Orchestrator, Operator
<1> SUFFICES /\ found' \in {0} \cup DOMAIN decisions'
             /\ pc' \in {"ownerWrite", "matchWrite", "confirm"} <=> found' # 0
             /\ pc' \in {"ownerWrite", "matchWrite"} =>
                  decisions'[found'].bundle = handoffs'[mem'.handoff].bundle
  BY <1>5, CallsStep DEF CallsOK, Reconciling
<1>6. CASE Transition /\ ~Pause
  <2>1. pc = "transition" /\ found' = found
    BY <1>6 DEF Transition
  <2>2. pc' \notin {"ownerWrite", "matchWrite", "confirm"}
    BY <1>6 DEF Transition, Goto, AfterCall, Requested, IInv, Calling
  <2> QED BY <1>2, <2>1, <2>2
<1>7. CASE Asks
  BY <1>2, <1>7 DEF Asks, Request, Goto, Holding
<1>8. CASE OwnerReconcile /\ ~Pause
  <2>1. /\ pc = "ownerReconcile" /\ UNCHANGED <<evidence, mem>>
        /\ Reconcilable(mem.handoff, mem.decision)
        /\ \/ found' = mem.decision /\ pc' = "ownerWrite"
           \/ found' = 0 /\ pc' = "ownerSave"
    BY <1>8 DEF OwnerReconcile, Reconcile, Goto
  <2>2. mem.decision # 0 /\ mem.decision \in DOMAIN decisions
    BY <2>1, <1>1, References DEF IInv, InHand, Sound, Named, Checkpoint
  <2> QED BY <2>1, <2>2 DEF Reconcilable, evidence
<1>9. CASE MatchDecision /\ ~Pause
  <2>0. \A d, e \in Unconsumed : Latest(d) /\ Latest(e) => d = e
    BY <1>1 DEF Latest, Unconsumed
  <2>1. /\ pc = "match" /\ UNCHANGED <<evidence, mem>>
        /\ \/ found' = 0 /\ pc' = "dispatch"
           \/ /\ pc' = "matchWrite"
              /\ \E d \in Unconsumed : Reconcilable(mem.handoff, d) /\ found' = d
    <3>1. \/ \E d \in Unconsumed : Latest(d) /\ Reconcile(d, "matchWrite")
                                /\ \E e \in Unconsumed : Latest(e) /\ Reconcilable(mem.handoff, e)
          \/ Reconcile(0, "dispatch")
      BY <1>9 DEF MatchDecision
    <3> QED BY <1>9, <2>0, <3>1 DEF MatchDecision, Reconcile, Goto
  <2>2. \A d \in Unconsumed : d \in DOMAIN decisions /\ d # 0
    BY <1>1 DEF Unconsumed
  <2> QED BY <2>1, <2>2 DEF Reconcilable, evidence
<1>10. CASE Dispatch /\ ~Pause
  <2>1. /\ pc = "dispatch" /\ UNCHANGED <<evidence, mem>> /\ pc' = "confirm"
        /\ found' = handoffs[mem.handoff].decision /\ found' # 0
    BY <1>10 DEF Dispatch, Reconcile, Goto
  <2>2. found' \in DOMAIN decisions
    BY <1>1, <1>4, <2>1, References DEF HandoffRecord
  <2> QED BY <2>1, <2>2 DEF evidence
<1>11. CASE (WriteHandoff \/ Confirm) /\ ~Pause
  <2>1. found' = 0 /\ pc' \notin {"ownerWrite", "matchWrite", "confirm"}
    BY <1>11 DEF WriteHandoff, Confirm, Goto
  <2> QED BY <2>1
<1>12. CASE pc \notin Holding /\ pc' \notin Holding /\ UNCHANGED <<call, found>>
  BY <1>2, <1>12 DEF Holding
<1>13. CASE pc' = "idle" /\ call' = NoCall /\ found' = 0
  BY <1>13
<1>14. CASE UNCHANGED <<pc, call, found, mem>>
  BY <1>2, <1>3, <1>4, <1>14
<1> QED BY <1>6, <1>7, <1>8, <1>9, <1>10, <1>11, <1>12, <1>13, <1>14, HandsStep

\* The phase a command has reached once it writes.
LEMMA PhaseOfStep ==
  ASSUME IInv, pc \notin {"idle", "loop", "owner", "draftSave"}
  PROVE  apply /\ mem.phase \notin Drafting /\ ckpt.phase \notin Drafting
<1>1. apply /\ mem.phase = ckpt.phase /\ pc \in Step
  BY DEF IInv, InStep, RunOK
<1>2. mem.phase \notin Drafting
  BY <1>1 DEF IInv, InHand, Calling, Requested, Step, Reviewing, Decided, Reworking, Finalizing,
       Approving, Committed, Drafting, InReview
<1> QED BY <1>1, <1>2

\* The phases a command goes through.
PhaseMoves ==
  {<<"GOAL_VALIDATION", "TASK_DRAFT_GENERATION">>,
   <<"TASK_DRAFT_GENERATION", "AWAITING_TASK_APPROVAL">>,
   <<"AWAITING_TASK_APPROVAL", "TASK_EXECUTION">>, <<"TASK_EXECUTION", InReview>>,
   <<InReview, "FINALIZATION">>, <<InReview, "TASK_EXECUTION">>,
   <<"FINALIZATION", "PUBLISHED">>}

\* A command starts, ends, or moves from phase to phase in their order.
LEMMA PhaseStep ==
  ASSUME IInv, [Next]_vars
  PROVE  \/ \E a \in BOOLEAN : StartRun(a)
         \/ \E a \in BOOLEAN, act \in OwnerAction \cup {"none"} : Resume(a, act)
         \/ ReconcileCompleted
         \/ End /\ ckpt' = ckpt
         \/ /\ UNCHANGED <<apply, fresh, action>> /\ ckpt' \in {ckpt, mem'}
            /\ \/ mem'.phase = mem.phase /\ (pc = "draftSave" => pc' = pc)
               \/ <<mem.phase, mem'.phase>> \in PhaseMoves
<1>0. InHand
  BY DEF IInv
<1> DEFINE Kept == /\ UNCHANGED <<apply, fresh, action>> /\ ckpt' \in {ckpt, mem'}
                   /\ mem'.phase = mem.phase /\ (pc = "draftSave" => pc' = pc)
           Moved == /\ UNCHANGED <<apply, fresh, action>> /\ ckpt' \in {ckpt, mem'}
                    /\ <<mem.phase, mem'.phase>> \in PhaseMoves
           Ended == End /\ ckpt' = ckpt
<1>1. CASE \/ MoveTask \/ OwnerReconcile \/ WriteHandoff \/ OwnerSave \/ OwnerRefused
           \/ Dispatch \/ Transition
  <2>1. Kept \/ Ended
    BY <1>1 DEF MoveTask, OwnerReconcile, WriteHandoff, OwnerSave, OwnerRefused, Dispatch,
         Transition, Request, Reconcile, Remember, Save, Pause, locals, command
  <2> QED BY <2>1
<1>2. CASE OwnerHandoff \/ OwnerDecide \/ PreserveTask \/ RequestReview \/ Confirm \/ RunWorker
  <2>1. ~Ended /\ ~Pause => mem'.phase = mem.phase
    BY <1>2, PhaseFacts, ReferenceFacts DEF SameCycle
  <2>2. pc # "draftSave"
    BY <1>2 DEF OwnerHandoff, OwnerDecide, PreserveTask, RequestReview, Confirm, RunWorker, At
  <2>3. Ended \/ Pause \/ (UNCHANGED <<apply, fresh, action>> /\ ckpt' \in {ckpt, mem'})
    BY <1>2 DEF OwnerHandoff, OwnerDecide, PreserveTask, RequestReview, Confirm, RunWorker,
         Remember, Save, locals, command
  <2> QED BY <2>1, <2>2, <2>3 DEF Pause
<1>3. CASE GenerateDraft \/ BeginExecution \/ SaveHandoff \/ MatchDecision \/ HandToReview
           \/ ApplyRework \/ BeginFinalization \/ PassGates \/ Approve \/ Commit \/ Push \/ Record
           \/ Finish \/ RecordFails \/ UNCHANGED vars
  <2>1. Kept \/ Ended
    BY <1>3 DEF GenerateDraft, BeginExecution, SaveHandoff, MatchDecision, HandToReview, Request,
         ApplyRework, BeginFinalization, PassGates, Approve, Commit, Push, Record, Finish,
         RecordFails, Reconcile, Remember, Save, Pause, At, locals, command, vars
  <2> QED BY <2>1
<1>4. CASE Operator
  <2>1. Kept
    BY <1>4 DEF Operator, Decide, OperatorTransition, OperatorContinues, OperatorCommit, Discard,
         Edit, OperatorReconcile, OperatorWrites, FinalizeByHand, Operate, Aside, locals, command
  <2> QED BY <2>1
<1>5. CASE Crash
  BY <1>5 DEF Crash
<1>6. CASE ValidateGoal \/ SaveDraft \/ AwaitTaskApproval
  <2>1. \/ Ended
        \/ UNCHANGED <<apply, fresh, action>> /\ ckpt' \in {ckpt, mem'}
    BY <1>6 DEF ValidateGoal, SaveDraft, AwaitTaskApproval, Remember, Save, SaveIfApplied, Pause,
         command
  <2>2. ~Pause => <<mem.phase, mem'.phase>> \in PhaseMoves
    BY <1>0, <1>6, PhaseFacts
       DEF ValidateGoal, SaveDraft, AwaitTaskApproval, At, InHand, PhaseMoves
  <2> QED BY <2>1, <2>2 DEF Pause
<1>7. CASE SaveExecution \/ SavePublished \/ SaveRework
  <2>1. UNCHANGED <<apply, fresh, action>> /\ ckpt' \in {ckpt, mem'}
    BY <1>7 DEF SaveExecution, SavePublished, SaveRework, Remember, Save, command
  <2>2. <<mem.phase, mem'.phase>> \in PhaseMoves
    BY <1>0, <1>7, PhaseFacts, ReferenceFacts
       DEF SaveExecution, SavePublished, SaveRework, InHand, PhaseMoves, Decided, Reworking,
           Finalizing, Committed
  <2> QED BY <2>1, <2>2
<1>8. CASE ActOnDecision
  <2>1. Ended \/ (UNCHANGED <<apply, fresh, action>> /\ ckpt' \in {ckpt, mem'})
    BY <1>8 DEF ActOnDecision, Remember, Save, Pause, locals, command
  <2>2. pc = "act" /\ mem.phase = InReview
    BY <1>0, <1>8 DEF ActOnDecision, InHand, Decided
  <2>3. Pause \/ mem'.phase = mem.phase \/ <<mem.phase, mem'.phase>> \in PhaseMoves
    BY <1>8, <2>2, PhaseFacts DEF PhaseMoves
  <2> QED BY <2>1, <2>2, <2>3 DEF Pause
<1> QED BY <1>1, <1>2, <1>3, <1>4, <1>5, <1>6, <1>7, <1>8
        DEF Next, Orchestrator, OwnerIntake, Phases

\* Before the run has a draft there is nothing else of it.
LEMMA NothingYetStep ==
  ASSUME IInv, [Next]_vars
  PROVE  NothingYet'
<1> DEFINE Unstarted == ckpt.phase = "GOAL_VALIDATION"
                          \/ (fresh /\ mem.phase \in Drafting /\ pc # "draftSave")
           Nothing == /\ task = NoTask /\ taskHead = NoTask /\ bundles = <<>>
                      /\ mover = NoCall
<1>0. Unstarted => Nothing
  BY DEF IInv, NothingYet
<1>1. Unstarted' => Unstarted
  <2>1. ASSUME NEW a \in BOOLEAN, StartRun(a) PROVE Unstarted
    BY <2>1 DEF StartRun, NoCkpt
  <2>2. ASSUME NEW a \in BOOLEAN, NEW act \in OwnerAction \cup {"none"}, Resume(a, act)
        PROVE  ~fresh' /\ ckpt' = ckpt
    BY <2>2 DEF Resume, Command
  <2>3. ASSUME ReconcileCompleted PROVE ckpt'.phase = "PUBLISHED" /\ ~fresh'
    <3>1. fresh' = fresh /\ ~fresh
      BY <2>3 DEF ReconcileCompleted, locals, command, IInv, InStep
    <3> QED BY <2>3, <3>1, RecoveryFacts
  <2>4. mem'.phase \in Drafting /\ <<mem.phase, mem'.phase>> \in PhaseMoves
          => mem.phase = "GOAL_VALIDATION"
    BY DEF PhaseMoves, Drafting, InReview
  <2>5. pc = "draftSave" => mem.phase = "TASK_DRAFT_GENERATION"
    BY DEF IInv, InHand
  <2>6. CASE UNCHANGED <<apply, fresh, action>> /\ ckpt' \in {ckpt, mem'}
             /\ \/ mem'.phase = mem.phase /\ (pc = "draftSave" => pc' = pc)
                \/ <<mem.phase, mem'.phase>> \in PhaseMoves
    <3>1. ASSUME ckpt'.phase = "GOAL_VALIDATION" PROVE Unstarted
      <4>1. CASE ckpt' = ckpt
        BY <3>1, <4>1
      <4>2. CASE ckpt' = mem' /\ (apply \/ pc \notin {"idle", "loop", "owner"})
        <5>1. mem.phase = ckpt.phase
          BY <4>2 DEF IInv, InStep
        <5>2. mem.phase = "GOAL_VALIDATION"
          BY <2>4, <2>6, <3>1, <4>2 DEF PhaseMoves, InReview
        <5> QED BY <5>1, <5>2
      <4> QED BY <2>3, <3>1, <4>1, <4>2, CheckpointStep
    <3>2. ASSUME fresh', mem'.phase \in Drafting, pc' # "draftSave" PROVE Unstarted
      BY <2>4, <2>5, <2>6, <3>2 DEF Drafting
    <3> QED BY <3>1, <3>2
  <2>7. CASE End /\ ckpt' = ckpt
    BY <2>7 DEF End
  <2> QED BY <2>1, <2>2, <2>3, <2>6, <2>7, PhaseStep
<1> SUFFICES ASSUME Unstarted' PROVE Nothing'
  BY DEF NothingYet
<1>2. Unstarted /\ Nothing
  BY <1>0, <1>1
<1>3. \/ pc \in {"idle", "loop", "owner"}
      \/ pc = "draftSave" /\ apply /\ mem.phase = "TASK_DRAFT_GENERATION"
  BY <1>2, PhaseOfStep DEF IInv, InStep, InHand, Drafting
<1> HIDE DEF Unstarted
<1>same. ASSUME UNCHANGED <<task, taskHead, bundles, mover>> PROVE Nothing'
  BY <1>2, <1>same
<1>4. CASE MoveTask
  <2>1. ckpt.phase = "AWAITING_TASK_APPROVAL" /\ mem.phase = "AWAITING_TASK_APPROVAL"
    BY <1>4 DEF MoveTask, TaskActionOK, IInv, InStep, OwnerGate, TaskActions
  <2> QED BY <1>2, <2>1 DEF Unstarted, Drafting
<1>5. CASE GenerateDraft
  <2>1. CASE Pause
    BY <2>1, <1>same DEF Pause, repo, evidence, counters, operators
  <2>2. CASE ~Pause
    <3>1. pc' = "draftSave" /\ ckpt' = ckpt /\ ckpt.phase = "TASK_DRAFT_GENERATION"
      BY <1>5, <2>2 DEF GenerateDraft, Goto, At, IInv, InStep
    <3> QED BY <3>1 DEF Unstarted
  <2> QED BY <2>1, <2>2
<1>6. CASE \/ PreserveTask \/ OwnerDecide \/ OwnerReconcile \/ OwnerSave \/ RunWorker
           \/ SaveExecution \/ SaveHandoff \/ MatchDecision \/ Dispatch \/ ActOnDecision
           \/ HandToReview \/ ApplyRework \/ SaveRework \/ PassGates \/ Approve \/ Commit
           \/ Push \/ Record \/ SavePublished \/ RecordFails \/ Transition \/ WriteHandoff
           \/ Confirm
  BY <1>3, <1>6 DEF Transition, WriteHandoff, Confirm, PreserveTask, OwnerDecide,
       OwnerReconcile, OwnerSave, RunWorker,
       SaveExecution, SaveHandoff, MatchDecision, Dispatch, ActOnDecision, HandToReview,
       Request, ApplyRework, SaveRework, PassGates, Approve, Commit, Push, Record,
       SavePublished, RecordFails
<1>7. CASE \/ OwnerHandoff \/ OwnerRefused \/ ValidateGoal \/ SaveDraft \/ AwaitTaskApproval
           \/ BeginExecution \/ RequestReview \/ BeginFinalization \/ Finish
           \/ ReconcileCompleted \/ Crash \/ UNCHANGED vars
  BY <1>7, <1>same DEF OwnerHandoff, OwnerRefused, ValidateGoal, SaveDraft, AwaitTaskApproval,
       BeginExecution, RequestReview, BeginFinalization, Finish, ReconcileCompleted, Crash, Pause,
       repo, evidence, counters, operators, vars
<1>8. CASE \/ \E a \in BOOLEAN : StartRun(a)
           \/ \E a \in BOOLEAN, act \in OwnerAction \cup {"none"} : Resume(a, act)
  BY <1>8, <1>same DEF StartRun, Resume, Command, repo, evidence, operators
<1>9. CASE Operator
  <2>1. ASSUME NEW to \in TaskStatus, OperatorTransition(to)
        PROVE  FALSE
    BY <1>2, <2>1
       DEF OperatorTransition, IsTransitionAllowed, NoTask, NonFinalWorkingStates,
           TransitionAuthority, TaskStatus
  <2>2. ASSUME NEW d \in DOMAIN decisions, FinalizeByHand(d) PROVE FALSE
    BY <1>2, <2>2 DEF FinalizeByHand, ApprovalChain, NoTask
  <2>3. CASE \/ OperatorCommit \/ Discard \/ OperatorContinues \/ OperatorWrites
             \/ (\E v \in ControllerDecision, a \in Reviewers, b \in DOMAIN bundles :
                   Decide(v, a, b))
             \/ (\E f \in ImplFiles : Edit(f))
             \/ (\E h \in DOMAIN handoffs, d \in DOMAIN decisions : OperatorReconcile(h, d))
    BY <1>2, <2>3 DEF OperatorCommit, NewCommit, Discard, TaskBecomes, OperatorContinues,
         OperatorWrites, Decide, Edit, OperatorReconcile, repo, evidence
  <2> QED BY <1>9, <2>1, <2>2, <2>3 DEF Operator
<1> QED BY <1>4, <1>5, <1>6, <1>7, <1>8, <1>9 DEF Next, Orchestrator, OwnerIntake, Phases

-----------------------------------------------------------------------------
(***************************************************************************)
(* Publication                                                             *)
(***************************************************************************)

\* What a finalizer that reaches the commit has found.
LEMMA GateFacts ==
  ASSUME IInv, NEW d \in 1..Len(decisions)
  PROVE  /\ decisions[d].bundle \in 1..Len(bundles)
         /\ Gates(d) => /\ bundles[decisions[d].bundle].head = head
                        /\ impl = bundles[decisions[d].bundle].paths
                        /\ decisions[d].value = "APPROVE"
         /\ Changed = PathsOf(d) => /\ impl = bundles[decisions[d].bundle].paths
                                    /\ task # taskHead
<1>1. decisions[d].bundle \in 1..Len(bundles)
  BY References DEF DecisionRecord
<1>2. bundles[decisions[d].bundle].paths \subseteq ImplFiles
  BY <1>1, References DEF BundleRecord
<1>3. impl \subseteq ImplFiles /\ TaskFile \notin ImplFiles
  BY OrchestrationAssumption DEF IInv, RepoOK
<1> QED BY <1>1, <1>2, <1>3 DEF Gates, Changed, PathsOf

\* The decision the finalizer of the run acts on.
LEMMA FinalizerFacts ==
  ASSUME IInv, pc \in Finalizing
  PROVE  /\ mem.decision \in 1..Len(decisions)
         /\ decisions[mem.decision].value = "APPROVE"
         /\ decisions[mem.decision].bundle = mem.bundle
         /\ apply /\ mem.phase = "FINALIZATION" /\ ckpt.phase = "FINALIZATION"
<1>1. mem.decision \in 1..Len(decisions)
  BY DecisionInHand
<1>2. mem.phase = "FINALIZATION"
  BY DEF IInv, InHand
<1>3. Coherent(mem, bundles, decisions, handoffs)
  BY DEF IInv, Sound
<1>4. apply /\ ckpt.phase = mem.phase
  BY DEF IInv, InStep, Finalizing, Approving, Committed
<1> QED BY <1>1, <1>2, <1>3, <1>4 DEF Coherent, InReview

\* Everything published was, and stays, authorized.
LEMMA AuthorizedStep ==
  ASSUME IInv, [Next]_vars
  PROVE  Authorized'
<1>1. Grown(bundles, decisions, handoffs, bundles', decisions', handoffs')
      /\ Typed(bundles', decisions', handoffs')
  BY EvidenceStep
<1>2. /\ DOMAIN bundles' = 1..Len(bundles') /\ Len(bundles') \in Nat
      /\ DOMAIN decisions' = 1..Len(decisions') /\ Len(decisions') \in Nat
  BY <1>1 DEF Typed
<1>3. head \in 1..MaxCommits /\ head <= head' /\ head' \in 1..MaxCommits /\ MaxCommits \in Nat
  BY RepoStep, OrchestrationAssumption DEF IInv, RepoOK
<1> DEFINE Fine(p) == /\ p.decision \in 1..Len(decisions) /\ p.bundle \in 1..Len(bundles)
                      /\ decisions[p.decision].value = "APPROVE"
                      /\ decisions[p.decision].bundle = p.bundle
                      /\ p.paths = bundles[p.bundle].paths
                      /\ p.commit \in Nat /\ p.commit <= head'
<1>4. ASSUME NEW p \in published PROVE Fine(p)
  <2>1. p.commit \in 1..MaxCommits /\ p.commit <= head
    BY DEF IInv, GhostsOK, PublicationType, Authorized
  <2>2. p.commit \in Nat /\ p.commit <= head'
    BY <1>3, <2>1
  <2> QED BY <2>2, References DEF IInv, Authorized
<1>5. ASSUME NEW d \in 1..Len(decisions), head < MaxCommits, head' = head + 1,
             decisions[d].value = "APPROVE", impl = bundles[decisions[d].bundle].paths
      PROVE  Fine(Publication(d))
  <2>1. head + 1 \in Nat /\ head + 1 <= head'
    BY <1>3, <1>5
  <2> HIDE DEF Publication
  <2> QED BY <1>5, <2>1, PublicationFacts
<1>6. ASSUME NEW p \in published' PROVE Fine(p)
  <2>1. CASE published' = published
    BY <1>4, <2>1
  <2>2. CASE Commit /\ published' # published
    <3>1. /\ head' = head + 1 /\ published' = published \cup {Publication(mem.decision)}
          /\ head < MaxCommits /\ Changed = PathsOf(mem.decision) /\ pc \in Finalizing
      BY <2>2 DEF Commit, NewCommit, Pause, ghosts, Finalizing, Approving
    <3>2. Fine(Publication(mem.decision))
      BY <1>5, <3>1, FinalizerFacts, GateFacts
    <3> HIDE DEF Fine
    <3> QED BY <1>4, <3>1, <3>2
  <2>3. ASSUME NEW d \in DOMAIN decisions, FinalizeByHand(d) PROVE Fine(p)
    <3>1. /\ head' = head + 1 /\ published' = published \cup {Publication(d)}
          /\ head < MaxCommits /\ Gates(d) /\ d \in 1..Len(decisions)
      BY <2>3, References DEF FinalizeByHand
    <3>2. Fine(Publication(d))
      BY <1>5, <3>1, GateFacts
    <3> HIDE DEF Fine
    <3> QED BY <1>4, <3>1, <3>2
  <2> HIDE DEF Fine
  <2> QED BY <2>1, <2>2, <2>3, PublicationStep
<1> QED BY <1>1, <1>2, <1>6, References DEF Authorized, Grown

\* What steps do to the task file and to HEAD's.
LEMMA TaskStep ==
  ASSUME IInv, [Next]_vars
  PROVE  /\ overwritten => overwritten'
         /\ \/ UNCHANGED <<task, taskHead>>
            \/ \E c \in TransitionCalls : MoveGranted(c) /\ Rewrite(c)
            \/ GenerateDraft /\ ~Pause
            \/ NewCommit /\ (PreserveTask \/ Commit \/ OperatorCommit)
            \/ Discard
            \/ \E d \in DOMAIN decisions : FinalizeByHand(d)
<1>same. ASSUME UNCHANGED repo PROVE UNCHANGED <<task, taskHead, overwritten>>
  BY <1>same DEF repo, custody
<1>1. CASE OwnerIntake
  <2>1. UNCHANGED repo \/ (NewCommit /\ PreserveTask /\ UNCHANGED overwritten)
    BY <1>1 DEF OwnerIntake, MoveTask, PreserveTask, OwnerHandoff, OwnerDecide, OwnerReconcile,
         WriteHandoff, OwnerSave, OwnerRefused, Request, Reconcile, Pause, NewCommit, custody
  <2> QED BY <2>1, <1>same
<1>2. CASE \/ ValidateGoal \/ SaveDraft \/ AwaitTaskApproval \/ BeginExecution \/ SaveExecution
           \/ RequestReview \/ SaveHandoff \/ MatchDecision \/ Dispatch \/ Confirm
           \/ ActOnDecision
  <2>1. UNCHANGED repo
    BY <1>2 DEF ValidateGoal, SaveDraft, AwaitTaskApproval, BeginExecution, SaveExecution,
         RequestReview, SaveHandoff, MatchDecision, Dispatch, Confirm, ActOnDecision, Reconcile,
         Pause
  <2> QED BY <2>1, <1>same
<1>3. CASE \/ HandToReview \/ ApplyRework \/ SaveRework \/ BeginFinalization \/ PassGates
           \/ Approve \/ Record \/ SavePublished \/ Finish
  <2>1. UNCHANGED repo
    BY <1>3 DEF HandToReview, ApplyRework, SaveRework, BeginFinalization, PassGates, Approve,
         Record, SavePublished, Finish, Request, Pause
  <2> QED BY <2>1, <1>same
<1>4. CASE \/ ReconcileCompleted \/ RecordFails \/ UNCHANGED vars
           \/ (\E a \in BOOLEAN : StartRun(a))
           \/ (\E a \in BOOLEAN, act \in OwnerAction \cup {"none"} : Resume(a, act))
           \/ (\E v \in ControllerDecision, a \in Reviewers, b \in DOMAIN bundles :
                 Decide(v, a, b))
           \/ (\E h \in DOMAIN handoffs, d \in DOMAIN decisions : OperatorReconcile(h, d))
           \/ (\E to \in TaskStatus : OperatorTransition(to)) \/ OperatorWrites
  <2>1. UNCHANGED repo
    BY <1>4 DEF ReconcileCompleted, RecordFails, vars, StartRun, Resume, Command, Decide,
         OperatorReconcile, OperatorTransition, OperatorWrites
  <2> QED BY <2>1, <1>same
<1>5. CASE RunWorker \/ Crash \/ Push \/ \E f \in ImplFiles : Edit(f)
  BY <1>5 DEF RunWorker, Crash, Push, Edit, Pause, repo, custody
<1>6. CASE Transition \/ OperatorContinues
  <2>1. /\ call \in TransitionCalls /\ mover \in TransitionCalls
        /\ MoveGranted(call) /\ MoveGranted(mover)
    BY DEF IInv, CallsOK, Calling
  <2>2. UNCHANGED repo \/ Rewrite(call) \/ Rewrite(mover)
    BY <1>6 DEF Transition, OperatorContinues, Pause
  <2>3. \A c \in TransitionCalls : Rewrite(c) => (overwritten => overwritten')
    BY DEF Rewrite
  <2> QED BY <2>1, <2>2, <2>3, <1>same
<1>7. CASE GenerateDraft
  <2>1. Pause \/ UNCHANGED overwritten
    BY <1>7 DEF GenerateDraft
  <2> QED BY <1>7, <2>1, <1>same DEF Pause
<1>8. CASE Commit \/ OperatorCommit
  <2>1. UNCHANGED repo \/ (NewCommit /\ UNCHANGED overwritten)
    BY <1>8 DEF Commit, OperatorCommit, Pause, NewCommit, custody
  <2> QED BY <1>8, <2>1, <1>same
<1>9. CASE Discard \/ \E d \in DOMAIN decisions : FinalizeByHand(d)
  BY <1>9 DEF Discard, FinalizeByHand
<1> QED BY <1>1, <1>2, <1>3, <1>4, <1>5, <1>6, <1>7, <1>8, <1>9
        DEF Next, Orchestrator, Phases, Operator

\* An APPROVED task that HEAD has too stays as it is, unless a transition replaces
\* a status it has not checked.
LEMMA FinalStays ==
  ASSUME IInv, [Next]_vars, TaskIsFinal, ~overwritten'
  PROVE  TaskIsFinal'
<1>1. task = "APPROVED" /\ taskHead = "APPROVED" /\ Text = "APPROVED"
  BY DEF TaskIsFinal, Text, NoTask
<1>2. ASSUME NEW c \in TransitionCalls, MoveGranted(c), Rewrite(c)
      PROVE  TaskIsFinal'
  <2>1. ~Overwrites(c, Text) /\ task' = Written(c, Text) /\ taskHead' = taskHead
    BY <1>2 DEF Rewrite, TaskBecomes
  <2>2. c.step # "fill"
    BY <1>1, <2>1 DEF Overwrites, Torn
  <2>3. c.step # "truncate"
    <3>1. SUFFICES ASSUME c.step = "truncate" PROVE FALSE
      OBVIOUS
    <3>2. c.from = "APPROVED"
      BY <1>1, <2>1, <3>1 DEF Overwrites
    <3>3. IsTransitionAllowed(c.from, c.to, c.actor)
      BY <1>2, <3>1 DEF MoveGranted, Writing
    <3> QED BY <3>2, <3>3, ApprovedIsFinal
  <2> QED BY <1>1, <2>1, <2>2, <2>3 DEF Written, TaskIsFinal
<1>3. ~(GenerateDraft /\ ~Pause)
  <2>1. SUFFICES ASSUME GenerateDraft, ~Pause PROVE FALSE
    OBVIOUS
  <2>2. fresh /\ mem.phase \in Drafting /\ pc # "draftSave"
    BY <2>1 DEF GenerateDraft, At, Drafting
  <2>3. task = NoTask
    BY <2>2 DEF IInv, NothingYet
  <2> QED BY <1>1, <2>3 DEF NoTask
<1>4. CASE NewCommit \/ Discard \/ UNCHANGED <<task, taskHead>>
  BY <1>1, <1>4 DEF NewCommit, Discard, TaskBecomes, TaskIsFinal
<1>5. ASSUME NEW d \in DOMAIN decisions, FinalizeByHand(d) PROVE FALSE
  BY <1>1, <1>5 DEF FinalizeByHand, ApprovalChain
<1> QED BY <1>2, <1>3, <1>4, <1>5, TaskStep

\* A run that has come to finalization does not leave it but for its end.
LEMMA LateStays ==
  ASSUME IInv, [Next]_vars, ckpt.phase \in {"FINALIZATION", "PUBLISHED"}
  PROVE  ckpt'.phase \in {"FINALIZATION", "PUBLISHED"}
<1>1. CASE ckpt' = ckpt
  BY <1>1
<1>2. CASE ReconcileCompleted
  BY <1>2, RecoveryFacts
<1>3. CASE ckpt' = mem' /\ (apply \/ pc \notin {"idle", "loop", "owner"})
  <2>1. mem.phase = ckpt.phase
    BY <1>3 DEF IInv, InStep
  <2>2. CASE mem'.phase = mem.phase \/ <<mem.phase, mem'.phase>> \in PhaseMoves
    BY <1>3, <2>1, <2>2 DEF PhaseMoves, InReview
  <2>3. CASE \/ \E a \in BOOLEAN : StartRun(a)
             \/ \E a \in BOOLEAN, act \in OwnerAction \cup {"none"} : Resume(a, act)
    BY <2>3 DEF StartRun, Resume, Command
  <2> QED BY <1>1, <1>2, <2>2, <2>3, PhaseStep
<1> QED BY <1>1, <1>2, <1>3, CheckpointStep

\* Only the gates lead to the approval and the commit.
LEMMA GateStep ==
  ASSUME IInv, [Next]_vars, pc' \in Approving \/ InApproval'
  PROVE  pc \in Approving \/ InApproval \/ (pc = "gates" /\ Gates(mem.decision))
<1>1. CASE OwnerIntake
  <2>1. CASE MoveTask
    BY <2>1 DEF MoveTask, TaskActionOK, OwnerGate, TaskActions, Request, Goto, Approving,
         InApproval
  <2>2. CASE ~MoveTask
    BY <1>1, <2>2 DEF OwnerIntake, PreserveTask, OwnerHandoff, OwnerDecide, OwnerReconcile,
         WriteHandoff, OwnerSave, OwnerRefused, Reconcile, Pause, End, Goto, Remember, Approving,
         InApproval
  <2> QED BY <2>1, <2>2
<1>2. CASE \/ ValidateGoal \/ GenerateDraft \/ SaveDraft \/ AwaitTaskApproval
           \/ BeginExecution \/ RunWorker \/ SaveExecution
           \/ RequestReview \/ SaveHandoff \/ MatchDecision \/ Dispatch \/ Confirm
           \/ ActOnDecision
  BY <1>2 DEF ValidateGoal, GenerateDraft, SaveDraft, AwaitTaskApproval, BeginExecution,
       RunWorker, SaveExecution, RequestReview, SaveHandoff, MatchDecision, Dispatch, Confirm,
       ActOnDecision, Reconcile, Pause, End, Goto, Remember, Approving, InApproval
<1>3. CASE HandToReview \/ ApplyRework
  <2>1. mem.phase = InReview
    BY <1>3 DEF HandToReview, ApplyRework, IInv, InHand, Reworking, Decided
  <2> QED BY <1>3, <2>1 DEF HandToReview, ApplyRework, Request, Pause, End, Goto, Approving,
              InApproval, InReview, NoCkpt
<1>4. CASE \/ SaveRework \/ BeginFinalization \/ PassGates \/ Approve \/ Commit \/ Push \/ Record
           \/ SavePublished \/ Finish
  BY <1>4 DEF SaveRework, BeginFinalization, PassGates, Approve, Commit, Push, Record,
       SavePublished, Finish, Pause, End, Goto, Remember, Approving, InApproval
<1>5. CASE Transition
  <2>1. /\ pc = "transition" /\ mem.phase \in DOMAIN Requested
        /\ call.to \in Requested[mem.phase]
    BY <1>5 DEF Transition, IInv, Calling
  <2>2. Pause \/ (mem' = mem /\ pc' \in {"transition", AfterCall})
    BY <1>5 DEF Transition, Goto
  <2>3. mem.phase # "FINALIZATION" => AfterCall \notin Approving
    BY <2>1 DEF AfterCall, Requested, Approving
  <2> QED BY <2>1, <2>2, <2>3 DEF Pause, End, Goto, Approving, InApproval
<1>6. CASE ReconcileCompleted \/ Crash \/ RecordFails \/ UNCHANGED vars
  BY <1>6 DEF ReconcileCompleted, Crash, RecordFails, End, Goto, vars, locals, Approving,
       InApproval
<1>7. CASE Operator
  BY <1>7 DEF Operator, Decide, OperatorTransition, OperatorContinues, OperatorCommit, Discard,
       Edit, OperatorReconcile, OperatorWrites, FinalizeByHand, Operate, Aside, locals, InApproval
<1>8. CASE \/ \E a \in BOOLEAN : StartRun(a)
           \/ \E a \in BOOLEAN, act \in OwnerAction \cup {"none"} : Resume(a, act)
  BY <1>8 DEF StartRun, Resume, Command, Goto, Approving, InApproval
<1> QED BY <1>1, <1>2, <1>3, <1>4, <1>5, <1>6, <1>7, <1>8 DEF Next, Orchestrator, Phases

\* The head of the branch, and those of the bundles below it.
LEMMA HeadsGrow ==
  ASSUME IInv, [Next]_vars
  PROVE  /\ head \in Nat /\ head' \in Nat /\ head <= head'
         /\ \A b \in 1..Len(bundles) : bundles[b].head \in Nat /\ bundles[b].head <= head
         /\ DOMAIN bundles = 1..Len(bundles)
<1>1. MaxCommits \in Nat
  BY OrchestrationAssumption
<1>2. head \in Nat
  BY <1>1 DEF IInv, RepoOK
<1>3. head' \in Nat /\ head <= head'
  BY <1>1, RepoStep DEF RepoOK
<1>4. DOMAIN bundles = 1..Len(bundles) /\ \A b \in 1..Len(bundles) : bundles[b] \in BundleRecord
  BY References
<1>5. \A b \in 1..Len(bundles) : bundles[b].head \in Nat
  BY <1>1, <1>4 DEF BundleRecord
<1>6. \A b \in 1..Len(bundles) : bundles[b].head <= head
  BY <1>4 DEF IInv, Heads
<1> QED BY <1>2, <1>3, <1>4, <1>5, <1>6

\* Publication happens once, and closes the run, as long as no transition replaces
\* a status it has not checked.
LEMMA ClosedStep ==
  ASSUME IInv, [Next]_vars
  PROVE  Closed'
<1> SUFFICES ASSUME ~overwritten' PROVE Closed'
  BY DEF Closed
<1>over. ~overwritten
  BY TaskStep
<1>0. /\ head \in Nat /\ head' \in Nat /\ head <= head'
      /\ \A b \in 1..Len(bundles) : bundles[b].head \in Nat /\ bundles[b].head <= head
      /\ DOMAIN bundles = 1..Len(bundles)
  BY HeadsGrow
<1>1. CASE published' = published /\ published # {}
  <2>1. /\ \A p, q \in published : p = q
        /\ \A b \in DOMAIN bundles : bundles[b].head < head
        /\ TaskIsFinal \/ ckpt.phase \in {"FINALIZATION", "PUBLISHED"}
        /\ pc \in Approving \/ InApproval => TaskIsFinal
    BY <1>1, <1>over DEF IInv, Closed
  <2>2. bundles' = bundles
    <3>1. CASE RunWorker /\ Launchable
      <4>1. task \in ExecutableStatuses /\ mem.phase = "TASK_EXECUTION" /\ ckpt.phase = mem.phase
        BY <3>1 DEF RunWorker, Launchable, IInv, InStep, InHand
      <4> QED BY <2>1, <4>1 DEF TaskIsFinal, ExecutableStatuses
    <3> QED BY <3>1, EvidenceStep
  <2>3. \A b \in DOMAIN bundles' : bundles'[b].head < head'
    BY <1>0, <2>1, <2>2
  <2>4. TaskIsFinal' \/ ckpt'.phase \in {"FINALIZATION", "PUBLISHED"}
    BY <1>1, <2>1, FinalStays, LateStays
  <2>5. ASSUME pc' \in Approving \/ InApproval' PROVE TaskIsFinal'
    <3>1. CASE pc \in Approving \/ InApproval
      BY <1>1, <2>1, <3>1, FinalStays
    <3>2. CASE pc = "gates" /\ Gates(mem.decision)
      <4>1. mem.decision \in 1..Len(decisions)
        BY <3>2, FinalizerFacts DEF Finalizing, Approving
      <4>2. /\ decisions[mem.decision].bundle \in 1..Len(bundles)
            /\ bundles[decisions[mem.decision].bundle].head = head
        BY <3>2, <4>1, GateFacts
      <4> QED BY <1>0, <2>1, <4>2
    <3> QED BY <2>5, <3>1, <3>2, GateStep
  <2> QED BY <1>1, <2>1, <2>3, <2>4, <2>5 DEF Closed
<1>2. CASE Commit /\ published' # published
  <2>1. /\ head' = head + 1 /\ published' = published \cup {Publication(mem.decision)}
        /\ Changed = PathsOf(mem.decision) /\ pc = "commit" /\ pc' = "push"
        /\ ckpt' = ckpt /\ bundles' = bundles
    BY <1>2 DEF Commit, NewCommit, Pause, ghosts, Goto, evidence
  <2>2. ckpt.phase = "FINALIZATION" /\ mem.decision \in 1..Len(decisions)
    BY <2>1, FinalizerFacts DEF Finalizing, Approving
  <2>3. published = {}
    <3>1. task # taskHead
      BY <2>1, <2>2, GateFacts
    <3> QED BY <1>over, <2>1, <3>1 DEF IInv, Closed, TaskIsFinal, Approving
  <2>4. \A b \in DOMAIN bundles' : bundles'[b].head < head'
    BY <1>0, <2>1
  <2>5. \A p, q \in published' : p = q
    BY <2>1, <2>3
  <2>6. ~(pc' \in Approving \/ InApproval')
    BY <2>1 DEF Approving, InApproval
  <2> QED BY <2>1, <2>2, <2>4, <2>5, <2>6 DEF Closed
<1>3. ASSUME NEW d \in DOMAIN decisions, FinalizeByHand(d) PROVE Closed'
  <2>1. /\ head' = head + 1 /\ published' = published \cup {Publication(d)}
        /\ Gates(d) /\ task' = "APPROVED" /\ taskHead' = "APPROVED"
        /\ bundles' = bundles /\ d \in 1..Len(decisions)
    BY <1>3, References DEF FinalizeByHand, TaskBecomes
  <2>2. published = {}
    <3>1. /\ decisions[d].bundle \in 1..Len(bundles)
          /\ bundles[decisions[d].bundle].head = head
      BY <2>1, GateFacts
    <3> QED BY <1>0, <1>over, <3>1 DEF IInv, Closed
  <2>4. \A b \in DOMAIN bundles' : bundles'[b].head < head'
    BY <1>0, <2>1
  <2>5. \A p, q \in published' : p = q
    BY <2>1, <2>2
  <2>6. TaskIsFinal'
    BY <2>1 DEF TaskIsFinal
  <2> QED BY <2>4, <2>5, <2>6 DEF Closed
<1>4. CASE published' = {}
  BY <1>4 DEF Closed
<1> QED BY <1>1, <1>2, <1>3, <1>4, PublicationStep

\* Only the commit leads to the push and to what follows it.
LEMMA WayStep ==
  ASSUME IInv, [Next]_vars, pc' \in Committed
  PROVE  /\ mem' = mem
         /\ \/ pc' = pc
            \/ Commit /\ pc' = "push" /\ published' = published \cup {Publication(mem.decision)}
            \/ pc = "push" /\ pc' = "record" /\ remote' = head
            \/ pc = "record" /\ pc' = "publishedSave" /\ remote' = remote
<1>1. CASE OwnerIntake
  BY <1>1 DEF OwnerIntake, MoveTask, PreserveTask, OwnerHandoff, OwnerDecide, OwnerReconcile,
       WriteHandoff, OwnerSave, OwnerRefused, Request, Reconcile, Pause, End, Goto, Remember,
       Committed
<1>2. CASE \/ ValidateGoal \/ GenerateDraft \/ SaveDraft \/ AwaitTaskApproval
           \/ BeginExecution \/ RunWorker \/ SaveExecution
           \/ RequestReview \/ SaveHandoff \/ MatchDecision \/ Dispatch \/ Confirm
           \/ ActOnDecision
  BY <1>2 DEF ValidateGoal, GenerateDraft, SaveDraft, AwaitTaskApproval, BeginExecution,
       RunWorker, SaveExecution, RequestReview, SaveHandoff, MatchDecision, Dispatch, Confirm,
       ActOnDecision, Reconcile, Pause, End, Goto, Remember, Committed
<1>3. CASE \/ HandToReview \/ ApplyRework \/ SaveRework
           \/ BeginFinalization \/ PassGates \/ Approve \/ SavePublished \/ Finish
  BY <1>3 DEF HandToReview, Request, ApplyRework, SaveRework, BeginFinalization,
       PassGates, Approve, SavePublished, Finish, Pause, End, Goto, Remember, Committed
<1>4. CASE Commit \/ Push \/ Record \/ RecordFails
  BY <1>4 DEF Commit, Push, Record, RecordFails, Pause, End, Goto, Committed, locals, repo
<1>5. CASE Transition
  <2>1. /\ mem.phase \in DOMAIN Requested /\ call.to \in Requested[mem.phase]
        /\ Pause \/ pc' \in {"transition", AfterCall}
    BY <1>5 DEF Transition, IInv, Calling, Goto
  <2>2. AfterCall \notin Committed
    BY <2>1 DEF AfterCall, Requested, Committed
  <2> QED BY <2>1, <2>2 DEF Pause, End, Goto, Committed
<1>6. CASE ReconcileCompleted \/ Crash \/ UNCHANGED vars
  BY <1>6 DEF ReconcileCompleted, Crash, End, Goto, vars, locals, Committed
<1>7. CASE Operator
  BY <1>7 DEF Operator, Decide, OperatorTransition, OperatorContinues, OperatorCommit, Discard,
       Edit, OperatorReconcile, OperatorWrites, FinalizeByHand, Operate, Aside, locals
<1>8. CASE \/ \E a \in BOOLEAN : StartRun(a)
           \/ \E a \in BOOLEAN, act \in OwnerAction \cup {"none"} : Resume(a, act)
  BY <1>8 DEF StartRun, Resume, Command, Goto, Committed
<1> QED BY <1>1, <1>2, <1>3, <1>4, <1>5, <1>6, <1>7, <1>8 DEF Next, Orchestrator, Phases

\* Publications are never undone, and the remote does not fall behind one it has.
LEMMA PublishedStays ==
  ASSUME IInv, [Next]_vars
  PROVE  /\ published \subseteq published'
         /\ \A p \in published : p.commit <= remote => p.commit <= remote'
<1>1. published \subseteq published'
  BY PublicationStep DEF Commit, Pause, ghosts, FinalizeByHand
<1>2. /\ head \in Nat /\ head' \in Nat /\ remote \in Nat
      /\ remote <= head /\ head <= head' /\ remote' \in {remote, head, head'}
  BY RepoStep, OrchestrationAssumption DEF IInv, RepoOK, Heads
<1>3. \A p \in published : p.commit \in Nat
  BY DEF IInv, GhostsOK, PublicationType
<1>4. ASSUME NEW p \in published, p.commit <= remote PROVE p.commit <= remote'
  <2> DEFINE c == p.commit
  <2>1. c \in Nat /\ c <= remote
    BY <1>3, <1>4
  <2> HIDE DEF c
  <2>2. c <= remote'
    BY <1>2, <2>1
  <2> QED BY <2>2 DEF c
<1> QED BY <1>1, <1>4

\* A run that goes on to the push has made its commit, and one that goes on to
\* the record has pushed it.
LEMMA OnItsWayStep ==
  ASSUME IInv, [Next]_vars
  PROVE  OnItsWay'
<1> SUFFICES ASSUME pc' \in Committed
             PROVE  \E p \in published' : /\ p.decision = mem.decision /\ p.bundle = mem.bundle
                                          /\ pc' # "push" => p.commit <= remote'
  BY WayStep DEF OnItsWay
<1>1. ASSUME pc \in Committed
      PROVE  \E p \in published : /\ p.decision = mem.decision /\ p.bundle = mem.bundle
                                  /\ pc # "push" => p.commit <= remote
                                  /\ p.commit <= head
  BY <1>1 DEF IInv, OnItsWay, Authorized
<1>2. CASE pc' = pc
  BY <1>1, <1>2, PublishedStays
<1>3. CASE Commit /\ published' = published \cup {Publication(mem.decision)} /\ pc' = "push"
  <2>1. mem.decision \in 1..Len(decisions) /\ decisions[mem.decision].bundle = mem.bundle
    BY <1>3, FinalizerFacts DEF Commit, Finalizing, Approving
  <2> DEFINE p == Publication(mem.decision)
  <2>2. p.decision = mem.decision /\ p.bundle = mem.bundle
    BY <2>1 DEF Publication
  <2> HIDE DEF p
  <2>3. p \in published'
    BY <1>3 DEF p
  <2> QED BY <1>3, <2>2, <2>3
<1>4. CASE pc = "push" /\ pc' = "record" /\ remote' = head
  <2>1. PICK p \in published : /\ p.decision = mem.decision /\ p.bundle = mem.bundle
                                /\ p.commit <= head
    BY <1>1, <1>4 DEF Committed
  <2> QED BY <1>4, <2>1, PublishedStays
<1>5. CASE pc = "record" /\ pc' = "publishedSave" /\ remote' = remote
  BY <1>1, <1>5, PublishedStays DEF Committed
<1> QED BY <1>2, <1>3, <1>4, <1>5, WayStep

\* Which steps can write a checkpoint that says PUBLISHED.
LEMMA PublishedSaveStep ==
  ASSUME IInv, [Next]_vars, ckpt' # ckpt, ckpt'.phase = "PUBLISHED"
  PROVE  SavePublished \/ ReconcileCompleted
<1>0. InHand /\ InStep
  BY DEF IInv
<1>1. CASE OwnerIntake
  <2>1. OwnerSave
    BY <1>1 DEF OwnerIntake, MoveTask, PreserveTask, OwnerHandoff, OwnerDecide, OwnerReconcile,
         WriteHandoff, OwnerRefused, Request, Reconcile, Pause
  <2>2. ckpt' = mem /\ pc = "ownerSave"
    BY <2>1 DEF OwnerSave, Remember, Save
  <2> QED BY <1>0, <2>2 DEF InHand, InReview
<1>2. CASE \/ ValidateGoal \/ SaveDraft \/ AwaitTaskApproval \/ SaveExecution \/ ActOnDecision
  <2>1. ckpt' = mem' /\ ~Pause
    BY <1>2 DEF ValidateGoal, SaveDraft, AwaitTaskApproval, SaveExecution, ActOnDecision, Save,
         SaveIfApplied, Pause
  <2>2. ActOnDecision => mem.phase # "PUBLISHED"
    BY <1>0 DEF ActOnDecision, InHand, Decided, InReview
  <2> QED BY <1>2, <2>1, <2>2, PhaseFacts DEF InReview
<1>3. CASE SaveHandoff \/ Confirm \/ SaveRework
  <2>1. ckpt' = mem' /\ ~Pause
    BY <1>3 DEF SaveHandoff, Confirm, SaveRework, Save, Pause
  <2>2. mem.phase # "PUBLISHED"
    BY <1>0, <1>3 DEF SaveHandoff, Confirm, SaveRework, InHand, Decided, Reworking, Reviewing,
         InReview
  <2>3. mem'.phase = mem.phase \/ mem'.phase = "TASK_EXECUTION"
    BY <1>3, <2>1, ReferenceFacts DEF SaveHandoff, Remember, SameCycle
  <2> QED BY <2>1, <2>2, <2>3
<1>4. CASE \/ GenerateDraft \/ BeginExecution \/ RunWorker \/ RequestReview \/ MatchDecision
           \/ Dispatch \/ Transition \/ HandToReview \/ ApplyRework
           \/ BeginFinalization \/ PassGates \/ Approve \/ Commit \/ Push \/ Record
           \/ Finish \/ Crash \/ RecordFails \/ UNCHANGED vars
  BY <1>4 DEF GenerateDraft, BeginExecution, RunWorker, RequestReview, MatchDecision,
       Dispatch, Reconcile, Transition, HandToReview, Request, ApplyRework, BeginFinalization,
       PassGates, Approve, Commit, Push, Record, Finish, Pause, Crash, RecordFails, vars
<1>5. CASE Operator
  BY <1>5 DEF Operator, Decide, OperatorTransition, OperatorContinues, OperatorCommit, Discard,
       Edit, OperatorReconcile, OperatorWrites, FinalizeByHand, Operate, Aside
<1>6. CASE \/ \E a \in BOOLEAN : StartRun(a)
           \/ \E a \in BOOLEAN, act \in OwnerAction \cup {"none"} : Resume(a, act)
  BY <1>6 DEF StartRun, Resume, Command
<1> QED BY <1>1, <1>2, <1>3, <1>4, <1>5, <1>6 DEF Next, Orchestrator, Phases

\* A checkpoint that says PUBLISHED is true, however it came to say so.
LEMMA PublishedIsTrueStep ==
  ASSUME IInv, [Next]_vars
  PROVE  PublishedIsTrue'
<1> SUFFICES ASSUME ckpt'.phase = "PUBLISHED"
             PROVE  \E p \in published' : /\ p.bundle = ckpt'.bundle /\ p.decision = ckpt'.decision
                                          /\ p.commit <= remote'
  BY DEF PublishedIsTrue
<1>1. CASE ckpt' = ckpt
  BY <1>1, PublishedStays DEF IInv, PublishedIsTrue
<1>2. CASE SavePublished
  <2>1. pc = "publishedSave" /\ ckpt' = mem' /\ Relabelled(mem', mem)
    BY <1>2, PhaseFacts DEF SavePublished, Save
  <2> QED BY <2>1, PublishedStays DEF IInv, OnItsWay, Committed, Relabelled
<1>3. CASE ReconcileCompleted
  <2>1. PICK p \in records : /\ ckpt'.decision = p.decision /\ ckpt'.bundle = p.bundle
                             /\ p \in published /\ head = remote
    BY <1>3, RecoveryFacts DEF Completed
  <2>2. p.commit <= remote
    BY <2>1 DEF IInv, Authorized
  <2> QED BY <2>1, <2>2, PublishedStays
<1> QED BY <1>1, <1>2, <1>3, PublishedSaveStep

-----------------------------------------------------------------------------
(***************************************************************************)
(* The rework decisions                                                    *)
(***************************************************************************)

\* A decision is consumed, and a cycle counted, at the end of a rework only, and
\* for good.
LEMMA ConsumedStep ==
  ASSUME IInv, [Next]_vars
  PROVE  \/ ckpt'.consumed = ckpt.consumed /\ ckpt'.rework = ckpt.rework
         \/ /\ SaveRework
            /\ ckpt'.consumed = ckpt.consumed \cup {mem.decision}
            /\ ckpt'.rework = ckpt.rework + 1
<1>1. CASE ckpt' = ckpt
  BY <1>1
<1>2. CASE ReconcileCompleted
  BY <1>2, RecoveryFacts
<1>3. CASE ckpt' = mem' /\ ckpt' # ckpt /\ (apply \/ pc \notin {"idle", "loop", "owner"})
  <2>1. mem.consumed = ckpt.consumed /\ mem.rework = ckpt.rework
    BY <1>3 DEF IInv, InStep
  <2>2. ~Pause
    BY <1>3 DEF Pause
  <2>3. CASE OwnerSave \/ SaveHandoff
    BY <1>3, <2>1, <2>3 DEF OwnerSave, SaveHandoff, Remember
  <2>4. CASE \/ PreserveTask \/ ValidateGoal \/ SaveDraft \/ AwaitTaskApproval
             \/ SaveExecution \/ ActOnDecision \/ SavePublished
    BY <1>3, <2>1, <2>2, <2>4, PhaseFacts DEF Relabelled
  <2>5. CASE OwnerHandoff \/ OwnerDecide \/ RunWorker \/ RequestReview \/ Confirm
    BY <1>3, <2>1, <2>2, <2>5, ReferenceFacts DEF SameCycle
  <2>6. CASE SaveRework
    BY <1>3, <2>1, <2>6, ReferenceFacts
  <2>7. CASE \/ MoveTask \/ OwnerReconcile \/ WriteHandoff \/ OwnerRefused
             \/ GenerateDraft \/ BeginExecution \/ MatchDecision \/ Dispatch \/ Transition
             \/ HandToReview \/ ApplyRework
             \/ BeginFinalization \/ PassGates \/ Approve \/ Commit \/ Push \/ Record
             \/ Finish \/ Crash \/ RecordFails \/ UNCHANGED vars
    BY <1>3, <2>7
       DEF MoveTask, OwnerReconcile, WriteHandoff, OwnerRefused, GenerateDraft, BeginExecution,
           MatchDecision, Dispatch, Reconcile, Transition, HandToReview, Request, ApplyRework,
           BeginFinalization, PassGates,
           Approve, Commit, Push, Record, Finish, Pause, Crash, RecordFails, vars
  <2>8. CASE Operator
    BY <1>3, <2>8 DEF Operator, Decide, OperatorTransition, OperatorContinues, OperatorCommit,
         Discard,
         Edit, OperatorReconcile, OperatorWrites, FinalizeByHand, Operate, Aside
  <2>9. CASE \/ \E a \in BOOLEAN : StartRun(a)
             \/ \E a \in BOOLEAN, act \in OwnerAction \cup {"none"} : Resume(a, act)
    BY <1>3, <2>9 DEF StartRun, Resume, Command
  <2> QED BY <1>2, <2>3, <2>4, <2>5, <2>6, <2>7, <2>8, <2>9
          DEF Next, Orchestrator, OwnerIntake, Phases
<1> QED BY <1>1, <1>2, <1>3, CheckpointStep

\* What the steps do to the count of applications.
LEMMA AppliedStep ==
  ASSUME IInv, [Next]_vars
  PROVE  /\ \/ applied' = applied
            \/ /\ pc = "transition" /\ pc' = "reworkSave" /\ mem' = mem
               /\ applied' = [applied EXCEPT ![mem.decision] = @ + 1]
         /\ pc = "reworkSave" => SaveRework \/ faults' = faults + 1 \/ (pc' = pc /\ mem' = mem)
         /\ faults' = faults \/ faults' = faults + 1
<1>1. CASE OwnerIntake
  BY <1>1 DEF OwnerIntake, MoveTask, PreserveTask, OwnerHandoff, OwnerDecide, OwnerReconcile,
       WriteHandoff, OwnerSave, OwnerRefused, Request, Reconcile, Pause, ghosts, counters
<1>2. CASE \/ ValidateGoal \/ GenerateDraft \/ SaveDraft \/ AwaitTaskApproval
           \/ BeginExecution \/ RunWorker \/ SaveExecution
           \/ RequestReview \/ SaveHandoff \/ MatchDecision \/ Dispatch \/ Confirm
           \/ ActOnDecision
  BY <1>2 DEF ValidateGoal, GenerateDraft, SaveDraft, AwaitTaskApproval, BeginExecution,
       RunWorker, SaveExecution, RequestReview, SaveHandoff, MatchDecision, Dispatch,
       Confirm, ActOnDecision, Reconcile, Pause, At, ghosts, counters
<1>3. CASE \/ HandToReview \/ ApplyRework \/ SaveRework
           \/ BeginFinalization \/ PassGates \/ Approve \/ Commit \/ Push \/ Record
           \/ SavePublished \/ Finish
  BY <1>3 DEF HandToReview, Request, ApplyRework, SaveRework, BeginFinalization,
       PassGates, Approve, Commit, Push, Record, SavePublished, Finish, Pause, At, Goto, ghosts,
       counters, locals
<1>4. CASE ReconcileCompleted \/ Crash \/ RecordFails \/ UNCHANGED vars
  BY <1>4 DEF ReconcileCompleted, Crash, RecordFails, Fault, vars, ghosts, counters, locals
<1>5. CASE Operator
  BY <1>5 DEF Operator, Decide, OperatorTransition, OperatorContinues, OperatorCommit, Discard,
       Edit, OperatorReconcile, OperatorWrites, FinalizeByHand, Operate, Aside, locals
<1>6. CASE \/ \E a \in BOOLEAN : StartRun(a)
           \/ \E a \in BOOLEAN, act \in OwnerAction \cup {"none"} : Resume(a, act)
  BY <1>6 DEF StartRun, Resume, Command, ghosts
<1>7. CASE Transition
  <2>1. /\ pc = "transition" /\ mem.phase \in DOMAIN Requested
        /\ call.to \in Requested[mem.phase]
    BY <1>7 DEF Transition, IInv, Calling
  <2>2. call.to = "REWORK" => AfterCall = "reworkSave"
    BY <2>1 DEF Requested, AfterCall, InReview
  <2> QED BY <1>7, <2>1, <2>2 DEF Transition, Pause, Goto, ghosts, counters
<1> QED BY <1>1, <1>2, <1>3, <1>4, <1>5, <1>6, <1>7 DEF Next, Orchestrator, Phases

\* A decision that has been applied is consumed, or is about to be.
LEMMA ApplicationsStep ==
  ASSUME IInv, [Next]_vars
  PROVE  Applications'
<1>0. /\ applied \in [1..MaxDecisions -> Nat] /\ faults \in Nat
      /\ mem.decision \notin mem.consumed
  BY References DEF IInv, GhostsOK, RunOK, Sound, Consumption
<1> SUFFICES ASSUME faults' = 0, NEW d \in 1..MaxDecisions
             PROVE  /\ applied'[d] <= 1
                    /\ applied'[d] = 1 => \/ d \in ckpt'.consumed
                                          \/ pc' = "reworkSave" /\ d = mem'.decision
  BY DEF Applications
<1>1. faults = 0 /\ faults' # faults + 1
  BY <1>0, AppliedStep
<1>2. /\ applied[d] <= 1 /\ applied[d] \in Nat
      /\ applied[d] = 1 => d \in ckpt.consumed \/ (pc = "reworkSave" /\ d = mem.decision)
  BY <1>0, <1>1 DEF IInv, Applications
<1>3. ckpt.consumed \subseteq ckpt'.consumed
  BY ConsumedStep
<1>4. CASE applied' = applied
  <2>1. CASE pc = "reworkSave" /\ d = mem.decision
    <3>1. CASE SaveRework
      <4>1. ckpt' = mem' /\ mem'.consumed = mem.consumed \cup {mem.decision}
        BY <3>1, ReferenceFacts DEF SaveRework, Save
      <4> QED BY <1>2, <1>4, <2>1, <4>1
    <3>2. CASE pc' = pc /\ mem' = mem
      BY <1>2, <1>4, <2>1, <3>2
    <3> QED BY <1>1, <2>1, <3>1, <3>2, AppliedStep
  <2>2. CASE ~(pc = "reworkSave" /\ d = mem.decision)
    BY <1>2, <1>3, <1>4, <2>2
  <2> QED BY <2>1, <2>2
<1>5. CASE /\ pc = "transition" /\ pc' = "reworkSave" /\ mem' = mem
           /\ applied' = [applied EXCEPT ![mem.decision] = @ + 1]
  <2>1. CASE d = mem.decision
    <3>1. mem.consumed = ckpt.consumed
      BY <1>5 DEF IInv, InStep
    <3>2. applied[d] = 0
      BY <1>0, <1>2, <1>5, <2>1, <3>1
    <3>3. applied'[d] = 1
      BY <1>0, <1>5, <2>1, <3>2
    <3> QED BY <1>5, <2>1, <3>3
  <2>2. CASE d # mem.decision
    <3>1. applied'[d] = applied[d]
      BY <1>0, <1>5, <2>2
    <3> QED BY <1>2, <1>3, <1>5, <2>2, <3>1
  <2> QED BY <2>1, <2>2
<1> QED BY <1>4, <1>5, AppliedStep

-----------------------------------------------------------------------------
(***************************************************************************)
(* The theorems                                                            *)
(***************************************************************************)

LEMMA InitIInv == Init => IInv
<1> SUFFICES ASSUME Init PROVE IInv
  OBVIOUS
<1>1. Typed(bundles, decisions, handoffs)
  BY OrchestrationAssumption DEF Init, Typed
<1>2. NoCkpt \in Checkpoint
  BY OrchestrationAssumption DEF Checkpoint, NoCkpt, Phase
<1>3. \A c \in {ckpt, mem} : Sound(c, bundles, decisions, handoffs)
  <2>1. /\ NoCkpt.phase = "GOAL_VALIDATION" /\ NoCkpt.bundle = 0 /\ NoCkpt.handoff = 0
        /\ NoCkpt.decision = 0 /\ NoCkpt.consumed = {} /\ NoCkpt.rework = 0
    BY DEF NoCkpt
  <2>2. Sound(NoCkpt, bundles, decisions, handoffs)
    BY <1>1, <1>2, <2>1, SoundNoCkpt
  <2>3. ckpt = NoCkpt /\ mem = NoCkpt
    BY DEF Init
  <2> QED BY <2>2, <2>3
<1>4. RepoOK /\ RunOK /\ GhostsOK
  <2>1. RepoOK
    <3>1. /\ task = NoTask /\ taskHead = NoTask /\ whole = NoTask
          /\ impl = {} /\ head = 1 /\ remote = 1
      BY DEF Init
    <3>2. overwritten \in BOOLEAN
      BY DEF Init
    <3>3. 1 \in 1..MaxCommits
      BY OrchestrationAssumption
    <3> QED BY <3>1, <3>2, <3>3 DEF RepoOK
  <2>2. RunOK
    <3>1. runs \in 0..MaxRuns /\ faults \in 0..MaxFaults /\ ops \in 0..MaxOps
      BY OrchestrationAssumption DEF Init
    <3>2. apply \in BOOLEAN /\ fresh \in BOOLEAN
      BY DEF Init
    <3>3. pc \in Step /\ action \in OwnerAction \cup {"none"}
      BY DEF Init, Step
    <3> QED BY <3>1, <3>2, <3>3 DEF RunOK
  <2>3. GhostsOK
    BY DEF Init, GhostsOK
  <2> QED BY <2>1, <2>2, <2>3
<1>5. Agree(decisions, handoffs) /\ Heads
  BY DEF Init, Agree, Heads
<1>6. InStep /\ InHand
  BY DEF Init, InStep, InHand, InReworkCall, NoCkpt, Reviewing, Decided, Reworking, Finalizing,
     Approving, Committed
<1>9. CallsOK /\ Calling /\ Reconciling
  BY DEF Init, CallsOK, Calling, Reconciling, NoCall, MoveGranted, Writing, TransitionCalls,
     CallStep, TaskStatus, ActorRole
<1>7. NothingYet /\ Authorized /\ Closed /\ OnItsWay /\ PublishedIsTrue
  BY DEF Init, NothingYet, Authorized, Closed, OnItsWay, PublishedIsTrue, NoCkpt, Committed
<1>8. Applications
  BY DEF Init, Applications
<1> QED BY <1>1, <1>3, <1>4, <1>5, <1>6, <1>7, <1>8, <1>9 DEF IInv

LEMMA NextIInv == IInv /\ [Next]_vars => IInv'
<1> SUFFICES ASSUME IInv, [Next]_vars PROVE IInv'
  OBVIOUS
<1>1. RepoOK' /\ RunOK' /\ GhostsOK'
  BY RepoStep, RunStep, GhostsStep
<1>2. Typed(bundles', decisions', handoffs') /\ Agree(decisions', handoffs')
  BY EvidenceStep
<1>3. /\ Sound(ckpt', bundles', decisions', handoffs')
      /\ Sound(mem', bundles', decisions', handoffs')
  BY CheckpointSound, MemorySound
<1>4. InStep' /\ InHand' /\ NothingYet'
  BY ControlStep, NothingYetStep
<1>6. CallsOK' /\ Calling' /\ Reconciling'
  BY CallingStep, ReconcilingStep
<1>5. Heads' /\ Authorized' /\ Closed' /\ OnItsWay' /\ PublishedIsTrue' /\ Applications'
  BY HeadsStep, AuthorizedStep, ClosedStep, OnItsWayStep, PublishedIsTrueStep, ApplicationsStep
<1> QED BY <1>1, <1>2, <1>3, <1>4, <1>5, <1>6 DEF IInv

\* Every reachable state satisfies the inductive invariant.
THEOREM Invariance == Spec => []IInv
<1>1. Init => IInv
  BY InitIInv
<1>2. IInv /\ [Next]_vars => IInv'
  BY NextIInv
<1> QED BY <1>1, <1>2, PTL DEF Spec

\* Every variable keeps its type and no reference dangles, whatever a run, its
\* faults and its operators do.
THEOREM TypeCorrect == Spec => []TypeOK
BY Invariance, TypeFromInv, PTL

\* No rework cycle is run on a decision of an earlier one, and there are no more
\* of them than the run's budget (max_rework), however often it is resumed.
THEOREM NoDecisionReused == Spec => []NoDecisionIsReused
<1>1. IInv => NoDecisionIsReused
  BY DEF IInv, Sound, Consumption, NoDecisionIsReused
<1> QED BY <1>1, Invariance, PTL

\* A run that the checkpoint says is in finalization has an APPROVE about the
\* bundle of its own cycle, and the handoff it opened for it is reconciled to a
\* decision about that bundle, whoever else reconciles it meanwhile.
THEOREM FinalizationApproved == Spec => []FinalizationIsApproved
<1>1. ASSUME IInv, ckpt.phase = "FINALIZATION"
      PROVE  /\ ckpt.bundle # 0 /\ ckpt.decision # 0 /\ ckpt.handoff # 0
             /\ decisions[ckpt.decision].value = "APPROVE"
             /\ decisions[ckpt.decision].bundle = ckpt.bundle
             /\ handoffs[ckpt.handoff].bundle = ckpt.bundle
             /\ handoffs[ckpt.handoff].decision # 0
  BY <1>1 DEF IInv, Sound, Coherent, InReview
<1>2. ASSUME IInv, ckpt.phase = "FINALIZATION"
      PROVE  decisions[handoffs[ckpt.handoff].decision].bundle = ckpt.bundle
  <2>1. ckpt.handoff \in 1..Len(handoffs)
    BY <1>1, <1>2, References DEF Sound, Named, Checkpoint
  <2>2. handoffs[ckpt.handoff].decision # 0 /\ handoffs[ckpt.handoff].bundle = ckpt.bundle
    BY <1>1, <1>2
  <2>3. Agree(decisions, handoffs) /\ ckpt.handoff \in DOMAIN handoffs
    BY <1>2, <2>1, References DEF IInv
  <2> QED BY <2>2, <2>3 DEF Agree
<1>3. IInv => FinalizationIsApproved
  BY <1>1, <1>2 DEF FinalizationIsApproved
<1> QED BY <1>3, Invariance, PTL

\* Whatever a run publishes was approved and is what was reviewed, and it is
\* published once, unless a transition replaced a status it had not checked.
THEOREM PublicationAuthorized == Spec => []PublishedWithAuthority
<1>1. IInv => PublishedWithAuthority
  BY DEF IInv, Authorized, Closed, PublishedWithAuthority
<1> QED BY <1>1, Invariance, PTL

\* A checkpoint that says PUBLISHED names a commit the remote has, whether the run
\* or the recovery wrote it.
THEOREM PublishedTrue == Spec => []PublishedIsTrue
<1>1. IInv => PublishedIsTrue
  BY DEF IInv
<1> QED BY <1>1, Invariance, PTL

\* Without a fault no decision is applied to the task twice.
THEOREM AppliedOnce == Spec => []DecisionsAreAppliedOnce
<1>1. IInv => DecisionsAreAppliedOnce
  BY DEF IInv, Applications, GhostsOK, DecisionsAreAppliedOnce
<1> QED BY <1>1, Invariance, PTL

\* The entry of a published run is gone from the owner's inbox.
THEOREM PublishedRunsLeave == Spec => []PublishedRunsLeaveTheInbox
<1>1. ASSUME IInv, ckpt.phase = "PUBLISHED", task = "APPROVED", OnRecord
      PROVE  TerminalEvidence
  <2>1. PICK r : published = {r} /\ records = {r}
    BY <1>1 DEF OnRecord
  <2>2. r.bundle = ckpt.bundle /\ r.decision = ckpt.decision
    BY <1>1, <2>1 DEF IInv, PublishedIsTrue
  <2>3. /\ r.decision \in 1..Len(decisions) /\ r.bundle \in 1..Len(bundles)
        /\ decisions[r.decision].value = "APPROVE"
        /\ decisions[r.decision].bundle = r.bundle
    BY <1>1, <2>1, References DEF IInv, Authorized
  <2>4. decisions[r.decision].actor \in Reviewers
    BY <1>1, <2>3, References DEF DecisionRecord
  <2>5. ckpt.bundle # 0 /\ ckpt.decision # 0
    BY <1>1, <2>2, <2>3, References
  <2> QED BY <1>1, <2>1, <2>2, <2>3, <2>4, <2>5 DEF TerminalEvidence, Approves
<1>2. IInv => PublishedRunsLeaveTheInbox
  BY <1>1 DEF PublishedRunsLeaveTheInbox, Classification, Excluded
<1> QED BY <1>2, Invariance, PTL

\* An owner the inbox calls on can answer.
THEOREM OwnerIsHeard == Spec => []CalledOwnerIsHeard
<1>1. ASSUME IInv, ckpt.phase \in {"AWAITING_TASK_APPROVAL", InReview}, Linked, UpToDate
      PROVE  \/ \E act \in OwnerAction : Accepts(act)
             \/ ckpt.phase = "AWAITING_TASK_APPROVAL" /\ task # "DRAFT"
             \/ OnBundle(ckpt.bundle) # {}
  <2>1. CASE ckpt.phase = "AWAITING_TASK_APPROVAL" /\ task = "DRAFT"
    <3>1. Accepts("BLOCK_TASK")
      BY <1>1, <2>1 DEF Accepts, TaskActions, UpToDate
    <3> QED BY <3>1 DEF OwnerAction, TaskActions
  <2>2. CASE ckpt.phase = InReview /\ OnBundle(ckpt.bundle) = {}
    <3>1. ckpt.bundle # 0 /\ ckpt.bundle = Len(bundles)
      BY <1>1, <2>2 DEF IInv, Sound, Coherent
    <3>2. Accepts("APPROVE_IMPLEMENTATION")
      BY <1>1, <2>2, <3>1 DEF Accepts, ImplementationActions, UpToDate, Linked, InReview
    <3> QED BY <3>2 DEF OwnerAction, ImplementationActions
  <2> QED BY <1>1, <2>1, <2>2
<1>2. IInv => CalledOwnerIsHeard
  BY <1>1 DEF CalledOwnerIsHeard, Classification, InReview
<1> QED BY <1>2, Invariance, PTL

\* What a step may do to the checkpoint file: its phase moves along the order of
\* the phases or, by the recovery, to PUBLISHED; a consumed decision stays consumed
\* and a counted rework cycle stays counted.
CheckpointGoesOn ==
  /\ \/ ckpt'.phase = ckpt.phase
     \/ <<ckpt.phase, ckpt'.phase>> \in PhaseMoves
     \/ ReconcileCompleted /\ ckpt'.phase = "PUBLISHED"
  /\ ckpt.consumed \subseteq ckpt'.consumed
  /\ ckpt.rework <= ckpt'.rework

LEMMA CheckpointGoesOnStep ==
  ASSUME IInv, [Next]_vars
  PROVE  CheckpointGoesOn
<1>1. \/ ckpt'.phase = ckpt.phase
      \/ <<ckpt.phase, ckpt'.phase>> \in PhaseMoves
      \/ ReconcileCompleted /\ ckpt'.phase = "PUBLISHED"
  <2>1. CASE ReconcileCompleted
    BY <2>1, RecoveryFacts
  <2>2. CASE ckpt' = mem' /\ (apply \/ pc \notin {"idle", "loop", "owner"})
    <3>1. mem.phase = ckpt.phase
      BY <2>2 DEF IInv, InStep
    <3>2. CASE \/ \E a \in BOOLEAN : StartRun(a)
               \/ \E a \in BOOLEAN, act \in OwnerAction \cup {"none"} : Resume(a, act)
      BY <3>2 DEF StartRun, Resume, Command
    <3> QED BY <2>1, <2>2, <3>1, <3>2, PhaseStep
  <2> QED BY <2>1, <2>2, CheckpointStep
<1>2. ckpt.consumed \subseteq ckpt'.consumed
  BY ConsumedStep
<1>3. ckpt.rework <= ckpt'.rework
  <2>1. ckpt.rework \in Nat
    BY References DEF Checkpoint
  <2> QED BY <2>1, ConsumedStep
<1> QED BY <1>1, <1>2, <1>3 DEF CheckpointGoesOn

\* No crash, resume, owner action or operator takes the checkpoint of a run back:
\* neither to an earlier phase, but for the rework, nor to a decision it consumed.
THEOREM CheckpointAdvances == Spec => [][CheckpointGoesOn]_vars
<1>1. IInv /\ [Next]_vars => [CheckpointGoesOn]_vars
  BY CheckpointGoesOnStep
<1> QED BY <1>1, Invariance, PTL DEF Spec

=============================================================================
