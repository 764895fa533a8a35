------------------------ MODULE TransitionCallProofs ------------------------
(***************************************************************************)
(* Lemmas about the steps of a call of transition_task(), for the modules  *)
(* in which several processes make them.                                   *)
(***************************************************************************)
EXTENDS TransitionCall, TLAPS

\* APPROVED is final in the authority table.
LEMMA ApprovedIsFinal ==
  \A to, actor : ~IsTransitionAllowed("APPROVED", to, actor)
  BY DEF IsTransitionAllowed, TransitionAuthority, NonFinalWorkingStates

\* A new call is well typed and has not parsed the file yet.
LEMMA CallOfType ==
  ASSUME NEW requested \in TaskStatus, NEW role \in ActorRole
  PROVE  /\ CallOf(requested, role) \in TransitionCalls
         /\ CallOf(requested, role).step = "find" /\ CallOf(requested, role).to = requested
         /\ CallOf(requested, role).actor = role
         /\ NoCall \in TransitionCalls /\ NoCall.step = "none"
<1>1. NoCall \in TransitionCalls /\ NoCall.step = "none"
  BY DEF NoCall, TransitionCalls, CallStep, TaskStatus, ActorRole
<1> QED BY <1>1 DEF CallOf, NoCall, TransitionCalls, CallStep

\* The steps of a call follow each other, it keeps its request, and what it has
\* parsed stays what it has parsed.
LEMMA CallSteps ==
  ASSUME NEW c \in TransitionCalls, NEW text \in TaskTexts, ~Refused(c, text),
         NEW a, a = Advanced(c, text)
  PROVE  /\ a \in TransitionCalls
         /\ Written(c, text) \in TaskTexts
         /\ c.step \in CallStep
         /\ c.step \notin {"none", "fill"} => a.to = c.to /\ a.actor = c.actor
         /\ c.step = "find" => a.step = "read" /\ a.from = text
         /\ c.step \in {"read", "load", "truncate"} => a.from = c.from
         /\ c.step = "read" => a.step = "load"
         /\ c.step = "load" => a.step = "truncate"
         /\ c.step = "truncate" => a.step = "fill"
         /\ c.step \in {"none", "fill"} => a.step = "none"
<1>1. c.step \in {"none", "find", "read", "load", "truncate", "fill"}
  BY DEF TransitionCalls, CallStep
<1>2. NoCall \in TransitionCalls /\ NoCall.step = "none"
  BY DEF NoCall, TransitionCalls, CallStep, TaskStatus, ActorRole
<1>3. Written(c, text) \in TaskTexts
  BY DEF Written, TaskTexts, TransitionCalls
<1>4. CASE c.step = "find"
  <2>1. text \in TaskStatus
    BY <1>4 DEF Refused, TaskTexts
  <2>2. a = [c EXCEPT !.step = "read", !.from = text]
    BY <1>4 DEF Advanced
  <2> QED BY <1>3, <1>4, <2>1, <2>2 DEF TransitionCalls, CallStep
<1>5. CASE c.step = "read"
  BY <1>3, <1>5 DEF Advanced, NextStep, TransitionCalls, CallStep
<1>6. CASE c.step = "load"
  BY <1>3, <1>6 DEF Advanced, NextStep, TransitionCalls, CallStep
<1>7. CASE c.step = "truncate"
  BY <1>3, <1>7 DEF Advanced, NextStep, TransitionCalls, CallStep
<1>8. CASE c.step \in {"none", "fill"}
  BY <1>2, <1>3, <1>8 DEF Advanced, CallStep
<1> QED BY <1>1, <1>4, <1>5, <1>6, <1>7, <1>8

\* A granted move stays granted while the call goes on.
LEMMA GrantIsKept ==
  ASSUME NEW c \in TransitionCalls, NEW text \in TaskTexts, ~Refused(c, text),
         NEW a, a = Advanced(c, text),
         MoveGranted(c)
  PROVE  MoveGranted(a)
<1>0. /\ c.step \in CallStep
      /\ c.step \notin {"none", "fill"} => a.to = c.to /\ a.actor = c.actor
      /\ c.step \in {"read", "load", "truncate"} => a.from = c.from
      /\ c.step = "find" => a.step = "read"
      /\ c.step \in {"none", "fill"} => a.step = "none"
  BY CallSteps
<1>1. CASE c.step \in {"none", "find", "fill"}
  BY <1>0, <1>1 DEF MoveGranted, Writing
<1>2. CASE c.step \in {"read", "load", "truncate"}
  <2>1. IsTransitionAllowed(c.from, c.to, c.actor)
    BY <1>2 DEF Refused, Granted, MoveGranted, Writing
  <2> QED BY <1>0, <1>2, <2>1 DEF MoveGranted
<1> QED BY <1>0, <1>1, <1>2 DEF CallStep
=============================================================================
