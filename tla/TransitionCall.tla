--------------------------- MODULE TransitionCall ---------------------------
(***************************************************************************)
(* One call of transition_task() of advancore/agent_runner/lifecycle.py as *)
(* a value, for the modules in which several processes move one task file. *)
(* The call parses the file, reads its STATUS line again and checks the    *)
(* authority table, reads the text a third time, truncates the file and    *)
(* fills it; it takes no lock.  TaskLifecycle has the whole function, with *)
(* its previews and its audit record.                                      *)
(***************************************************************************)
EXTENDS LifecycleTable

Torn == "TORN"  \* write_text() has truncated the file and not yet filled it

TaskTexts == TaskStatus \cup {Torn}

CallStep == {"none", "find", "read", "load", "truncate", "fill"}

\* from is the status the call has parsed.
TransitionCalls == [step : CallStep, from : TaskStatus, to : TaskStatus, actor : ActorRole]
NoCall == [step |-> "none", from |-> "DRAFT", to |-> "DRAFT", actor |-> "worker"]

CallOf(requested, role) == [NoCall EXCEPT !.step = "find", !.to = requested, !.actor = role]

\* Mutant: the second reading is enough.
GrantedUnchecked(call, text) == text = call.from
\* The second reading agrees with the first, and the table grants the move.
Granted(call, text) ==
  /\ text = call.from
  /\ IsTransitionAllowed(call.from, call.to, call.actor)

\* The call returns without having written: the file does not parse, the move
\* is not granted, or the line to rewrite is not there.
Refused(call, text) ==
  \/ call.step = "find" /\ text = Torn
  \/ call.step = "read" /\ ~Granted(call, text)
  \/ call.step = "load" /\ text = Torn

NextStep == [find |-> "read", read |-> "load", load |-> "truncate", truncate |-> "fill"]

\* One step of a call that is not refused, on the text the file has now ...
Advanced(call, text) ==
  CASE call.step = "find" -> [call EXCEPT !.step = "read", !.from = text]
    [] call.step \in {"read", "load", "truncate"} -> [call EXCEPT !.step = NextStep[@]]
    [] OTHER -> NoCall

\* ... and the text it leaves there.
Written(call, text) ==
  CASE call.step = "truncate" -> Torn
    [] call.step = "fill" -> call.to
    [] OTHER -> text

\* What goes is not the status the call has checked, or not the empty file it has
\* left.
Overwrites(call, text) ==
  \/ call.step = "truncate" /\ text # call.from
  \/ call.step = "fill" /\ text # Torn

\* A call that is past its check has had its move granted.
Writing == {"load", "truncate", "fill"}
MoveGranted(call) ==
  call.step \in Writing => IsTransitionAllowed(call.from, call.to, call.actor)
=============================================================================
