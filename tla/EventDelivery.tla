--------------------------- MODULE EventDelivery ---------------------------
(***************************************************************************)
(* What an application may expect of setEvent: each call ends in exactly   *)
(* one report to the clients, before the next call begins, with the latest *)
(* value of every field set until then; or a function of UA_Server failed  *)
(* in that very call, and nothing is reported.                             *)
(***************************************************************************)
EXTENDS EventFields

VARIABLES
  fields,   \* what the application put in its event objects
  calls,    \* calls of setEvent so far
  open,     \* the <<event, object>> of the one that has not returned, or <<>>
  reports,  \* what clients got, in their order
  failures  \* <<what failed, in which call>>

vars == <<fields, calls, open, reports, failures>>

Init ==
  /\ fields = [e \in Events |-> <<>>]
  /\ calls = 0
  /\ open = <<>>
  /\ reports = <<>>
  /\ failures = {}

\* Both kinds have failed: an event that was not triggered may be left behind,
\* for a call that could not create one.
Unreliable ==
  \A what \in {"create", "trigger"} : \E k \in 1..calls : <<what, k>> \in failures

FailedNow == \E what \in {"create", "trigger"} : <<what, calls>> \in failures'

\* Fields are only added to.
Extended(old, new) ==
  new \in Seq(Field) /\ Len(old) <= Len(new) /\ \A k \in 1..Len(old) : new[k] = old[k]

Fill(e) ==
  /\ open = <<>>
  /\ Extended(fields[e], fields'[e])
  /\ fields' = [fields EXCEPT ![e] = fields'[e]]
  /\ UNCHANGED <<calls, open, reports, failures>>

SetEvent(e, o) ==
  /\ open = <<>>
  /\ fields' = [fields EXCEPT ![e] = Append(@, [path |-> "SourceNode", value |-> o])]
  /\ calls' = calls + 1
  /\ open' = <<e, o>>
  /\ UNCHANGED <<reports, failures>>

CreateFails ==
  /\ open # <<>>
  /\ failures' = failures \cup {<<"create", calls>>}
  /\ UNCHANGED <<fields, calls, open, reports>>

\* What is sent is what was asked; that of a call that could not create its
\* event is another one only when it was left behind.
Report(e, o) ==
  LET content == reports'[Len(reports) + 1].content
  IN  /\ open = <<e, o>> /\ open' = <<>>
      /\ Len(reports') = Len(reports) + 1
      /\ reports' = Append(reports, [object |-> o, asked |-> fields[e],
                                     content |-> content])
      /\ content \in Content
      /\ Unreliable \/ (~FailedNow /\ Carries(content, fields[e], Len(fields[e])))
      /\ UNCHANGED <<fields, calls, failures>>

GiveUp ==
  /\ open # <<>> /\ open' = <<>>
  /\ failures' \in {failures, failures \cup {<<"trigger", calls>>}}
  /\ FailedNow
  /\ UNCHANGED <<fields, calls, reports>>

Next ==
  \/ \E e \in Events : Fill(e)
  \/ \E e \in Events, o \in Objects : SetEvent(e, o) \/ Report(e, o)
  \/ CreateFails
  \/ GiveUp

Spec == Init /\ [][Next]_vars
=============================================================================
