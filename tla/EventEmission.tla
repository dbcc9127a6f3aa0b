--------------------------- MODULE EventEmission ---------------------------
(***************************************************************************)
(* ObjectNode::setEvent: an event object of the application, a list of     *)
(* browse paths and values, becomes an event node of UA_Server, is         *)
(* triggered and deleted again.  UA_Server is external: it may refuse to   *)
(* create or to trigger an event, does not know every path and does not    *)
(* accept every value.                                                     *)
(***************************************************************************)
EXTENDS EventFields

CONSTANTS
  Garbage,        \* the value of a UA_NodeId that was never set
  MaxFields,      \* bound on the fields of an event object
  MaxEvents       \* bound on the calls of setEvent

ASSUME EventsAssumption ==
  /\ {"Message", "SourceNode", "Transition", "Transition/Id"} \subseteq Paths
  /\ Resolves \subseteq Paths
  /\ \A o \in Objects : <<"SourceNode", o>> \notin Refused
  /\ MaxFields \in Nat /\ MaxEvents \in Nat

\* The nodes UA_Server makes of events, numbered as they are made.
Nodes == 1..MaxEvents

ASSUME NoneAssumption == None \notin Content /\ Garbage \notin Nat

VARIABLES
  eventFields, \* BaseEventType::eventFields
  nodes,       \* the event nodes of UA_Server
  made,        \* how many it made
  pc,          \* in setEvent: "create", "write" or "trigger"; else "idle"
  event,       \* its arguments: the event
  object,      \* and the object
  next,        \* the next field to write
  eventNodeId, \* its local variable, whose memory keeps what was there
  calls,       \* calls of setEvent so far
  sent,        \* what UA_Server reported to its clients, and what was asked
  failed       \* history: <<"create" or "trigger", the call in which it failed>>

vars == <<eventFields, nodes, made, pc, event, object, next, eventNodeId,
          calls, sent, failed>>
locals == <<nodes, made, pc, event, object, next, eventNodeId, calls, sent,
            failed>>

Report == [object: Objects, asked: Seq(Field), content: Content]

TypeOK ==
  /\ eventFields \in [Events -> Seq(Field)]
  /\ nodes \in [Nodes -> Content \cup {None}]
  /\ made \in 0..MaxEvents
  /\ pc \in {"idle", "create", "write", "trigger"}
  /\ event \in Events /\ object \in Objects
  /\ next \in Nat \ {0}
  /\ eventNodeId \in 1..made \cup {Garbage}
  /\ calls \in 0..MaxEvents
  /\ sent \in Seq(Report)
  /\ failed \subseteq {"create", "trigger"} \X (1..calls)

Init ==
  /\ eventFields = [e \in Events |-> <<>>]
  /\ nodes = [n \in Nodes |-> None]
  /\ made = 0
  /\ pc = "idle"
  /\ event \in Events /\ object \in Objects
  /\ next = 1
  /\ eventNodeId = Garbage
  /\ calls = 0
  /\ sent = <<>>
  /\ failed = {}

-----------------------------------------------------------------------------
(* The application fills an event object.                                  *)

EmplaceBack(e, new) ==
  /\ Len(eventFields[e]) + Len(new) <= MaxFields
  /\ eventFields' = [eventFields EXCEPT ![e] = @ \o new]

SetMessage(e, v) ==
  /\ pc = "idle"
  /\ EmplaceBack(e, <<[path |-> "Message", value |-> v]>>)
  /\ UNCHANGED locals

SetTransition(e, v, id) ==
  /\ pc = "idle"
  /\ EmplaceBack(e, <<[path |-> "Transition", value |-> v],
                      [path |-> "Transition/Id", value |-> id]>>)
  /\ UNCHANGED locals

SetEventField(e, path, v) ==
  /\ pc = "idle"
  /\ EmplaceBack(e, <<[path |-> path, value |-> v]>>)
  /\ UNCHANGED locals

-----------------------------------------------------------------------------
(* setEvent.                                                               *)

\* Mutant of SetEvent: the source is put before the fields that are there.
SetEventSourceFirst(e, o) ==
  /\ pc = "idle" /\ calls < MaxEvents
  /\ Len(eventFields[e]) < MaxFields
  /\ eventFields' = [eventFields EXCEPT ![e] =
                       <<[path |-> "SourceNode", value |-> o]>> \o @]
  /\ event' = e /\ object' = o
  /\ pc' = "create"
  /\ calls' = calls + 1
  /\ UNCHANGED <<nodes, made, next, eventNodeId, sent, failed>>

\* setSourceNode, and a UA_NodeId that is not initialized: it holds what the
\* last call left there, or anything else.
SetEvent(e, o) ==
  /\ pc = "idle" /\ calls < MaxEvents
  /\ EmplaceBack(e, <<[path |-> "SourceNode", value |-> o]>>)
  /\ event' = e /\ object' = o
  /\ pc' = "create"
  /\ eventNodeId' \in {eventNodeId, Garbage}
  /\ calls' = calls + 1
  /\ UNCHANGED <<nodes, made, next, sent, failed>>

\* Mutant of CreateEvent: the fields are counted from 0.
CreateEventFromZero ==
  /\ pc = "create" /\ made < MaxEvents
  /\ made' = made + 1
  /\ eventNodeId' = made + 1
  /\ nodes' = [nodes EXCEPT ![made + 1] = [path \in Paths |-> Initially(path)]]
  /\ next' = 0
  /\ pc' = "write"
  /\ UNCHANGED <<eventFields, event, object, calls, sent, failed>>

\* UA_Server_createEvent, and the properties that setUpEvent writes first.
CreateEvent ==
  /\ pc = "create" /\ made < MaxEvents
  /\ made' = made + 1
  /\ eventNodeId' = made + 1
  /\ nodes' = [nodes EXCEPT ![made + 1] = [path \in Paths |-> Initially(path)]]
  /\ next' = 1
  /\ pc' = "write"
  /\ UNCHANGED <<eventFields, event, object, calls, sent, failed>>

\* setUpEvent returns, setEvent logs and goes on.
CreateFails ==
  /\ pc = "create"
  /\ pc' = "trigger"
  /\ failed' = failed \cup {<<"create", calls>>}
  /\ UNCHANGED <<eventFields, nodes, made, event, object, next, eventNodeId,
                 calls, sent>>

\* Mutant of WriteField: the rest of the fields is dropped with one that fails.
WriteFieldOrGiveUp ==
  /\ pc = "write" /\ next <= Len(eventFields[event])
  /\ LET f == eventFields[event][next]
     IN  IF Accepted(f)
         THEN /\ nodes' = [nodes EXCEPT ![eventNodeId][f.path] = f.value]
              /\ next' = next + 1
         ELSE /\ next' = Len(eventFields[event]) + 1
              /\ UNCHANGED nodes
  /\ UNCHANGED <<eventFields, made, pc, event, object, eventNodeId, calls, sent,
                 failed>>

\* The fields are written in their order; those that fail are skipped.
WriteField ==
  /\ pc = "write" /\ next <= Len(eventFields[event])
  /\ LET f == eventFields[event][next]
     IN  nodes' = IF Accepted(f)
                  THEN [nodes EXCEPT ![eventNodeId][f.path] = f.value]
                  ELSE nodes
  /\ next' = next + 1
  /\ UNCHANGED <<eventFields, made, pc, event, object, eventNodeId, calls, sent,
                 failed>>

\* Mutant of Written: the last field is not written.
WrittenButLast ==
  /\ pc = "write" /\ next >= Len(eventFields[event])
  /\ pc' = "trigger"
  /\ UNCHANGED <<eventFields, nodes, made, event, object, next, eventNodeId,
                 calls, sent, failed>>

Written ==
  /\ pc = "write" /\ next > Len(eventFields[event])
  /\ pc' = "trigger"
  /\ UNCHANGED <<eventFields, nodes, made, event, object, next, eventNodeId,
                 calls, sent, failed>>

IsEvent(id) == id \in Nodes /\ nodes[id] # None

\* Mutant of Trigger: with UA_FALSE, UA_Server keeps the node.
TriggerKeeps ==
  /\ pc = "trigger" /\ IsEvent(eventNodeId)
  /\ sent' = Append(sent, [object |-> object, asked |-> eventFields[event],
                           content |-> nodes[eventNodeId]])
  /\ pc' = "idle"
  /\ UNCHANGED <<eventFields, nodes, made, event, object, next, eventNodeId,
                 calls, failed>>

\* UA_Server_triggerEvent reports the event and deletes its node.
Trigger ==
  /\ pc = "trigger" /\ IsEvent(eventNodeId)
  /\ sent' = Append(sent, [object |-> object, asked |-> eventFields[event],
                           content |-> nodes[eventNodeId]])
  /\ nodes' = [nodes EXCEPT ![eventNodeId] = None]
  /\ pc' = "idle"
  /\ UNCHANGED <<eventFields, made, event, object, next, eventNodeId, calls,
                 failed>>

TriggerFails ==
  /\ pc = "trigger"
  /\ failed' = IF IsEvent(eventNodeId) THEN failed \cup {<<"trigger", calls>>}
                ELSE failed
  /\ pc' = "idle"
  /\ UNCHANGED <<eventFields, nodes, made, event, object, next, eventNodeId,
                 calls, sent>>

-----------------------------------------------------------------------------
Next ==
  \/ \E e \in Events, v \in Values : SetMessage(e, v)
  \/ \E e \in Events, v \in Values, id \in Values : SetTransition(e, v, id)
  \/ \E e \in Events, path \in Paths, v \in Values : SetEventField(e, path, v)
  \/ \E e \in Events, o \in Objects : SetEvent(e, o)
  \/ CreateEvent \/ CreateFails
  \/ WriteField \/ Written
  \/ Trigger \/ TriggerFails

Spec == Init /\ [][Next]_vars

-----------------------------------------------------------------------------
(* Properties.                                                             *)

Failed(what) == \E k \in 1..calls : <<what, k>> \in failed

\* UA_Server fails at one of the two at most: an id that was not set cannot be
\* that of an event it left behind.
Reliable == ~(Failed("create") /\ Failed("trigger"))

\* Each event that clients get carries the value set last for each field and
\* nothing from an earlier event, also when the event object is used again,
\* when fields fail, and when UA_Server fails to create events or to trigger
\* them.  When it does both, an old event may be sent.
CarriesLatest ==
  Reliable => \A k \in 1..Len(sent) :
    Carries(sent[k].content, sent[k].asked, Len(sent[k].asked))

\* An event names the object it was set on, although the object before is still
\* among the fields of the event object.
NamesItsSource ==
  Reliable => \A k \in 1..Len(sent) :
    "SourceNode" \in Resolves => sent[k].content["SourceNode"] = sent[k].object

\* setEvent leaves no event node behind, if UA_Server triggers what it created.
NoNodeLeft ==
  pc = "idle" /\ ~Failed("trigger") => \A n \in Nodes : nodes[n] = None

\* setEvent implements EventDelivery: every call is reported exactly once, in
\* the order of the calls and with the fields of its event object at that call,
\* or is one in which UA_Server failed.
Delivery == INSTANCE EventDelivery WITH
  fields <- eventFields, reports <- sent, failures <- failed,
  open <- IF pc = "idle" THEN <<>> ELSE <<event, object>>

DeliverySpec == Delivery!Spec
=============================================================================
