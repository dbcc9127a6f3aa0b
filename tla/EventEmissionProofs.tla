------------------------ MODULE EventEmissionProofs ------------------------
(***************************************************************************)
(* What clients get of an event is what was set last, for any events,      *)
(* paths and values, as long as UA_Server fails to create events or to     *)
(* trigger them, but not both.                                             *)
(***************************************************************************)
EXTENDS EventEmission, SequenceTheorems, TLAPS

\* The last field of an event that is being sent is its source.
SourceIsLast ==
  LET fields == eventFields[event]
  IN  pc # "idle" =>
        /\ Len(fields) # 0
        /\ fields[Len(fields)] = [path |-> "SourceNode", value |-> object]

\* While fields are written the node carries those before the next one.
WritesSoFar ==
  pc = "write" =>
    /\ IsEvent(eventNodeId)
    /\ next <= Len(eventFields[event]) + 1
    /\ Carries(nodes[eventNodeId], eventFields[event], next - 1)

\* An event that is triggered is complete.
WritesDone ==
  Reliable /\ pc = "trigger" /\ IsEvent(eventNodeId) =>
    Carries(nodes[eventNodeId], eventFields[event], Len(eventFields[event]))

\* Ids are new, and between calls no event node is left.
NodesAreOwn ==
  /\ \A n \in Nodes : nodes[n] # None => n <= made
  /\ ~Failed("trigger") =>
       \A n \in Nodes :
         nodes[n] # None => pc \in {"write", "trigger"} /\ n = eventNodeId

\* What may have failed in the call that is running, and what follows.
ThisCall ==
  /\ pc # "idle" => <<"trigger", calls>> \notin failed /\ calls # 0
  /\ pc \in {"create", "write"} => <<"create", calls>> \notin failed
  /\ pc = "trigger" /\ <<"create", calls>> \notin failed => IsEvent(eventNodeId)
  /\ Reliable /\ pc = "trigger" /\ IsEvent(eventNodeId) =>
       <<"create", calls>> \notin failed

IInv ==
  /\ TypeOK /\ ThisCall
  /\ SourceIsLast /\ WritesSoFar /\ WritesDone /\ NodesAreOwn
  /\ CarriesLatest /\ NamesItsSource

-----------------------------------------------------------------------------
(* What a list of fields makes of an event.                                *)

\* A node that was just created carries no field.
LEMMA CarriesNothing ==
  ASSUME NEW fields
  PROVE  Carries([path \in Paths |-> Initially(path)], fields, 0)
  BY DEF Carries, Settings

\* A field that is written hides those before it of the same path.
LEMMA CarriesWritten ==
  ASSUME NEW fields \in Seq(Field), NEW n \in 1..Len(fields), NEW c \in Content,
         Carries(c, fields, n - 1), Accepted(fields[n])
  PROVE  Carries([c EXCEPT ![fields[n].path] = fields[n].value], fields, n)
<1> DEFINE d == [c EXCEPT ![fields[n].path] = fields[n].value]
<1>1. fields[n].path \in Paths /\ n \in Nat
  <2>1. fields[n] \in Field
    BY ElementOfSeq
  <2> QED BY <2>1 DEF Field
<1>2. SUFFICES ASSUME NEW path \in Paths
               PROVE  \/ /\ Settings(fields, n, path) = {}
                         /\ d[path] = Initially(path)
                      \/ \E k \in Settings(fields, n, path) :
                           /\ \A j \in Settings(fields, n, path) : j <= k
                           /\ d[path] = fields[k].value
  BY DEF Carries
<1>3. CASE path = fields[n].path
  <2>1. n \in Settings(fields, n, path) /\ d[path] = fields[n].value
    BY <1>1, <1>3 DEF Settings, Content
  <2>2. \A j \in Settings(fields, n, path) : j <= n
    BY <1>1 DEF Settings
  <2> QED BY <2>1, <2>2
<1>4. CASE path # fields[n].path
  <2>1. Settings(fields, n, path) = Settings(fields, n - 1, path)
    BY <1>1, <1>4 DEF Settings
  <2>2. d[path] = c[path]
    BY <1>4 DEF Content
  <2> QED BY <2>1, <2>2 DEF Carries
<1> QED BY <1>3, <1>4

\* A field that fails changes nothing.
LEMMA CarriesSkipped ==
  ASSUME NEW fields \in Seq(Field), NEW n \in 1..Len(fields), NEW c,
         Carries(c, fields, n - 1), ~Accepted(fields[n])
  PROVE  Carries(c, fields, n)
<1>1. \A path : Settings(fields, n, path) = Settings(fields, n - 1, path)
  BY DEF Settings
<1> QED BY <1>1 DEF Carries

\* The last field wins.
LEMMA CarriesLast ==
  ASSUME NEW fields \in Seq(Field), Len(fields) # 0, NEW c,
         Carries(c, fields, Len(fields)),
         Accepted(fields[Len(fields)])
  PROVE  c[fields[Len(fields)].path] = fields[Len(fields)].value
<1> DEFINE n == Len(fields)
<1>1. n \in 1..n /\ fields[n].path \in Paths
  <2>1. n \in 1..n
    OBVIOUS
  <2>2. fields[n] \in Field
    BY <2>1, ElementOfSeq
  <2> QED BY <2>1, <2>2 DEF Field
<1>2. n \in Settings(fields, n, fields[n].path)
  BY <1>1 DEF Settings
<1>3. PICK k \in Settings(fields, n, fields[n].path) :
        /\ \A j \in Settings(fields, n, fields[n].path) : j <= k
        /\ c[fields[n].path] = fields[k].value
  BY <1>1, <1>2 DEF Carries
<1>4. k = n
  BY <1>1, <1>2, <1>3 DEF Settings
<1> QED BY <1>3, <1>4

-----------------------------------------------------------------------------
\* A call that begins has not failed, and leaves what failed before as it was.
LEMMA BeginsUnfailed ==
  ASSUME TypeOK, calls < MaxEvents, calls' = calls + 1, failed' = failed
  PROVE  /\ \A what : Failed(what)' <=> Failed(what)
         /\ Reliable' <=> Reliable
         /\ \A what : <<what, calls'>> \notin failed'
         /\ failed' \subseteq {"create", "trigger"} \X (1..calls')
<1> USE EventsAssumption
<1>1. /\ calls \in Nat
      /\ failed \subseteq {"create", "trigger"} \X (1..calls)
  BY DEF TypeOK
<1>2. \A what : Failed(what)' <=> Failed(what)
  BY <1>1 DEF Failed
<1> QED BY <1>1, <1>2 DEF Reliable

\* What fails in the call that is running has failed; the rest stays.
LEMMA FailsNow ==
  ASSUME TypeOK, calls # 0, NEW what \in {"create", "trigger"}, calls' = calls,
         failed' = failed \cup {<<what, calls>>}
  PROVE  /\ Failed(what)'
         /\ \A other : other # what => (Failed(other)' <=> Failed(other))
         /\ Reliable' => Reliable
         /\ failed' \subseteq {"create", "trigger"} \X (1..calls')
<1> USE EventsAssumption
<1>1. calls \in 1..calls
  BY DEF TypeOK
<1>2. Failed(what)'
  BY <1>1 DEF Failed
<1>3. \A other : other # what => (Failed(other)' <=> Failed(other))
  BY DEF Failed
<1>4. \A other : Failed(other) => Failed(other)'
  BY DEF Failed
<1> QED BY <1>1, <1>2, <1>3, <1>4 DEF Reliable, TypeOK

-----------------------------------------------------------------------------
LEMMA InitIInv == Init => IInv
<1> SUFFICES ASSUME Init PROVE IInv
  OBVIOUS
<1> USE EventsAssumption, NoneAssumption DEF Init
<1>1. TypeOK
  BY DEF TypeOK
<1>2. SourceIsLast /\ WritesSoFar /\ WritesDone /\ NodesAreOwn /\ ThisCall
  BY DEF SourceIsLast, WritesSoFar, WritesDone, NodesAreOwn, ThisCall, IsEvent, TypeOK
<1>3. CarriesLatest /\ NamesItsSource
  BY DEF CarriesLatest, NamesItsSource
<1> QED BY <1>1, <1>2, <1>3 DEF IInv

\* The application fills an event object when none is being sent.
LEMMA EmplaceIInv ==
  ASSUME IInv, NEW e \in Events, NEW new \in Seq(Field), pc = "idle",
         EmplaceBack(e, new), UNCHANGED locals
  PROVE  IInv'
<1> USE DEF IInv, locals, Reliable, Failed
<1>1. TypeOK'
  BY ConcatProperties DEF TypeOK, EmplaceBack
<1>2. SourceIsLast' /\ WritesSoFar' /\ WritesDone' /\ NodesAreOwn' /\ ThisCall'
  BY DEF SourceIsLast, WritesSoFar, WritesDone, NodesAreOwn, ThisCall, IsEvent, TypeOK
<1>3. CarriesLatest' /\ NamesItsSource'
  BY DEF CarriesLatest, NamesItsSource
<1> QED BY <1>1, <1>2, <1>3

\* setEvent puts the object last.
LEMMA SetEventIInv ==
  ASSUME IInv, NEW e \in Events, NEW o \in Objects, SetEvent(e, o)
  PROVE  IInv'
<1> DEFINE source == [path |-> "SourceNode", value |-> o]
           fields == eventFields[e]
<1> USE EventsAssumption DEF IInv
<1>1. /\ pc = "idle" /\ pc' = "create" /\ event' = e /\ object' = o
      /\ nodes' = nodes /\ made' = made /\ next' = next /\ sent' = sent
      /\ failed' = failed /\ calls < MaxEvents /\ calls' = calls + 1
      /\ eventNodeId' \in {eventNodeId, Garbage}
      /\ eventFields' = [eventFields EXCEPT ![e] = @ \o <<source>>]
  BY DEF SetEvent, EmplaceBack
<1>0. /\ \A what : Failed(what)' <=> Failed(what)
      /\ Reliable' <=> Reliable
      /\ \A what : <<what, calls'>> \notin failed'
      /\ failed' \subseteq {"create", "trigger"} \X (1..calls')
  BY <1>1, BeginsUnfailed
<1>2. source \in Field /\ fields \in Seq(Field)
  BY DEF Field, TypeOK
<1>3. /\ fields \o <<source>> = Append(fields, source)
      /\ Append(fields, source) \in Seq(Field)
      /\ Len(Append(fields, source)) = Len(fields) + 1
      /\ Append(fields, source)[Len(fields) + 1] = source
  <2> HIDE DEF source, fields
  <2> QED BY <1>2, AppendIsConcat, AppendProperties
<1>4. eventFields' \in [Events -> Seq(Field)] /\ eventFields'[e] = Append(fields, source)
  BY <1>1, <1>3 DEF TypeOK
<1>5. TypeOK'
  BY <1>0, <1>1, <1>4 DEF TypeOK
<1>6. SourceIsLast'
  BY <1>1, <1>2, <1>3, <1>4 DEF SourceIsLast
<1>7. WritesSoFar' /\ WritesDone' /\ NodesAreOwn' /\ ThisCall'
  <2>1. calls # calls' /\ calls' # 0
    BY <1>1 DEF TypeOK
  <2> QED BY <2>1, <1>1, <1>0 DEF WritesSoFar, WritesDone, NodesAreOwn, ThisCall
<1>8. CarriesLatest' /\ NamesItsSource'
  BY <1>0, <1>1 DEF CarriesLatest, NamesItsSource
<1> QED BY <1>5, <1>6, <1>7, <1>8

\* A new node; nothing is written yet.
LEMMA CreateIInv == IInv /\ CreateEvent => IInv'
<1> SUFFICES ASSUME IInv, CreateEvent PROVE IInv'
  OBVIOUS
<1> DEFINE n == made + 1
           c == [path \in Paths |-> Initially(path)]
<1> USE EventsAssumption, NoneAssumption DEF IInv, Reliable, Failed
<1>1. /\ pc = "create" /\ pc' = "write" /\ event' = event /\ object' = object
      /\ eventFields' = eventFields /\ made' = n /\ next' = 1
      /\ eventNodeId' = n /\ sent' = sent /\ calls' = calls
      /\ failed' = failed
      /\ nodes' = [nodes EXCEPT ![n] = c]
      /\ made \in Nat /\ n \in Nodes
  BY DEF CreateEvent, TypeOK, Nodes
<1>2. c \in Content
  BY DEF Content, Initially
<1>3. /\ nodes' \in [Nodes -> Content \cup {None}] /\ nodes'[n] = c
      /\ \A m \in Nodes : m # n => nodes'[m] = nodes[m]
  BY <1>1, <1>2 DEF TypeOK
<1>4. TypeOK'
  BY <1>1, <1>3 DEF TypeOK, Nodes
<1>5. SourceIsLast'
  BY <1>1 DEF SourceIsLast
<1>6. WritesSoFar'
  <2>1. eventFields[event] \in Seq(Field)
    BY DEF TypeOK
  <2>2. Carries(c, eventFields[event], 0)
    BY CarriesNothing
  <2>3. IsEvent(eventNodeId)'
    BY <1>1, <1>2, <1>3 DEF IsEvent
  <2> QED BY <1>1, <1>3, <2>1, <2>2, <2>3 DEF WritesSoFar
<1>7. WritesDone' /\ NodesAreOwn' /\ ThisCall'
  BY <1>1, <1>3 DEF WritesDone, NodesAreOwn, Nodes, ThisCall
<1>8. CarriesLatest' /\ NamesItsSource'
  BY <1>1 DEF CarriesLatest, NamesItsSource
<1> QED BY <1>4, <1>5, <1>6, <1>7, <1>8

\* What eventNodeId holds is no event.
LEMMA CreateFailsIInv == IInv /\ CreateFails => IInv'
<1> SUFFICES ASSUME IInv, CreateFails PROVE IInv'
  OBVIOUS
<1> USE EventsAssumption DEF IInv, CreateFails
<1>1. /\ Failed("create")' /\ (Failed("trigger")' <=> Failed("trigger"))
      /\ Reliable' => Reliable
      /\ failed' \subseteq {"create", "trigger"} \X (1..calls')
  BY FailsNow DEF ThisCall
<1>2. TypeOK'
  BY <1>1 DEF TypeOK
<1>3. SourceIsLast' /\ WritesSoFar' /\ NodesAreOwn'
  BY <1>1 DEF SourceIsLast, WritesSoFar, NodesAreOwn
<1>4. Reliable' => ~IsEvent(eventNodeId)'
  BY <1>1 DEF Reliable, NodesAreOwn, IsEvent
<1>5. WritesDone' /\ ThisCall'
  BY <1>1, <1>4 DEF WritesDone, ThisCall
<1>6. CarriesLatest' /\ NamesItsSource'
  BY <1>1 DEF CarriesLatest, NamesItsSource
<1> QED BY <1>2, <1>3, <1>5, <1>6

\* One more field is written, or skipped.
LEMMA WriteFieldIInv == IInv /\ WriteField => IInv'
<1> SUFFICES ASSUME IInv, WriteField PROVE IInv'
  OBVIOUS
<1> DEFINE fields == eventFields[event]
           f == fields[next]
           id == eventNodeId
<1> USE EventsAssumption, NoneAssumption DEF IInv, Reliable, Failed
<1>1. /\ pc = "write" /\ pc' = pc /\ event' = event /\ object' = object
      /\ eventFields' = eventFields /\ made' = made /\ next' = next + 1
      /\ eventNodeId' = id /\ sent' = sent /\ calls' = calls
      /\ failed' = failed
      /\ nodes' = IF Accepted(f) THEN [nodes EXCEPT ![id][f.path] = f.value] ELSE nodes
  BY DEF WriteField
<1>2. fields \in Seq(Field) /\ next \in 1..Len(fields)
  BY DEF WriteField, TypeOK
<1>3. f \in Field
  BY <1>2, ElementOfSeq
<1>4. /\ id \in Nodes /\ nodes[id] \in Content
      /\ Carries(nodes[id], fields, next - 1)
  BY <1>1 DEF WritesSoFar, IsEvent, TypeOK
<1>5. /\ nodes' \in [Nodes -> Content \cup {None}]
      /\ nodes'[id] \in Content
      /\ Carries(nodes'[id], fields, next)
      /\ \A n \in Nodes : n # id => nodes'[n] = nodes[n]
  <2>1. CASE Accepted(f)
    <3> DEFINE c == [nodes[id] EXCEPT ![f.path] = f.value]
    <3>1. nodes' = [nodes EXCEPT ![id] = c]
      BY <1>1, <2>1
    <3>2. c \in Content
      BY <1>3, <1>4 DEF Content, Field
    <3>3. Carries(c, fields, next)
      <4> HIDE DEF fields
      <4> QED BY <1>2, <1>4, <2>1, CarriesWritten
    <3> HIDE DEF c
    <3> QED BY <3>1, <3>2, <3>3, <1>4 DEF TypeOK
  <2>2. CASE ~Accepted(f)
    <3>1. nodes' = nodes
      BY <1>1, <2>2
    <3>2. Carries(nodes[id], fields, next)
      <4> HIDE DEF fields
      <4> QED BY <1>2, <1>4, <2>2, CarriesSkipped
    <3> QED BY <3>1, <3>2, <1>4 DEF TypeOK
  <2> QED BY <2>1, <2>2
<1>6. TypeOK'
  BY <1>1, <1>2, <1>5 DEF TypeOK
<1>7. SourceIsLast'
  BY <1>1 DEF SourceIsLast
<1>8. WritesSoFar'
  BY <1>1, <1>2, <1>4, <1>5 DEF WritesSoFar, IsEvent
<1>9. WritesDone' /\ NodesAreOwn' /\ ThisCall'
  BY <1>1, <1>4, <1>5 DEF WritesDone, NodesAreOwn, WritesSoFar, IsEvent, ThisCall
<1>10. CarriesLatest' /\ NamesItsSource'
  BY <1>1 DEF CarriesLatest, NamesItsSource
<1> QED BY <1>6, <1>7, <1>8, <1>9, <1>10

LEMMA WrittenIInv == IInv /\ Written => IInv'
<1> SUFFICES ASSUME IInv, Written PROVE IInv'
  OBVIOUS
<1> USE EventsAssumption DEF IInv, Reliable, Failed, Written
<1>1. TypeOK'
  BY DEF TypeOK
<1>2. SourceIsLast' /\ WritesSoFar' /\ NodesAreOwn'
  BY DEF SourceIsLast, WritesSoFar, NodesAreOwn
<1>3. WritesDone'
  <2>1. eventFields[event] \in Seq(Field) /\ next \in Nat
    BY DEF TypeOK
  <2>2. next = Len(eventFields[event]) + 1
    BY <2>1 DEF WritesSoFar
  <2>3. next - 1 = Len(eventFields[event])
    BY <2>1, <2>2
  <2> QED BY <2>3 DEF WritesSoFar, WritesDone
<1>4. ThisCall'
  BY DEF ThisCall, WritesSoFar, IsEvent
<1>5. CarriesLatest' /\ NamesItsSource'
  BY DEF CarriesLatest, NamesItsSource
<1> QED BY <1>1, <1>2, <1>3, <1>4, <1>5

\* The report is what the node carries; its last field was the source.
LEMMA TriggerIInv == IInv /\ Trigger => IInv'
<1> SUFFICES ASSUME IInv, Trigger PROVE IInv'
  OBVIOUS
<1> DEFINE fields == eventFields[event]
           c == nodes[eventNodeId]
           report == [object |-> object, asked |-> fields, content |-> c]
           n == Len(sent)
<1> USE EventsAssumption, NoneAssumption DEF IInv, Reliable, Failed
<1>1. /\ pc = "trigger" /\ pc' = "idle" /\ event' = event /\ object' = object
      /\ eventFields' = eventFields /\ made' = made /\ next' = next
      /\ eventNodeId' = eventNodeId /\ calls' = calls /\ failed' = failed
      /\ eventNodeId \in Nodes /\ c # None
      /\ nodes' = [nodes EXCEPT ![eventNodeId] = None]
      /\ sent' = Append(sent, report)
  BY DEF Trigger, IsEvent
<1>2. fields \in Seq(Field) /\ c \in Content /\ report \in Report
  BY <1>1 DEF TypeOK, Report
<1>3. Reliable => Carries(c, fields, Len(fields))
  BY <1>1 DEF WritesDone, IsEvent
<1>4. Reliable /\ "SourceNode" \in Resolves => c["SourceNode"] = object
  <2>1. /\ Len(fields) # 0
        /\ fields[Len(fields)] = [path |-> "SourceNode", value |-> object]
    BY <1>1 DEF SourceIsLast
  <2>2. "SourceNode" \in Resolves => Accepted(fields[Len(fields)])
    BY <2>1 DEF Accepted, TypeOK
  <2>3. Reliable /\ "SourceNode" \in Resolves =>
          c[fields[Len(fields)].path] = fields[Len(fields)].value
    <3> HIDE DEF fields, c
    <3> QED BY <2>1, <2>2, <1>2, <1>3, CarriesLast
  <2> QED BY <2>1, <2>3
<1>5. /\ sent' \in Seq(Report) /\ Len(sent') = n + 1 /\ n \in Nat
      /\ \A k \in 1..n : sent'[k] = sent[k]
      /\ sent'[n + 1] = report
  <2>1. sent \in Seq(Report)
    BY DEF TypeOK
  <2> HIDE DEF report
  <2> QED BY <2>1, <1>1, <1>2, AppendProperties
<1>6. /\ nodes' \in [Nodes -> Content \cup {None}] /\ nodes'[eventNodeId] = None
      /\ \A m \in Nodes : m # eventNodeId => nodes'[m] = nodes[m]
  BY <1>1 DEF TypeOK
<1>7. TypeOK'
  BY <1>1, <1>5, <1>6 DEF TypeOK
<1>8. SourceIsLast' /\ WritesSoFar' /\ WritesDone'
  BY <1>1 DEF SourceIsLast, WritesSoFar, WritesDone
<1>9. NodesAreOwn' /\ ThisCall'
  BY <1>1, <1>6 DEF NodesAreOwn, ThisCall
<1>10. CarriesLatest'
  <2>1. report.content = c /\ report.asked = fields
    OBVIOUS
  <2>2. ASSUME Reliable, NEW k \in 1..Len(sent')
        PROVE  Carries(sent'[k].content, sent'[k].asked, Len(sent'[k].asked))
    <3>1. CASE k \in 1..n
      BY <2>2, <3>1, <1>5 DEF CarriesLatest
    <3>2. CASE k = n + 1
      BY <2>2, <3>2, <1>3, <1>5, <2>1
    <3> QED BY <3>1, <3>2, <1>5
  <2> QED BY <2>2, <1>1 DEF CarriesLatest
<1>11. NamesItsSource'
  <2>1. report.content = c /\ report.object = object
    OBVIOUS
  <2> HIDE DEF report, c
  <2> QED BY <2>1, <1>1, <1>4, <1>5 DEF NamesItsSource
<1> QED BY <1>7, <1>8, <1>9, <1>10, <1>11

LEMMA TriggerFailsIInv == IInv /\ TriggerFails => IInv'
<1> SUFFICES ASSUME IInv, TriggerFails PROVE IInv'
  OBVIOUS
<1> USE EventsAssumption DEF IInv, TriggerFails
<1>1. /\ Reliable' => Reliable
      /\ ~Failed("trigger")' => ~Failed("trigger") /\ ~IsEvent(eventNodeId)
      /\ failed' \subseteq {"create", "trigger"} \X (1..calls')
  <2>1. CASE IsEvent(eventNodeId)
    BY <2>1, FailsNow DEF ThisCall
  <2>2. CASE ~IsEvent(eventNodeId)
    <3>1. failed' = failed /\ calls' = calls
      BY <2>2
    <3> QED BY <2>2, <3>1 DEF TypeOK, Reliable, Failed
  <2> QED BY <2>1, <2>2
<1>2. TypeOK'
  BY <1>1 DEF TypeOK
<1>3. SourceIsLast' /\ WritesSoFar' /\ WritesDone' /\ ThisCall'
  BY DEF SourceIsLast, WritesSoFar, WritesDone, ThisCall
<1>4. NodesAreOwn'
  BY <1>1 DEF NodesAreOwn, IsEvent
<1>5. CarriesLatest' /\ NamesItsSource'
  BY <1>1 DEF CarriesLatest, NamesItsSource
<1> QED BY <1>2, <1>3, <1>4, <1>5

-----------------------------------------------------------------------------
LEMMA StepIInv == IInv /\ [Next]_vars => IInv'
<1> SUFFICES ASSUME IInv, [Next]_vars PROVE IInv'
  OBVIOUS
<1>1. ASSUME NEW e \in Events, NEW v \in Values, SetMessage(e, v) PROVE IInv'
  <2>1. <<[path |-> "Message", value |-> v]>> \in Seq(Field)
    BY EventsAssumption DEF Field
  <2> QED BY <1>1, <2>1, EmplaceIInv DEF SetMessage
<1>2. ASSUME NEW e \in Events, NEW v \in Values, NEW id \in Values,
             SetTransition(e, v, id)
      PROVE  IInv'
  <2>1. <<[path |-> "Transition", value |-> v],
          [path |-> "Transition/Id", value |-> id]>> \in Seq(Field)
    BY EventsAssumption DEF Field
  <2> QED BY <1>2, <2>1, EmplaceIInv DEF SetTransition
<1>3. ASSUME NEW e \in Events, NEW path \in Paths, NEW v \in Values,
             SetEventField(e, path, v)
      PROVE  IInv'
  <2>1. <<[path |-> path, value |-> v]>> \in Seq(Field)
    BY DEF Field
  <2> QED BY <1>3, <2>1, EmplaceIInv DEF SetEventField
<1>4. ASSUME NEW e \in Events, NEW o \in Objects, SetEvent(e, o) PROVE IInv'
  BY <1>4, SetEventIInv
<1>5. CASE UNCHANGED vars
  BY <1>5 DEF vars, IInv, TypeOK, SourceIsLast, WritesSoFar, WritesDone,
     NodesAreOwn, CarriesLatest, NamesItsSource, IsEvent, Reliable, Failed, ThisCall
<1> QED
  BY <1>1, <1>2, <1>3, <1>4, <1>5, CreateIInv, CreateFailsIInv, WriteFieldIInv,
     WrittenIInv, TriggerIInv, TriggerFailsIInv DEF Next

LEMMA Inductive == Spec => []IInv
<1>1. IInv /\ [Next]_vars => IInv'
  BY StepIInv
<1> QED BY <1>1, InitIInv, PTL DEF Spec

\* What clients get of an event is what was set last.
THEOREM EventsCarryLatest == Spec => []CarriesLatest
<1>1. IInv => CarriesLatest
  BY DEF IInv
<1> QED BY <1>1, Inductive, PTL

\* An event object that is used again names the object of the last setEvent.
THEOREM EventsNameSource == Spec => []NamesItsSource
<1>1. IInv => NamesItsSource
  BY DEF IInv
<1> QED BY <1>1, Inductive, PTL

\* UA_Server keeps no event nodes, whether or not it creates the events.
THEOREM EventNodesAreDeleted == Spec => []NoNodeLeft
<1>1. IInv => NoNodeLeft
  BY DEF IInv, NodesAreOwn, NoNodeLeft
<1> QED BY <1>1, Inductive, PTL

\* The values of events, nodes and reports are of the kinds they should be; in
\* particular eventNodeId is never an id UA_Server has not handed out.
THEOREM EventTypes == Spec => []TypeOK
<1>1. IInv => TypeOK
  BY DEF IInv
<1> QED BY <1>1, Inductive, PTL

-----------------------------------------------------------------------------
(* Every step is one of EventDelivery, or none of its business.            *)

\* Both modules mean the same by what an event carries.
LEMMA SameFields ==
  /\ Delivery!Field = Field /\ Delivery!Content = Content
  /\ \A c, fields, n : Delivery!Carries(c, fields, n) <=> Carries(c, fields, n)
<1>1. \A f : Delivery!Accepted(f) <=> Accepted(f)
  BY DEF Accepted, Delivery!Accepted
<1>2. \A fields, n, path : Delivery!Settings(fields, n, path) = Settings(fields, n, path)
  BY <1>1 DEF Settings, Delivery!Settings
<1>3. \A path : Delivery!Initially(path) = Initially(path)
  BY DEF Initially, Delivery!Initially
<1>4. \A c, fields, n : Delivery!Carries(c, fields, n) <=> Carries(c, fields, n)
  BY <1>2, <1>3 DEF Carries, Delivery!Carries
<1> QED BY <1>4 DEF Field, Delivery!Field, Content, Delivery!Content

\* The application adds fields to one event object, behind those it has.
LEMMA EmplaceDelivers ==
  ASSUME TypeOK, NEW e \in Events, NEW new \in Seq(Field), pc = "idle",
         EmplaceBack(e, new), UNCHANGED locals
  PROVE  Delivery!Next
<1>1. /\ eventFields[e] \in Seq(Field)
      /\ eventFields' = [eventFields EXCEPT ![e] = eventFields[e] \o new]
      /\ eventFields'[e] = eventFields[e] \o new
  BY DEF EmplaceBack, TypeOK
<1>2. Delivery!Extended(eventFields[e], eventFields'[e])
  BY <1>1, ConcatProperties, SameFields DEF Delivery!Extended
<1>3. Delivery!Fill(e)
  BY <1>1, <1>2 DEF Delivery!Fill, locals
<1> QED BY <1>3 DEF Delivery!Next

\* A call begins.
LEMMA SetEventDelivers ==
  ASSUME TypeOK, NEW e \in Events, NEW o \in Objects, SetEvent(e, o)
  PROVE  Delivery!Next
<1> DEFINE source == [path |-> "SourceNode", value |-> o]
           fields == eventFields[e]
<1>1. source \in Field /\ fields \in Seq(Field)
  BY EventsAssumption DEF Field, TypeOK
<1>2. fields \o <<source>> = Append(fields, source)
  <2> HIDE DEF source, fields
  <2> QED BY <1>1, AppendIsConcat
<1>3. Delivery!SetEvent(e, o)
  BY <1>2 DEF Delivery!SetEvent, SetEvent, EmplaceBack
<1> QED BY <1>3 DEF Delivery!Next

LEMMA CreateFailsDelivers == CreateFails => Delivery!CreateFails
  BY DEF CreateFails, Delivery!CreateFails

\* The call that triggers an event has not failed, and the event is complete.
LEMMA TriggerDelivers == IInv /\ Trigger => Delivery!Report(event, object)
<1> SUFFICES ASSUME IInv, Trigger PROVE Delivery!Report(event, object)
  OBVIOUS
<1> DEFINE fields == eventFields[event]
           c == nodes[eventNodeId]
           report == [object |-> object, asked |-> fields, content |-> c]
<1> USE DEF IInv
<1>1. /\ pc = "trigger" /\ pc' = "idle" /\ IsEvent(eventNodeId)
      /\ sent' = Append(sent, report)
      /\ UNCHANGED <<eventFields, calls, failed>>
  BY DEF Trigger
<1>2. fields \in Seq(Field) /\ c \in Content /\ report \in Report
  BY <1>1 DEF TypeOK, Report, IsEvent
<1>3. Len(sent') = Len(sent) + 1 /\ sent'[Len(sent) + 1] = report
  <2>1. sent \in Seq(Report)
    BY DEF TypeOK
  <2> HIDE DEF report
  <2> QED BY <1>1, <1>2, <2>1, AppendProperties
<1>4. report.content = c
  OBVIOUS
<1>5. Delivery!Unreliable \/ Reliable
  BY DEF Delivery!Unreliable, Reliable, Failed
<1>6. Reliable => ~Delivery!FailedNow /\ Carries(c, fields, Len(fields))
  BY <1>1 DEF Delivery!FailedNow, ThisCall, WritesDone
<1> HIDE DEF report, c
<1> QED BY <1>1, <1>2, <1>3, <1>4, <1>5, <1>6, SameFields DEF Delivery!Report, report

\* Nothing is sent of an event that was not created, or is not triggered.
LEMMA TriggerFailsDelivers == IInv /\ TriggerFails => Delivery!GiveUp
<1> SUFFICES ASSUME IInv, TriggerFails PROVE Delivery!GiveUp
  OBVIOUS
<1>1. /\ failed' \in {failed, failed \cup {<<"trigger", calls>>}}
      /\ IsEvent(eventNodeId) => <<"trigger", calls>> \in failed'
      /\ ~IsEvent(eventNodeId) => <<"create", calls>> \in failed'
  BY DEF TriggerFails, IInv, ThisCall
<1>2. Delivery!FailedNow
  BY <1>1 DEF Delivery!FailedNow
<1> QED BY <1>1, <1>2 DEF Delivery!GiveUp, TriggerFails

LEMMA StepDelivers == IInv /\ [Next]_vars => [Delivery!Next]_Delivery!vars
<1> SUFFICES ASSUME IInv, [Next]_vars PROVE [Delivery!Next]_Delivery!vars
  OBVIOUS
<1>0. TypeOK
  BY DEF IInv
<1>1. ASSUME NEW e \in Events, NEW v \in Values, SetMessage(e, v)
      PROVE  Delivery!Next
  <2>1. <<[path |-> "Message", value |-> v]>> \in Seq(Field)
    BY EventsAssumption DEF Field
  <2> QED BY <1>0, <1>1, <2>1, EmplaceDelivers DEF SetMessage
<1>2. ASSUME NEW e \in Events, NEW v \in Values, NEW id \in Values,
             SetTransition(e, v, id)
      PROVE  Delivery!Next
  <2>1. <<[path |-> "Transition", value |-> v],
          [path |-> "Transition/Id", value |-> id]>> \in Seq(Field)
    BY EventsAssumption DEF Field
  <2> QED BY <1>0, <1>2, <2>1, EmplaceDelivers DEF SetTransition
<1>3. ASSUME NEW e \in Events, NEW path \in Paths, NEW v \in Values,
             SetEventField(e, path, v)
      PROVE  Delivery!Next
  <2>1. <<[path |-> path, value |-> v]>> \in Seq(Field)
    BY DEF Field
  <2> QED BY <1>0, <1>3, <2>1, EmplaceDelivers DEF SetEventField
<1>4. ASSUME NEW e \in Events, NEW o \in Objects, SetEvent(e, o)
      PROVE  Delivery!Next
  BY <1>0, <1>4, SetEventDelivers
<1>5. CASE CreateFails
  BY <1>5, CreateFailsDelivers DEF Delivery!Next
<1>6. CASE Trigger
  <2>1. event \in Events /\ object \in Objects
    BY <1>0 DEF TypeOK
  <2> QED BY <1>6, <2>1, TriggerDelivers DEF Delivery!Next
<1>7. CASE TriggerFails
  BY <1>7, TriggerFailsDelivers DEF Delivery!Next
<1>8. CASE CreateEvent \/ WriteField \/ Written \/ UNCHANGED vars
  BY <1>8 DEF CreateEvent, WriteField, Written, vars, Delivery!vars
<1> QED BY <1>1, <1>2, <1>3, <1>4, <1>5, <1>6, <1>7, <1>8 DEF Next

\* Each setEvent is answered by exactly one report of what was asked, before
\* the next one begins, or by a failure of UA_Server in that very call.
THEOREM ImplementsDelivery == Spec => DeliverySpec
<1>1. Init => Delivery!Init
  BY DEF Init, Delivery!Init
<1>2. IInv /\ [Next]_vars => [Delivery!Next]_Delivery!vars
  BY StepDelivers
<1> QED BY <1>1, <1>2, Inductive, PTL DEF Spec, DeliverySpec, Delivery!Spec
=============================================================================
