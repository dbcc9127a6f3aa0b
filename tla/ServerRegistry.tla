--------------------------- MODULE ServerRegistry ---------------------------
(***************************************************************************)
(* The node registry of modernopc::Server: the address space of the       *)
(* embedded UA_Server, the shared_ptr maps objects / methods / variables  *)
(* that cache one C++ wrapper per node, and the raw pointers ("node       *)
(* contexts") through which UA_Server finds the callable of a method and   *)
(* the DataSource of a variable.  The wrapper owns what the raw pointer    *)
(* points to, so the registry is correct when no pointer outlives its      *)
(* owner, whatever handles the application keeps or drops.                 *)
(*                                                                         *)
(* The application runs one registration at a time (op).  UA_Server runs   *)
(* callbacks (frames): each is dispatched, which reads the contexts, and   *)
(* then entered, which uses them.  A callback may register nodes and may   *)
(* cause further callbacks.  Interleave says whether the callbacks run on  *)
(* a thread of their own, between the steps of a registration.             *)
(***************************************************************************)
EXTENDS Naturals, Sequences

CONSTANTS
  Ids,         \* NodeIds the application or a nodeset asks for
  MadeUp,      \* NodeIds UA_Server makes up when the null NodeId is requested
  Null,        \* the null NodeId
  Objects,     \* application objects passed as context to createObject
  Wrappers,    \* addresses for ObjectNode, MethodNode and VariableNode
  Payloads,    \* addresses for ICallables and DataSources, never reused
  None,        \* nullptr
  MaxDepth,    \* bound on nested callbacks
  Interleave,  \* callbacks run on another thread than registrations
  Rebinding    \* what the application rebinds: "none", "quiet" or "any"

ASSUME IdsAssumption ==
  /\ Null \notin Ids \cup MadeUp
  /\ None \notin Objects \cup Wrappers \cup Payloads
  /\ Objects \cap Payloads = {}

ASSUME ModeAssumption ==
  /\ MaxDepth \in Nat
  /\ Interleave \in BOOLEAN
  /\ Rebinding \in {"none", "quiet", "any"}

VARIABLES
  class,    \* node -> its class, "absent" before it is added
  hooked,   \* node -> UA_Server calls back into modernopc for it
  context,  \* node -> its node context
  wrap,     \* address -> the wrapper that lives there
  registry, \* the wrappers held by the three maps of Server
  handles,  \* the wrappers the application holds a shared_ptr to
  heap,     \* address -> "fresh", what was allocated there, or "freed"
  op,       \* the registration in progress
  frames    \* the callbacks in flight, innermost last

vars == <<class, hooked, context, wrap, registry, handles, heap, op, frames>>

NodeIds == Ids \cup MadeUp
Keys    == NodeIds \cup {Null}
Classes == {"object", "method", "variable"}
Managed == {"method", "variable"}   \* the classes whose wrapper owns a payload

NoWrapper == [class |-> "none", id |-> Null, payload |-> None]
Alive(w)  == wrap[w].class # "none"

Idle == [pc |-> "idle", id |-> Null, wrapper |-> None, payload |-> None,
         object |-> None]

Top == frames[Len(frames)]
Pop == SubSeq(frames, 1, Len(frames) - 1)

\* The thread of the callbacks is outside UA_Server or inside a callback.
InUserCode == frames # <<>> => Top.entered

Wrapper == [class: Classes \cup {"none"}, id: Keys,
            payload: Payloads \cup {None}]

Frame == [node: Keys, class: Managed,
          callee: Objects \cup Payloads \cup {None},
          via: Wrappers \cup {None}, entered: BOOLEAN]

BindSteps == {"make", "hookMethod", "connectMethod",
              "hookVariable", "connectVariable", "reset"}
Steps     == BindSteps \cup {"idle", "setContext", "deleted", "closed"}

\* The registry's maps hold wrappers, contexts hold application objects or
\* payloads, and what a registration carries from step to step is well typed.
TypeOK ==
  /\ class \in [NodeIds -> Classes \cup {"absent"}]
  /\ hooked \in [NodeIds -> BOOLEAN]
  /\ context \in [NodeIds -> Objects \cup Payloads \cup {None}]
  /\ wrap \in [Wrappers -> Wrapper]
  /\ registry \in SUBSET Wrappers
  /\ handles \in SUBSET Wrappers
  /\ heap \in [Payloads -> Managed \cup {"fresh", "freed"}]
  /\ op \in [pc: Steps, id: Keys, wrapper: Wrappers \cup {None},
             payload: Payloads \cup {None}, object: Objects \cup {None}]
  /\ op.pc \in BindSteps => op.wrapper \in Wrappers
  /\ frames \in Seq(Frame)

Init ==
  /\ class = [i \in NodeIds |-> "absent"]
  /\ hooked = [i \in NodeIds |-> FALSE]
  /\ context = [i \in NodeIds |-> None]
  /\ wrap = [w \in Wrappers |-> NoWrapper]
  /\ registry = {}
  /\ handles = {}
  /\ heap = [p \in Payloads |-> "fresh"]
  /\ op = Idle
  /\ frames = <<>>

-----------------------------------------------------------------------------
(* What UA_Server does for modernopc.                                      *)

Exists(i) == i \in NodeIds /\ class[i] # "absent"

\* UA_Server_add*Node: the nodes it may add for a requested id.  When it fails
\* (the id exists, the parent does not, ...) it adds none, and modernopc
\* returns nullptr: nothing changes.
Added(req) ==
  {i \in NodeIds : /\ class[i] = "absent"
                   /\ IF req = Null THEN i \in MadeUp ELSE i = req}

\* UA_Server_setNodeContext: fails, unnoticed, when there is no such node.
SetNodeContext(i, c) ==
  context' = IF Exists(i) THEN [context EXCEPT ![i] = c] ELSE context

\* UA_Server_setMethodNode_callback, UA_Server_setVariableNode_dataSource.
Hook(i, k) ==
  hooked' = IF Exists(i) /\ class[i] = k THEN [hooked EXCEPT ![i] = TRUE]
                                         ELSE hooked

-----------------------------------------------------------------------------
(* Registrations.                                                          *)

\* Registrations run to completion before the next one starts.
MayOperate ==
  /\ op.pc = "idle"
  /\ ~Interleave => InUserCode

Find(k, i) == {w \in registry : wrap[w].class = k /\ wrap[w].id = i}

\* Mutant of NewWrapper: the wrapper is never emplaced into its map.
UncachedWrapper(k, i, w) ==
  /\ ~Alive(w)
  /\ wrap' = [wrap EXCEPT ![w] = [class |-> k, id |-> i, payload |-> None]]
  /\ registry' = registry
  /\ handles' = handles \cup {w}

\* make_shared of a wrapper, emplace into the map of its class (which keeps an
\* entry it already has) and return of the shared_ptr.
NewWrapper(k, i, w) ==
  /\ ~Alive(w)
  /\ wrap' = [wrap EXCEPT ![w] = [class |-> k, id |-> i, payload |-> None]]
  /\ registry' = IF Find(k, i) = {} THEN registry \cup {w} ELSE registry
  /\ handles' = handles \cup {w}

\* Mutant of CreateObject: the status of UA_Server_addObjectNode is ignored.
CreateObjectUnchecked(req, obj) ==
  /\ MayOperate
  /\ \/ \E i \in Added(req) : class' = [class EXCEPT ![i] = "object"]
     \/ Added(req) = {} /\ UNCHANGED class
  /\ op' = [Idle EXCEPT !.pc = "setContext", !.id = req, !.object = obj]
  /\ UNCHANGED <<hooked, context, wrap, registry, handles, heap, frames>>

\* createObject, first step: add the node.
CreateObject(req, obj) ==
  /\ MayOperate
  /\ \E i \in Added(req) :
       /\ class' = [class EXCEPT ![i] = "object"]
       /\ op' = [Idle EXCEPT !.pc = "setContext", !.id = req, !.object = obj]
  /\ UNCHANGED <<hooked, context, wrap, registry, handles, heap, frames>>

\* createObject, second step: set the context on the requested id, cache the
\* wrapper and return it.
SetObjectContext ==
  /\ op.pc = "setContext"
  /\ SetNodeContext(op.id, op.object)
  /\ \E w \in Wrappers : NewWrapper("object", op.id, w)
  /\ op' = Idle
  /\ UNCHANGED <<class, hooked, heap, frames>>

\* createVariable.
CreateVariable(req) ==
  /\ MayOperate
  /\ \E i \in Added(req) : class' = [class EXCEPT ![i] = "variable"]
  /\ \E w \in Wrappers : NewWrapper("variable", req, w)
  /\ UNCHANGED <<hooked, context, heap, op, frames>>

\* createMethod: the node is added with internalMethodCallback and no context.
\* ObjectNode::addMethod (bind) goes on to bindCallable on what it returns.
CreateMethod(req, bind) ==
  /\ MayOperate
  /\ \E i \in Added(req) :
       /\ class' = [class EXCEPT ![i] = "method"]
       /\ hooked' = [hooked EXCEPT ![i] = TRUE]
  /\ \E w \in Wrappers :
       /\ NewWrapper("method", req, w)
       /\ op' = IF bind THEN [Idle EXCEPT !.pc = "make", !.id = req,
                                          !.wrapper = w]
                        ELSE op
  /\ UNCHANGED <<context, heap, frames>>

\* Mutant of GetNode: the map is not searched first.
GetNodeUncached(k, i) ==
  /\ MayOperate
  /\ Exists(i)
  /\ class[i] = k
  /\ \E w \in Wrappers : NewWrapper(k, i, w)
  /\ UNCHANGED <<class, hooked, context, heap, op, frames>>

\* Mutant of GetNode: the class of the node is not compared.
GetNodeAnyClass(k, i) ==
  /\ MayOperate
  /\ \/ /\ Find(k, i) # {}
        /\ handles' = handles \cup Find(k, i)
        /\ UNCHANGED <<wrap, registry>>
     \/ /\ Find(k, i) = {}
        /\ Exists(i)
        /\ \E w \in Wrappers : NewWrapper(k, i, w)
  /\ UNCHANGED <<class, hooked, context, heap, op, frames>>

\* What getObject, getMethod and getVariable share: the cached wrapper, or a new
\* one for a node of the right class.  Otherwise nullptr, and nothing changes.
GetNode(k, i) ==
  /\ MayOperate
  /\ \/ /\ Find(k, i) # {}
        /\ handles' = handles \cup Find(k, i)
        /\ UNCHANGED <<wrap, registry>>
     \/ /\ Find(k, i) = {}
        /\ Exists(i)
        /\ class[i] = k
        /\ \E w \in Wrappers : NewWrapper(k, i, w)
  /\ UNCHANGED <<class, hooked, context, heap, op, frames>>

GetObject(i)   == GetNode("object", i)
GetMethod(i)   == GetNode("method", i)
GetVariable(i) == GetNode("variable", i)

\* loadNodeset: the loader adds nodes without callbacks or contexts.
LoadNode(k, i) ==
  /\ MayOperate
  /\ class[i] = "absent"
  /\ class' = [class EXCEPT ![i] = k]
  /\ UNCHANGED <<hooked, context, wrap, registry, handles, heap, op, frames>>

\* The application lets go of its last shared_ptr to a wrapper; the caller of
\* MethodNode::invoke holds one until it returns.  A wrapper no map holds dies,
\* and what it owns with it.
DropHandle(w) ==
  /\ MayOperate \/ op.pc = "closed"
  /\ w \in handles
  /\ \A d \in 1..Len(frames) : frames[d].via # w
  /\ handles' = handles \ {w}
  /\ IF w \in registry
     THEN UNCHANGED <<wrap, heap>>
     ELSE /\ wrap' = [wrap EXCEPT ![w] = NoWrapper]
          /\ heap' = [p \in Payloads |-> IF p = wrap[w].payload THEN "freed"
                                                                ELSE heap[p]]
  /\ UNCHANGED <<class, hooked, context, registry, op, frames>>

-----------------------------------------------------------------------------
(* Binding a callable to a method and a DataSource to a variable.          *)

\* Which wrappers the application binds again: none that is bound already,
\* none whose payload is in use by a callback, or any.
MayBind(w) ==
  \/ Rebinding = "any"
  \/ wrap[w].payload = None
  \/ /\ Rebinding = "quiet"
     /\ \A d \in 1..Len(frames) : frames[d].callee # wrap[w].payload

\* callable = std::make_unique<Call<...>>(fn): the new callable is made, then
\* the old one is destroyed.
MakeCallable(w) ==
  \E p \in Payloads :
    /\ heap[p] = "fresh"
    /\ heap' = [q \in Payloads |-> IF q = p THEN "method"
                                   ELSE IF q = wrap[w].payload THEN "freed"
                                   ELSE heap[q]]
    /\ wrap' = [wrap EXCEPT ![w].payload = p]
    /\ op' = [Idle EXCEPT !.pc = "hookMethod", !.id = wrap[w].id,
                          !.wrapper = w, !.payload = p]

BindCallable(w) ==
  /\ MayOperate
  /\ w \in handles
  /\ wrap[w].class = "method"
  /\ MayBind(w)
  /\ MakeCallable(w)
  /\ UNCHANGED <<class, hooked, context, registry, handles, frames>>

\* bindCallable as called by addMethod.
BindAdded ==
  /\ op.pc = "make"
  /\ MakeCallable(op.wrapper)
  /\ UNCHANGED <<class, hooked, context, registry, handles, frames>>

HookMethod ==
  /\ op.pc = "hookMethod"
  /\ Hook(op.id, "method")
  /\ op' = [op EXCEPT !.pc = "connectMethod"]
  /\ UNCHANGED <<class, context, wrap, registry, handles, heap, frames>>

\* Mutant of ConnectMethod: the wrapper is stored instead of its callable.
ConnectMethodNode ==
  /\ op.pc = "connectMethod"
  /\ SetNodeContext(op.id, op.wrapper)
  /\ op' = Idle
  /\ UNCHANGED <<class, hooked, wrap, registry, handles, heap, frames>>

ConnectMethod ==
  /\ op.pc = "connectMethod"
  /\ SetNodeContext(op.id, op.payload)
  /\ op' = Idle
  /\ UNCHANGED <<class, hooked, wrap, registry, handles, heap, frames>>

\* Mutant of ConnectCallback: ds is reset before the node is connected.
ConnectCallbackResetFirst(w) ==
  /\ MayOperate
  /\ w \in handles
  /\ wrap[w].class = "variable"
  /\ MayBind(w)
  /\ \E p \in Payloads :
       /\ heap[p] = "fresh"
       /\ heap' = [q \in Payloads |-> IF q = p THEN "variable"
                                      ELSE IF q = wrap[w].payload THEN "freed"
                                      ELSE heap[q]]
       /\ wrap' = [wrap EXCEPT ![w].payload = p]
       /\ op' = [Idle EXCEPT !.pc = "hookVariable", !.id = wrap[w].id,
                             !.wrapper = w, !.payload = p]
  /\ UNCHANGED <<class, hooked, context, registry, handles, frames>>

\* connectCallback takes a DataSource the application has just made.
ConnectCallback(w) ==
  /\ MayOperate
  /\ w \in handles
  /\ wrap[w].class = "variable"
  /\ MayBind(w)
  /\ \E p \in Payloads :
       /\ heap[p] = "fresh"
       /\ heap' = [heap EXCEPT ![p] = "variable"]
       /\ op' = [Idle EXCEPT !.pc = "hookVariable", !.id = wrap[w].id,
                             !.wrapper = w, !.payload = p]
  /\ UNCHANGED <<class, hooked, context, wrap, registry, handles, frames>>

HookVariable ==
  /\ op.pc = "hookVariable"
  /\ Hook(op.id, "variable")
  /\ op' = [op EXCEPT !.pc = "connectVariable"]
  /\ UNCHANGED <<class, context, wrap, registry, handles, heap, frames>>

ConnectVariable ==
  /\ op.pc = "connectVariable"
  /\ SetNodeContext(op.id, op.payload)
  /\ op' = [op EXCEPT !.pc = "reset"]
  /\ UNCHANGED <<class, hooked, wrap, registry, handles, heap, frames>>

\* Mutant of ResetDataSource: ds.reset(); dataSource.release().
ResetDataSourceLost ==
  /\ op.pc = "reset"
  /\ wrap' = [wrap EXCEPT ![op.wrapper].payload = None]
  /\ heap' = [q \in Payloads |-> IF q = wrap[op.wrapper].payload THEN "freed"
                                                                 ELSE heap[q]]
  /\ op' = Idle
  /\ UNCHANGED <<class, hooked, context, registry, handles, frames>>

\* ds.reset(dataSource.release()): the old DataSource is destroyed last.
ResetDataSource ==
  /\ op.pc = "reset"
  /\ wrap' = [wrap EXCEPT ![op.wrapper].payload = op.payload]
  /\ heap' = [q \in Payloads |-> IF q = wrap[op.wrapper].payload THEN "freed"
                                                                 ELSE heap[q]]
  /\ op' = Idle
  /\ UNCHANGED <<class, hooked, context, registry, handles, frames>>

-----------------------------------------------------------------------------
(* Callbacks.                                                              *)

MayDispatch ==
  /\ ~Interleave => op.pc = "idle"
  /\ InUserCode
  /\ Len(frames) < MaxDepth

\* UA_Server serves a call, a read or a write: it reads the node context.
Dispatch(n) ==
  /\ MayDispatch
  /\ class[n] \in Managed
  /\ hooked[n]
  /\ frames' = Append(frames, [node |-> n, class |-> class[n],
                               callee |-> context[n], via |-> None,
                               entered |-> FALSE])
  /\ UNCHANGED <<class, hooked, context, wrap, registry, handles, heap, op>>

\* internalMethodCallback, internalRead and internalWrite answer with an error
\* when there is no context, and otherwise call what it points to.
Enter ==
  /\ frames # <<>> /\ ~Top.entered
  /\ frames' = IF Top.callee = None
               THEN Pop
               ELSE [frames EXCEPT ![Len(frames)].entered = TRUE]
  /\ UNCHANGED <<class, hooked, context, wrap, registry, handles, heap, op>>

\* MethodNode::invoke: a direct call through a handle, on the thread that
\* registers; nothing happens while no callable is bound.
Invoke(w) ==
  /\ ~Interleave
  /\ MayOperate
  /\ Len(frames) < MaxDepth
  /\ w \in handles
  /\ wrap[w].class = "method"
  /\ wrap[w].payload # None
  /\ frames' = Append(frames, [node |-> wrap[w].id, class |-> "method",
                               callee |-> wrap[w].payload, via |-> w,
                               entered |-> TRUE])
  /\ UNCHANGED <<class, hooked, context, wrap, registry, handles, heap, op>>

\* The callable or DataSource returns.
Return ==
  /\ ~Interleave => op.pc = "idle"
  /\ frames # <<>> /\ Top.entered
  /\ frames' = Pop
  /\ UNCHANGED <<class, hooked, context, wrap, registry, handles, heap, op>>

-----------------------------------------------------------------------------
(* ~Server, after the server thread has left run().                        *)

\* UA_Server_delete: nodes, hooks and contexts go.
DeleteNodes ==
  /\ class' = [i \in NodeIds |-> "absent"]
  /\ hooked' = [i \in NodeIds |-> FALSE]
  /\ context' = [i \in NodeIds |-> None]
  /\ op' = [Idle EXCEPT !.pc = "deleted"]
  /\ UNCHANGED <<wrap, registry, handles, heap, frames>>

DeleteServer == op.pc = "idle" /\ frames = <<>> /\ DeleteNodes

\* The maps are destroyed; wrappers without a handle die with what they own.
FreeRegistry ==
  /\ op.pc = "deleted"
  /\ LET dead == registry \ handles
     IN  /\ wrap' = [w \in Wrappers |-> IF w \in dead THEN NoWrapper
                                                      ELSE wrap[w]]
         /\ heap' = [p \in Payloads |->
                       IF \E w \in dead : wrap[w].payload = p
                       THEN "freed" ELSE heap[p]]
  /\ registry' = {}
  /\ op' = [Idle EXCEPT !.pc = "closed"]
  /\ UNCHANGED <<class, hooked, context, handles, frames>>

-----------------------------------------------------------------------------
Registration ==
  \/ \E i \in Ids \cup {Null}, obj \in Objects \cup {None} : CreateObject(i, obj)
  \/ SetObjectContext
  \/ \E i \in Ids \cup {Null} : CreateVariable(i)
  \/ \E i \in Ids \cup {Null}, bind \in BOOLEAN : CreateMethod(i, bind)
  \/ \E i \in Keys : GetObject(i)
  \/ \E i \in Keys : GetMethod(i)
  \/ \E i \in Keys : GetVariable(i)
  \/ \E k \in Classes, i \in Ids : LoadNode(k, i)
  \/ \E w \in Wrappers : DropHandle(w)
  \/ \E w \in Wrappers : BindCallable(w)
  \/ BindAdded
  \/ HookMethod
  \/ ConnectMethod
  \/ \E w \in Wrappers : ConnectCallback(w)
  \/ HookVariable
  \/ ConnectVariable
  \/ ResetDataSource

Serving ==
  \/ \E n \in NodeIds : Dispatch(n)
  \/ Enter
  \/ \E w \in Wrappers : Invoke(w)
  \/ Return

Next ==
  \/ Registration
  \/ Serving
  \/ DeleteServer
  \/ FreeRegistry

Spec == Init /\ [][Next]_vars

-----------------------------------------------------------------------------
(* Properties.                                                             *)

\* Between registrations, whatever handles were dropped and whatever failed,
\* the context of a method or variable is the payload owned by the wrapper the
\* maps of Server hold for that very node, and it is of the kind
\* internalMethodCallback, internalRead and internalWrite cast it to.
SettledContext ==
  op.pc = "idle" =>
    \A i \in NodeIds : class[i] \in Managed /\ context[i] # None =>
      /\ \E w \in registry : /\ wrap[w].class = class[i]
                              /\ wrap[w].id = i
                              /\ wrap[w].payload = context[i]
      /\ heap[context[i]] = class[i]

\* connectCallback swaps the context before it destroys the old DataSource, so
\* a variable never points to a destroyed one, not even half-way.
VariableContextLive ==
  \A i \in NodeIds : class[i] = "variable" /\ context[i] # None =>
    context[i] \in Payloads /\ heap[context[i]] = "variable"

\* The static_casts of internalMethodCallback, internalRead and internalWrite:
\* a method never carries a DataSource or an application object, a variable
\* never a callable, even when registrations fail or ids are reused; and what a
\* callback took from its node is still of that kind when it is cast, whatever
\* was bound or destroyed since.
TypedContext ==
  /\ \A i \in NodeIds : class[i] \in Managed /\ context[i] # None =>
       context[i] \in Payloads /\ heap[context[i]] \in {class[i], "freed"}
  /\ \A d \in 1..Len(frames) : frames[d].callee # None =>
       /\ frames[d].callee \in Payloads
       /\ heap[frames[d].callee] \in {frames[d].class, "freed"}

\* A callback that runs, runs a callable or DataSource that is still allocated:
\* nobody destroys it under its feet or between dispatch and entry.
NoUseAfterFree ==
  \A d \in 1..Len(frames) : frames[d].entered =>
    frames[d].callee \in Payloads /\ heap[frames[d].callee] = frames[d].class

\* All shared_ptrs to the wrapper of a node are to the one the maps hold, so
\* that binding through any of them replaces, and never shadows, the binding.
OneWrapperPerNode ==
  op.pc \notin {"deleted", "closed"} =>
    \A v \in Wrappers : Alive(v) /\ wrap[v].id \in NodeIds =>
      Find(class[wrap[v].id], wrap[v].id) = {v}

-----------------------------------------------------------------------------
(* The registry implements the bindings NodeBinding promises.              *)

Binding == INSTANCE NodeBinding WITH
  kind    <- class,
  binding <- context,
  serving <- [d \in 1..Len(frames) |->
                [node |-> frames[d].node, callee |-> frames[d].callee]]

\* Only a bind through createObject, bindCallable or connectCallback changes
\* what a node calls; a served call gets the current binding; failed creates,
\* lookups and dropped handles are invisible.
BindingSpec == Binding!Spec
=============================================================================
