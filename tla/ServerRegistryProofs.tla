------------------------ MODULE ServerRegistryProofs ------------------------
(***************************************************************************)
(* Proofs about ServerRegistry, for every set of nodes, wrappers and       *)
(* payloads and in every mode (callbacks on the registering thread or on    *)
(* one of their own, and whatever the application rebinds); and about       *)
(* Server, whose threads use the registry as these proofs suppose.         *)
(***************************************************************************)
EXTENDS Server, SequenceTheorems, TLAPS

-----------------------------------------------------------------------------
(* Typing.                                                                 *)

LEMMA PushFrame ==
  ASSUME frames \in Seq(Frame), NEW f \in Frame
  PROVE  /\ Append(frames, f) \in Seq(Frame)
         /\ Len(Append(frames, f)) = Len(frames) + 1
         /\ \A d \in 1..Len(frames) : Append(frames, f)[d] = frames[d]
         /\ Append(frames, f)[Len(frames) + 1] = f
  BY AppendProperties

LEMMA Prefix ==
  ASSUME NEW S, NEW s \in Seq(S), NEW n \in Nat, n < Len(s)
  PROVE  /\ SubSeq(s, 1, n) \in Seq(S)
         /\ Len(SubSeq(s, 1, n)) = n
         /\ \A d \in 1..n : SubSeq(s, 1, n)[d] = s[d]
  BY SMT

LEMMA PopFrame ==
  ASSUME frames \in Seq(Frame), frames # <<>>
  PROVE  /\ Pop \in Seq(Frame)
         /\ Len(Pop) = Len(frames) - 1
         /\ \A d \in 1..Len(Pop) : Pop[d] = frames[d]
<1>1. Len(frames) - 1 \in Nat /\ Len(frames) - 1 < Len(frames)
  BY EmptySeq
<1>2. QED
  BY <1>1, Prefix DEF Pop

LEMMA ReplaceLast ==
  ASSUME NEW S, NEW s \in Seq(S), NEW e \in S, s # <<>>
  PROVE  /\ [s EXCEPT ![Len(s)] = e] \in Seq(S)
         /\ Len([s EXCEPT ![Len(s)] = e]) = Len(s)
         /\ \A d \in 1..Len(s) :
              [s EXCEPT ![Len(s)] = e][d] = IF d = Len(s) THEN e ELSE s[d]
<1>1. Len(s) \in 1..Len(s)
  BY EmptySeq
<1>2. QED
  BY <1>1, ExceptSeq

\* A new wrapper keeps the maps and the handles well typed.
LEMMA NewWrapperTypes ==
  ASSUME TypeOK, NEW k \in Classes, NEW i \in Keys, NEW w \in Wrappers,
         NewWrapper(k, i, w)
  PROVE  /\ wrap' \in [Wrappers -> Wrapper]
         /\ registry' \in SUBSET Wrappers
         /\ handles' \in SUBSET Wrappers
<1>1. None \in Payloads \cup {None}
  OBVIOUS
<1>2. QED
  BY <1>1 DEF TypeOK, NewWrapper, Wrapper

LEMMA StepTypes == TypeOK /\ [Next]_vars => TypeOK'
<1> SUFFICES ASSUME TypeOK, [Next]_vars PROVE TypeOK'
  OBVIOUS
<1> USE IdsAssumption DEF TypeOK, Steps, BindSteps, Managed, Classes, Idle, NodeIds, Keys
<1>1. ASSUME NEW i \in Ids \cup {Null}, NEW obj \in Objects \cup {None},
             CreateObject(i, obj)
      PROVE  TypeOK'
  <2>1. PICK n \in NodeIds : class' = [class EXCEPT ![n] = "object"]
    BY <1>1 DEF CreateObject, Added
  <2>2. op' = [Idle EXCEPT !.pc = "setContext", !.id = i, !.object = obj]
    BY <1>1 DEF CreateObject
  <2>3. QED
    BY <1>1, <2>1, <2>2 DEF CreateObject
<1>2. CASE SetObjectContext
  <2>1. PICK w \in Wrappers : NewWrapper("object", op.id, w)
    BY <1>2 DEF SetObjectContext
  <2>2. /\ wrap' \in [Wrappers -> Wrapper]
        /\ registry' \in SUBSET Wrappers
        /\ handles' \in SUBSET Wrappers
    BY <2>1, NewWrapperTypes
  <2>3. QED
    BY <1>2, <2>2 DEF SetObjectContext, SetNodeContext
<1>3. ASSUME NEW i \in Ids \cup {Null}, CreateVariable(i)
      PROVE  TypeOK'
  <2>1. PICK w \in Wrappers : NewWrapper("variable", i, w)
    BY <1>3 DEF CreateVariable
  <2>2. /\ wrap' \in [Wrappers -> Wrapper]
        /\ registry' \in SUBSET Wrappers
        /\ handles' \in SUBSET Wrappers
    BY <2>1, NewWrapperTypes
  <2>3. QED
    BY <1>3, <2>2 DEF CreateVariable, Added
<1>4. ASSUME NEW i \in Ids \cup {Null}, NEW bind \in BOOLEAN,
             CreateMethod(i, bind)
      PROVE  TypeOK'
  <2>1. PICK w \in Wrappers :
          /\ NewWrapper("method", i, w)
          /\ op' = IF bind THEN [Idle EXCEPT !.pc = "make", !.id = i,
                                             !.wrapper = w]
                           ELSE op
    BY <1>4 DEF CreateMethod
  <2>2. /\ wrap' \in [Wrappers -> Wrapper]
        /\ registry' \in SUBSET Wrappers
        /\ handles' \in SUBSET Wrappers
    BY <2>1, NewWrapperTypes
  <2>3. /\ op' \in [pc: Steps, id: Keys, wrapper: Wrappers \cup {None},
                 payload: Payloads \cup {None}, object: Objects \cup {None}]
        /\ op'.pc \in BindSteps => op'.wrapper \in Wrappers
    BY <2>1
  <2>4. QED
    BY <1>4, <2>2, <2>3 DEF CreateMethod, Added
<1>5. ASSUME NEW k \in Classes, NEW i \in Keys, GetNode(k, i)
      PROVE  TypeOK'
  <2>1. CASE Find(k, i) # {}
    BY <1>5, <2>1 DEF GetNode, Find
  <2>2. CASE Find(k, i) = {}
    <3>1. PICK w \in Wrappers : NewWrapper(k, i, w)
      BY <1>5, <2>2 DEF GetNode
    <3>2. /\ wrap' \in [Wrappers -> Wrapper]
          /\ registry' \in SUBSET Wrappers
          /\ handles' \in SUBSET Wrappers
      BY <3>1, NewWrapperTypes
    <3>3. QED
      BY <1>5, <3>2 DEF GetNode
  <2>3. QED
    BY <2>1, <2>2
<1>6. ASSUME NEW k \in Classes, NEW i \in Ids, LoadNode(k, i)
      PROVE  TypeOK'
  BY <1>6 DEF LoadNode
<1>7. ASSUME NEW w \in Wrappers, DropHandle(w)
      PROVE  TypeOK'
  <2>1. NoWrapper \in Wrapper
    BY DEF NoWrapper, Wrapper
  <2>2. wrap' \in [Wrappers -> Wrapper]
    BY <1>7, <2>1 DEF DropHandle
  <2>3. heap' \in [Payloads -> Managed \cup {"fresh", "freed"}]
    BY <1>7 DEF DropHandle
  <2>4. handles' \in SUBSET Wrappers
    BY <1>7 DEF DropHandle
  <2>5. QED
    BY <1>7, <2>2, <2>3, <2>4 DEF DropHandle
<1>8. ASSUME NEW w \in Wrappers, MakeCallable(w)
      PROVE  /\ heap' \in [Payloads -> Managed \cup {"fresh", "freed"}]
             /\ wrap' \in [Wrappers -> Wrapper]
             /\ op' \in [pc: Steps, id: Keys, wrapper: Wrappers \cup {None},
                         payload: Payloads \cup {None},
                         object: Objects \cup {None}]
             /\ op'.wrapper \in Wrappers
  <2>1. PICK p \in Payloads :
          /\ heap' = [q \in Payloads |-> IF q = p THEN "method"
                                         ELSE IF q = wrap[w].payload THEN "freed"
                                         ELSE heap[q]]
          /\ wrap' = [wrap EXCEPT ![w].payload = p]
          /\ op' = [Idle EXCEPT !.pc = "hookMethod", !.id = wrap[w].id,
                                !.wrapper = w, !.payload = p]
    BY <1>8 DEF MakeCallable
  <2>2. wrap[w] \in Wrapper
    BY <1>8
  <2>3. wrap[w].id \in Keys /\ [wrap[w] EXCEPT !.payload = p] \in Wrapper
    BY <2>2 DEF Wrapper
  <2>4. wrap' \in [Wrappers -> Wrapper]
    BY <2>1, <2>3
  <2>5. heap' \in [Payloads -> Managed \cup {"fresh", "freed"}]
    BY <2>1
  <2>6. /\ op' \in [pc: Steps, id: Keys, wrapper: Wrappers \cup {None},
                    payload: Payloads \cup {None}, object: Objects \cup {None}]
        /\ op'.wrapper \in Wrappers
    BY <2>1, <2>3, <1>8
  <2>7. QED
    BY <2>4, <2>5, <2>6
<1>9. ASSUME NEW w \in Wrappers, BindCallable(w)
      PROVE  TypeOK'
  BY <1>8, <1>9 DEF BindCallable
<1>10. CASE BindAdded
  BY <1>8, <1>10 DEF BindAdded
<1>11. CASE HookMethod
  BY <1>11 DEF HookMethod, Hook
<1>12. CASE ConnectMethod
  BY <1>12 DEF ConnectMethod, SetNodeContext
<1>13. ASSUME NEW w \in Wrappers, ConnectCallback(w)
       PROVE  TypeOK'
  <2>1. PICK p \in Payloads :
          /\ heap' = [heap EXCEPT ![p] = "variable"]
          /\ op' = [Idle EXCEPT !.pc = "hookVariable", !.id = wrap[w].id,
                                !.wrapper = w, !.payload = p]
    BY <1>13 DEF ConnectCallback
  <2>2. wrap[w].id \in Keys
    BY <1>13 DEF Wrapper
  <2>3. heap' \in [Payloads -> Managed \cup {"fresh", "freed"}]
    BY <2>1
  <2>4. /\ op' \in [pc: Steps, id: Keys, wrapper: Wrappers \cup {None},
                    payload: Payloads \cup {None}, object: Objects \cup {None}]
        /\ op'.wrapper \in Wrappers
    BY <2>1, <2>2, <1>13
  <2>5. QED
    BY <1>13, <2>3, <2>4 DEF ConnectCallback
<1>14. CASE HookVariable
  BY <1>14 DEF HookVariable, Hook
<1>15. CASE ConnectVariable
  BY <1>15 DEF ConnectVariable, SetNodeContext
<1>16. CASE ResetDataSource
  <2>1. op.wrapper \in Wrappers /\ op.payload \in Payloads \cup {None}
    BY <1>16 DEF ResetDataSource
  <2>2. [wrap[op.wrapper] EXCEPT !.payload = op.payload] \in Wrapper
    BY <2>1 DEF Wrapper
  <2>3. wrap' \in [Wrappers -> Wrapper]
    BY <1>16, <2>1, <2>2 DEF ResetDataSource
  <2>4. heap' \in [Payloads -> Managed \cup {"fresh", "freed"}]
    BY <1>16 DEF ResetDataSource
  <2>5. QED
    BY <1>16, <2>3, <2>4 DEF ResetDataSource
<1>17. ASSUME NEW n \in NodeIds, Dispatch(n)
       PROVE  TypeOK'
  <2> DEFINE f == [node |-> n, class |-> class[n], callee |-> context[n],
                   via |-> None, entered |-> FALSE]
  <2>1. f \in Frame
    BY <1>17 DEF Dispatch, Frame
  <2>2. frames' \in Seq(Frame)
    BY <1>17, <2>1, PushFrame DEF Dispatch
  <2>3. QED
    BY <1>17, <2>2 DEF Dispatch
<1>18. CASE Enter
  <2>1. frames # <<>>
    BY <1>18 DEF Enter
  <2>2. Top \in Frame
    BY <2>1, EmptySeq, ElementOfSeq DEF Top
  <2> DEFINE e == [Top EXCEPT !.entered = TRUE]
  <2>3. e \in Frame
    BY <2>2 DEF Frame
  <2>4. [frames EXCEPT ![Len(frames)] = e] \in Seq(Frame)
    BY <2>1, <2>3, ReplaceLast
  <2>5. frames' \in Seq(Frame)
    BY <1>18, <2>1, <2>4, PopFrame DEF Enter, Top
  <2>6. QED
    BY <1>18, <2>5 DEF Enter
<1>19. ASSUME NEW w \in Wrappers, Invoke(w)
       PROVE  TypeOK'
  <2> DEFINE f == [node |-> wrap[w].id, class |-> "method",
                   callee |-> wrap[w].payload, via |-> w, entered |-> TRUE]
  <2>1. f \in Frame
    BY <1>19 DEF Invoke, Frame, Wrapper
  <2>2. frames' \in Seq(Frame)
    BY <1>19, <2>1, PushFrame DEF Invoke
  <2>3. QED
    BY <1>19, <2>2 DEF Invoke
<1>20. CASE Return
  BY <1>20, PopFrame DEF Return
<1>21. CASE DeleteServer
  BY <1>21 DEF DeleteServer, DeleteNodes
<1>22. CASE FreeRegistry
  BY <1>22 DEF FreeRegistry, NoWrapper, Wrapper
<1>23. CASE UNCHANGED vars
  BY <1>23 DEF vars
<1>24. QED
  BY <1>1, <1>2, <1>3, <1>4, <1>5, <1>6, <1>7, <1>9, <1>10, <1>11, <1>12,
     <1>13, <1>14, <1>15, <1>16, <1>17, <1>18, <1>19, <1>20, <1>21, <1>22,
     <1>23 DEF Next, Registration, Serving, GetObject, GetMethod, GetVariable, Classes

\* Contexts, wrappers, the heap and the callbacks in flight stay well typed
\* through every registration, callback and the destruction of the server.
THEOREM TypeCorrect == Spec => []TypeOK
<1>1. Init => TypeOK
  BY EmptySeq DEF Init, TypeOK, Steps, BindSteps, Idle, NoWrapper, Wrapper, Keys
<1>2. QED
  BY <1>1, StepTypes, PTL DEF Spec

-----------------------------------------------------------------------------
(* The inductive invariant.                                                *)

Open == op.pc \notin {"deleted", "closed"}

\* A wrapper is alive while a map or a handle holds it; what it owns is
\* allocated, and is of its kind.
WrapperInv ==
  \A w \in Wrappers :
    /\ Alive(w) => w \in registry \cup handles
    /\ ~Alive(w) => wrap[w] = NoWrapper /\ w \notin registry /\ w \notin handles
    /\ wrap[w].payload # None => /\ wrap[w].class \in Managed
                                 /\ heap[wrap[w].payload] = wrap[w].class

\* No two wrappers own the same payload.
OwnerInv ==
  \A v, w \in Wrappers :
    v # w /\ wrap[v].payload # None => wrap[v].payload # wrap[w].payload

\* The wrapper of a node is in the map of the node's class, and alone.
MapInv ==
  /\ \A v, w \in registry :
       wrap[v].class = wrap[w].class /\ wrap[v].id = wrap[w].id => v = w
  /\ Open => \A w \in Wrappers : Alive(w) /\ wrap[w].id \in NodeIds =>
               w \in registry /\ wrap[w].class = class[wrap[w].id]
  /\ ~Open => class = [i \in NodeIds |-> "absent"]

\* What the registration in progress relies on at each of its steps.
OpInv ==
  /\ op.pc = "setContext" /\ op.id \in NodeIds =>
       /\ class[op.id] = "object"
       /\ context[op.id] = None
       /\ \A w \in Wrappers : Alive(w) => wrap[w].id # op.id
  /\ op.pc = "make" =>
       /\ op.wrapper \in handles
       /\ wrap[op.wrapper].class = "method"
       /\ wrap[op.wrapper].payload = None
  /\ op.pc \in {"hookMethod", "connectMethod"} =>
       /\ op.wrapper \in handles
       /\ op.payload \in Payloads
       /\ wrap[op.wrapper] = [class |-> "method", id |-> op.id,
                              payload |-> op.payload]
  /\ op.pc \in {"hookVariable", "connectVariable", "reset"} =>
       /\ op.wrapper \in handles
       /\ wrap[op.wrapper].class = "variable"
       /\ wrap[op.wrapper].id = op.id
       /\ op.payload \in Payloads
       /\ heap[op.payload] = "variable"
       /\ \A w \in Wrappers : wrap[w].payload # op.payload
  /\ op.pc = "reset" /\ op.id \in NodeIds => context[op.id] = op.payload

\* How w comes to own what the context of node i points to: it owns it, or it
\* is the wrapper being bound, whose old callable is gone already or whose new
\* DataSource it does not own yet.
Owns(w, i) ==
  \/ wrap[w].payload = context[i]
  \/ /\ op.wrapper = w
     /\ op.pc \in {"hookMethod", "connectMethod"}
     /\ heap[context[i]] = "freed"
  \/ /\ op.wrapper = w
     /\ op.pc = "reset"
     /\ context[i] = op.payload

ContextInv ==
  \A i \in NodeIds :
    /\ class[i] = "absent" => context[i] = None
    /\ class[i] = "object" => context[i] \notin Payloads
    /\ class[i] \in Managed /\ context[i] # None =>
         /\ context[i] \in Payloads
         /\ \E w \in registry : /\ wrap[w].class = class[i]
                                /\ wrap[w].id = i
                                /\ Owns(w, i)

IInv == /\ TypeOK
        /\ WrapperInv
        /\ OwnerInv
        /\ MapInv
        /\ OpInv
        /\ ContextInv

-----------------------------------------------------------------------------
(* It holds initially and every step preserves it.                         *)

LEMMA InitInv == Init => IInv
<1> SUFFICES ASSUME Init PROVE IInv
  OBVIOUS
<1>1. TypeOK
  BY EmptySeq DEF Init, TypeOK, Steps, BindSteps, Idle, NoWrapper, Wrapper, Keys
<1>2. WrapperInv /\ OwnerInv
  BY DEF Init, WrapperInv, OwnerInv, Alive, NoWrapper
<1>3. MapInv /\ OpInv
  BY DEF Init, MapInv, OpInv, Open, Alive, NoWrapper, Idle
<1>4. ContextInv
  BY DEF Init, ContextInv, Managed
<1>5. QED
  BY <1>1, <1>2, <1>3, <1>4 DEF IInv

\* Steps that change neither the registry nor what it points to.
LEMMA QuietInv ==
  ASSUME IInv, UNCHANGED <<class, context, wrap, registry, handles, heap>>,
         op'.id = op.id, op'.wrapper = op.wrapper, op'.payload = op.payload,
         \/ op' = op
         \/ op.pc = "hookMethod" /\ op'.pc = "connectMethod"
         \/ op.pc = "hookVariable" /\ op'.pc = "connectVariable"
  PROVE  WrapperInv' /\ OwnerInv' /\ MapInv' /\ OpInv' /\ ContextInv'
<1>1. WrapperInv' /\ OwnerInv'
  BY DEF IInv, WrapperInv, OwnerInv, Alive
<1>2. MapInv'
  BY DEF IInv, MapInv, Open, Alive
<1>3. OpInv'
  BY DEF IInv, OpInv, Alive
<1>4. ContextInv'
  BY DEF IInv, ContextInv, Owns
<1>5. QED
  BY <1>1, <1>2, <1>3, <1>4

\* Outside of a bind, the wrapper of a node's class and id owns its context.
LEMMA SettledOwner ==
  ASSUME IInv,
         op.pc \notin {"hookMethod", "connectMethod", "reset"},
         NEW i \in NodeIds, class[i] \in Managed, context[i] # None
  PROVE  /\ context[i] \in Payloads
         /\ heap[context[i]] = class[i]
         /\ \E w \in registry : /\ wrap[w].class = class[i]
                                 /\ wrap[w].id = i
                                 /\ wrap[w].payload = context[i]
<1>1. PICK w \in registry : /\ wrap[w].class = class[i]
                            /\ wrap[w].id = i
                            /\ Owns(w, i)
  BY DEF IInv, ContextInv
<1>2. wrap[w].payload = context[i]
  BY <1>1 DEF Owns
<1>3. w \in Wrappers
  BY DEF IInv, TypeOK
<1>4. heap[context[i]] = class[i]
  BY <1>1, <1>2, <1>3 DEF IInv, WrapperInv
<1>5. QED
  BY <1>1, <1>2, <1>4 DEF IInv, ContextInv

\* What a new wrapper does to the wrappers and the maps.
LEMMA NewWrapperInv ==
  ASSUME IInv, NEW k \in Classes, NEW i \in Keys, NEW w \in Wrappers,
         NewWrapper(k, i, w), heap' = heap
  PROVE  /\ WrapperInv' /\ OwnerInv'
         /\ w \notin registry
         /\ registry \subseteq registry'
         /\ registry' \subseteq registry \cup {w}
         /\ wrap'[w] = [class |-> k, id |-> i, payload |-> None]
         /\ \A v \in Wrappers \ {w} : wrap'[v] = wrap[v]
         /\ \A u, v \in registry' :
              wrap'[u].class = wrap'[v].class /\ wrap'[u].id = wrap'[v].id
              => u = v
<1> USE DEF IInv
<1>1. w \notin registry /\ ~Alive(w)
  BY DEF NewWrapper, WrapperInv
<1>2. wrap'[w] = [class |-> k, id |-> i, payload |-> None]
  BY DEF NewWrapper, TypeOK
<1>3. \A v \in Wrappers \ {w} : wrap'[v] = wrap[v]
  BY DEF NewWrapper, TypeOK
<1>4. registry \subseteq registry' /\ registry' \subseteq registry \cup {w}
  BY DEF NewWrapper
<1>5. WrapperInv'
  <2>1. SUFFICES ASSUME NEW v \in Wrappers
                 PROVE  /\ Alive(v)' => v \in registry' \cup handles'
                        /\ ~Alive(v)' => /\ wrap'[v] = NoWrapper
                                         /\ v \notin registry'
                                         /\ v \notin handles'
                        /\ wrap'[v].payload # None =>
                             /\ wrap'[v].class \in Managed
                             /\ heap'[wrap'[v].payload] = wrap'[v].class
    BY DEF WrapperInv
  <2>2. CASE v = w
    BY <2>2, <1>2 DEF NewWrapper, Alive, Classes
  <2>3. CASE v # w
    BY <2>3, <1>3, <1>4 DEF NewWrapper, Alive, WrapperInv
  <2>4. QED
    BY <2>2, <2>3
<1>6. OwnerInv'
  <2>1. SUFFICES ASSUME NEW u \in Wrappers, NEW v \in Wrappers,
                        u # v, wrap'[u].payload # None
                 PROVE  wrap'[u].payload # wrap'[v].payload
    BY DEF OwnerInv
  <2>2. u # w /\ wrap'[u] = wrap[u]
    BY <2>1, <1>2, <1>3
  <2>3. CASE v = w
    BY <2>1, <2>3, <1>2
  <2>4. CASE v # w
    BY <2>1, <2>2, <2>4, <1>3 DEF OwnerInv
  <2>5. QED
    BY <2>3, <2>4
<1>7. \A u, v \in registry' :
        wrap'[u].class = wrap'[v].class /\ wrap'[u].id = wrap'[v].id => u = v
  <2>1. SUFFICES ASSUME NEW u \in registry', NEW v \in registry',
                        wrap'[u].class = wrap'[v].class,
                        wrap'[u].id = wrap'[v].id, u # v
                 PROVE  FALSE
    OBVIOUS
  <2>2. registry \subseteq Wrappers
    BY DEF TypeOK
  <2>3. CASE u # w /\ v # w
    BY <2>1, <2>2, <2>3, <1>3, <1>4 DEF MapInv
  <2>4. ASSUME NEW x \in registry, w \in registry', wrap[x].class = k,
               wrap[x].id = i
        PROVE  FALSE
    BY <2>4, <1>1 DEF NewWrapper, Find
  <2>5. CASE u = w
    BY <2>1, <2>2, <2>4, <2>5, <1>2, <1>3, <1>4
  <2>6. CASE v = w
    BY <2>1, <2>2, <2>4, <2>6, <1>2, <1>3, <1>4
  <2>7. QED
    BY <2>3, <2>5, <2>6
<1>8. QED
  BY <1>1, <1>2, <1>3, <1>4, <1>5, <1>6, <1>7

\* createVariable and createMethod: a node of class k and its wrapper.
LEMMA CreationInv ==
  ASSUME IInv, NEW k \in Managed, NEW i \in Ids \cup {Null},
         NEW n \in Added(i), NEW w \in Wrappers,
         op.pc = "idle", class' = [class EXCEPT ![n] = k],
         NewWrapper(k, i, w), UNCHANGED <<context, heap>>,
         \/ op' = op
         \/ op' = [Idle EXCEPT !.pc = "make", !.id = i, !.wrapper = w]
            /\ k = "method"
  PROVE  WrapperInv' /\ OwnerInv' /\ MapInv' /\ OpInv' /\ ContextInv'
<1> USE IdsAssumption DEF IInv
<1>1. /\ n \in NodeIds /\ class[n] = "absent"
      /\ i \in NodeIds => n = i
      /\ i \in Keys /\ k \in Classes
  BY DEF Added, NodeIds, Keys, Managed, Classes
<1>2. /\ WrapperInv' /\ OwnerInv'
      /\ w \notin registry
      /\ registry \subseteq registry'
      /\ registry' \subseteq registry \cup {w}
      /\ wrap'[w] = [class |-> k, id |-> i, payload |-> None]
      /\ \A v \in Wrappers \ {w} : wrap'[v] = wrap[v]
      /\ \A u, v \in registry' :
           wrap'[u].class = wrap'[v].class /\ wrap'[u].id = wrap'[v].id
           => u = v
  BY <1>1, NewWrapperInv
<1>3. Open /\ Open'
  BY DEF Open, Idle, TypeOK
<1>4. \A j \in NodeIds : class'[j] = IF j = n THEN k ELSE class[j]
  BY <1>1 DEF TypeOK
<1>5. \A v \in Wrappers : Alive(v) => wrap[v].id # n
  BY <1>1, <1>3 DEF MapInv, TypeOK, Alive, Wrapper, Classes
<1>6. ASSUME NEW v \in Wrappers, Alive(v)', wrap'[v].id \in NodeIds
      PROVE  v \in registry' /\ wrap'[v].class = class'[wrap'[v].id]
  <2>1. CASE v = w
    <3>1. i \in NodeIds /\ n = i
      BY <1>1, <1>2, <1>6, <2>1
    <3>2. Find(k, i) = {}
      BY <1>5, <3>1 DEF Find, TypeOK, WrapperInv
    <3>3. QED
      BY <1>2, <1>4, <2>1, <3>1, <3>2 DEF NewWrapper
  <2>2. CASE v # w
    <3>1. Alive(v) /\ wrap[v].id \in NodeIds /\ wrap'[v] = wrap[v]
      BY <1>2, <1>6, <2>2 DEF Alive
    <3>2. v \in registry /\ wrap[v].class = class[wrap[v].id]
      BY <1>3, <3>1 DEF MapInv
    <3>3. QED
      BY <1>2, <1>4, <1>5, <3>1, <3>2
  <2>3. QED
    BY <2>1, <2>2
<1>7. MapInv'
  BY <1>2, <1>3, <1>6 DEF MapInv
<1>8. OpInv'
  <2>1. CASE op' = op
    BY <2>1 DEF OpInv
  <2>2. CASE op' # op
    <3>1. op'.pc = "make" /\ op'.wrapper = w
      BY <2>2 DEF Idle
    <3>2. w \in handles' /\ wrap'[w].class = "method" /\ wrap'[w].payload = None
      BY <1>2, <2>2 DEF NewWrapper
    <3>3. QED
      BY <3>1, <3>2 DEF OpInv
  <2>3. QED
    BY <2>1, <2>2
<1>9. ContextInv'
  <2>1. SUFFICES ASSUME NEW j \in NodeIds
                 PROVE  /\ class'[j] = "absent" => context'[j] = None
                        /\ class'[j] = "object" => context'[j] \notin Payloads
                        /\ class'[j] \in Managed /\ context'[j] # None =>
                             /\ context'[j] \in Payloads
                             /\ \E v \in registry' :
                                  /\ wrap'[v].class = class'[j]
                                  /\ wrap'[v].id = j
                                  /\ Owns(v, j)'
    BY DEF ContextInv
  <2>2. CASE j = n
    BY <1>1, <1>4, <2>2 DEF ContextInv, Managed
  <2>3. CASE j # n
    <3>1. class'[j] = class[j] /\ context'[j] = context[j]
      BY <1>4, <2>3
    <3>2. ASSUME class[j] \in Managed, context[j] # None
          PROVE  /\ context[j] \in Payloads
                 /\ \E v \in registry : /\ wrap[v].class = class[j]
                                         /\ wrap[v].id = j
                                         /\ wrap[v].payload = context[j]
      BY <3>2, SettledOwner
    <3>3. ASSUME NEW v \in registry
          PROVE  v \in registry' /\ wrap'[v] = wrap[v]
      BY <1>2 DEF TypeOK
    <3>4. QED
      BY <3>1, <3>2, <3>3 DEF ContextInv, Owns
  <2>4. QED
    BY <2>2, <2>3
<1>10. QED
  BY <1>2, <1>7, <1>8, <1>9

LEMMA CreateObjectInv ==
  ASSUME IInv, NEW i \in Ids \cup {Null}, NEW obj \in Objects \cup {None},
         CreateObject(i, obj)
  PROVE  WrapperInv' /\ OwnerInv' /\ MapInv' /\ OpInv' /\ ContextInv'
<1> USE IdsAssumption DEF IInv
<1>1. PICK n \in Added(i) : class' = [class EXCEPT ![n] = "object"]
  BY DEF CreateObject
<1>2. /\ n \in NodeIds /\ class[n] = "absent"
      /\ i \in NodeIds => n = i
  BY DEF Added, NodeIds
<1>3. /\ op.pc = "idle" /\ op'.pc = "setContext" /\ op'.id = i
      /\ UNCHANGED <<context, wrap, registry, handles, heap>>
  BY DEF CreateObject, MayOperate, Idle
<1>4. Open /\ Open'
  BY <1>3 DEF Open
<1>5. \A j \in NodeIds : class'[j] = IF j = n THEN "object" ELSE class[j]
  BY <1>1, <1>2 DEF TypeOK
<1>6. \A v \in Wrappers : Alive(v) => wrap[v].id # n
  BY <1>2, <1>4 DEF MapInv, TypeOK, Alive, Wrapper, Classes
<1>7. WrapperInv' /\ OwnerInv'
  BY <1>3 DEF WrapperInv, OwnerInv, Alive
<1>8. MapInv'
  BY <1>3, <1>4, <1>5, <1>6 DEF MapInv, Alive
<1>9. OpInv'
  BY <1>2, <1>3, <1>5, <1>6 DEF OpInv, ContextInv, Alive
<1>10. ContextInv'
  <2>1. ASSUME NEW j \in NodeIds, class[j] \in Managed, context[j] # None
        PROVE  /\ context[j] \in Payloads
               /\ \E v \in registry : /\ wrap[v].class = class[j]
                                       /\ wrap[v].id = j
                                       /\ wrap[v].payload = context[j]
    BY <1>3, <2>1, SettledOwner
  <2>2. QED
    BY <1>2, <1>3, <1>5, <2>1 DEF ContextInv, Owns, Managed
<1>11. QED
  BY <1>7, <1>8, <1>9, <1>10

LEMMA SetObjectContextInv ==
  ASSUME IInv, SetObjectContext
  PROVE  WrapperInv' /\ OwnerInv' /\ MapInv' /\ OpInv' /\ ContextInv'
<1> USE IdsAssumption DEF IInv
<1>1. PICK w \in Wrappers : NewWrapper("object", op.id, w)
  BY DEF SetObjectContext
<1>2. /\ op.pc = "setContext" /\ op'.pc = "idle" /\ op.id \in Keys
      /\ op.object \in Objects \cup {None}
      /\ UNCHANGED <<class, heap>>
  BY DEF SetObjectContext, Idle, TypeOK
<1>3. /\ WrapperInv' /\ OwnerInv'
      /\ w \notin registry
      /\ registry \subseteq registry'
      /\ registry' \subseteq registry \cup {w}
      /\ wrap'[w] = [class |-> "object", id |-> op.id, payload |-> None]
      /\ \A v \in Wrappers \ {w} : wrap'[v] = wrap[v]
      /\ \A u, v \in registry' :
           wrap'[u].class = wrap'[v].class /\ wrap'[u].id = wrap'[v].id
           => u = v
  BY <1>1, <1>2, NewWrapperInv DEF Classes
<1>4. Open /\ Open'
  BY <1>2 DEF Open
<1>5. ASSUME NEW v \in Wrappers, Alive(v)', wrap'[v].id \in NodeIds
      PROVE  v \in registry' /\ wrap'[v].class = class'[wrap'[v].id]
  <2>1. CASE v = w
    <3>1. op.id \in NodeIds
      BY <1>3, <1>5, <2>1
    <3>2. class[op.id] = "object" /\ Find("object", op.id) = {}
      BY <1>2, <3>1 DEF OpInv, Find, TypeOK, WrapperInv
    <3>3. QED
      BY <1>1, <1>2, <1>3, <2>1, <3>2 DEF NewWrapper
  <2>2. CASE v # w
    <3>1. Alive(v) /\ wrap[v].id \in NodeIds /\ wrap'[v] = wrap[v]
      BY <1>3, <1>5, <2>2 DEF Alive
    <3>2. QED
      BY <1>2, <1>3, <1>4, <3>1 DEF MapInv
  <2>3. QED
    BY <2>1, <2>2
<1>6. MapInv'
  BY <1>3, <1>4, <1>5 DEF MapInv
<1>7. OpInv'
  BY <1>2 DEF OpInv
<1>8. ContextInv'
  <2>1. ASSUME NEW j \in NodeIds, class[j] \in Managed, context[j] # None
        PROVE  /\ context[j] \in Payloads
               /\ \E v \in registry : /\ wrap[v].class = class[j]
                                       /\ wrap[v].id = j
                                       /\ wrap[v].payload = context[j]
    BY <1>2, <2>1, SettledOwner
  <2>2. ASSUME NEW v \in registry
        PROVE  v \in registry' /\ wrap'[v] = wrap[v]
    BY <1>3 DEF TypeOK
  <2>3. ASSUME NEW j \in NodeIds
        PROVE  context'[j] = IF j = op.id THEN op.object ELSE context[j]
    BY <1>2, <2>3 DEF SetObjectContext, SetNodeContext, Exists, TypeOK, OpInv
  <2>4. op.id \in NodeIds => class[op.id] = "object" /\ op.object \notin Payloads
    BY <1>2 DEF OpInv
  <2>5. QED
    BY <1>2, <2>1, <2>2, <2>3, <2>4 DEF ContextInv, Owns, Managed
<1>9. QED
  BY <1>3, <1>6, <1>7, <1>8

LEMMA GetNodeInv ==
  ASSUME IInv, NEW k \in Classes, NEW i \in Keys, GetNode(k, i)
  PROVE  WrapperInv' /\ OwnerInv' /\ MapInv' /\ OpInv' /\ ContextInv'
<1> USE IdsAssumption DEF IInv
<1>1. /\ op.pc = "idle" /\ op' = op
      /\ UNCHANGED <<class, context, heap>>
  BY DEF GetNode, MayOperate
<1>2. Open /\ Open'
  BY <1>1 DEF Open
<1>3. OpInv'
  BY <1>1 DEF OpInv
<1>4. ASSUME NEW j \in NodeIds, class[j] \in Managed, context[j] # None
      PROVE  /\ context[j] \in Payloads
             /\ \E v \in registry : /\ wrap[v].class = class[j]
                                     /\ wrap[v].id = j
                                     /\ wrap[v].payload = context[j]
  BY <1>1, <1>4, SettledOwner
<1>5. CASE Find(k, i) # {}
  <2>1. /\ UNCHANGED <<wrap, registry>>
        /\ handles' = handles \cup Find(k, i)
    BY <1>5 DEF GetNode
  <2>2. \A v \in Find(k, i) : v \in registry /\ v \in Wrappers
    BY DEF Find, TypeOK
  <2>3. WrapperInv' /\ OwnerInv'
    BY <1>1, <2>1, <2>2 DEF WrapperInv, OwnerInv, Alive
  <2>4. MapInv'
    BY <1>1, <1>2, <2>1 DEF MapInv, Alive
  <2>5. ContextInv'
    BY <1>1, <1>4, <2>1 DEF ContextInv, Owns
  <2>6. QED
    BY <1>3, <2>3, <2>4, <2>5
<1>6. CASE Find(k, i) = {}
  <2>1. PICK w \in Wrappers : NewWrapper(k, i, w)
    BY <1>6 DEF GetNode
  <2>2. i \in NodeIds /\ class[i] = k
    BY <1>6 DEF GetNode, Exists
  <2>3. /\ WrapperInv' /\ OwnerInv'
        /\ registry \subseteq registry'
        /\ wrap'[w] = [class |-> k, id |-> i, payload |-> None]
        /\ \A v \in Wrappers \ {w} : wrap'[v] = wrap[v]
        /\ \A u, v \in registry' :
             wrap'[u].class = wrap'[v].class /\ wrap'[u].id = wrap'[v].id
             => u = v
        /\ w \notin registry
    BY <1>1, <2>1, NewWrapperInv
  <2> w \in registry'
    BY <1>6, <2>1 DEF NewWrapper
  <2>4. \A v \in Wrappers : Alive(v)' /\ wrap'[v].id \in NodeIds =>
          v \in registry' /\ wrap'[v].class = class'[wrap'[v].id]
    BY <1>1, <1>2, <2>2, <2>3 DEF MapInv, Alive
  <2>5. MapInv'
    BY <1>2, <2>3, <2>4 DEF MapInv
  <2>6. ASSUME NEW v \in registry
        PROVE  v \in registry' /\ wrap'[v] = wrap[v]
    BY <2>3 DEF TypeOK
  <2>7. ContextInv'
    BY <1>1, <1>4, <2>6 DEF ContextInv, Owns
  <2>8. QED
    BY <1>3, <2>3, <2>5, <2>7
<1>7. QED
  BY <1>5, <1>6

LEMMA LoadNodeInv ==
  ASSUME IInv, NEW k \in Classes, NEW i \in Ids, LoadNode(k, i)
  PROVE  WrapperInv' /\ OwnerInv' /\ MapInv' /\ OpInv' /\ ContextInv'
<1> USE IdsAssumption DEF IInv
<1>1. /\ op.pc = "idle" /\ op' = op
      /\ i \in NodeIds /\ class[i] = "absent"
      /\ UNCHANGED <<context, wrap, registry, handles, heap>>
  BY DEF LoadNode, MayOperate, NodeIds
<1>2. Open /\ Open'
  BY <1>1 DEF Open
<1>3. \A j \in NodeIds : class'[j] = IF j = i THEN k ELSE class[j]
  BY <1>1 DEF LoadNode, TypeOK
<1>4. \A v \in Wrappers : Alive(v) => wrap[v].id # i
  BY <1>1, <1>2 DEF MapInv, TypeOK, Alive, Wrapper, Classes
<1>5. WrapperInv' /\ OwnerInv' /\ OpInv'
  BY <1>1 DEF WrapperInv, OwnerInv, Alive, OpInv
<1>6. MapInv'
  BY <1>1, <1>2, <1>3, <1>4 DEF MapInv, Alive
<1>7. ContextInv'
  <2>1. ASSUME NEW j \in NodeIds, class[j] \in Managed, context[j] # None
        PROVE  /\ context[j] \in Payloads
               /\ \E v \in registry : /\ wrap[v].class = class[j]
                                       /\ wrap[v].id = j
                                       /\ wrap[v].payload = context[j]
    BY <1>1, <2>1, SettledOwner
  <2>2. QED
    BY <1>1, <1>3, <2>1 DEF ContextInv, Owns, Managed
<1>8. QED
  BY <1>5, <1>6, <1>7

LEMMA DropHandleInv ==
  ASSUME IInv, NEW w \in Wrappers, DropHandle(w)
  PROVE  WrapperInv' /\ OwnerInv' /\ MapInv' /\ OpInv' /\ ContextInv'
<1> USE IdsAssumption DEF IInv
<1>1. /\ op.pc \in {"idle", "closed"} /\ op' = op
      /\ handles' = handles \ {w}
      /\ w \in handles
      /\ UNCHANGED <<class, context, registry>>
  BY DEF DropHandle, MayOperate
<1>2. OpInv'
  BY <1>1 DEF OpInv
<1>3. CASE w \in registry
  <2>1. UNCHANGED <<wrap, heap>>
    BY <1>3 DEF DropHandle
  <2>2. WrapperInv' /\ OwnerInv' /\ MapInv'
    BY <1>1, <1>3, <2>1 DEF WrapperInv, OwnerInv, MapInv, Alive, Open
  <2>3. ContextInv'
    BY <1>1, <2>1 DEF ContextInv, Owns
  <2>4. QED
    BY <1>2, <2>2, <2>3
<1>4. CASE w \notin registry
  <2>1. /\ wrap' = [wrap EXCEPT ![w] = NoWrapper]
        /\ heap' = [p \in Payloads |-> IF p = wrap[w].payload THEN "freed"
                                                              ELSE heap[p]]
    BY <1>4 DEF DropHandle
  <2>2. \A v \in Wrappers : wrap'[v] = IF v = w THEN NoWrapper ELSE wrap[v]
    BY <2>1 DEF TypeOK
  <2>3. \A v \in Wrappers : wrap[v].payload \in Payloads \cup {None}
    BY DEF TypeOK, Wrapper
  <2>4. WrapperInv'
    <3>1. ASSUME NEW v \in Wrappers
          PROVE  /\ Alive(v)' => v \in registry' \cup handles'
                 /\ ~Alive(v)' => /\ wrap'[v] = NoWrapper
                                  /\ v \notin registry' /\ v \notin handles'
      BY <1>1, <1>4, <2>2 DEF WrapperInv, Alive, NoWrapper
    <3>2. ASSUME NEW v \in Wrappers, wrap'[v].payload # None
          PROVE  /\ wrap'[v].class \in Managed
                 /\ heap'[wrap'[v].payload] = wrap'[v].class
      <4>1. v # w /\ wrap'[v] = wrap[v]
        BY <2>2, <3>2 DEF NoWrapper
      <4>2. wrap[v].payload \in Payloads /\ wrap[v].payload # wrap[w].payload
        BY <2>3, <3>2, <4>1 DEF OwnerInv
      <4>3. heap'[wrap[v].payload] = heap[wrap[v].payload]
        BY <2>1, <4>2
      <4>4. QED
        BY <3>2, <4>1, <4>3 DEF WrapperInv
    <3>3. QED
      BY <3>1, <3>2 DEF WrapperInv
  <2>5. OwnerInv'
    BY <2>2 DEF OwnerInv, NoWrapper
  <2>6. MapInv'
    BY <1>1, <1>4, <2>2 DEF MapInv, Alive, Open, NoWrapper, TypeOK
  <2>7. ContextInv'
    <3>1. ASSUME NEW j \in NodeIds, class[j] \in Managed, context[j] # None
          PROVE  /\ context[j] \in Payloads
                 /\ \E v \in registry : /\ wrap[v].class = class[j]
                                         /\ wrap[v].id = j
                                         /\ wrap[v].payload = context[j]
      BY <1>1, <3>1, SettledOwner
    <3>2. \A v \in registry : wrap'[v] = wrap[v]
      BY <1>4, <2>2 DEF TypeOK
    <3>3. QED
      BY <1>1, <3>1, <3>2 DEF ContextInv, Owns
  <2>8. QED
    BY <1>2, <2>4, <2>5, <2>6, <2>7
<1>5. QED
  BY <1>3, <1>4

\* bindCallable, first step: the wrapper changes its callable while the context
\* still points to the old one.
LEMMA MakeCallableInv ==
  ASSUME IInv, NEW w \in Wrappers, MakeCallable(w),
         op.pc \in {"idle", "make"}, w \in handles, wrap[w].class = "method",
         UNCHANGED <<class, context, registry, handles>>
  PROVE  WrapperInv' /\ OwnerInv' /\ MapInv' /\ OpInv' /\ ContextInv'
<1> USE IdsAssumption DEF IInv
<1>1. PICK p \in Payloads :
        /\ heap[p] = "fresh"
        /\ heap' = [q \in Payloads |-> IF q = p THEN "method"
                                       ELSE IF q = wrap[w].payload THEN "freed"
                                       ELSE heap[q]]
        /\ wrap' = [wrap EXCEPT ![w].payload = p]
        /\ op' = [Idle EXCEPT !.pc = "hookMethod", !.id = wrap[w].id,
                              !.wrapper = w, !.payload = p]
  BY DEF MakeCallable
<1>2. \A v \in Wrappers \ {w} : wrap'[v] = wrap[v]
  BY <1>1 DEF TypeOK
<1>3. wrap'[w] = [class |-> "method", id |-> wrap[w].id, payload |-> p]
  BY <1>1 DEF TypeOK, Wrapper
<1>4. \A v \in Wrappers : /\ wrap[v].payload # p
                          /\ wrap[v].payload \in Payloads \cup {None}
  BY <1>1 DEF WrapperInv, TypeOK, Wrapper, Managed
<1>5. /\ op'.pc = "hookMethod" /\ op'.id = wrap[w].id
      /\ op'.wrapper = w /\ op'.payload = p
  BY <1>1 DEF Idle
<1>6. Open /\ Open'
  BY <1>5 DEF Open
<1>7. WrapperInv'
  <2>1. ASSUME NEW v \in Wrappers
        PROVE  /\ Alive(v)' => v \in registry' \cup handles'
               /\ ~Alive(v)' => /\ wrap'[v] = NoWrapper
                                /\ v \notin registry' /\ v \notin handles'
    BY <1>2, <1>3 DEF WrapperInv, Alive
  <2>2. ASSUME NEW v \in Wrappers, wrap'[v].payload # None
        PROVE  /\ wrap'[v].class \in Managed
               /\ heap'[wrap'[v].payload] = wrap'[v].class
    <3>1. CASE v = w
      BY <1>1, <1>3, <3>1 DEF Managed
    <3>2. CASE v # w
      <4>1. wrap'[v] = wrap[v] /\ wrap[v].payload # None
        BY <1>2, <2>2, <3>2
      <4>2. /\ wrap[v].payload \in Payloads
            /\ wrap[v].payload # p
            /\ wrap[v].payload # wrap[w].payload
        BY <1>4, <3>2, <4>1 DEF OwnerInv
      <4>3. heap'[wrap[v].payload] = heap[wrap[v].payload]
        BY <1>1, <4>2
      <4>4. QED
        BY <4>1, <4>3 DEF WrapperInv
    <3>3. QED
      BY <3>1, <3>2
  <2>3. QED
    BY <2>1, <2>2 DEF WrapperInv
<1>8. OwnerInv'
  BY <1>2, <1>3, <1>4 DEF OwnerInv
<1>9. \A v \in Wrappers : /\ wrap'[v].class = wrap[v].class
                          /\ wrap'[v].id = wrap[v].id
                          /\ Alive(v)' = Alive(v)
  BY <1>2, <1>3 DEF Alive
<1>10. MapInv'
  BY <1>6, <1>9 DEF MapInv, TypeOK
<1>11. OpInv'
  BY <1>3, <1>5 DEF OpInv
<1>12. ContextInv'
  <2>1. ASSUME NEW j \in NodeIds, class[j] \in Managed, context[j] # None
        PROVE  /\ context[j] \in Payloads
               /\ \E v \in registry : /\ wrap'[v].class = class[j]
                                       /\ wrap'[v].id = j
                                       /\ Owns(v, j)'
    <3>1. /\ context[j] \in Payloads
          /\ heap[context[j]] = class[j]
          /\ \E v \in registry : /\ wrap[v].class = class[j]
                                  /\ wrap[v].id = j
                                  /\ wrap[v].payload = context[j]
      BY <2>1, SettledOwner
    <3>2. PICK v \in registry : /\ wrap[v].class = class[j]
                                /\ wrap[v].id = j
                                /\ wrap[v].payload = context[j]
      BY <3>1
    <3>3. v \in Wrappers
      BY DEF TypeOK
    <3>4. CASE v # w
      BY <1>2, <3>1, <3>2, <3>3, <3>4 DEF Owns
    <3>5. CASE v = w
      <4>1. context[j] # p
        BY <1>4, <3>2, <3>3
      <4>2. heap'[context[j]] = "freed"
        BY <1>1, <3>1, <3>2, <3>5, <4>1
      <4>3. QED
        BY <1>5, <1>9, <3>1, <3>2, <3>3, <3>5, <4>2 DEF Owns
    <3>6. QED
      BY <3>4, <3>5
  <2>2. QED
    BY <2>1 DEF ContextInv
<1>13. QED
  BY <1>7, <1>8, <1>10, <1>11, <1>12

LEMMA ConnectMethodInv ==
  ASSUME IInv, ConnectMethod
  PROVE  WrapperInv' /\ OwnerInv' /\ MapInv' /\ OpInv' /\ ContextInv'
<1> USE IdsAssumption DEF IInv
<1>1. /\ op.pc = "connectMethod" /\ op'.pc = "idle"
      /\ UNCHANGED <<class, wrap, registry, handles, heap>>
  BY DEF ConnectMethod, Idle
<1>2. WrapperInv' /\ OwnerInv' /\ MapInv' /\ OpInv'
  BY <1>1 DEF WrapperInv, OwnerInv, MapInv, OpInv, Alive, Open
<1>3. /\ op.wrapper \in Wrappers /\ op.payload \in Payloads
      /\ wrap[op.wrapper] = [class |-> "method", id |-> op.id,
                             payload |-> op.payload]
  BY <1>1 DEF OpInv, TypeOK
<1>4. op.id \in NodeIds => /\ op.wrapper \in registry
                          /\ class[op.id] = "method"
  BY <1>1, <1>3 DEF MapInv, Open, Alive
<1>5. ASSUME NEW j \in NodeIds
      PROVE  context'[j] = IF j = op.id THEN op.payload ELSE context[j]
  BY <1>1, <1>4 DEF ConnectMethod, SetNodeContext, Exists, TypeOK
<1>6. ContextInv'
  <2>1. ASSUME NEW j \in NodeIds
        PROVE  /\ class'[j] = "absent" => context'[j] = None
               /\ class'[j] = "object" => context'[j] \notin Payloads
               /\ class'[j] \in Managed /\ context'[j] # None =>
                    /\ context'[j] \in Payloads
                    /\ \E v \in registry' : /\ wrap'[v].class = class'[j]
                                            /\ wrap'[v].id = j
                                            /\ Owns(v, j)'
    <3>1. CASE j = op.id
      BY <1>1, <1>3, <1>4, <1>5, <3>1 DEF Owns
    <3>2. CASE j # op.id
      <4>1. context'[j] = context[j] /\ class'[j] = class[j]
        BY <1>1, <1>5, <3>2
      <4>2. ASSUME NEW v \in registry, wrap[v].id = j, Owns(v, j)
            PROVE  Owns(v, j)'
        BY <1>1, <1>3, <3>2, <4>1, <4>2 DEF Owns
      <4>3. QED
        BY <1>1, <4>1, <4>2 DEF ContextInv
    <3>3. QED
      BY <3>1, <3>2
  <2>2. QED
    BY <2>1 DEF ContextInv
<1>7. QED
  BY <1>2, <1>6

LEMMA ConnectCallbackInv ==
  ASSUME IInv, NEW w \in Wrappers, ConnectCallback(w)
  PROVE  WrapperInv' /\ OwnerInv' /\ MapInv' /\ OpInv' /\ ContextInv'
<1> USE IdsAssumption DEF IInv
<1>1. PICK p \in Payloads :
        /\ heap[p] = "fresh"
        /\ heap' = [heap EXCEPT ![p] = "variable"]
        /\ op' = [Idle EXCEPT !.pc = "hookVariable", !.id = wrap[w].id,
                              !.wrapper = w, !.payload = p]
  BY DEF ConnectCallback
<1>2. /\ op.pc = "idle" /\ w \in handles /\ wrap[w].class = "variable"
      /\ UNCHANGED <<class, context, wrap, registry, handles>>
  BY DEF ConnectCallback, MayOperate
<1>3. /\ op'.pc = "hookVariable" /\ op'.id = wrap[w].id
      /\ op'.wrapper = w /\ op'.payload = p
  BY <1>1 DEF Idle
<1>4. \A v \in Wrappers : /\ wrap[v].payload # p
                          /\ wrap[v].payload \in Payloads \cup {None}
  BY <1>1 DEF WrapperInv, TypeOK, Wrapper, Managed
<1>5. \A q \in Payloads : heap'[q] = IF q = p THEN "variable" ELSE heap[q]
  BY <1>1 DEF TypeOK
<1>6. WrapperInv' /\ OwnerInv' /\ MapInv'
  BY <1>2, <1>3, <1>4, <1>5 DEF WrapperInv, OwnerInv, MapInv, Alive, Open
<1>7. OpInv'
  BY <1>2, <1>3, <1>4, <1>5 DEF OpInv
<1>8. ContextInv'
  <2>1. ASSUME NEW j \in NodeIds, class[j] \in Managed, context[j] # None
        PROVE  /\ context[j] \in Payloads
               /\ \E v \in registry : /\ wrap[v].class = class[j]
                                       /\ wrap[v].id = j
                                       /\ wrap[v].payload = context[j]
    BY <1>2, <2>1, SettledOwner
  <2>2. QED
    BY <1>2, <2>1 DEF ContextInv, Owns
<1>9. QED
  BY <1>6, <1>7, <1>8

LEMMA ConnectVariableInv ==
  ASSUME IInv, ConnectVariable
  PROVE  WrapperInv' /\ OwnerInv' /\ MapInv' /\ OpInv' /\ ContextInv'
<1> USE IdsAssumption DEF IInv
<1>1. /\ op.pc = "connectVariable" /\ op'.pc = "reset" /\ op'.id = op.id
      /\ op'.wrapper = op.wrapper /\ op'.payload = op.payload
      /\ UNCHANGED <<class, wrap, registry, handles, heap>>
  BY DEF ConnectVariable, TypeOK
<1>2. WrapperInv' /\ OwnerInv' /\ MapInv'
  BY <1>1 DEF WrapperInv, OwnerInv, MapInv, Alive, Open
<1>3. /\ op.wrapper \in Wrappers /\ op.payload \in Payloads
      /\ wrap[op.wrapper].class = "variable"
      /\ wrap[op.wrapper].id = op.id
  BY <1>1 DEF OpInv, TypeOK
<1>4. op.id \in NodeIds => /\ op.wrapper \in registry
                          /\ class[op.id] = "variable"
  BY <1>1, <1>3 DEF MapInv, Open, Alive
<1>5. ASSUME NEW j \in NodeIds
      PROVE  context'[j] = IF j = op.id THEN op.payload ELSE context[j]
  BY <1>1, <1>4 DEF ConnectVariable, SetNodeContext, Exists, TypeOK
<1>6. OpInv'
  BY <1>1, <1>5 DEF OpInv
<1>7. ContextInv'
  <2>1. ASSUME NEW j \in NodeIds, class[j] \in Managed, context[j] # None
        PROVE  /\ context[j] \in Payloads
               /\ \E v \in registry : /\ wrap[v].class = class[j]
                                       /\ wrap[v].id = j
                                       /\ wrap[v].payload = context[j]
    BY <1>1, <2>1, SettledOwner
  <2>2. ASSUME NEW j \in NodeIds
        PROVE  /\ class'[j] = "absent" => context'[j] = None
               /\ class'[j] = "object" => context'[j] \notin Payloads
               /\ class'[j] \in Managed /\ context'[j] # None =>
                    /\ context'[j] \in Payloads
                    /\ \E v \in registry' : /\ wrap'[v].class = class'[j]
                                            /\ wrap'[v].id = j
                                            /\ Owns(v, j)'
    <3>1. CASE j = op.id
      BY <1>1, <1>3, <1>4, <1>5, <3>1 DEF Owns
    <3>2. CASE j # op.id
      BY <1>1, <1>5, <2>1, <3>2 DEF ContextInv, Owns
    <3>3. QED
      BY <3>1, <3>2
  <2>3. QED
    BY <2>2 DEF ContextInv
<1>8. QED
  BY <1>2, <1>6, <1>7

\* connectCallback, last step: the context has moved on, so the DataSource that
\* is destroyed is nobody's context.
LEMMA ResetDataSourceInv ==
  ASSUME IInv, ResetDataSource
  PROVE  WrapperInv' /\ OwnerInv' /\ MapInv' /\ OpInv' /\ ContextInv'
<1> USE IdsAssumption DEF IInv
<1> DEFINE w == op.wrapper
           p == op.payload
<1>1. /\ op.pc = "reset" /\ op'.pc = "idle"
      /\ wrap' = [wrap EXCEPT ![w].payload = p]
      /\ heap' = [q \in Payloads |-> IF q = wrap[w].payload THEN "freed"
                                     ELSE heap[q]]
      /\ UNCHANGED <<class, context, registry, handles>>
  BY DEF ResetDataSource, Idle
<1>2. /\ w \in Wrappers /\ w \in handles /\ p \in Payloads
      /\ wrap[w].class = "variable" /\ wrap[w].id = op.id
      /\ heap[p] = "variable"
      /\ \A v \in Wrappers : wrap[v].payload # p
  BY <1>1 DEF OpInv, TypeOK
<1>3. \A v \in Wrappers \ {w} : wrap'[v] = wrap[v]
  BY <1>1 DEF TypeOK
<1>4. wrap'[w] = [class |-> "variable", id |-> op.id, payload |-> p]
  BY <1>1, <1>2 DEF TypeOK, Wrapper
<1>5. WrapperInv'
  <2>1. ASSUME NEW v \in Wrappers
        PROVE  /\ Alive(v)' => v \in registry' \cup handles'
               /\ ~Alive(v)' => /\ wrap'[v] = NoWrapper
                                /\ v \notin registry' /\ v \notin handles'
    BY <1>1, <1>2, <1>3, <1>4 DEF WrapperInv, Alive
  <2>2. ASSUME NEW v \in Wrappers, wrap'[v].payload # None
        PROVE  /\ wrap'[v].class \in Managed
               /\ heap'[wrap'[v].payload] = wrap'[v].class
    <3>1. CASE v = w
      BY <1>1, <1>2, <1>4, <3>1 DEF Managed
    <3>2. CASE v # w
      <4>1. wrap'[v] = wrap[v] /\ wrap[v].payload # None
        BY <1>3, <2>2, <3>2
      <4>2. wrap[v].payload \in Payloads /\ wrap[v].payload # wrap[w].payload
        BY <1>2, <3>2, <4>1 DEF OwnerInv, TypeOK, Wrapper
      <4>3. heap'[wrap[v].payload] = heap[wrap[v].payload]
        BY <1>1, <4>2
      <4>4. QED
        BY <4>1, <4>3 DEF WrapperInv
    <3>3. QED
      BY <3>1, <3>2
  <2>3. QED
    BY <2>1, <2>2 DEF WrapperInv
<1>6. OwnerInv'
  BY <1>2, <1>3, <1>4 DEF OwnerInv
<1>7. \A v \in Wrappers : /\ wrap'[v].class = wrap[v].class
                          /\ wrap'[v].id = wrap[v].id
                          /\ Alive(v)' = Alive(v)
  BY <1>2, <1>3, <1>4 DEF Alive
<1>8. MapInv'
  BY <1>1, <1>7 DEF MapInv, TypeOK, Open
<1>9. OpInv'
  BY <1>1 DEF OpInv
<1>10. ContextInv'
  <2>1. ASSUME NEW j \in NodeIds, NEW v \in registry,
               wrap[v].id = j, Owns(v, j)
        PROVE  Owns(v, j)'
    <3>1. v \in Wrappers
      BY DEF TypeOK
    <3>2. CASE v = w
      BY <1>1, <1>2, <1>4, <2>1, <3>2 DEF Owns, OpInv
    <3>3. CASE v # w
      BY <1>1, <1>3, <2>1, <3>1, <3>3 DEF Owns
    <3>4. QED
      BY <3>2, <3>3
  <2>2. QED
    BY <1>1, <1>7, <2>1 DEF ContextInv, TypeOK
<1>11. QED
  BY <1>5, <1>6, <1>8, <1>9, <1>10

LEMMA DeleteServerInv ==
  ASSUME IInv, DeleteServer
  PROVE  WrapperInv' /\ OwnerInv' /\ MapInv' /\ OpInv' /\ ContextInv'
<1>1. /\ op'.pc = "deleted"
      /\ class' = [i \in NodeIds |-> "absent"]
      /\ context' = [i \in NodeIds |-> None]
      /\ UNCHANGED <<wrap, registry, handles, heap>>
  BY DEF DeleteServer, DeleteNodes, Idle
<1>2. WrapperInv' /\ OwnerInv' /\ MapInv' /\ OpInv'
  BY <1>1 DEF IInv, WrapperInv, OwnerInv, MapInv, OpInv, Alive, Open
<1>3. ContextInv'
  BY <1>1 DEF ContextInv, Managed
<1>4. QED
  BY <1>2, <1>3

LEMMA FreeRegistryInv ==
  ASSUME IInv, FreeRegistry
  PROVE  WrapperInv' /\ OwnerInv' /\ MapInv' /\ OpInv' /\ ContextInv'
<1> USE IdsAssumption DEF IInv
<1> DEFINE dead == registry \ handles
<1>1. /\ op.pc = "deleted" /\ op'.pc = "closed"
      /\ wrap' = [w \in Wrappers |-> IF w \in dead THEN NoWrapper ELSE wrap[w]]
      /\ heap' = [p \in Payloads |-> IF \E w \in dead : wrap[w].payload = p
                                     THEN "freed" ELSE heap[p]]
      /\ registry' = {}
      /\ UNCHANGED <<class, context, handles>>
  BY DEF FreeRegistry, Idle
<1>2. \A i \in NodeIds : class[i] = "absent"
  BY <1>1 DEF MapInv, Open
<1>3. WrapperInv'
  <2>1. ASSUME NEW v \in Wrappers
        PROVE  /\ Alive(v)' => v \in registry' \cup handles'
               /\ ~Alive(v)' => /\ wrap'[v] = NoWrapper
                                /\ v \notin registry' /\ v \notin handles'
    BY <1>1 DEF WrapperInv, Alive, NoWrapper
  <2>2. ASSUME NEW v \in Wrappers, wrap'[v].payload # None
        PROVE  /\ wrap'[v].class \in Managed
               /\ heap'[wrap'[v].payload] = wrap'[v].class
    <3>1. v \notin dead /\ wrap'[v] = wrap[v]
      BY <1>1, <2>2 DEF NoWrapper
    <3>2. \A w \in dead : wrap[w].payload # wrap[v].payload
      BY <2>2, <3>1 DEF OwnerInv, TypeOK
    <3>3. wrap[v].payload \in Payloads
      BY <2>2, <3>1 DEF TypeOK, Wrapper
    <3>4. heap'[wrap[v].payload] = heap[wrap[v].payload]
      BY <1>1, <3>2, <3>3
    <3>5. QED
      BY <2>2, <3>1, <3>4 DEF WrapperInv
  <2>3. QED
    BY <2>1, <2>2 DEF WrapperInv
<1>4. OwnerInv'
  BY <1>1 DEF OwnerInv, NoWrapper
<1>5. MapInv' /\ OpInv'
  BY <1>1 DEF MapInv, OpInv, Open
<1>6. ContextInv'
  BY <1>1, <1>2 DEF ContextInv, Managed
<1>7. QED
  BY <1>3, <1>4, <1>5, <1>6

LEMMA StepInv == IInv /\ [Next]_vars => IInv'
<1> SUFFICES ASSUME IInv, [Next]_vars PROVE IInv'
  OBVIOUS
<1> DEFINE Goal == WrapperInv' /\ OwnerInv' /\ MapInv' /\ OpInv' /\ ContextInv'
<1>1. TypeOK'
  BY StepTypes DEF IInv
<1>2. ASSUME NEW i \in Ids \cup {Null}, NEW obj \in Objects \cup {None},
             CreateObject(i, obj)
      PROVE  Goal
  BY <1>2, CreateObjectInv
<1>3. ASSUME SetObjectContext PROVE Goal
  BY <1>3, SetObjectContextInv
<1>4. ASSUME NEW i \in Ids \cup {Null}, CreateVariable(i)
      PROVE  Goal
  <2>1. PICK n \in Added(i) : class' = [class EXCEPT ![n] = "variable"]
    BY <1>4 DEF CreateVariable
  <2>2. PICK w \in Wrappers : NewWrapper("variable", i, w)
    BY <1>4 DEF CreateVariable
  <2>3. QED
    BY <1>4, <2>1, <2>2, CreationInv DEF CreateVariable, MayOperate, Managed
<1>5. ASSUME NEW i \in Ids \cup {Null}, NEW bind \in BOOLEAN,
             CreateMethod(i, bind)
      PROVE  Goal
  <2>1. PICK n \in Added(i) : class' = [class EXCEPT ![n] = "method"]
    BY <1>5 DEF CreateMethod
  <2>2. PICK w \in Wrappers :
          /\ NewWrapper("method", i, w)
          /\ op' = IF bind THEN [Idle EXCEPT !.pc = "make", !.id = i,
                                             !.wrapper = w]
                           ELSE op
    BY <1>5 DEF CreateMethod
  <2>3. QED
    BY <1>5, <2>1, <2>2, CreationInv DEF CreateMethod, MayOperate, Managed
<1>6. ASSUME NEW k \in Classes, NEW i \in Keys, GetNode(k, i)
      PROVE  Goal
  BY <1>6, GetNodeInv
<1>7. ASSUME NEW k \in Classes, NEW i \in Ids, LoadNode(k, i)
      PROVE  Goal
  BY <1>7, LoadNodeInv
<1>8. ASSUME NEW w \in Wrappers, DropHandle(w)
      PROVE  Goal
  BY <1>8, DropHandleInv
<1>9. ASSUME NEW w \in Wrappers, BindCallable(w)
      PROVE  Goal
  BY <1>9, MakeCallableInv DEF BindCallable, MayOperate
<1>10. ASSUME BindAdded PROVE Goal
  <2>1. /\ op.wrapper \in Wrappers /\ op.wrapper \in handles
        /\ wrap[op.wrapper].class = "method"
    BY <1>10 DEF BindAdded, IInv, OpInv, TypeOK
  <2>2. QED
    BY <1>10, <2>1, MakeCallableInv DEF BindAdded
<1>11. ASSUME HookMethod PROVE Goal
  BY <1>11, QuietInv DEF HookMethod, IInv, TypeOK
<1>12. ASSUME ConnectMethod PROVE Goal
  BY <1>12, ConnectMethodInv
<1>13. ASSUME NEW w \in Wrappers, ConnectCallback(w)
       PROVE  Goal
  BY <1>13, ConnectCallbackInv
<1>14. ASSUME HookVariable PROVE Goal
  BY <1>14, QuietInv DEF HookVariable, IInv, TypeOK
<1>15. ASSUME ConnectVariable PROVE Goal
  BY <1>15, ConnectVariableInv
<1>16. ASSUME ResetDataSource PROVE Goal
  BY <1>16, ResetDataSourceInv
<1>17. ASSUME NEW n \in NodeIds, Dispatch(n)
       PROVE  Goal
  BY <1>17, QuietInv DEF Dispatch
<1>18. ASSUME Enter PROVE Goal
  BY <1>18, QuietInv DEF Enter
<1>19. ASSUME NEW w \in Wrappers, Invoke(w)
       PROVE  Goal
  BY <1>19, QuietInv DEF Invoke
<1>20. ASSUME Return PROVE Goal
  BY <1>20, QuietInv DEF Return
<1>21. ASSUME DeleteServer PROVE Goal
  BY <1>21, DeleteServerInv
<1>22. ASSUME FreeRegistry PROVE Goal
  BY <1>22, FreeRegistryInv
<1>23. ASSUME UNCHANGED vars PROVE Goal
  BY <1>23, QuietInv DEF vars
<1>24. Goal
  BY <1>2, <1>3, <1>4, <1>5, <1>6, <1>7, <1>8, <1>9, <1>10, <1>11, <1>12,
     <1>13, <1>14, <1>15, <1>16, <1>17, <1>18, <1>19, <1>20, <1>21, <1>22,
     <1>23 DEF Next, Registration, Serving, GetObject, GetMethod, GetVariable, Classes
<1>25. QED
  BY <1>1, <1>24 DEF IInv

LEMMA Invariance == Spec => []IInv
  BY InitInv, StepInv, PTL DEF Spec

-----------------------------------------------------------------------------
(* The properties.                                                         *)

\* Between registrations the context of every method and variable is owned by
\* the wrapper Server holds for that node: dropping handles, failing creates,
\* anonymous nodes and repeated binding leave no dangling context behind.
THEOREM ContextsAreOwned == Spec => []SettledContext
<1>1. IInv => SettledContext
  BY SettledOwner DEF SettledContext
<1>2. QED
  BY <1>1, Invariance, PTL

\* A variable's context never dangles, not even inside connectCallback.
THEOREM VariablesStayLive == Spec => []VariableContextLive
<1>1. IInv => VariableContextLive
  <2> SUFFICES ASSUME IInv, NEW i \in NodeIds, class[i] = "variable",
                      context[i] # None
               PROVE  context[i] \in Payloads /\ heap[context[i]] = "variable"
    BY DEF VariableContextLive
  <2>1. context[i] \in Payloads
    BY DEF IInv, ContextInv, Managed
  <2>2. PICK w \in registry : /\ wrap[w].class = "variable"
                              /\ wrap[w].id = i
                              /\ Owns(w, i)
    BY DEF IInv, ContextInv, Managed
  <2>3. w \in Wrappers
    BY DEF IInv, TypeOK
  <2>4. wrap[w].payload = context[i] => heap[context[i]] = "variable"
    BY <2>1, <2>2, <2>3, IdsAssumption DEF IInv, WrapperInv
  <2>5. ~(op.wrapper = w /\ op.pc \in {"hookMethod", "connectMethod"})
    BY <2>2 DEF IInv, OpInv
  <2>6. QED
    BY <2>1, <2>2, <2>4, <2>5 DEF Owns, IInv, OpInv
<1>2. QED
  BY <1>1, Invariance, PTL

\* The two halves of TypedContext: nodes, and callbacks in flight.
TypedNodes ==
  \A i \in NodeIds : class[i] \in Managed /\ context[i] # None =>
    context[i] \in Payloads /\ heap[context[i]] \in {class[i], "freed"}

TypedIn(h, f) ==
  f.callee # None => f.callee \in Payloads /\ h[f.callee] \in {f.class, "freed"}

TypedFrames == \A d \in 1..Len(frames) : TypedIn(heap, frames[d])

LEMMA NodesAreTyped == IInv => TypedNodes
<1> SUFFICES ASSUME IInv, NEW i \in NodeIds, class[i] \in Managed,
                    context[i] # None
             PROVE  /\ context[i] \in Payloads
                    /\ heap[context[i]] \in {class[i], "freed"}
  BY DEF TypedNodes
<1>1. context[i] \in Payloads
  BY DEF IInv, ContextInv
<1>2. PICK w \in registry : /\ wrap[w].class = class[i]
                            /\ wrap[w].id = i
                            /\ Owns(w, i)
  BY DEF IInv, ContextInv
<1>3. w \in Wrappers
  BY DEF IInv, TypeOK
<1>4. wrap[w].payload = context[i] => heap[context[i]] = class[i]
  BY <1>1, <1>2, <1>3, IdsAssumption DEF IInv, WrapperInv
<1>5. QED
  BY <1>1, <1>2, <1>4 DEF Owns, IInv, OpInv

\* What was allocated keeps its kind until it is freed, and stays freed.
LEMMA HeapAges ==
  ASSUME TypeOK, [Next]_vars
  PROVE  \A p \in Payloads : heap[p] # "fresh" => heap'[p] \in {heap[p], "freed"}
<1> DEFINE Ages == \A p \in Payloads :
                     heap[p] # "fresh" => heap'[p] \in {heap[p], "freed"}
<1>1. heap' = heap => Ages
  OBVIOUS
<1>2. ASSUME NEW w \in Wrappers, MakeCallable(w) PROVE Ages
  BY <1>2 DEF MakeCallable
<1>3. ASSUME NEW w \in Wrappers, ConnectCallback(w) PROVE Ages
  BY <1>3 DEF ConnectCallback, TypeOK
<1>4. ASSUME ResetDataSource PROVE Ages
  BY <1>4 DEF ResetDataSource
<1>5. ASSUME NEW w \in Wrappers, DropHandle(w) PROVE Ages
  BY <1>5 DEF DropHandle
<1>6. ASSUME FreeRegistry PROVE Ages
  BY <1>6 DEF FreeRegistry
<1>7. ASSUME BindAdded PROVE Ages
  BY <1>2, <1>7 DEF BindAdded, TypeOK, BindSteps
<1>8. ASSUME Registration PROVE Ages
  BY <1>1, <1>2, <1>3, <1>4, <1>5, <1>7, <1>8
     DEF Registration, CreateObject, SetObjectContext, CreateVariable, CreateMethod,
         GetObject, GetMethod, GetVariable, GetNode, LoadNode, BindCallable,
         HookMethod, ConnectMethod, HookVariable, ConnectVariable
<1>9. ASSUME Serving \/ DeleteServer \/ UNCHANGED vars PROVE Ages
  BY <1>1, <1>9
     DEF Serving, Dispatch, Enter, Invoke, Return, DeleteServer, DeleteNodes, vars
<1>10. QED
  BY <1>6, <1>8, <1>9 DEF Next

\* What a callback takes, from a node or from a wrapper, is of its kind, and
\* keeps it.
LEMMA FramesStayTyped ==
  ASSUME IInv, TypedFrames, [Next]_vars
  PROVE  TypedFrames'
<1>1. frames \in Seq(Frame) /\ TypeOK
  BY DEF IInv, TypeOK
<1>2. ASSUME NEW d \in 1..Len(frames) PROVE TypedIn(heap', frames[d])
  <2>1. frames[d] \in Frame
    BY <1>1, ElementOfSeq
  <2>2. frames[d].class \in {"method", "variable"} /\ TypedIn(heap, frames[d])
    BY <2>1 DEF Frame, Managed, TypedFrames
  <2>3. QED
    BY <1>1, <2>2, HeapAges DEF TypedIn
<1>3. CASE frames' = frames
  BY <1>2, <1>3 DEF TypedFrames
<1>4. CASE frames # <<>> /\ frames' = Pop
  <2>1. Len(Pop) = Len(frames) - 1 /\ \A d \in 1..Len(Pop) : Pop[d] = frames[d]
    BY <1>1, <1>4, PopFrame
  <2>2. 1..Len(Pop) \subseteq 1..Len(frames)
    BY <1>1, <2>1
  <2>3. QED
    BY <1>2, <1>4, <2>1, <2>2 DEF TypedFrames
<1>5. ASSUME NEW f \in Frame, TypedIn(heap, f), frames' = Append(frames, f),
             heap' = heap
      PROVE  TypedFrames'
  <2>1. /\ Len(frames') = Len(frames) + 1
        /\ \A d \in 1..Len(frames) : frames'[d] = frames[d]
        /\ frames'[Len(frames) + 1] = f
    BY <1>1, <1>5, PushFrame
  <2>2. \A d \in 1..Len(frames') : d \in 1..Len(frames) \/ d = Len(frames) + 1
    BY <1>1, <2>1
  <2>3. QED
    BY <1>2, <1>5, <2>1, <2>2 DEF TypedFrames
<1>6. ASSUME NEW n \in NodeIds, Dispatch(n) PROVE TypedFrames'
  <2> DEFINE f == [node |-> n, class |-> class[n], callee |-> context[n],
                   via |-> None, entered |-> FALSE]
  <2>1. class[n] \in Managed /\ frames' = Append(frames, f) /\ heap' = heap
    BY <1>6 DEF Dispatch
  <2>2. f \in Frame
    BY <1>1, <2>1 DEF Frame, Keys, TypeOK
  <2>3. TypedIn(heap, f)
    BY <2>1, NodesAreTyped DEF TypedNodes, TypedIn
  <2>4. QED
    BY <1>5, <2>1, <2>2, <2>3
<1>7. ASSUME NEW w \in Wrappers, Invoke(w) PROVE TypedFrames'
  <2> DEFINE f == [node |-> wrap[w].id, class |-> "method",
                   callee |-> wrap[w].payload, via |-> w, entered |-> TRUE]
  <2>1. /\ wrap[w].class = "method" /\ wrap[w].payload # None
        /\ frames' = Append(frames, f) /\ heap' = heap
    BY <1>7 DEF Invoke
  <2>2. wrap[w] \in Wrapper
    BY <1>1 DEF TypeOK
  <2>3. f \in Frame /\ TypedIn(heap, f)
    BY <2>1, <2>2 DEF Frame, Wrapper, Managed, IInv, WrapperInv, TypedIn
  <2>4. QED
    BY <1>5, <2>1, <2>3
<1>8. ASSUME Enter PROVE TypedFrames'
  <2>1. frames # <<>> /\ heap' = heap
    BY <1>8 DEF Enter
  <2>2. CASE Top.callee = None
    BY <1>4, <1>8, <2>1, <2>2 DEF Enter
  <2>3. CASE Top.callee # None
    <3> DEFINE f == [Top EXCEPT !.entered = TRUE]
    <3>1. Len(frames) \in 1..Len(frames)
      BY <1>1, <2>1, EmptySeq
    <3>2. Top \in Frame /\ TypedIn(heap, Top)
      BY <1>1, <3>1, ElementOfSeq DEF Top, TypedFrames
    <3>3. f \in Frame /\ TypedIn(heap, f)
      BY <3>2 DEF Frame, TypedIn
    <3>4. frames' = [frames EXCEPT ![Len(frames)] = f]
      BY <1>8, <2>3, <3>1 DEF Enter, Top
    <3> HIDE DEF f
    <3>5. /\ Len([frames EXCEPT ![Len(frames)] = f]) = Len(frames)
          /\ \A d \in 1..Len(frames) :
               [frames EXCEPT ![Len(frames)] = f][d] =
                 IF d = Len(frames) THEN f ELSE frames[d]
      BY <1>1, <2>1, <3>3, ReplaceLast
    <3>6. QED
      BY <1>2, <2>1, <3>3, <3>4, <3>5 DEF TypedFrames
  <2>4. QED
    BY <2>2, <2>3
<1>9. ASSUME Return PROVE TypedFrames'
  BY <1>4, <1>9 DEF Return
<1>10. ASSUME Registration PROVE TypedFrames'
  BY <1>3, <1>10
     DEF Registration, CreateObject, SetObjectContext, CreateVariable, CreateMethod,
         GetObject, GetMethod, GetVariable, GetNode, LoadNode, DropHandle,
         BindCallable, BindAdded, HookMethod, ConnectMethod, ConnectCallback,
         HookVariable, ConnectVariable, ResetDataSource
<1>11. ASSUME DeleteServer \/ FreeRegistry \/ UNCHANGED vars PROVE TypedFrames'
  BY <1>3, <1>11 DEF DeleteServer, DeleteNodes, FreeRegistry, vars
<1>12. QED
  BY <1>6, <1>7, <1>8, <1>9, <1>10, <1>11 DEF Next, Serving

\* The casts of the callbacks are right at any moment, on any thread: what a
\* method or a variable carries, and what a callback took from it before others
\* were bound and destroyed, is of the kind it is cast to.
THEOREM ContextsAreTyped == Spec => []TypedContext
<1>1. Init => TypedFrames
  BY DEF Init, TypedFrames
<1>2. IInv /\ TypedFrames /\ [Next]_vars => TypedFrames'
  BY FramesStayTyped
<1>3. IInv /\ TypedFrames => TypedContext
  BY NodesAreTyped DEF TypedNodes, TypedFrames, TypedIn, TypedContext
<1>4. QED
  BY <1>1, <1>2, <1>3, Invariance, PTL DEF Spec

\* Whichever way the application got its handle to a node, it is the wrapper
\* the maps of Server hold, and there is no other.
THEOREM WrappersAreUnique == Spec => []OneWrapperPerNode
<1>1. IInv => OneWrapperPerNode
  <2> SUFFICES ASSUME IInv, Open, NEW v \in Wrappers, Alive(v),
                      wrap[v].id \in NodeIds
               PROVE  Find(class[wrap[v].id], wrap[v].id) = {v}
    BY DEF OneWrapperPerNode, Open
  <2>1. v \in registry /\ wrap[v].class = class[wrap[v].id]
    BY DEF IInv, MapInv
  <2>2. QED
    BY <2>1 DEF Find, IInv, MapInv
<1>2. QED
  BY <1>1, Invariance, PTL

-----------------------------------------------------------------------------
(* Callbacks run live code, provided the application either never binds a  *)
(* node twice, or binds again only nodes that are not being served and     *)
(* registers on the thread that runs the callbacks.                        *)

Careful == Rebinding = "none" \/ (Rebinding = "quiet" /\ ~Interleave)

\* What keeps the callee of a callback allocated: a wrapper held by the maps,
\* or by the caller of MethodNode::invoke.
Keepers ==
  [d \in 1..Len(frames) |->
    {w \in Wrappers :
      /\ \/ wrap[w].payload = frames[d].callee
         \/ op.pc = "reset" /\ op.wrapper = w /\ op.payload = frames[d].callee
      /\ w \in registry \/ (w \in handles /\ frames[d].via = w)}]

FrameInv ==
  \A d \in 1..Len(frames) :
    /\ frames[d].entered => frames[d].callee # None
    /\ frames[d].callee # None =>
         /\ frames[d].callee \in Payloads
         /\ heap[frames[d].callee] = frames[d].class
         /\ Keepers[d] # {}

\* A wrapper that is being bound does not own what a callback uses, or served
\* nothing before.
BindInv ==
  /\ op.pc \in {"hookMethod", "connectMethod"} /\ op.id \in NodeIds =>
       ~Interleave \/ context[op.id] = None
  /\ op.pc \in {"hookVariable", "connectVariable", "reset"} =>
       \/ wrap[op.wrapper].payload = None
       \/ /\ ~Interleave
          /\ \A d \in 1..Len(frames) :
               frames[d].callee # wrap[op.wrapper].payload
  /\ ~Open => frames = <<>>

UseInv == IInv /\ FrameInv /\ BindInv

\* A step that leaves the callbacks alone, and keeps what they use.
FramesKept ==
  /\ frames' = frames
  /\ \A d \in 1..Len(frames) : \A w \in Wrappers :
       (/\ frames[d].callee \in Payloads
        /\ heap[frames[d].callee] = frames[d].class
        /\ w \in Keepers[d])
         => /\ heap'[frames[d].callee] = heap[frames[d].callee]
            /\ w \in Keepers'[d]

LEMMA KeepFrames == FrameInv /\ FramesKept => FrameInv'
<1> SUFFICES ASSUME FrameInv, FramesKept, NEW d \in 1..Len(frames)
             PROVE  /\ frames[d].entered => frames[d].callee # None
                    /\ frames[d].callee # None =>
                         /\ frames[d].callee \in Payloads
                         /\ heap'[frames[d].callee] = frames[d].class
                         /\ Keepers'[d] # {}
  BY DEF FrameInv, FramesKept
<1>1. SUFFICES ASSUME frames[d].callee # None
               PROVE  /\ heap'[frames[d].callee] = frames[d].class
                      /\ Keepers'[d] # {}
  BY DEF FrameInv
<1>2. /\ frames[d].callee \in Payloads
      /\ heap[frames[d].callee] = frames[d].class
      /\ Keepers[d] # {}
  BY <1>1 DEF FrameInv
<1>3. PICK w \in Wrappers : w \in Keepers[d]
  BY <1>2 DEF Keepers
<1>4. QED
  BY <1>2, <1>3 DEF FramesKept

LEMMA FrameTypes ==
  ASSUME TypeOK
  PROVE  \A d \in 1..Len(frames) :
           /\ frames[d].class \in Managed
           /\ frames[d].callee \in Objects \cup Payloads \cup {None}
<1>1. ASSUME NEW d \in 1..Len(frames) PROVE frames[d] \in Frame
  BY <1>1, ElementOfSeq DEF TypeOK
<1>2. QED
  BY <1>1 DEF Frame

LEMMA InitUse == Init => UseInv
<1>1. Init => FrameInv /\ BindInv
  BY DEF Init, FrameInv, BindInv, Idle, Open
<1>2. QED
  BY <1>1, InitInv DEF UseInv

\* Registrations that leave the callbacks, the heap and the live wrappers alone.
LEMMA RegisterUse ==
  ASSUME UseInv, UNCHANGED <<frames, heap>>,
         op.pc \in {"idle", "setContext"},
         op'.pc \in {"idle", "setContext", "make"},
         \A w \in Wrappers : wrap[w].payload # None =>
           /\ wrap'[w] = wrap[w]
           /\ w \in registry => w \in registry'
           /\ w \in handles => w \in handles'
  PROVE  FrameInv' /\ BindInv'
<1>1. FramesKept
  <2>1. SUFFICES ASSUME NEW d \in 1..Len(frames), NEW w \in Wrappers,
                        frames[d].callee \in Payloads, w \in Keepers[d]
                 PROVE  w \in Keepers'[d]
    BY DEF FramesKept
  <2>2. QED
    BY <2>1, IdsAssumption DEF Keepers
<1>2. FrameInv'
  BY <1>1, KeepFrames DEF UseInv
<1>3. BindInv'
  BY DEF BindInv, Open
<1>4. QED
  BY <1>2, <1>3

LEMMA NewWrapperKeeps ==
  ASSUME IInv, NEW k \in Classes, NEW i \in Keys, NEW w \in Wrappers,
         NewWrapper(k, i, w)
  PROVE  \A v \in Wrappers : wrap[v].payload # None =>
           /\ wrap'[v] = wrap[v]
           /\ v \in registry => v \in registry'
           /\ v \in handles => v \in handles'
<1>1. wrap[w].payload = None
  BY DEF NewWrapper, IInv, WrapperInv, NoWrapper
<1>2. QED
  BY <1>1 DEF NewWrapper, IInv, TypeOK

LEMMA DropHandleUse ==
  ASSUME UseInv, NEW w \in Wrappers, DropHandle(w)
  PROVE  FrameInv' /\ BindInv'
<1> USE IdsAssumption DEF UseInv, IInv
<1>1. /\ op.pc \in {"idle", "closed"} /\ op' = op
      /\ handles' = handles \ {w}
      /\ \A d \in 1..Len(frames) : frames[d].via # w
      /\ UNCHANGED <<class, context, registry, frames>>
  BY DEF DropHandle, MayOperate
<1>2. BindInv'
  BY <1>1 DEF BindInv, Open
<1>3. FramesKept
  <2>1. SUFFICES ASSUME NEW d \in 1..Len(frames), NEW v \in Wrappers,
                        frames[d].callee \in Payloads, v \in Keepers[d]
                 PROVE  /\ heap'[frames[d].callee] = heap[frames[d].callee]
                        /\ v \in Keepers'[d]
    BY <1>1 DEF FramesKept
  <2>2. /\ wrap[v].payload = frames[d].callee
        /\ v \in registry \/ (v \in handles /\ frames[d].via = v)
    BY <1>1, <2>1 DEF Keepers
  <2>3. CASE w \in registry
    BY <1>1, <2>2, <2>3 DEF DropHandle, Keepers
  <2>4. CASE w \notin registry
    <3>1. v # w
      BY <1>1, <2>2, <2>4
    <3>2. wrap'[v] = wrap[v]
      BY <2>4, <3>1 DEF DropHandle, TypeOK
    <3>3. wrap[w].payload # frames[d].callee
      BY <2>1, <2>2, <3>1 DEF OwnerInv
    <3>4. heap'[frames[d].callee] = heap[frames[d].callee]
      BY <2>1, <2>4, <3>3 DEF DropHandle
    <3>5. QED
      BY <1>1, <2>2, <3>1, <3>2, <3>4 DEF Keepers
  <2>5. QED
    BY <2>3, <2>4
<1>4. FrameInv'
  BY <1>3, KeepFrames
<1>5. QED
  BY <1>2, <1>4

LEMMA MakeCallableUse ==
  ASSUME UseInv, NEW w \in Wrappers, MakeCallable(w), frames' = frames,
         op.pc \in {"idle", "make"}, w \in handles, wrap[w].class = "method",
         UNCHANGED <<class, context, registry, handles>>,
         \/ wrap[w].payload = None
         \/ /\ ~Interleave
            /\ \A d \in 1..Len(frames) : frames[d].callee # wrap[w].payload
  PROVE  FrameInv' /\ BindInv'
<1> USE IdsAssumption DEF UseInv, IInv
<1>1. PICK p \in Payloads :
        /\ heap[p] = "fresh"
        /\ heap' = [q \in Payloads |-> IF q = p THEN "method"
                                       ELSE IF q = wrap[w].payload THEN "freed"
                                       ELSE heap[q]]
        /\ wrap' = [wrap EXCEPT ![w].payload = p]
        /\ op' = [Idle EXCEPT !.pc = "hookMethod", !.id = wrap[w].id,
                              !.wrapper = w, !.payload = p]
  BY DEF MakeCallable
<1>2. FramesKept
  <2>1. SUFFICES ASSUME NEW d \in 1..Len(frames), NEW v \in Wrappers,
                        frames[d].callee \in Payloads,
                        heap[frames[d].callee] = frames[d].class,
                        v \in Keepers[d]
                 PROVE  /\ heap'[frames[d].callee] = heap[frames[d].callee]
                        /\ v \in Keepers'[d]
    BY DEF FramesKept
  <2>2. frames[d].class # "fresh"
    BY FrameTypes DEF Managed
  <2>3. frames[d].callee # wrap[w].payload
    BY <2>1
  <2>4. heap'[frames[d].callee] = heap[frames[d].callee]
    BY <1>1, <2>1, <2>2, <2>3
  <2>5. wrap[v].payload = frames[d].callee
    BY <2>1 DEF Keepers
  <2>6. wrap'[v] = wrap[v]
    BY <1>1, <2>3, <2>5 DEF TypeOK
  <2>7. QED
    BY <2>1, <2>4, <2>5, <2>6 DEF Keepers
<1>3. FrameInv'
  BY <1>2, KeepFrames
<1>4. BindInv'
  <2>1. op'.pc = "hookMethod" /\ op'.id = wrap[w].id
    BY <1>1 DEF Idle
  <2>2. ASSUME wrap[w].id \in NodeIds, wrap[w].payload = None
        PROVE  context[wrap[w].id] = None
    <3>1. w \in registry /\ class[wrap[w].id] = "method"
      BY <2>2 DEF MapInv, Open, Alive
    <3>2. ASSUME context[wrap[w].id] # None
          PROVE  FALSE
      <4>1. PICK v \in registry : /\ wrap[v].class = "method"
                                  /\ wrap[v].id = wrap[w].id
                                  /\ wrap[v].payload = context[wrap[w].id]
        BY <2>2, <3>1, <3>2, SettledOwner DEF Managed
      <4>2. v = w
        BY <3>1, <4>1 DEF MapInv
      <4>3. QED
        BY <2>2, <3>2, <4>1, <4>2
    <3>3. QED
      BY <3>2
  <2>3. QED
    BY <2>1, <2>2 DEF BindInv, Open
<1>5. QED
  BY <1>3, <1>4

LEMMA ConnectCallbackUse ==
  ASSUME Careful, UseInv, NEW w \in Wrappers, ConnectCallback(w)
  PROVE  FrameInv' /\ BindInv'
<1> USE IdsAssumption DEF UseInv, IInv
<1>1. PICK p \in Payloads :
        /\ heap[p] = "fresh"
        /\ heap' = [heap EXCEPT ![p] = "variable"]
        /\ op' = [Idle EXCEPT !.pc = "hookVariable", !.id = wrap[w].id,
                              !.wrapper = w, !.payload = p]
  BY DEF ConnectCallback
<1>2. /\ op.pc = "idle" /\ MayBind(w)
      /\ UNCHANGED <<class, context, wrap, registry, handles, frames>>
  BY DEF ConnectCallback, MayOperate
<1>3. /\ op'.pc = "hookVariable" /\ op'.wrapper = w
  BY <1>1 DEF Idle
<1>4. FramesKept
  <2>1. SUFFICES ASSUME NEW d \in 1..Len(frames), NEW v \in Wrappers,
                        frames[d].callee \in Payloads,
                        heap[frames[d].callee] = frames[d].class,
                        v \in Keepers[d]
                 PROVE  /\ heap'[frames[d].callee] = heap[frames[d].callee]
                        /\ v \in Keepers'[d]
    BY <1>2 DEF FramesKept
  <2>2. frames[d].class # "fresh"
    BY FrameTypes DEF Managed
  <2>3. heap'[frames[d].callee] = heap[frames[d].callee]
    BY <1>1, <2>1, <2>2 DEF TypeOK
  <2>4. QED
    BY <1>2, <2>1, <2>3 DEF Keepers
<1>5. FrameInv'
  BY <1>4, KeepFrames
<1>6. BindInv'
  BY <1>2, <1>3 DEF BindInv, Open, MayBind, Careful
<1>7. QED
  BY <1>5, <1>6

LEMMA ResetDataSourceUse ==
  ASSUME UseInv, ResetDataSource
  PROVE  FrameInv' /\ BindInv'
<1> USE IdsAssumption DEF UseInv, IInv
<1>1. /\ op.pc = "reset" /\ op'.pc = "idle"
      /\ wrap' = [wrap EXCEPT ![op.wrapper].payload = op.payload]
      /\ heap' = [q \in Payloads |-> IF q = wrap[op.wrapper].payload
                                     THEN "freed" ELSE heap[q]]
      /\ UNCHANGED <<registry, handles, frames>>
  BY DEF ResetDataSource, Idle
<1>2. op.wrapper \in Wrappers
  BY <1>1 DEF OpInv, TypeOK
<1>3. FramesKept
  <2>1. SUFFICES ASSUME NEW d \in 1..Len(frames), NEW v \in Wrappers,
                        frames[d].callee \in Payloads, v \in Keepers[d]
                 PROVE  /\ heap'[frames[d].callee] = heap[frames[d].callee]
                        /\ v \in Keepers'[d]
    BY <1>1 DEF FramesKept
  <2>2. frames[d].callee # wrap[op.wrapper].payload
    BY <1>1, <2>1 DEF BindInv
  <2>3. heap'[frames[d].callee] = heap[frames[d].callee]
    BY <1>1, <2>1, <2>2
  <2>4. wrap'[v].payload = frames[d].callee
    BY <1>1, <1>2, <2>1, <2>2 DEF Keepers, TypeOK, Wrapper
  <2>5. QED
    BY <1>1, <2>1, <2>3, <2>4 DEF Keepers
<1>4. FrameInv'
  BY <1>3, KeepFrames
<1>5. BindInv'
  BY <1>1 DEF BindInv, Open
<1>6. QED
  BY <1>4, <1>5

\* Steps that change neither the callbacks nor the wrappers.
LEMMA QuietUse ==
  ASSUME UseInv, UNCHANGED <<frames, heap, wrap, registry, handles>>,
         op' = op \/ op.pc # "reset"
  PROVE  FrameInv'
<1>1. FramesKept
  <2>1. SUFFICES ASSUME NEW d \in 1..Len(frames), NEW w \in Wrappers,
                        w \in Keepers[d]
                 PROVE  w \in Keepers'[d]
    BY DEF FramesKept
  <2>2. QED
    BY <2>1 DEF Keepers
<1>2. QED
  BY <1>1, KeepFrames DEF UseInv

\* Steps that add, change or remove the innermost callback.
LEMMA FrameStepUse ==
  ASSUME UseInv, UNCHANGED <<class, context, wrap, registry, handles, heap, op>>,
         frames' \in Seq(Frame),
         ~Open => frames' = <<>>,
         \A d \in 1..Len(frames') :
           \/ /\ d \in 1..Len(frames)
              /\ frames'[d].class = frames[d].class
              /\ frames'[d].callee = frames[d].callee
              /\ frames'[d].via = frames[d].via
              /\ frames'[d].entered =>
                   frames[d].entered \/ frames[d].callee # None
           \/ /\ frames'[d].entered => frames'[d].callee # None
              /\ frames'[d].callee # None =>
                   /\ frames'[d].callee \in Payloads
                   /\ heap[frames'[d].callee] = frames'[d].class
                   /\ Keepers'[d] # {}
                   /\ op.pc \in {"hookVariable", "connectVariable", "reset"} =>
                        wrap[op.wrapper].payload = None
  PROVE  FrameInv' /\ BindInv'
<1>1. ASSUME NEW d \in 1..Len(frames'), d \in 1..Len(frames),
             frames'[d].callee = frames[d].callee,
             frames'[d].via = frames[d].via
      PROVE  Keepers'[d] = Keepers[d]
  BY <1>1 DEF Keepers
<1>2. FrameInv'
  BY <1>1 DEF UseInv, FrameInv
<1>3. ASSUME op.pc \in {"hookVariable", "connectVariable", "reset"},
             wrap[op.wrapper].payload # None, NEW d \in 1..Len(frames')
      PROVE  ~Interleave /\ frames'[d].callee # wrap[op.wrapper].payload
  BY <1>3 DEF UseInv, BindInv
<1>4. BindInv'
  BY <1>3 DEF UseInv, BindInv, Open
<1>5. QED
  BY <1>2, <1>4

\* A node that is served has a context whose owner the maps keep alive.
LEMMA ServedContext ==
  ASSUME UseInv, NEW n \in NodeIds, MayDispatch, class[n] \in Managed,
         context[n] # None
  PROVE  /\ context[n] \in Payloads
         /\ heap[context[n]] = class[n]
         /\ \E w \in registry :
              /\ \/ wrap[w].payload = context[n]
                 \/ /\ op.pc = "reset"
                    /\ op.wrapper = w
                    /\ op.payload = context[n]
         /\ op.pc \in {"hookVariable", "connectVariable", "reset"} =>
              wrap[op.wrapper].payload = None
<1> USE DEF UseInv
<1>1. ~Interleave => op.pc = "idle"
  BY DEF MayDispatch
<1>2. op.pc \in {"hookVariable", "connectVariable", "reset"} =>
        wrap[op.wrapper].payload = None
  BY <1>1 DEF BindInv
<1>3. PICK w \in registry : /\ wrap[w].class = class[n]
                            /\ wrap[w].id = n
                            /\ Owns(w, n)
  BY DEF IInv, ContextInv
<1>4. w \in Wrappers /\ context[n] \in Payloads
  BY DEF IInv, TypeOK, ContextInv
<1>5. ~(op.wrapper = w /\ op.pc \in {"hookMethod", "connectMethod"})
  BY <1>1, <1>3 DEF BindInv, IInv, OpInv
<1>6. CASE wrap[w].payload = context[n]
  BY <1>2, <1>3, <1>4, <1>6 DEF IInv, WrapperInv
<1>7. CASE op.pc = "reset" /\ op.wrapper = w /\ context[n] = op.payload
  <2>1. heap[context[n]] = "variable" /\ wrap[w].class = "variable"
    BY <1>7 DEF IInv, OpInv
  <2>2. QED
    BY <1>2, <1>3, <1>4, <1>7, <2>1
<1>8. QED
  BY <1>3, <1>5, <1>6, <1>7 DEF Owns

LEMMA DispatchUse ==
  ASSUME UseInv, NEW n \in NodeIds, Dispatch(n)
  PROVE  FrameInv' /\ BindInv'
<1> DEFINE f == [node |-> n, class |-> class[n], callee |-> context[n],
                 via |-> None, entered |-> FALSE]
<1>1. /\ MayDispatch /\ class[n] \in Managed
      /\ frames' = Append(frames, f)
      /\ UNCHANGED <<class, hooked, context, wrap, registry, handles, heap, op>>
  BY DEF Dispatch
<1>2. f \in Frame /\ frames \in Seq(Frame)
  BY <1>1 DEF Frame, Keys, UseInv, IInv, TypeOK
<1>3. /\ frames' \in Seq(Frame)
      /\ Len(frames') = Len(frames) + 1
      /\ \A d \in 1..Len(frames) : frames'[d] = frames[d]
      /\ frames'[Len(frames) + 1] = f
  BY <1>1, <1>2, PushFrame
<1>4. Open
  BY <1>1 DEF Open, UseInv, IInv, MapInv, Managed
<1>5. ASSUME context[n] # None
      PROVE  /\ context[n] \in Payloads
             /\ heap[context[n]] = class[n]
             /\ Keepers'[Len(frames) + 1] # {}
             /\ op.pc \in {"hookVariable", "connectVariable", "reset"} =>
                  wrap[op.wrapper].payload = None
  <2>1. PICK w \in registry : \/ wrap[w].payload = context[n]
                              \/ /\ op.pc = "reset"
                                 /\ op.wrapper = w
                                 /\ op.payload = context[n]
    BY <1>1, <1>5, ServedContext
  <2>2. w \in Wrappers
    BY DEF UseInv, IInv, TypeOK
  <2>3. Len(frames) \in Nat
    BY <1>2
  <2>4. w \in Keepers'[Len(frames) + 1]
    BY <1>1, <1>3, <2>1, <2>2, <2>3 DEF Keepers
  <2>5. QED
    BY <1>1, <1>5, <2>4, ServedContext
<1>6. Len(frames) \in Nat
  BY <1>2
<1>7. ASSUME NEW d \in 1..Len(frames'), d \notin 1..Len(frames)
      PROVE  d = Len(frames) + 1
  BY <1>3, <1>6, <1>7
<1>8. QED
  BY <1>1, <1>3, <1>4, <1>5, <1>7, FrameStepUse

LEMMA EnterUse ==
  ASSUME UseInv, Enter
  PROVE  FrameInv' /\ BindInv'
<1>1. /\ frames # <<>>
      /\ frames' = IF Top.callee = None
                   THEN Pop
                   ELSE [frames EXCEPT ![Len(frames)].entered = TRUE]
      /\ UNCHANGED <<class, hooked, context, wrap, registry, handles, heap, op>>
  BY DEF Enter
<1>2. frames \in Seq(Frame) /\ Open
  BY <1>1 DEF UseInv, IInv, TypeOK, BindInv
<1>3. CASE Top.callee = None
  <2>1. /\ frames' \in Seq(Frame)
        /\ Len(frames') = Len(frames) - 1
        /\ \A d \in 1..Len(frames') : frames'[d] = frames[d]
    BY <1>1, <1>2, <1>3, PopFrame
  <2>2. \A d \in 1..Len(frames') : d \in 1..Len(frames)
    BY <1>2, <2>1
  <2>3. QED
    BY <1>1, <1>2, <2>1, <2>2, FrameStepUse
<1>4. CASE Top.callee # None
  <2>1. Len(frames) \in 1..Len(frames)
    BY <1>1, <1>2, EmptySeq
  <2>2. Top \in Frame
    BY <1>2, <2>1, ElementOfSeq DEF Top
  <2> DEFINE f == [Top EXCEPT !.entered = TRUE]
  <2>3. f \in Frame /\ f.class = Top.class /\ f.callee = Top.callee
        /\ f.via = Top.via
    BY <2>2 DEF Frame
  <2>4. frames' = [frames EXCEPT ![Len(frames)] = f]
    BY <1>1, <1>4, <2>1 DEF Top
  <2> HIDE DEF f
  <2>5. /\ frames' \in Seq(Frame)
        /\ Len(frames') = Len(frames)
        /\ \A d \in 1..Len(frames) :
             frames'[d] = IF d = Len(frames) THEN f ELSE frames[d]
    <3>1. /\ [frames EXCEPT ![Len(frames)] = f] \in Seq(Frame)
          /\ Len([frames EXCEPT ![Len(frames)] = f]) = Len(frames)
          /\ \A d \in 1..Len(frames) :
               [frames EXCEPT ![Len(frames)] = f][d] =
                 IF d = Len(frames) THEN f ELSE frames[d]
      BY <1>1, <1>2, <2>3, ReplaceLast
    <3>2. QED
      BY <2>4, <3>1
  <2>6. QED
    BY <1>1, <1>2, <1>4, <2>3, <2>5, FrameStepUse DEF Top
<1>5. QED
  BY <1>3, <1>4

LEMMA InvokeUse ==
  ASSUME UseInv, NEW w \in Wrappers, Invoke(w)
  PROVE  FrameInv' /\ BindInv'
<1> DEFINE f == [node |-> wrap[w].id, class |-> "method",
                 callee |-> wrap[w].payload, via |-> w, entered |-> TRUE]
<1>1. /\ op.pc = "idle" /\ w \in handles
      /\ wrap[w].class = "method" /\ wrap[w].payload # None
      /\ frames' = Append(frames, f)
      /\ UNCHANGED <<class, hooked, context, wrap, registry, handles, heap, op>>
  BY DEF Invoke, MayOperate
<1>2. frames \in Seq(Frame) /\ wrap[w] \in Wrapper
  BY DEF UseInv, IInv, TypeOK
<1>3. f \in Frame /\ f.callee \in Payloads /\ heap[f.callee] = f.class
  BY <1>1, <1>2 DEF Frame, Wrapper, Managed, UseInv, IInv, WrapperInv
<1>4. /\ frames' \in Seq(Frame)
      /\ Len(frames') = Len(frames) + 1
      /\ \A d \in 1..Len(frames) : frames'[d] = frames[d]
      /\ frames'[Len(frames) + 1] = f
  BY <1>1, <1>2, <1>3, PushFrame
<1>5. Len(frames) \in Nat
  BY <1>2
<1>6. w \in Keepers'[Len(frames) + 1]
  BY <1>1, <1>4, <1>5 DEF Keepers
<1>7. ASSUME NEW d \in 1..Len(frames'), d \notin 1..Len(frames)
      PROVE  d = Len(frames) + 1
  BY <1>4, <1>5, <1>7
<1>8. Open
  BY <1>1 DEF Open
<1>9. f.callee # None
  BY <1>1
<1>10. QED
  BY <1>1, <1>3, <1>4, <1>6, <1>7, <1>8, <1>9, FrameStepUse

LEMMA ReturnUse ==
  ASSUME UseInv, Return
  PROVE  FrameInv' /\ BindInv'
<1>1. /\ frames # <<>> /\ frames' = Pop
      /\ UNCHANGED <<class, hooked, context, wrap, registry, handles, heap, op>>
  BY DEF Return
<1>2. frames \in Seq(Frame) /\ Open
  BY <1>1 DEF UseInv, IInv, TypeOK, BindInv
<1>3. /\ frames' \in Seq(Frame)
      /\ Len(frames') = Len(frames) - 1
      /\ \A d \in 1..Len(frames') : frames'[d] = frames[d]
  BY <1>1, <1>2, PopFrame
<1>4. \A d \in 1..Len(frames') : d \in 1..Len(frames)
  BY <1>2, <1>3
<1>5. QED
  BY <1>1, <1>2, <1>3, <1>4, FrameStepUse

LEMMA StepUse ==
  ASSUME Careful, UseInv, [Next]_vars
  PROVE  UseInv'
<1> DEFINE Goal == FrameInv' /\ BindInv'
<1> USE DEF UseInv
<1>1. IInv'
  BY StepInv
<1>2. ASSUME NEW i \in Ids \cup {Null}, NEW obj \in Objects \cup {None},
             CreateObject(i, obj)
      PROVE  Goal
  BY <1>2, RegisterUse DEF CreateObject, MayOperate, Idle
<1>3. ASSUME SetObjectContext PROVE Goal
  <2>1. op.pc = "setContext" /\ op'.pc = "idle" /\ UNCHANGED <<frames, heap>>
    BY <1>3 DEF SetObjectContext, Idle
  <2>2. PICK w \in Wrappers : NewWrapper("object", op.id, w)
    BY <1>3 DEF SetObjectContext
  <2>3. op.id \in Keys /\ "object" \in Classes
    BY DEF IInv, TypeOK, Classes
  <2>4. QED
    BY <2>1, <2>2, <2>3, NewWrapperKeeps, RegisterUse
<1>4. ASSUME NEW i \in Ids \cup {Null}, CreateVariable(i)
      PROVE  Goal
  <2>1. op.pc = "idle" /\ op' = op /\ UNCHANGED <<frames, heap>>
    BY <1>4 DEF CreateVariable, MayOperate
  <2>2. PICK w \in Wrappers : NewWrapper("variable", i, w)
    BY <1>4 DEF CreateVariable
  <2>3. i \in Keys /\ "variable" \in Classes
    BY DEF Keys, NodeIds, Classes
  <2>4. QED
    BY <2>1, <2>2, <2>3, NewWrapperKeeps, RegisterUse
<1>5. ASSUME NEW i \in Ids \cup {Null}, NEW bind \in BOOLEAN,
             CreateMethod(i, bind)
      PROVE  Goal
  <2>1. op.pc = "idle" /\ UNCHANGED <<frames, heap>>
    BY <1>5 DEF CreateMethod, MayOperate
  <2>2. PICK w \in Wrappers :
          /\ NewWrapper("method", i, w)
          /\ op' = IF bind THEN [Idle EXCEPT !.pc = "make", !.id = i,
                                             !.wrapper = w]
                           ELSE op
    BY <1>5 DEF CreateMethod
  <2>3. i \in Keys /\ "method" \in Classes
    BY DEF Keys, NodeIds, Classes
  <2>4. op'.pc \in {"idle", "make"}
    BY <2>1, <2>2 DEF Idle
  <2>5. QED
    BY <2>1, <2>2, <2>3, <2>4, NewWrapperKeeps, RegisterUse
<1>6. ASSUME NEW k \in Classes, NEW i \in Keys, GetNode(k, i)
      PROVE  Goal
  <2>1. op.pc = "idle" /\ op' = op /\ UNCHANGED <<frames, heap>>
    BY <1>6 DEF GetNode, MayOperate
  <2>2. CASE handles \subseteq handles' /\ UNCHANGED <<wrap, registry>>
    BY <2>1, <2>2, RegisterUse
  <2>3. CASE \E w \in Wrappers : NewWrapper(k, i, w)
    BY <2>1, <2>3, NewWrapperKeeps, RegisterUse
  <2>4. QED
    BY <1>6, <2>2, <2>3 DEF GetNode
<1>7. ASSUME NEW k \in Classes, NEW i \in Ids, LoadNode(k, i)
      PROVE  Goal
  BY <1>7, RegisterUse DEF LoadNode, MayOperate
<1>8. ASSUME NEW w \in Wrappers, DropHandle(w)
      PROVE  Goal
  BY <1>8, DropHandleUse
<1>9. ASSUME NEW w \in Wrappers, BindCallable(w)
      PROVE  Goal
  BY <1>9, MakeCallableUse DEF BindCallable, MayOperate, MayBind, Careful
<1>10. ASSUME BindAdded PROVE Goal
  <2>1. /\ op.wrapper \in Wrappers /\ op.wrapper \in handles
        /\ wrap[op.wrapper].class = "method"
        /\ wrap[op.wrapper].payload = None
    BY <1>10 DEF BindAdded, IInv, OpInv, TypeOK
  <2>2. QED
    BY <1>10, <2>1, MakeCallableUse DEF BindAdded
<1>11. ASSUME HookMethod PROVE Goal
  <2>1. FrameInv'
    BY <1>11, QuietUse DEF HookMethod
  <2>2. /\ op.pc = "hookMethod" /\ op'.pc = "connectMethod" /\ op'.id = op.id
        /\ context' = context
    BY <1>11 DEF HookMethod, IInv, TypeOK
  <2>3. QED
    BY <2>1, <2>2 DEF BindInv, Open
<1>12. ASSUME ConnectMethod PROVE Goal
  <2>1. FrameInv'
    BY <1>12, QuietUse DEF ConnectMethod
  <2>2. QED
    BY <1>12, <2>1 DEF ConnectMethod, BindInv, Open, Idle
<1>13. ASSUME NEW w \in Wrappers, ConnectCallback(w)
       PROVE  Goal
  BY <1>13, ConnectCallbackUse
<1>14. ASSUME HookVariable PROVE Goal
  <2>1. FrameInv'
    BY <1>14, QuietUse DEF HookVariable
  <2>2. /\ op.pc = "hookVariable" /\ op'.pc = "connectVariable"
        /\ op'.wrapper = op.wrapper /\ UNCHANGED <<wrap, frames>>
    BY <1>14 DEF HookVariable, IInv, TypeOK
  <2>3. QED
    BY <2>1, <2>2 DEF BindInv, Open
<1>15. ASSUME ConnectVariable PROVE Goal
  <2>1. FrameInv'
    BY <1>15, QuietUse DEF ConnectVariable
  <2>2. /\ op.pc = "connectVariable" /\ op'.pc = "reset"
        /\ op'.wrapper = op.wrapper /\ UNCHANGED <<wrap, frames>>
    BY <1>15 DEF ConnectVariable, IInv, TypeOK
  <2>3. QED
    BY <2>1, <2>2 DEF BindInv, Open
<1>16. ASSUME ResetDataSource PROVE Goal
  BY <1>16, ResetDataSourceUse
<1>17. ASSUME NEW n \in NodeIds, Dispatch(n)
       PROVE  Goal
  BY <1>17, DispatchUse
<1>18. ASSUME Enter PROVE Goal
  BY <1>18, EnterUse
<1>19. ASSUME NEW w \in Wrappers, Invoke(w)
       PROVE  Goal
  BY <1>19, InvokeUse
<1>20. ASSUME Return PROVE Goal
  BY <1>20, ReturnUse
<1>21. ASSUME DeleteServer PROVE Goal
  <2>1. frames' = <<>> /\ op'.pc = "deleted"
    BY <1>21 DEF DeleteServer, DeleteNodes, Idle
  <2>2. Len(frames') = 0
    BY <2>1
  <2>3. QED
    BY <2>1, <2>2 DEF FrameInv, BindInv
<1>22. ASSUME FreeRegistry PROVE Goal
  <2>1. frames' = <<>> /\ op'.pc = "closed"
    BY <1>22 DEF FreeRegistry, Idle, BindInv, Open
  <2>2. Len(frames') = 0
    BY <2>1
  <2>3. QED
    BY <2>1, <2>2 DEF FrameInv, BindInv
<1>23. ASSUME UNCHANGED vars PROVE Goal
  <2>1. FrameInv'
    BY <1>23, QuietUse DEF vars
  <2>2. QED
    BY <1>23, <2>1 DEF vars, BindInv, Open
<1>24. Goal
  BY <1>2, <1>3, <1>4, <1>5, <1>6, <1>7, <1>8, <1>9, <1>10, <1>11, <1>12,
     <1>13, <1>14, <1>15, <1>16, <1>17, <1>18, <1>19, <1>20, <1>21, <1>22,
     <1>23 DEF Next, Registration, Serving, GetObject, GetMethod, GetVariable, Classes
<1>25. QED
  BY <1>1, <1>24

\* No callback runs a callable or a DataSource that was destroyed, even when
\* the application has dropped every handle, when callbacks register nodes and
\* cause further callbacks, and when a variable is bound while it is read.
THEOREM CallbacksRunLiveCode ==
  ASSUME Careful PROVE Spec => []NoUseAfterFree
<1>1. UseInv => NoUseAfterFree
  BY DEF UseInv, FrameInv, NoUseAfterFree
<1>2. UseInv /\ [Next]_vars => UseInv'
  BY StepUse
<1>3. QED
  BY <1>1, <1>2, InitUse, PTL DEF Spec

-----------------------------------------------------------------------------
(* The registry implements NodeBinding.                                    *)

\* What NodeBinding sees of the callbacks in flight.
Served(fs) ==
  [d \in 1..Len(fs) |-> [node |-> fs[d].node, callee |-> fs[d].callee]]

Calls == [node: Keys, callee: Objects \cup Payloads \cup {None}]

LEMMA ServedCalls ==
  ASSUME NEW fs \in Seq(Frame)
  PROVE  /\ Served(fs) \in Seq(Calls)
         /\ Len(Served(fs)) = Len(fs)
         /\ \A d \in 1..Len(fs) :
              Served(fs)[d] = [node |-> fs[d].node, callee |-> fs[d].callee]
<1>1. Len(fs) \in Nat
  BY LenProperties
<1>2. ASSUME NEW d \in 1..Len(fs)
      PROVE  [node |-> fs[d].node, callee |-> fs[d].callee] \in Calls
  <2>1. fs[d] \in Frame
    BY ElementOfSeq
  <2>2. QED
    BY <2>1 DEF Frame, Calls
<1>3. Served(fs) \in [1..Len(fs) -> Calls]
  BY <1>2 DEF Served
<1>4. DOMAIN Served(fs) = 1..Len(fs)
  BY DEF Served
<1>5. \A d \in 1..Len(fs) :
        Served(fs)[d] = [node |-> fs[d].node, callee |-> fs[d].callee]
  BY DEF Served
<1> HIDE DEF Served
<1>6. Served(fs) \in Seq(Calls)
  BY <1>1, <1>3, SeqDef
<1>7. Len(Served(fs)) = Len(fs)
  BY <1>1, <1>4, <1>6, LenProperties
<1>8. QED
  BY <1>5, <1>6, <1>7

LEMMA ServedPush ==
  ASSUME TypeOK, NEW f \in Frame, frames' = Append(frames, f)
  PROVE  Served(frames') = Append(Served(frames),
                                  [node |-> f.node, callee |-> f.callee])
<1> DEFINE c == [node |-> f.node, callee |-> f.callee]
<1>1. /\ frames \in Seq(Frame) /\ frames' \in Seq(Frame)
      /\ Len(frames') = Len(frames) + 1
      /\ \A d \in 1..Len(frames) : frames'[d] = frames[d]
      /\ frames'[Len(frames) + 1] = f
  BY PushFrame DEF TypeOK
<1>2. c \in Calls
  BY DEF Frame, Calls
<1> DEFINE s == Served(frames)
           t == Served(frames')
<1>3. /\ s \in Seq(Calls) /\ Len(s) = Len(frames)
      /\ \A d \in 1..Len(frames) :
           s[d] = [node |-> frames[d].node, callee |-> frames[d].callee]
  BY <1>1, ServedCalls
<1>4. /\ t \in Seq(Calls) /\ Len(t) = Len(frames')
      /\ \A d \in 1..Len(frames') :
           t[d] = [node |-> frames'[d].node, callee |-> frames'[d].callee]
  BY <1>1, ServedCalls
<1> HIDE DEF c, s, t
<1>5. /\ Append(s, c) \in Seq(Calls)
      /\ Len(Append(s, c)) = Len(s) + 1
      /\ \A d \in 1..Len(s) : Append(s, c)[d] = s[d]
      /\ Append(s, c)[Len(s) + 1] = c
  BY <1>2, <1>3, AppendProperties
<1>6. Len(frames) \in Nat
  BY <1>1, LenProperties
<1>7. ASSUME NEW d \in 1..Len(t) PROVE t[d] = Append(s, c)[d]
  <2>1. CASE d = Len(frames) + 1
    BY <2>1, <1>1, <1>3, <1>4, <1>5, <1>6 DEF c
  <2>2. CASE d \in 1..Len(frames)
    BY <2>2, <1>1, <1>3, <1>4, <1>5, <1>6
  <2>3. d \in 1..(Len(frames) + 1)
    BY <1>1, <1>4
  <2>4. d = Len(frames) + 1 \/ d \in 1..Len(frames)
    BY <2>3, <1>6
  <2>5. QED
    BY <2>1, <2>2, <2>4
<1>8. Len(t) = Len(Append(s, c))
  BY <1>1, <1>3, <1>4, <1>5
<1>9. t = Append(s, c)
  BY <1>4, <1>5, <1>7, <1>8, SeqEqual
<1>10. QED
  BY <1>9 DEF c, s, t

LEMMA ServedPop ==
  ASSUME TypeOK, frames # <<>>, frames' = Pop
  PROVE  /\ Served(frames) # <<>>
         /\ Served(frames') =
              SubSeq(Served(frames), 1, Len(Served(frames)) - 1)
<1> DEFINE s == Served(frames)
           t == Served(frames')
<1>1. /\ frames \in Seq(Frame) /\ frames' \in Seq(Frame)
      /\ Len(frames') = Len(frames) - 1
      /\ \A d \in 1..Len(frames') : frames'[d] = frames[d]
  BY PopFrame DEF TypeOK
<1>2. Len(frames) \in Nat \ {0}
  BY <1>1, EmptySeq
<1>3. /\ s \in Seq(Calls) /\ Len(s) = Len(frames)
      /\ \A d \in 1..Len(frames) :
           s[d] = [node |-> frames[d].node, callee |-> frames[d].callee]
  BY <1>1, ServedCalls
<1>4. /\ t \in Seq(Calls) /\ Len(t) = Len(frames')
      /\ \A d \in 1..Len(frames') :
           t[d] = [node |-> frames'[d].node, callee |-> frames'[d].callee]
  BY <1>1, ServedCalls
<1> HIDE DEF s, t
<1> DEFINE n == Len(s) - 1
<1>5. n \in Nat /\ n < Len(s)
  BY <1>2, <1>3
<1>6. /\ SubSeq(s, 1, n) \in Seq(Calls)
      /\ Len(SubSeq(s, 1, n)) = n
      /\ \A d \in 1..n : SubSeq(s, 1, n)[d] = s[d]
  BY <1>3, <1>5, Prefix
<1>7. Len(t) = n
  BY <1>1, <1>3, <1>4
<1>8. \A d \in 1..n : d \in 1..Len(frames) /\ d \in 1..Len(frames')
  BY <1>1, <1>2, <1>3
<1>9. \A d \in 1..Len(t) : t[d] = SubSeq(s, 1, n)[d]
  BY <1>1, <1>3, <1>4, <1>6, <1>7, <1>8
<1>10. t = SubSeq(s, 1, n)
  BY <1>4, <1>6, <1>7, <1>9, SeqEqual
<1>11. s # <<>>
  BY <1>2, <1>3, EmptySeq
<1>12. QED
  BY <1>10, <1>11 DEF s, t

\* Entering a callback changes nothing NodeBinding sees.
LEMMA ServedEnter ==
  ASSUME TypeOK, frames # <<>>,
         frames' = [frames EXCEPT ![Len(frames)].entered = TRUE]
  PROVE  Served(frames') = Served(frames)
<1>1. frames \in Seq(Frame) /\ Len(frames) \in 1..Len(frames)
  BY EmptySeq DEF TypeOK
<1>2. frames[Len(frames)] \in Frame
  BY <1>1, ElementOfSeq
<1> DEFINE f == [frames[Len(frames)] EXCEPT !.entered = TRUE]
<1>3. /\ f \in Frame
      /\ f.node = frames[Len(frames)].node
      /\ f.callee = frames[Len(frames)].callee
  BY <1>2 DEF Frame
<1>4. frames' = [frames EXCEPT ![Len(frames)] = f]
  OBVIOUS
<1> HIDE DEF f
<1>5. /\ [frames EXCEPT ![Len(frames)] = f] \in Seq(Frame)
      /\ Len([frames EXCEPT ![Len(frames)] = f]) = Len(frames)
      /\ \A d \in 1..Len(frames) :
           [frames EXCEPT ![Len(frames)] = f][d] =
             IF d = Len(frames) THEN f ELSE frames[d]
  BY <1>1, <1>3, ReplaceLast
<1>6. /\ Len(frames') = Len(frames)
      /\ \A d \in 1..Len(frames) : /\ frames'[d].node = frames[d].node
                                   /\ frames'[d].callee = frames[d].callee
  BY <1>3, <1>4, <1>5
<1>7. QED
  BY <1>6 DEF Served

\* The context of a method is the callable its wrapper owns, except while that
\* is being exchanged: a direct invoke runs what a call by UA_Server would run.
InvokeInv ==
  Open => \A w \in Wrappers :
            /\ wrap[w].class = "method"
            /\ wrap[w].payload # None
            /\ wrap[w].id \in NodeIds
            /\ ~(op.pc \in {"hookMethod", "connectMethod"} /\ op.wrapper = w)
            => context[wrap[w].id] = wrap[w].payload

BoundInv == IInv /\ InvokeInv

\* Steps that change no context and give no method a callable.
LEMMA KeepBound ==
  ASSUME BoundInv, context' = context,
         Open' => Open,
         \A w \in Wrappers :
           /\ wrap'[w].class = "method" /\ wrap'[w].payload # None
           => /\ wrap[w] = wrap'[w]
              /\ op.pc \in {"hookMethod", "connectMethod"} /\ op.wrapper = w
                 => op'.pc \in {"hookMethod", "connectMethod"} /\ op'.wrapper = w
  PROVE  InvokeInv'
  BY DEF BoundInv, InvokeInv

LEMMA NewWrapperBound ==
  ASSUME BoundInv, NEW k \in Classes, NEW i \in Keys, NEW w \in Wrappers,
         NewWrapper(k, i, w), context' = context, Open,
         op.pc \notin {"hookMethod", "connectMethod"}
  PROVE  InvokeInv'
<1>1. /\ wrap'[w].payload = None
      /\ \A v \in Wrappers \ {w} : wrap'[v] = wrap[v]
  BY DEF NewWrapper, BoundInv, IInv, TypeOK
<1>2. QED
  BY <1>1, KeepBound

\* Binding a callable leaves the bindings of all other methods alone.
LEMMA MakeCallableBound ==
  ASSUME BoundInv, NEW w \in Wrappers, MakeCallable(w), context' = context,
         op.pc \in {"idle", "make"}
  PROVE  InvokeInv'
<1>1. PICK p \in Payloads :
        /\ heap[p] = "fresh"
        /\ heap' = [q \in Payloads |-> IF q = p THEN "method"
                                       ELSE IF q = wrap[w].payload THEN "freed"
                                       ELSE heap[q]]
        /\ wrap' = [wrap EXCEPT ![w].payload = p]
        /\ op' = [Idle EXCEPT !.pc = "hookMethod", !.id = wrap[w].id,
                              !.wrapper = w, !.payload = p]
  BY DEF MakeCallable
<1>2. op'.pc = "hookMethod" /\ op'.wrapper = w
  BY <1>1 DEF Idle
<1>3. \A v \in Wrappers \ {w} : wrap'[v] = wrap[v]
  BY <1>1 DEF BoundInv, IInv, TypeOK
<1>4. Open
  BY DEF Open
<1>5. QED
  BY <1>2, <1>3, <1>4 DEF BoundInv, InvokeInv

LEMMA ConnectMethodBound ==
  ASSUME BoundInv, ConnectMethod
  PROVE  InvokeInv'
<1>1. /\ op.pc = "connectMethod" /\ op'.pc = "idle" /\ Open
      /\ UNCHANGED <<class, wrap>>
      /\ SetNodeContext(op.id, op.payload)
  BY DEF ConnectMethod, Idle, Open
<1>2. /\ op.wrapper \in Wrappers /\ op.id \in Keys /\ op.payload \in Payloads
      /\ op.wrapper \in handles
      /\ wrap[op.wrapper] = [class |-> "method", id |-> op.id,
                             payload |-> op.payload]
  BY <1>1 DEF BoundInv, IInv, TypeOK, OpInv, BindSteps
<1> SUFFICES ASSUME NEW w \in Wrappers, wrap[w].class = "method",
                    wrap[w].payload # None, wrap[w].id \in NodeIds
             PROVE  context'[wrap[w].id] = wrap[w].payload
  BY <1>1 DEF InvokeInv
<1>3. w \in registry /\ class[wrap[w].id] = "method"
  BY <1>1 DEF BoundInv, IInv, MapInv, Alive
<1>4. CASE wrap[w].id = op.id
  <2>1. op.wrapper \in registry
    BY <1>1, <1>2, <1>4 DEF BoundInv, IInv, MapInv, Alive
  <2>2. w = op.wrapper
    BY <1>2, <1>3, <1>4, <2>1 DEF BoundInv, IInv, MapInv
  <2>3. Exists(op.id)
    BY <1>3, <1>4 DEF Exists
  <2>4. context \in [NodeIds -> Objects \cup Payloads \cup {None}]
    BY DEF BoundInv, IInv, TypeOK
  <2>5. context'[op.id] = op.payload
    BY <1>1, <1>4, <2>3, <2>4 DEF SetNodeContext
  <2>6. QED
    BY <1>2, <1>4, <2>2, <2>5
<1>5. CASE wrap[w].id # op.id
  <2>1. context'[wrap[w].id] = context[wrap[w].id]
    BY <1>1, <1>5 DEF SetNodeContext, BoundInv, IInv, TypeOK
  <2>2. QED
    BY <1>1, <1>2, <1>5, <2>1 DEF BoundInv, InvokeInv
<1>6. QED
  BY <1>4, <1>5

\* Setting the context of a node that no method wrapper stands for.
LEMMA OtherContextBound ==
  ASSUME BoundInv, Open, NEW c, SetNodeContext(op.id, c),
         op.pc \notin {"hookMethod", "connectMethod"},
         \A w \in Wrappers :
           wrap'[w].class = "method" /\ wrap'[w].payload # None
           => wrap[w] = wrap'[w] /\ wrap[w].id # op.id
  PROVE  InvokeInv'
<1> SUFFICES ASSUME NEW w \in Wrappers, wrap'[w].class = "method",
                    wrap'[w].payload # None, wrap'[w].id \in NodeIds
             PROVE  context'[wrap'[w].id] = wrap'[w].payload
  BY DEF InvokeInv
<1>1. context[wrap[w].id] = wrap[w].payload
  BY DEF BoundInv, InvokeInv
<1>2. context'[wrap[w].id] = context[wrap[w].id]
  BY DEF SetNodeContext, BoundInv, IInv, TypeOK
<1>3. QED
  BY <1>1, <1>2

LEMMA StepBound == BoundInv /\ [Next]_vars => BoundInv'
<1> SUFFICES ASSUME BoundInv, [Next]_vars PROVE InvokeInv'
  BY StepInv DEF BoundInv
<1> USE DEF BoundInv
<1>1. ASSUME NEW i \in Ids \cup {Null}, NEW obj \in Objects \cup {None},
             CreateObject(i, obj)
      PROVE  InvokeInv'
  BY <1>1, KeepBound DEF CreateObject, MayOperate, Open
<1>2. ASSUME SetObjectContext PROVE InvokeInv'
  <2>1. op.pc = "setContext" /\ SetNodeContext(op.id, op.object) /\ Open
    BY <1>2 DEF SetObjectContext, Open
  <2>2. PICK w \in Wrappers : NewWrapper("object", op.id, w)
    BY <1>2 DEF SetObjectContext
  <2>3. CASE op.id \in NodeIds
    <3>1. \A v \in Wrappers : wrap[v].payload # None => wrap[v].id # op.id
      BY <2>1, <2>3 DEF IInv, OpInv, WrapperInv, Alive, Managed
    <3>2. /\ wrap'[w].payload = None
          /\ \A v \in Wrappers \ {w} : wrap'[v] = wrap[v]
      BY <2>2 DEF NewWrapper, IInv, TypeOK
    <3>3. QED
      BY <2>1, <3>1, <3>2, OtherContextBound
  <2>4. CASE op.id \notin NodeIds
    <3>1. context' = context
      BY <2>1, <2>4 DEF SetNodeContext, Exists
    <3>2. op.id \in Keys /\ "object" \in Classes
      BY DEF IInv, TypeOK, Classes
    <3>3. QED
      BY <2>1, <2>2, <3>1, <3>2, NewWrapperBound
  <2>5. QED
    BY <2>3, <2>4
<1>3. ASSUME NEW i \in Ids \cup {Null}, CreateVariable(i)
      PROVE  InvokeInv'
  <2>1. op.pc = "idle" /\ context' = context /\ Open
    BY <1>3 DEF CreateVariable, MayOperate, Open
  <2>2. i \in Keys /\ "variable" \in Classes
    BY DEF Keys, NodeIds, Classes
  <2>3. QED
    BY <1>3, <2>1, <2>2, NewWrapperBound DEF CreateVariable
<1>4. ASSUME NEW i \in Ids \cup {Null}, NEW bind \in BOOLEAN,
             CreateMethod(i, bind)
      PROVE  InvokeInv'
  <2>1. op.pc = "idle" /\ context' = context /\ Open
    BY <1>4 DEF CreateMethod, MayOperate, Open
  <2>2. i \in Keys /\ "method" \in Classes
    BY DEF Keys, NodeIds, Classes
  <2>3. QED
    BY <1>4, <2>1, <2>2, NewWrapperBound DEF CreateMethod
<1>5. ASSUME NEW k \in Classes, NEW i \in Keys, GetNode(k, i)
      PROVE  InvokeInv'
  <2>1. op.pc = "idle" /\ op' = op /\ context' = context /\ Open
    BY <1>5 DEF GetNode, MayOperate, Open
  <2>2. CASE UNCHANGED <<wrap, registry>>
    BY <2>1, <2>2, KeepBound DEF Open
  <2>3. CASE \E w \in Wrappers : NewWrapper(k, i, w)
    BY <2>1, <2>3, NewWrapperBound
  <2>4. QED
    BY <1>5, <2>2, <2>3 DEF GetNode
<1>6. ASSUME NEW k \in Classes, NEW i \in Ids, LoadNode(k, i)
      PROVE  InvokeInv'
  BY <1>6, KeepBound DEF LoadNode, Open
<1>7. ASSUME NEW w \in Wrappers, DropHandle(w)
      PROVE  InvokeInv'
  <2>1. context' = context /\ op' = op
    BY <1>7 DEF DropHandle
  <2>2. \A v \in Wrappers : wrap'[v] = wrap[v] \/ wrap'[v].payload = None
    BY <1>7 DEF DropHandle, IInv, TypeOK, NoWrapper
  <2>3. QED
    BY <2>1, <2>2, KeepBound DEF Open
<1>8. ASSUME NEW w \in Wrappers, BindCallable(w)
      PROVE  InvokeInv'
  BY <1>8, MakeCallableBound DEF BindCallable, MayOperate
<1>9. ASSUME BindAdded PROVE InvokeInv'
  <2>1. op.wrapper \in Wrappers
    BY <1>9 DEF BindAdded, IInv, TypeOK, BindSteps
  <2>2. QED
    BY <1>9, <2>1, MakeCallableBound DEF BindAdded
<1>10. ASSUME HookMethod PROVE InvokeInv'
  <2>1. op'.pc = "connectMethod" /\ op'.wrapper = op.wrapper
    BY <1>10 DEF HookMethod, IInv, TypeOK
  <2>2. QED
    BY <1>10, <2>1, KeepBound DEF HookMethod, Open
<1>11. ASSUME ConnectMethod PROVE InvokeInv'
  BY <1>11, ConnectMethodBound
<1>12. ASSUME NEW w \in Wrappers, ConnectCallback(w)
       PROVE  InvokeInv'
  BY <1>12, KeepBound DEF ConnectCallback, MayOperate, Open
<1>13. ASSUME HookVariable PROVE InvokeInv'
  BY <1>13, KeepBound DEF HookVariable, Open
<1>14. ASSUME ConnectVariable PROVE InvokeInv'
  <2>1. /\ op.pc = "connectVariable" /\ Open /\ wrap' = wrap
        /\ SetNodeContext(op.id, op.payload)
    BY <1>14 DEF ConnectVariable, Open
  <2>2. /\ op.wrapper \in Wrappers /\ op.id \in Keys
        /\ wrap[op.wrapper].class = "variable"
        /\ wrap[op.wrapper].id = op.id
    BY <2>1 DEF IInv, TypeOK, OpInv, BindSteps
  <2>3. CASE op.id \in NodeIds
    <3>1. class[op.id] = "variable"
      BY <2>1, <2>2, <2>3 DEF IInv, MapInv, Alive
    <3>2. \A v \in Wrappers : wrap[v].class = "method" => wrap[v].id # op.id
      BY <2>1, <2>3, <3>1 DEF IInv, MapInv, Alive
    <3>3. QED
      BY <2>1, <3>2, OtherContextBound
  <2>4. CASE op.id \notin NodeIds
    <3>1. context' = context
      BY <2>1, <2>4 DEF SetNodeContext, Exists
    <3>2. QED
      BY <2>1, <3>1, KeepBound DEF Open
  <2>5. QED
    BY <2>3, <2>4
<1>15. ASSUME ResetDataSource PROVE InvokeInv'
  <2>1. /\ op.pc = "reset" /\ context' = context
        /\ wrap' = [wrap EXCEPT ![op.wrapper].payload = op.payload]
        /\ op.wrapper \in Wrappers /\ wrap[op.wrapper].class = "variable"
    BY <1>15 DEF ResetDataSource, IInv, TypeOK, OpInv, BindSteps
  <2>2. \A v \in Wrappers : wrap'[v].class = "method" => wrap'[v] = wrap[v]
    BY <2>1 DEF IInv, TypeOK, Wrapper
  <2>3. QED
    BY <2>1, <2>2, KeepBound DEF Open
<1>16. ASSUME NEW n \in NodeIds, Dispatch(n)
       PROVE  InvokeInv'
  BY <1>16, KeepBound DEF Dispatch, Open
<1>17. ASSUME Enter PROVE InvokeInv'
  BY <1>17, KeepBound DEF Enter, Open
<1>18. ASSUME NEW w \in Wrappers, Invoke(w)
       PROVE  InvokeInv'
  BY <1>18, KeepBound DEF Invoke, Open
<1>19. ASSUME Return PROVE InvokeInv'
  BY <1>19, KeepBound DEF Return, Open
<1>20. ASSUME DeleteServer \/ FreeRegistry PROVE InvokeInv'
  BY <1>20 DEF DeleteServer, DeleteNodes, FreeRegistry, Idle, InvokeInv, Open
<1>21. ASSUME UNCHANGED vars PROVE InvokeInv'
  BY <1>21, KeepBound DEF vars, Open
<1>22. QED
  BY <1>1, <1>2, <1>3, <1>4, <1>5, <1>6, <1>7, <1>8, <1>9, <1>10, <1>11,
     <1>12, <1>13, <1>14, <1>15, <1>16, <1>17, <1>18, <1>19, <1>20, <1>21
     DEF Next, Registration, Serving, GetObject, GetMethod, GetVariable, Classes

LEMMA Bound == Spec => []BoundInv
<1>1. Init => BoundInv
  <2>1. Init => InvokeInv
    BY DEF Init, InvokeInv, NoWrapper
  <2>2. QED
    BY <2>1, InitInv DEF BoundInv
<1>2. BoundInv /\ [Next]_vars => BoundInv'
  BY StepBound
<1>3. QED
  BY <1>1, <1>2, PTL DEF Spec

\* What a step of the registry has to be for NodeBinding.
Step == [Binding!BindingNext]_(Binding!bvars)

\* A step that NodeBinding does not see.
LEMMA Unseen ==
  ASSUME class' = class, context' = context, Served(frames') = Served(frames)
  PROVE  Step
  BY DEF Step, Binding!bvars, Served

\* A new node is registered.
LEMMA NodeRegistered ==
  ASSUME NEW i \in NodeIds, NEW k \in Classes, class[i] = "absent",
         class' = [class EXCEPT ![i] = k], context' = context, frames' = frames
  PROVE  Step
<1>1. Binding!Register(i, k)
  BY DEF Binding!Register
<1>2. QED
  BY <1>1 DEF Step, Binding!BindingNext, Binding!Nodes, NodeIds, Classes

\* Only the registration that binds a payload can have set it before, and only
\* on its own node: no two nodes share a payload.
LEMMA NewlyBound ==
  ASSUME BoundInv, op.pc \in {"connectMethod", "connectVariable"},
         NEW j \in NodeIds, context[j] = op.payload
  PROVE  j = op.id
<1> USE DEF BoundInv, IInv
<1>1. op.payload \in Payloads /\ op.payload # None
  BY IdsAssumption DEF OpInv
<1>2. class[j] \in Managed
  BY <1>1 DEF ContextInv, TypeOK, Classes, Managed
<1>3. PICK w \in registry : wrap[w].id = j /\ Owns(w, j)
  BY <1>1, <1>2 DEF ContextInv
<1>4. w \in Wrappers
  BY DEF TypeOK
<1>5. CASE op.pc = "connectMethod"
  <2>1. /\ op.wrapper \in Wrappers /\ wrap[op.wrapper].payload = op.payload
        /\ wrap[op.wrapper].id = op.id
    BY <1>5 DEF TypeOK, OpInv, BindSteps
  <2>2. w = op.wrapper
    BY <1>1, <1>3, <1>4, <1>5, <2>1 DEF Owns, OwnerInv
  <2>3. QED
    BY <1>3, <2>1, <2>2
<1>6. CASE op.pc = "connectVariable"
  BY <1>3, <1>4, <1>6 DEF Owns, OpInv
<1>7. QED
  BY <1>5, <1>6

LEMMA PayloadBound ==
  ASSUME BoundInv, op.pc \in {"connectMethod", "connectVariable"},
         SetNodeContext(op.id, op.payload), class' = class, frames' = frames
  PROVE  Step
<1> USE DEF BoundInv, IInv
<1>1. CASE ~Exists(op.id) \/ context[op.id] = op.payload
  <2>1. context' = context
    BY <1>1 DEF SetNodeContext, Exists, TypeOK
  <2>2. QED
    BY <2>1, Unseen
<1>2. CASE Exists(op.id) /\ context[op.id] # op.payload
  <2>1. /\ op.id \in NodeIds /\ op.payload \in Payloads
        /\ op.wrapper \in Wrappers
        /\ wrap[op.wrapper].class \in Managed
        /\ wrap[op.wrapper].id = op.id
    BY <1>2 DEF Exists, OpInv, TypeOK, BindSteps, Managed
  <2>2. class[op.id] \in Managed
    BY <2>1 DEF MapInv, Alive, Open, Managed
  <2>3. \A j \in NodeIds : context[j] # op.payload
    BY <1>2, NewlyBound
  <2>4. context' = [context EXCEPT ![op.id] = op.payload]
    BY <1>2 DEF SetNodeContext
  <2>5. Binding!Bind(op.id, op.payload)
    BY <2>1, <2>2, <2>3, <2>4
    DEF Binding!Bind, Binding!Nodes, NodeIds, Managed
  <2>6. QED
    BY <2>1, <2>5 DEF Step, Binding!BindingNext, Binding!Nodes, NodeIds
<1>3. QED
  BY <1>1, <1>2

LEMMA ObjectBound ==
  ASSUME BoundInv, SetObjectContext
  PROVE  Step
<1> USE DEF BoundInv, IInv
<1>1. /\ op.pc = "setContext" /\ SetNodeContext(op.id, op.object)
      /\ class' = class /\ frames' = frames
  BY DEF SetObjectContext
<1>2. CASE op.id \notin NodeIds \/ op.object = None
  <2>1. context' = context
    BY <1>1, <1>2 DEF SetNodeContext, Exists, TypeOK, OpInv
  <2>2. QED
    BY <1>1, <2>1, Unseen
<1>3. CASE op.id \in NodeIds /\ op.object # None
  <2>1. /\ class[op.id] = "object" /\ context[op.id] = None
        /\ op.object \in Objects
    BY <1>1, <1>3 DEF OpInv, TypeOK
  <2>2. context' = [context EXCEPT ![op.id] = op.object]
    BY <1>1, <1>3, <2>1 DEF SetNodeContext, Exists
  <2>3. Binding!BindObject(op.id, op.object)
    BY <1>1, <2>1, <2>2 DEF Binding!BindObject
  <2>4. QED
    BY <1>3, <2>1, <2>3 DEF Step, Binding!BindingNext, Binding!Nodes, NodeIds
<1>4. QED
  BY <1>2, <1>3

\* UA_Server serves a call with the context of the node, invoke with the
\* callable of the wrapper: that is the same, or the wrapper has no node.
LEMMA CallServed ==
  ASSUME BoundInv,
         \/ \E n \in NodeIds : Dispatch(n)
         \/ \E w \in Wrappers : Invoke(w)
  PROVE  Step
<1> USE DEF BoundInv, IInv
<1>1. ASSUME NEW n \in NodeIds, class[n] \in Managed, NEW f \in Frame,
             f.node = n, f.callee = context[n], frames' = Append(frames, f),
             UNCHANGED <<class, context>>
      PROVE  Step
  <2>1. Served(frames') =
          Append(Served(frames), [node |-> n, callee |-> context[n]])
    BY <1>1, ServedPush
  <2>2. Binding!Serve(n)
    BY <1>1, <2>1 DEF Binding!Serve, Served, Managed
  <2>3. QED
    BY <2>2 DEF Step, Binding!BindingNext, Binding!Nodes, NodeIds
<1>2. ASSUME NEW n \in NodeIds, Dispatch(n) PROVE Step
  <2> DEFINE f == [node |-> n, class |-> class[n], callee |-> context[n],
                   via |-> None, entered |-> FALSE]
  <2>1. f \in Frame /\ f.node = n /\ f.callee = context[n]
    BY <1>2 DEF Dispatch, Frame, TypeOK, Keys
  <2>2. /\ frames' = Append(frames, f) /\ class[n] \in Managed
        /\ UNCHANGED <<class, context>>
    BY <1>2 DEF Dispatch
  <2> HIDE DEF f
  <2>3. QED
    BY <1>1, <2>1, <2>2
<1>3. ASSUME NEW w \in Wrappers, Invoke(w) PROVE Step
  <2> DEFINE f == [node |-> wrap[w].id, class |-> "method",
                   callee |-> wrap[w].payload, via |-> w, entered |-> TRUE]
  <2>1. /\ op.pc = "idle" /\ wrap[w].class = "method"
        /\ wrap[w].payload # None
        /\ frames' = Append(frames, f) /\ UNCHANGED <<class, context>>
    BY <1>3 DEF Invoke, MayOperate
  <2>2. wrap[w] \in Wrapper
    BY DEF TypeOK
  <2>3. /\ f \in Frame /\ f.node = wrap[w].id /\ f.callee = wrap[w].payload
        /\ wrap[w].id \in NodeIds \cup {Null} /\ wrap[w].payload \in Payloads
    BY <2>1, <2>2 DEF Frame, Wrapper, Managed, Keys
  <2> HIDE DEF f
  <2>4. CASE wrap[w].id \in NodeIds
    <3>1. class[wrap[w].id] = "method"
      BY <2>1, <2>4 DEF MapInv, Open, Alive
    <3>2. context[wrap[w].id] = wrap[w].payload
      BY <2>1, <2>4 DEF InvokeInv, Open
    <3>3. QED
      BY <1>1, <2>1, <2>3, <2>4, <3>1, <3>2 DEF Managed
  <2>5. CASE wrap[w].id = Null
    <3>1. PICK p \in Payloads : p = wrap[w].payload
      BY <2>3
    <3>2. Served(frames') =
            Append(Served(frames), [node |-> Null, callee |-> p])
      BY <2>1, <2>3, <2>5, <3>1, ServedPush
    <3>3. Binding!ServeUnbound(p)
      BY <2>1, <3>2 DEF Binding!ServeUnbound, Served
    <3>4. QED
      BY <3>3 DEF Step, Binding!BindingNext
  <2>6. QED
    BY <2>3, <2>4, <2>5
<1>4. QED
  BY <1>2, <1>3

LEMMA CallFinished ==
  ASSUME BoundInv, frames # <<>>, frames' = Pop, UNCHANGED <<class, context>>
  PROVE  Step
<1>1. Binding!Finish
  BY ServedPop DEF Binding!Finish, Served, BoundInv, IInv
<1>2. QED
  BY <1>1 DEF Step, Binding!BindingNext

LEMMA StepBinds ==
  ASSUME BoundInv, [Next]_vars
  PROVE  Step
<1> USE DEF BoundInv, IInv
<1>1. ASSUME NEW i \in Ids \cup {Null}, NEW obj \in Objects \cup {None},
             CreateObject(i, obj)
      PROVE  Step
  <2>1. PICK n \in Added(i) : class' = [class EXCEPT ![n] = "object"]
    BY <1>1 DEF CreateObject
  <2>2. n \in NodeIds /\ class[n] = "absent"
    BY DEF Added
  <2>3. QED
    BY <1>1, <2>1, <2>2, NodeRegistered DEF CreateObject, Classes
<1>2. ASSUME SetObjectContext PROVE Step
  BY <1>2, ObjectBound
<1>3. ASSUME NEW i \in Ids \cup {Null}, CreateVariable(i)
      PROVE  Step
  <2>1. PICK n \in Added(i) : class' = [class EXCEPT ![n] = "variable"]
    BY <1>3 DEF CreateVariable
  <2>2. n \in NodeIds /\ class[n] = "absent"
    BY DEF Added
  <2>3. QED
    BY <1>3, <2>1, <2>2, NodeRegistered DEF CreateVariable, Classes
<1>4. ASSUME NEW i \in Ids \cup {Null}, NEW bind \in BOOLEAN,
             CreateMethod(i, bind)
      PROVE  Step
  <2>1. PICK n \in Added(i) : class' = [class EXCEPT ![n] = "method"]
    BY <1>4 DEF CreateMethod
  <2>2. n \in NodeIds /\ class[n] = "absent"
    BY DEF Added
  <2>3. QED
    BY <1>4, <2>1, <2>2, NodeRegistered DEF CreateMethod, Classes
<1>5. ASSUME NEW k \in Classes, NEW i \in Keys, GetNode(k, i)
      PROVE  Step
  BY <1>5, Unseen DEF GetNode
<1>6. ASSUME NEW k \in Classes, NEW i \in Ids, LoadNode(k, i)
      PROVE  Step
  <2>1. i \in NodeIds /\ class[i] = "absent"
    BY <1>6 DEF LoadNode, NodeIds
  <2>2. QED
    BY <1>6, <2>1, NodeRegistered DEF LoadNode
<1>7. ASSUME NEW w \in Wrappers, DropHandle(w)
      PROVE  Step
  BY <1>7, Unseen DEF DropHandle
<1>8. ASSUME NEW w \in Wrappers, BindCallable(w) \/ ConnectCallback(w)
      PROVE  Step
  BY <1>8, Unseen DEF BindCallable, ConnectCallback
<1>9. ASSUME BindAdded \/ HookMethod \/ HookVariable \/ ResetDataSource
      PROVE  Step
  BY <1>9, Unseen DEF BindAdded, HookMethod, HookVariable, ResetDataSource
<1>10. ASSUME ConnectMethod PROVE Step
  BY <1>10, PayloadBound DEF ConnectMethod
<1>11. ASSUME ConnectVariable PROVE Step
  BY <1>11, PayloadBound DEF ConnectVariable
<1>12. ASSUME NEW n \in NodeIds, Dispatch(n)
       PROVE  Step
  BY <1>12, CallServed
<1>13. ASSUME NEW w \in Wrappers, Invoke(w)
       PROVE  Step
  BY <1>13, CallServed
<1>14. ASSUME Enter PROVE Step
  <2>1. /\ frames # <<>> /\ UNCHANGED <<class, context>>
        /\ frames' = IF Top.callee = None
                     THEN Pop
                     ELSE [frames EXCEPT ![Len(frames)].entered = TRUE]
    BY <1>14 DEF Enter
  <2>2. CASE Top.callee = None
    BY <2>1, <2>2, CallFinished
  <2>3. CASE Top.callee # None
    BY <2>1, <2>3, ServedEnter, Unseen
  <2>4. QED
    BY <2>2, <2>3
<1>15. ASSUME Return PROVE Step
  BY <1>15, CallFinished DEF Return
<1>16. ASSUME DeleteServer PROVE Step
  <2>1. Served(frames) = <<>>
    BY <1>16, EmptySeq, ServedCalls DEF DeleteServer, DeleteNodes, TypeOK
  <2>2. Binding!Close
    BY <1>16, <2>1 DEF DeleteServer, DeleteNodes, Binding!Close, Binding!Nodes, NodeIds, Served
  <2>3. QED
    BY <2>2 DEF Step, Binding!BindingNext
<1>17. ASSUME FreeRegistry \/ UNCHANGED vars PROVE Step
  BY <1>17, Unseen DEF FreeRegistry, vars
<1>18. QED
  BY <1>1, <1>2, <1>3, <1>4, <1>5, <1>6, <1>7, <1>8, <1>9, <1>10, <1>11,
     <1>12, <1>13, <1>14, <1>15, <1>16, <1>17
     DEF Next, Registration, Serving, GetObject, GetMethod, GetVariable, Classes

\* The registry keeps the promise of NodeBinding: only a bind through
\* createObject, bindCallable or connectCallback changes what a node calls, and
\* a call is served with the binding of its moment, whether UA_Server or invoke
\* serves it.  Maps, handles and half-done registrations do not show.
THEOREM ImplementsBinding == Spec => BindingSpec
<1>1. Init => Binding!BindingInit
  <2>1. ASSUME frames = <<>> PROVE Served(frames) = <<>>
    BY <2>1, EmptySeq, ServedCalls
  <2>2. QED
    BY <2>1 DEF Init, Binding!BindingInit, Binding!Nodes, NodeIds, Served
<1>2. BoundInv /\ [Next]_vars => [Binding!BindingNext]_(Binding!bvars)
  BY StepBinds DEF Step
<1>3. QED
  BY <1>1, <1>2, Bound, PTL DEF Spec, BindingSpec, Binding!Spec

-----------------------------------------------------------------------------
(* A whole Server: its threads use the registry as it is meant to be used. *)

\* The owner waits while there is a run().
Waits == (run # "none") <=> (owner = "started")

\* A registration that is under way is that of a thread that can go on with it:
\* of the owner, or of a callback inside an iteration.
OpIsHeld ==
  op.pc # "idle" =>
    \/ owner = "idle" /\ (thread = "owner" => InUserCode)
    \/ Interleave /\ owner = "started"
    \/ ~Interleave /\ frames # <<>> /\ Top.entered /\ thread = "run" /\ run = "iterate"
    \/ owner = "gone"

ServerInv == Waits /\ CallbacksAreServed /\ OpIsHeld

\* Registrations leave the callbacks alone, and begin where user code runs.
LEMMA RegistrationBegins ==
  Registration => frames' = frames /\ (op.pc # "idle" \/ MayOperate)
<1> SUFFICES ASSUME Registration
             PROVE  frames' = frames /\ (op.pc # "idle" \/ MayOperate)
  OBVIOUS
<1>1. CASE \/ \E i \in Ids \cup {Null}, obj \in Objects \cup {None} : CreateObject(i, obj)
           \/ \E i \in Ids \cup {Null} : CreateVariable(i)
           \/ \E i \in Ids \cup {Null}, bind \in BOOLEAN : CreateMethod(i, bind)
           \/ \E k \in Classes, i \in Ids : LoadNode(k, i)
  BY <1>1 DEF CreateObject, CreateVariable, CreateMethod, LoadNode
<1>2. CASE \/ \E i \in Keys : GetObject(i)
           \/ \E i \in Keys : GetMethod(i)
           \/ \E i \in Keys : GetVariable(i)
  BY <1>2 DEF GetObject, GetMethod, GetVariable, GetNode
<1>3. CASE \/ \E w \in Wrappers : DropHandle(w)
           \/ \E w \in Wrappers : BindCallable(w)
           \/ \E w \in Wrappers : ConnectCallback(w)
  BY <1>3 DEF DropHandle, BindCallable, ConnectCallback
<1>4. CASE \/ SetObjectContext \/ BindAdded \/ HookMethod \/ ConnectMethod
           \/ HookVariable \/ ConnectVariable \/ ResetDataSource
  BY <1>4 DEF SetObjectContext, BindAdded, HookMethod, ConnectMethod,
     HookVariable, ConnectVariable, ResetDataSource
<1> QED BY <1>1, <1>2, <1>3, <1>4 DEF Registration

LEMMA RunStopsInv == ServerInv /\ RunStops => ServerInv'
<1> SUFFICES ASSUME ServerInv, RunStops PROVE ServerInv'
  OBVIOUS
<1> USE DEF ServerInv, Waits, CallbacksAreServed, OpIsHeld, InUserCode, Top, vars
<1>1. op' = op /\ frames' = frames /\ thread' = thread
  BY DEF RunStops
<1>2. CASE Life!EnterRun
  BY <1>1, <1>2 DEF Life!EnterRun
<1>3. CASE Life!Startup
  BY <1>1, <1>3 DEF Life!Startup
<1>4. CASE Life!CheckFlag
  BY <1>1, <1>4 DEF Life!CheckFlag
<1>5. CASE Life!Shutdown
  BY <1>1, <1>5 DEF Life!Shutdown
<1>6. CASE Life!CallbackShutdown
  BY <1>1, <1>6 DEF Life!CallbackShutdown
<1>7. ASSUME NEW t \in Threads, Life!Stop(t) PROVE ServerInv'
  BY <1>1, <1>7 DEF Life!Stop
<1>8. ASSUME NEW t \in Threads, Life!StopShutdown(t) PROVE ServerInv'
  BY <1>1, <1>8 DEF Life!StopShutdown
<1> QED BY <1>2, <1>3, <1>4, <1>5, <1>6, <1>7, <1>8 DEF RunStops

\* A callback begins where its thread is, and ends before its registrations.
LEMMA ServesInv == ServerInv /\ Serves => ServerInv'
<1> SUFFICES ASSUME ServerInv, Serves PROVE ServerInv'
  OBVIOUS
<1> USE DEF ServerInv
<1>1. /\ UNCHANGED <<run, owner>>
      /\ Serving
      /\ frames # <<>> => thread' = thread
  BY DEF Serves, lifeVars
<1>2. op' = op
  BY <1>1 DEF Serving, Dispatch, Enter, Invoke, Return
<1>3. Waits' /\ CallbacksAreServed'
  BY <1>1 DEF Serves, Waits, CallbacksAreServed
<1>4. CASE owner = "idle" /\ op.pc = "idle"
  BY <1>1, <1>2, <1>3, <1>4 DEF OpIsHeld
<1>5. CASE run = "iterate" /\ Interleave
  BY <1>1, <1>2, <1>3, <1>5 DEF OpIsHeld, Waits
<1>6. CASE run = "iterate" /\ ~Interleave
  <2>1. ASSUME op.pc # "idle" PROVE FALSE
    <3>1. frames # <<>> /\ Top.entered
      BY <1>6, <2>1 DEF OpIsHeld, Waits
    <3>2. ~Enter
      BY <3>1 DEF Enter
    <3> QED BY <1>1, <1>6, <2>1, <3>2
            DEF Serving, Dispatch, Invoke, Return, MayDispatch, MayOperate
  <2> QED BY <1>2, <1>3, <2>1 DEF OpIsHeld
<1> QED BY <1>4, <1>5, <1>6 DEF Serves

LEMMA RegistersInv == ServerInv /\ Registers => ServerInv'
<1> SUFFICES ASSUME ServerInv, Registers PROVE ServerInv'
  OBVIOUS
<1> USE DEF ServerInv
<1>1. /\ UNCHANGED <<run, owner, thread, frames>>
      /\ op.pc # "idle" \/ MayOperate
      /\ MayRegister
  BY RegistrationBegins DEF Registers, lifeVars
<1>2. Waits' /\ CallbacksAreServed'
  BY <1>1 DEF Waits, CallbacksAreServed
<1>3. \/ owner = "idle" /\ (thread = "owner" => InUserCode)
      \/ Interleave /\ owner = "started"
      \/ ~Interleave /\ frames # <<>> /\ Top.entered /\ thread = "run" /\ run = "iterate"
      \/ owner = "gone"
  BY <1>1 DEF MayRegister, OpIsHeld, MayOperate, InUserCode, Waits
<1> QED BY <1>1, <1>2, <1>3 DEF OpIsHeld, InUserCode, Top

LEMMA OwnerStepsInv ==
  ServerInv /\ (StartsAndJoins \/ Destroys \/ DestroyShutsDown \/ Deletes \/ FreesRegistry)
    => ServerInv'
<1> USE DEF ServerInv, Waits, CallbacksAreServed, OpIsHeld
<1>1. ServerInv /\ StartsAndJoins => ServerInv'
  BY DEF StartsAndJoins, OwnerIsFree, Life!Start, Life!Join, vars
<1>2. ServerInv /\ Destroys => ServerInv'
  BY DEF Destroys, OwnerIsFree, Life!Destroy, vars
<1>3. ServerInv /\ DestroyShutsDown => ServerInv'
  BY DEF DestroyShutsDown, Life!DestroyShutdown, vars
<1>4. ServerInv /\ Deletes => ServerInv'
  BY DEF Deletes, DeleteNodes, Life!Delete
<1>5. ServerInv /\ FreesRegistry => ServerInv'
  BY DEF FreesRegistry, FreeRegistry, lifeVars
<1> QED BY <1>1, <1>2, <1>3, <1>4, <1>5

LEMMA ServerStep == ServerInv /\ [ServerNext]_serverVars => ServerInv'
<1> SUFFICES ASSUME ServerInv, [ServerNext]_serverVars PROVE ServerInv'
  OBVIOUS
<1>1. CASE Iterates
  BY <1>1 DEF Iterates, Life!Iterate, ServerInv, Waits, CallbacksAreServed, OpIsHeld, vars
<1>2. CASE CallbackStops
  BY <1>2 DEF CallbackStops, Life!CallbackStop, ServerInv, Waits,
     CallbacksAreServed, OpIsHeld, vars
<1>3. CASE UNCHANGED serverVars
  BY <1>3 DEF serverVars, lifeVars, vars, ServerInv, Waits, CallbacksAreServed,
     OpIsHeld, InUserCode, Top
<1> QED
  BY <1>1, <1>2, <1>3, RunStopsInv, ServesInv, RegistersInv, OwnerStepsInv DEF ServerNext

LEMMA ServerInvariance == ServerSpec => []ServerInv
<1>1. ServerInit => ServerInv
  BY DEF ServerInit, Init, Idle, Life!Init, ServerInv, Waits, CallbacksAreServed, OpIsHeld
<1>2. ServerInv /\ [ServerNext]_serverVars => ServerInv'
  BY ServerStep
<1> QED BY <1>1, <1>2, PTL DEF ServerSpec

\* No callback outlives the run() it belongs to, whoever calls stop() and when:
\* none is in flight when the owner's wait is over, or when ~Server begins.
THEOREM CallbacksEndWithRun == ServerSpec => []CallbacksAreServed
<1>1. ServerInv => CallbacksAreServed
  BY DEF ServerInv
<1> QED BY <1>1, ServerInvariance, PTL

\* UA_Server_delete comes when nothing is in flight.
LEMMA DeletesInQuiet == ServerInv /\ Deletes => DeleteServer
  BY DEF Deletes, Life!Delete, DeleteServer, ServerInv, Waits, CallbacksAreServed, OpIsHeld

LEMMA StepIsRegistrys == ServerInv /\ [ServerNext]_serverVars => [Next]_vars
<1> SUFFICES ASSUME ServerInv, [ServerNext]_serverVars PROVE [Next]_vars
  OBVIOUS
<1>1. CASE RunStops \/ Iterates \/ CallbackStops \/ StartsAndJoins \/ Destroys \/ DestroyShutsDown
  BY <1>1 DEF RunStops, Iterates, CallbackStops, StartsAndJoins, Destroys, DestroyShutsDown
<1>2. CASE Serves \/ Registers \/ FreesRegistry
  BY <1>2 DEF Serves, Registers, FreesRegistry, Next
<1>3. CASE Deletes
  BY <1>3, DeletesInQuiet DEF Next
<1>4. CASE UNCHANGED serverVars
  BY <1>4 DEF serverVars
<1> QED BY <1>1, <1>2, <1>3, <1>4 DEF ServerNext

\* What run(), stop() and ~Server do to the registry is what ServerRegistry
\* allows, although nothing in ~Server waits for callbacks or registrations.
THEOREM ServerImplementsRegistry == ServerSpec => RegistrySpec
<1>1. ServerInit => Init
  BY DEF ServerInit
<1>2. ServerInv /\ [ServerNext]_serverVars => [Next]_vars
  BY StepIsRegistrys
<1> QED BY <1>1, <1>2, ServerInvariance, PTL DEF ServerSpec, RegistrySpec, Spec

\* The callbacks and registrations do not disturb run(), stop() and ~Server:
\* what is proved of ServerLifecycle holds of a whole Server.
THEOREM ServerImplementsLifecycle == ServerSpec => Life!Spec
<1>1. ServerInit => Life!Init
  BY DEF ServerInit
<1>2. [ServerNext]_serverVars => [Life!Next]_Life!vars
  <2> SUFFICES ASSUME [ServerNext]_serverVars PROVE [Life!Next]_Life!vars
    OBVIOUS
  <2>1. CASE RunStops
    BY <2>1 DEF RunStops, Life!Next
  <2>2. CASE Iterates \/ CallbackStops \/ StartsAndJoins \/ Destroys \/ DestroyShutsDown \/ Deletes
    BY <2>2 DEF Iterates, CallbackStops, StartsAndJoins, Destroys, DestroyShutsDown,
       Deletes, Life!Next
  <2>3. CASE Serves \/ Registers \/ FreesRegistry \/ UNCHANGED serverVars
    BY <2>3 DEF Serves, Registers, FreesRegistry, serverVars, lifeVars, Life!vars
  <2> QED BY <2>1, <2>2, <2>3 DEF ServerNext
<1> QED BY <1>1, <1>2, PTL DEF ServerSpec, Life!Spec

\* So a whole Server has the properties of the registry, up to the moment its
\* last wrapper dies.
THEOREM ServerKeepsContexts ==
  ServerSpec => [](SettledContext /\ TypedContext /\ VariableContextLive /\ OneWrapperPerNode)
  BY ServerImplementsRegistry, ContextsAreOwned, ContextsAreTyped, VariablesStayLive,
     WrappersAreUnique, PTL DEF RegistrySpec

\* A callback of a whole Server runs live code, however stop() and ~Server come,
\* if no callable is replaced while it runs.
THEOREM ServerRunsLiveCode == ASSUME Careful PROVE ServerSpec => []NoUseAfterFree
  BY ServerImplementsRegistry, CallbacksRunLiveCode, PTL DEF RegistrySpec
=============================================================================
