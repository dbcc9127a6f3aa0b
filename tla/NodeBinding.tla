---------------------------- MODULE NodeBinding ----------------------------
(***************************************************************************)
(* What Server promises about node contexts, without wrappers, maps or     *)
(* handles: a node has a class for good, each node has at most one         *)
(* binding, it changes only when the application binds, an object is bound  *)
(* once, two nodes never share a payload, and a call served for a node gets *)
(* its binding of that moment.                                             *)
(***************************************************************************)
EXTENDS Naturals, Sequences

CONSTANTS Ids, MadeUp, Null, Objects, Payloads, None

VARIABLES kind, binding, serving

bvars == <<kind, binding, serving>>

Nodes == Ids \cup MadeUp

BindingInit ==
  /\ kind = [i \in Nodes |-> "absent"]
  /\ binding = [i \in Nodes |-> None]
  /\ serving = <<>>

Register(i, k) ==
  /\ kind[i] = "absent"
  /\ kind' = [kind EXCEPT ![i] = k]
  /\ UNCHANGED <<binding, serving>>

BindObject(i, obj) ==
  /\ kind[i] = "object"
  /\ binding[i] = None
  /\ binding' = [binding EXCEPT ![i] = obj]
  /\ UNCHANGED <<kind, serving>>

Bind(i, p) ==
  /\ kind[i] \in {"method", "variable"}
  /\ \A j \in Nodes : binding[j] # p
  /\ binding' = [binding EXCEPT ![i] = p]
  /\ UNCHANGED <<kind, serving>>

Serve(i) ==
  /\ kind[i] \in {"method", "variable"}
  /\ serving' = Append(serving, [node |-> i, callee |-> binding[i]])
  /\ UNCHANGED <<kind, binding>>

\* A callable that belongs to no node is called through its wrapper.
ServeUnbound(p) ==
  /\ serving' = Append(serving, [node |-> Null, callee |-> p])
  /\ UNCHANGED <<kind, binding>>

Finish ==
  /\ serving # <<>>
  /\ serving' = SubSeq(serving, 1, Len(serving) - 1)
  /\ UNCHANGED <<kind, binding>>

Close ==
  /\ serving = <<>>
  /\ kind' = [i \in Nodes |-> "absent"]
  /\ binding' = [i \in Nodes |-> None]
  /\ UNCHANGED serving

BindingNext ==
  \/ \E i \in Nodes, k \in {"object", "method", "variable"} : Register(i, k)
  \/ \E i \in Nodes, obj \in Objects : BindObject(i, obj)
  \/ \E i \in Nodes, p \in Payloads : Bind(i, p)
  \/ \E i \in Nodes : Serve(i)
  \/ \E p \in Payloads : ServeUnbound(p)
  \/ Finish
  \/ Close

Spec == BindingInit /\ [][BindingNext]_bvars
=============================================================================
