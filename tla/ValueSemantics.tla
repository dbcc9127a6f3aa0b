--------------------------- MODULE ValueSemantics ---------------------------
(***************************************************************************)
(* What Variant promises to those who treat Variants as values: each has a *)
(* value of its own, or was moved from, and whatever happens to one leaves  *)
(* the others alone.  The exception is a view of a value that is somebody   *)
(* else's: it may expire.  Copies are never views.  A program that uses a   *)
(* Variant without a value is undefined.  There are no UA_Variants here.   *)
(***************************************************************************)
CONSTANTS
  Variants, \* C++ objects of class Variant
  Values,   \* what they may contain
  Empty,    \* the value of a Variant nothing was written to
  None,     \* in place of a value: moved from
  Gone      \* in place of a value: expired

VARIABLES
  value,    \* the Variants that live -> what each contains
  views,    \* those whose value is somebody else's
  undefined \* a Variant without a value was used

Living == DOMAIN value
HasValue(v) == v \in Living /\ value[v] \notin {None, Gone}

\* The values when v has x, be it new or not.
With(v, x) == [u \in Living \cup {v} |-> IF u = v THEN x ELSE value[u]]

ValueInit ==
  /\ value = [v \in {} |-> None]
  /\ views = {}
  /\ undefined = FALSE

-----------------------------------------------------------------------------
Begin(v, x) ==
  /\ v \notin Living
  /\ value' = With(v, x)
  /\ UNCHANGED views

BeginView(v, x) ==
  /\ v \notin Living
  /\ value' = With(v, x)
  /\ views' = views \cup {v}

BeginCopy(v, w) ==
  /\ v \notin Living /\ HasValue(w)
  /\ value' = With(v, value[w])
  /\ UNCHANGED views

\* A view that is moved is a view elsewhere.
Moved(v, w) ==
  /\ value' = [With(v, value[w]) EXCEPT ![w] = None]
  /\ views' = ((views \ {v}) \cup (IF w \in views THEN {v} ELSE {})) \ {w}

BeginMoved(v, w) == v \notin Living /\ w \in Living /\ Moved(v, w)

Move(v, w) == v \in Living /\ w \in Living /\ Moved(v, w)

\* A Variant that is assigned to itself loses its value.
Copy(v, w) ==
  /\ HasValue(v) /\ HasValue(w) /\ v \notin views
  /\ value' = With(v, IF v = w THEN Empty ELSE value[w])
  /\ UNCHANGED views

Assign(v, x) ==
  /\ HasValue(v)
  /\ value' = With(v, x)
  /\ UNCHANGED views

End(v) ==
  /\ v \in Living
  /\ value' = [u \in Living \ {v} |-> value[u]]
  /\ views' = views \ {v}

Expire(v) ==
  /\ v \in views
  /\ value' = With(v, Gone)
  /\ UNCHANGED views

\* Defined steps.
Step ==
  \/ \E v \in Variants, x \in Values \cup {Empty} : Begin(v, x) \/ BeginView(v, x)
  \/ \E v, w \in Variants : BeginCopy(v, w) \/ BeginMoved(v, w)
  \/ \E v, w \in Variants : Copy(v, w) \/ Move(v, w)
  \/ \E v \in Variants, x \in Values : Assign(v, x)
  \/ \E v \in Variants : End(v) \/ Expire(v)

\* A copy of, a copy to or another use of a Variant without a value: what comes
\* of the values is left open, and nothing follows.
Fail == \E v \in Living : ~HasValue(v) /\ undefined'

-----------------------------------------------------------------------------
ValueNext ==
  /\ ~undefined
  /\ \/ Step /\ UNCHANGED undefined
     \/ Fail

Spec == ValueInit /\ [][ValueNext]_<<value, views, undefined>>
=============================================================================
