--------------------------- MODULE MCEventEmission ---------------------------
(* EventEmission for TLC: the fields of the event types of the library and   *)
(* one that is not there, as in tests/events.cpp.                            *)
EXTENDS EventEmission, TLC

CONSTANTS e1, o1, o2, v1, v2

AllPaths == {"Message", "SourceNode", "Transition", "Transition/Id", "dasdf"}
Known == AllPaths \ {"dasdf"}

\* A value of a wrong type for one field.
Mismatch == {<<"Transition", v2>>}

Same == Permutations({o1, o2})
=============================================================================
