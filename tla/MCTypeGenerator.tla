-------------------------- MODULE MCTypeGenerator --------------------------
(* TypeGenerator for TLC: a built-in type, a class like std::string, and     *)
(* three others, one of which has the id of a built-in type in another       *)
(* namespace; the numbers are the enumerations.                              *)
EXTENDS TypeGenerator

CONSTANTS b, x, y, z

\* Scalars, vectors and fields of rank 0, of every type.
Ranks == [i \in Ids |->
           [t \in Ids |-> CASE i = x -> IF t = y THEN -1 ELSE 1
                            [] i = y -> IF t = b THEN 0 ELSE -1
                            [] OTHER -> IF t = x THEN 2 ELSE -1]]
=============================================================================
