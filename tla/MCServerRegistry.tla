-------------------------- MODULE MCServerRegistry --------------------------
(* ServerRegistry on small sets, for TLC.                                  *)
EXTENDS ServerRegistry, TLC

CONSTANTS i1, i2, a1, w1, w2, w3, p1, p2, p3, obj1

\* Wrapper and payload addresses are interchangeable.
Addresses == Permutations({w1, w2, w3}) \cup Permutations({p1, p2, p3})
=============================================================================
