------------------------------ MODULE MCServer ------------------------------
(* Server on small sets, for TLC: the owner registers and binds nodes again  *)
(* while run() serves callbacks, and another thread calls stop().            *)
EXTENDS Server, TLC

CONSTANTS i1, a1, w1, w2, w3, p1, p2, p3, obj1, t1

\* Wrapper and payload addresses are interchangeable.
Addresses == Permutations({w1, w2, w3}) \cup Permutations({p1, p2, p3})
=============================================================================
