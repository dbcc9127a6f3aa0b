------------------------- MODULE MCVariantOwnership -------------------------
(* VariantOwnership on small sets, for TLC.                                *)
EXTENDS VariantOwnership, TLC

CONSTANTS v1, v2, v3, c1, c2, c3, c4, c5

\* Variants and addresses are interchangeable.
Symmetry == Permutations({v1, v2, v3}) \cup Permutations({c1, c2, c3, c4, c5})
=============================================================================
