-------------------------- MODULE MCVariantContents --------------------------
(* VariantContents on small sets, for TLC: scalars and arrays of a type that  *)
(* is compared and of one that is not, NaN, an array without elements, and    *)
(* arrays that differ behind their first element.                             *)
EXTENDS VariantContents, TLC

CONSTANTS v1, v2, v3, c1, c2, c3, double, struct, e1, e2

Scalar(t, e) == [type |-> t, scalar |-> TRUE, data |-> <<e>>]
Array(t, d) == [type |-> t, scalar |-> FALSE, data |-> d]

SomeValues ==
  {Scalar(double, e1), Scalar(double, e2), Scalar(double, NaN), Scalar(struct, e1),
   Array(double, <<>>), Array(double, <<e1, e1>>),
   Array(double, <<e1, e2>>)}

\* Variants and addresses are interchangeable.
Symmetry == Permutations({v1, v2, v3}) \cup Permutations({c1, c2, c3})
=============================================================================
