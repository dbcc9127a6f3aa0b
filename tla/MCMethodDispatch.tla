-------------------------- MODULE MCMethodDispatch --------------------------
(* MethodDispatch for TLC: a member function of two integers, a function     *)
(* that returns a tuple, one that takes a vector and returns nothing, and a  *)
(* FunctionCall; descriptions of the first of them, and of a method that     *)
(* takes an array; an object with a context of that class and one without;    *)
(* calls with none, one and two arguments, with and without a value.         *)
EXTENDS MethodDispatch, TLC

CONSTANTS m1, m2, o1, o2, Device, Other, Int, String, d1, d2

SomeContexts == [o \in Objects |-> IF o = o1 THEN Device ELSE None]

One(type) == [type |-> type, vector |-> FALSE]
Many(type) == [type |-> type, vector |-> TRUE]

TwoInts == [form |-> "member", class |-> Device,
            ins |-> <<One(Int), One(Int)>>, outs |-> <<One(Int)>>]
Tuple == [form |-> "free", class |-> None,
          ins |-> <<One(Int), One(String)>>, outs |-> <<One(Int), Many(String)>>]
TakesVector == [form |-> "free", class |-> None,
                ins |-> <<Many(Int)>>, outs |-> <<>>]
Generic == [form |-> "raw", class |-> None, ins |-> <<>>, outs |-> <<>>]

SomeCallables == {TwoInts, Tuple, TakesVector, Generic}

SomeDescribed ==
  {MethodTraits(TwoInts),
   [ins |-> <<[type |-> Int, array |-> TRUE]>>,
    outs |-> <<[type |-> Int, array |-> FALSE]>>]}

Scalars == [type: Types, array: {FALSE}, data: Data]
SomeSent ==
  {<<>>, <<Empty>>}
    \cup {<<v>> : v \in [type: {Int}, array: BOOLEAN, data: {d1}]}
    \cup {<<[type |-> Int, array |-> TRUE, data |-> Nothing]>>}
    \cup {<<v, w>> : v, w \in Scalars \cup {Empty}}

Perms == Permutations(Methods)
=============================================================================
