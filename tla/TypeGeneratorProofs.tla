------------------------ MODULE TypeGeneratorProofs ------------------------
(***************************************************************************)
(* The files of the TypeGenerator compile, for every graph of types: each  *)
(* class comes after those of its members, and only once.                  *)
(***************************************************************************)
EXTENDS TypeGenerator, SequenceTheorems, TLAPS

\* Only what main() puts into the table is a base type.
BaseIsBuiltin ==
  \A i \in Ids : i \in Builtin <=> Known(i) /\ types[i].kind = "base"

\* Nothing is pending but what the step of the program needs.
Phases ==
  /\ pc = "order" <=> stack # <<>>
  /\ calls = 0 => pc = "idle" /\ order = <<>> /\ output = <<>>

\* A type that stands after the first n members of ids, or is no class at all.
Before(i, ids, n) ==
  \/ i \in Builtin
  \/ \E j \in 1..n : ids[j] = i

\* Each call of buildOrder has ordered the fields before the next one, but
\* for the one its callee is at.
StackIsOrdered ==
  \A k \in 1..Len(stack) :
    LET t == types[stack[k].id]
    IN  /\ Known(stack[k].id)
        /\ t.kind = "struct" =>
             \A n \in 1..Len(t.fields) :
               n < stack[k].next =>
                 \/ Before(t.fields[n], order, Len(order))
                 \/ k < Len(stack) /\ stack[k + 1].id = t.fields[n]

\* The fields of what is ordered are generated or ordered before it.
OrderIsOrdered ==
  pc # "idle" =>
    \A k \in 1..Len(order) :
      LET t == types[order[k]]
      IN  /\ Known(order[k])
          /\ t.kind = "struct" =>
               \A n \in 1..Len(t.fields) :
                 t.fields[n] \in generated \/ Before(t.fields[n], order, k - 1)

\* What is marked as generated is what is in the files.
GeneratedIsOutput ==
  \A i \in Ids : i \in generated <=> \E k \in 1..Len(output) : output[k] = i

OutputIsKnown == \A k \in 1..Len(output) : Known(output[k])

IInv ==
  /\ TypeOK /\ BaseIsBuiltin /\ Phases
  /\ StackIsOrdered /\ OrderIsOrdered
  /\ GeneratedIsOutput /\ OutputIsKnown
  /\ DeclaredBeforeUse /\ GeneratedOnce

-----------------------------------------------------------------------------
\* The table is empty but for the built-in types when the generator starts.
LEMMA InitIInv == Init => IInv
<1> SUFFICES ASSUME Init PROVE IInv
  OBVIOUS
<1> USE TypesAssumption, UnknownAssumption DEF Init
<1>1. TypeOK
  BY DEF TypeOK, Type
<1>2. BaseIsBuiltin
  <2>1. [kind |-> "base", fields |-> <<>>] \in Type
    BY DEF Type
  <2>2. ASSUME NEW i \in Ids
        PROVE  i \in Builtin <=> Known(i) /\ types[i].kind = "base"
    <3>1. CASE i \in Builtin
      BY <3>1, <2>1 DEF Known
    <3>2. CASE i \notin Builtin
      BY <3>2 DEF Known
    <3> QED BY <3>1, <3>2
  <2> QED BY <2>2 DEF BaseIsBuiltin
<1>4. Phases /\ StackIsOrdered /\ OrderIsOrdered
  BY DEF Phases, StackIsOrdered, OrderIsOrdered
<1>3. GeneratedIsOutput /\ OutputIsKnown /\ DeclaredBeforeUse /\ GeneratedOnce
  BY DEF GeneratedIsOutput, OutputIsKnown, DeclaredBeforeUse, GeneratedOnce
<1> QED BY <1>1, <1>2, <1>3, <1>4 DEF IInv

\* Nothing is ordered or generated yet when the nodesets are read.
LEMMA AddNodeIInv ==
  ASSUME IInv, NEW i \in Ids, NEW kind \in {"enum", "struct"},
         NEW fields \in Seq(Ids), AddNode(i, kind, fields)
  PROVE  IInv'
<1> USE TypesAssumption, UnknownAssumption DEF IInv, AddNode
<1>1. calls = 0 /\ pc = "idle" /\ stack = <<>> /\ order = <<>> /\ output = <<>>
  BY DEF Phases, TypeOK
<1>2. TypeOK'
  BY DEF TypeOK, Type
<1>3. BaseIsBuiltin'
  <2>1. ASSUME NEW j \in Ids
        PROVE  j \in Builtin <=> Known(j)' /\ types'[j].kind = "base"
    <3>1. CASE j = i
      BY <3>1 DEF TypeOK, BaseIsBuiltin, Known
    <3>2. CASE j # i
      BY <3>2 DEF TypeOK, BaseIsBuiltin, Known
    <3> QED BY <3>1, <3>2
  <2> QED BY <2>1 DEF BaseIsBuiltin, Known
<1>4. Phases' /\ StackIsOrdered' /\ OrderIsOrdered'
  BY <1>1 DEF Phases, StackIsOrdered, OrderIsOrdered
<1>5. GeneratedIsOutput' /\ OutputIsKnown' /\ DeclaredBeforeUse' /\ GeneratedOnce'
  BY <1>1 DEF GeneratedIsOutput, OutputIsKnown, DeclaredBeforeUse, GeneratedOnce
<1> QED BY <1>2, <1>3, <1>4, <1>5

\* A call starts with nothing ordered and no field looked at.
LEMMA GenerateClassIInv ==
  ASSUME IInv, NEW i \in Ids, GenerateClass(i)
  PROVE  IInv'
<1> USE TypesAssumption DEF IInv, GenerateClass
<1>1. TypeOK'
  BY DEF TypeOK
<1>2. BaseIsBuiltin'
  BY DEF BaseIsBuiltin, Known
<1>3. Phases'
  BY DEF Phases, TypeOK
<1>4. StackIsOrdered'
  BY DEF StackIsOrdered, Known
<1>5. OrderIsOrdered'
  BY DEF OrderIsOrdered
<1>6. GeneratedIsOutput' /\ OutputIsKnown' /\ DeclaredBeforeUse' /\ GeneratedOnce'
  BY DEF GeneratedIsOutput, OutputIsKnown, DeclaredBeforeUse, GeneratedOnce, Known
<1> QED BY <1>1, <1>2, <1>3, <1>4, <1>5, <1>6

\* An unknown type: the order is given up.
LEMMA ReturnFalseIInv == IInv /\ ReturnFalse => IInv'
<1> SUFFICES ASSUME IInv, ReturnFalse PROVE IInv'
  OBVIOUS
<1> USE DEF IInv, ReturnFalse
<1>1. TypeOK'
  BY DEF TypeOK
<1>2. BaseIsBuiltin'
  BY DEF BaseIsBuiltin, Known
<1>3. Phases' /\ StackIsOrdered' /\ OrderIsOrdered'
  BY DEF Phases, StackIsOrdered, OrderIsOrdered
<1>4. GeneratedIsOutput' /\ OutputIsKnown' /\ DeclaredBeforeUse' /\ GeneratedOnce'
  BY DEF GeneratedIsOutput, OutputIsKnown, DeclaredBeforeUse, GeneratedOnce, Known
<1> QED BY <1>1, <1>2, <1>3, <1>4

Call == [id: Ids, next: Nat \ {0}]

\* The call at the top of the stack, and the type it is for.
LEMMA TopIsKnown ==
  ASSUME IInv, pc = "order"
  PROVE  /\ Len(stack) \in Nat \ {0}
         /\ Top \in Call /\ Top = stack[Len(stack)]
         /\ Known(Top.id) /\ This = types[Top.id] /\ This \in Type
<1>1. stack # <<>> /\ stack \in Seq(Call)
  BY DEF IInv, Phases, TypeOK, Call
<1>2. Len(stack) \in Nat \ {0} /\ Top \in Call
  BY <1>1, EmptySeq, ElementOfSeq DEF Top
<1>3. Known(Top.id)
  BY <1>2 DEF IInv, StackIsOrdered, Top
<1> QED BY <1>2, <1>3 DEF This, Known, IInv, TypeOK, Top, Call

\* A call for a field keeps its caller where it is.
LEMMA DescendIInv == IInv /\ Descend => IInv'
<1> SUFFICES ASSUME IInv, Descend PROVE IInv'
  OBVIOUS
<1> DEFINE n == Len(stack)
           s == [stack EXCEPT ![n].next = @ + 1]
           c == [id |-> Field, next |-> 1]
<1>1. /\ n \in Nat \ {0} /\ Top \in Call /\ Top = stack[n]
      /\ Known(Top.id) /\ This = types[Top.id] /\ This \in Type
  BY TopIsKnown DEF Descend
<1>2. /\ This.kind = "struct" /\ Top.next \in 1..Len(This.fields)
      /\ Field \in Ids /\ Known(Field)
  BY <1>1 DEF Descend, AtEnd, Field, Type, Call
<1>3. stack \in Seq(Call) /\ order \in Seq(Ids)
  BY DEF IInv, TypeOK, Call
<1>4. /\ s \in Seq(Call) /\ Len(s) = n
      /\ \A k \in 1..n : s[k] = IF k = n THEN [stack[n] EXCEPT !.next = @ + 1]
                                ELSE stack[k]
  <2> DEFINE e == [stack[n] EXCEPT !.next = @ + 1]
  <2>1. e \in Call /\ n \in 1..Len(stack)
    BY <1>1 DEF Call
  <2>2. s = [stack EXCEPT ![n] = e]
    OBVIOUS
  <2> HIDE DEF s, e, n
  <2>3. /\ [stack EXCEPT ![n] = e] \in Seq(Call)
        /\ Len([stack EXCEPT ![n] = e]) = Len(stack)
        /\ \A k \in 1..Len(stack) :
             [stack EXCEPT ![n] = e][k] = IF k = n THEN e ELSE stack[k]
    BY <1>3, <2>1, ExceptSeq
  <2> QED BY <2>2, <2>3 DEF n, e
<1>5. /\ \A k \in 1..(n - 1) : s[k] = stack[k]
      /\ s[n] = [id |-> Top.id, next |-> Top.next + 1]
  <2> HIDE DEF s
  <2>1. [Top EXCEPT !.next = @ + 1] = [id |-> Top.id, next |-> Top.next + 1]
    BY <1>1 DEF Call
  <2> QED BY <1>1, <1>4, <2>1
<1>6. /\ stack' \in Seq(Call) /\ Len(stack') = n + 1
      /\ \A k \in 1..n : stack'[k] = s[k]
      /\ stack'[n + 1] = c
  <2>1. c \in Call
    BY <1>2 DEF Call
  <2>2. stack' = Append(s, c)
    BY DEF Descend
  <2> HIDE DEF s, c
  <2> QED BY <2>1, <2>2, <1>4, AppendProperties
<1>7. TypeOK'
  BY <1>6 DEF IInv, TypeOK, Descend, Call
<1>8. BaseIsBuiltin'
  BY DEF BaseIsBuiltin, Known, IInv, Descend
<1>9. Phases'
  BY <1>6, <1>1, EmptySeq DEF Phases, IInv, Descend, TypeOK
<1>10. OrderIsOrdered'
  BY DEF OrderIsOrdered, IInv, Descend, Known, Before
<1>11. GeneratedIsOutput' /\ OutputIsKnown' /\ DeclaredBeforeUse' /\ GeneratedOnce'
  BY DEF GeneratedIsOutput, OutputIsKnown, DeclaredBeforeUse, GeneratedOnce,
         Known, IInv, Descend
<1>12. StackIsOrdered'
  <2> SUFFICES ASSUME NEW k \in 1..(n + 1)
               PROVE  /\ Known(stack'[k].id)
                      /\ types[stack'[k].id].kind = "struct" =>
                           \A f \in 1..Len(types[stack'[k].id].fields) :
                             f < stack'[k].next =>
                               \/ Before(types[stack'[k].id].fields[f], order, Len(order))
                               \/ /\ k < n + 1
                                  /\ stack'[k + 1].id = types[stack'[k].id].fields[f]
    <3>1. Len(stack') = n + 1 /\ types' = types /\ order' = order
      BY <1>6 DEF Descend
    <3> HIDE DEF n
    <3> QED BY <3>1 DEF StackIsOrdered, Known, Before
  <2>1. CASE k = n + 1
    BY <2>1, <1>6, <1>2
  <2>2. CASE k = n
    <3>1. stack'[k].id = Top.id /\ stack'[k].next = Top.next + 1
      BY <2>2, <1>5, <1>6, <1>1
    <3>2. stack'[k + 1].id = This.fields[Top.next]
      BY <2>2, <1>6 DEF Field
    <3>3. \A f \in 1..Len(This.fields) :
            f < Top.next => Before(This.fields[f], order, Len(order))
      BY <1>1, <1>2 DEF IInv, StackIsOrdered
    <3> QED BY <3>1, <3>2, <3>3, <1>1, <1>2, <2>2 DEF Call, Type
  <2>3. CASE k < n
    <3>1. stack'[k] = stack[k] /\ stack'[k + 1].id = stack[k + 1].id
      <4>1. CASE k + 1 < n
        BY <4>1, <1>5, <1>6, <2>3, <1>1
      <4>2. CASE k + 1 = n
        BY <4>2, <1>5, <1>6, <2>3, <1>1
      <4> QED BY <4>1, <4>2, <2>3, <1>1
    <3> QED BY <3>1, <2>3, <1>1 DEF IInv, StackIsOrdered
  <2> QED BY <2>1, <2>2, <2>3, <1>1
<1> QED BY <1>7, <1>8, <1>9, <1>10, <1>11, <1>12 DEF IInv

LEMMA Prefix ==
  ASSUME NEW S, NEW s \in Seq(S), NEW n \in Nat, n < Len(s)
  PROVE  /\ SubSeq(s, 1, n) \in Seq(S)
         /\ Len(SubSeq(s, 1, n)) = n
         /\ \A k \in 1..n : SubSeq(s, 1, n)[k] = s[k]
  BY SMT

\* The end of a call: its type is ordered after all its fields, and its caller
\* finds it there.
LEMMA ReturnTrueIInv == IInv /\ ReturnTrue => IInv'
<1> SUFFICES ASSUME IInv, ReturnTrue PROVE IInv'
  OBVIOUS
<1> DEFINE n == Len(stack)
           o == Len(order)
<1>1. /\ n \in Nat \ {0} /\ Top \in Call /\ Top = stack[n]
      /\ Known(Top.id) /\ This = types[Top.id] /\ This \in Type
  BY TopIsKnown DEF ReturnTrue
<1>2. /\ stack \in Seq(Call) /\ order \in Seq(Ids)
      /\ o \in Nat /\ Top.id \in Ids
  BY <1>1 DEF IInv, TypeOK, Call
<1>3. /\ Callers \in Seq(Call) /\ Len(Callers) = n - 1
      /\ \A k \in 1..(n - 1) : Callers[k] = stack[k]
  <2>1. n - 1 \in Nat /\ n - 1 < Len(stack)
    BY <1>1
  <2> QED BY <2>1, <1>2, Prefix DEF Callers
\* What is ordered stays so, and the type that returns is now.
<1>4. /\ order' \in Seq(Ids) /\ Len(order') \in Nat /\ Len(order') >= o
      /\ \A k \in 1..o : order'[k] = order[k]
      /\ Before(Top.id, order', Len(order'))
      /\ \A k \in 1..Len(order') :
           k > o => This.kind # "base" /\ k = o + 1 /\ order'[k] = Top.id
  <2>1. CASE This.kind = "base"
    <3>1. order' = order
      BY <2>1 DEF ReturnTrue
    <3>2. Top.id \in Builtin
      BY <2>1, <1>1, <1>2 DEF IInv, BaseIsBuiltin
    <3> QED BY <3>1, <3>2, <1>2 DEF Before
  <2>2. CASE This.kind # "base"
    <3>1. order' = Append(order, Top.id)
      BY <2>2 DEF ReturnTrue
    <3>2. /\ order' \in Seq(Ids) /\ Len(order') = o + 1
          /\ \A k \in 1..o : order'[k] = order[k]
          /\ order'[o + 1] = Top.id
      BY <3>1, <1>2, AppendProperties
    <3> QED BY <3>2, <2>2, <1>2 DEF Before
  <2> QED BY <2>1, <2>2
<1>5. \A i : Before(i, order, o) => Before(i, order', Len(order'))
  BY <1>4, <1>2 DEF Before
\* All the fields of that type are ordered.
<1>6. This.kind = "struct" =>
        \A f \in 1..Len(This.fields) : Before(This.fields[f], order, o)
  BY <1>1 DEF ReturnTrue, AtEnd, IInv, StackIsOrdered, Type, Call
<1>7. TypeOK'
  BY <1>3, <1>4 DEF IInv, TypeOK, ReturnTrue, Call
<1>8. BaseIsBuiltin'
  BY DEF BaseIsBuiltin, Known, IInv, ReturnTrue
<1>9. Phases'
  BY <1>3 DEF Phases, IInv, ReturnTrue, TypeOK
<1>10. StackIsOrdered'
  <2> SUFFICES ASSUME NEW k \in 1..Len(stack')
               PROVE  /\ types'[stack'[k].id] # Unknown
                      /\ types'[stack'[k].id].kind = "struct" =>
                           \A f \in 1..Len(types'[stack'[k].id].fields) :
                             f < stack'[k].next =>
                               \/ Before(types'[stack'[k].id].fields[f],
                                         order', Len(order'))
                               \/ /\ k < Len(stack')
                                  /\ stack'[k + 1].id
                                       = types'[stack'[k].id].fields[f]
    BY DEF StackIsOrdered, Before, Known
  <2>a. /\ k \in 1..(n - 1) /\ Len(stack') = n - 1 /\ types' = types
        /\ stack'[k] = stack[k]
        /\ k < n - 1 => stack'[k + 1] = stack[k + 1]
    BY <1>1, <1>3 DEF ReturnTrue
  <2> SUFFICES /\ Known(stack[k].id)
               /\ types[stack[k].id].kind = "struct" =>
                    \A f \in 1..Len(types[stack[k].id].fields) :
                      f < stack[k].next =>
                        \/ Before(types[stack[k].id].fields[f],
                                  order', Len(order'))
                        \/ /\ k < n - 1
                           /\ stack[k + 1].id = types[stack[k].id].fields[f]
    <3> HIDE DEF n
    <3> QED BY <2>a DEF Known
  <2>1. k \in 1..n /\ k < n
    BY <1>1, <2>a
  <2>2. \A f \in 1..Len(types[stack[k].id].fields) :
          stack[k + 1].id = types[stack[k].id].fields[f] /\ ~(k < n - 1) =>
            Before(types[stack[k].id].fields[f], order', Len(order'))
    BY <1>1, <1>4, <2>1
  <2> QED BY <2>1, <2>2, <1>5 DEF IInv, StackIsOrdered
<1>11. OrderIsOrdered'
  <2>1. pc = "order" /\ types' = types /\ generated' = generated
    BY DEF ReturnTrue
  <2> SUFFICES ASSUME NEW k \in 1..Len(order')
               PROVE  /\ Known(order'[k])
                      /\ types[order'[k]].kind = "struct" =>
                           \A f \in 1..Len(types[order'[k]].fields) :
                             \/ types[order'[k]].fields[f] \in generated
                             \/ Before(types[order'[k]].fields[f], order', k - 1)
    BY <2>1 DEF OrderIsOrdered, Known, Before
  <2>2. CASE k <= o
    BY <2>1, <2>2, <1>2, <1>4 DEF IInv, OrderIsOrdered, Before
  <2>3. CASE k > o
    BY <2>3, <1>1, <1>2, <1>4, <1>6 DEF Before
  <2> QED BY <2>2, <2>3, <1>2, <1>4
<1>12. GeneratedIsOutput' /\ OutputIsKnown' /\ DeclaredBeforeUse' /\ GeneratedOnce'
  BY DEF GeneratedIsOutput, OutputIsKnown, DeclaredBeforeUse, GeneratedOnce,
         Known, IInv, ReturnTrue
<1> QED BY <1>7, <1>8, <1>9, <1>10, <1>11, <1>12 DEF IInv

\* A type that is new to the files is written after its fields.
LEMMA OutputGrows ==
  ASSUME IInv, pc = "emit", order # <<>>, Head(order) \notin generated
  PROVE  LET h == Head(order)
             new == Append(output, h)
         IN  /\ h \in Ids /\ Known(h)
             /\ new \in Seq(Ids)
             /\ Len(new) = Len(output) + 1
             /\ \A k \in 1..Len(output) : new[k] = output[k] /\ output[k] # h
             /\ new[Len(output) + 1] = h
             /\ types[h].kind = "struct" =>
                  \A f \in 1..Len(types[h].fields) :
                    \/ types[h].fields[f] \in Builtin
                    \/ \E j \in 1..Len(output) : output[j] = types[h].fields[f]
<1> DEFINE h == Head(order)
<1>1. order \in Seq(Ids) /\ output \in Seq(Ids)
  BY DEF IInv, TypeOK
<1>2. h \in Ids /\ h = order[1] /\ 1 \in 1..Len(order)
  BY <1>1, HeadTailProperties, EmptySeq
<1>3. /\ Known(h)
      /\ types[h].kind = "struct" =>
           \A f \in 1..Len(types[h].fields) :
             types[h].fields[f] \in generated \/ types[h].fields[f] \in Builtin
  BY <1>2 DEF IInv, OrderIsOrdered, Before
<1>4. types[h].kind = "struct" =>
        \A f \in 1..Len(types[h].fields) : types[h].fields[f] \in Ids
  BY <1>2, <1>3 DEF IInv, TypeOK, Type, Known
<1>5. \A k \in 1..Len(output) : output[k] # h
  BY <1>2 DEF IInv, GeneratedIsOutput
<1>6. types[h].kind = "struct" =>
        \A f \in 1..Len(types[h].fields) :
          \/ types[h].fields[f] \in Builtin
          \/ \E j \in 1..Len(output) : output[j] = types[h].fields[f]
  BY <1>3, <1>4 DEF IInv, GeneratedIsOutput
<1>7. /\ Append(output, h) \in Seq(Ids)
      /\ Len(Append(output, h)) = Len(output) + 1
      /\ \A k \in 1..Len(output) : Append(output, h)[k] = output[k]
      /\ Append(output, h)[Len(output) + 1] = h
  BY <1>1, <1>2, AppendProperties
<1> HIDE DEF h
<1> QED BY <1>2, <1>3, <1>5, <1>6, <1>7 DEF h

\* The loop over order writes each type after its fields, and once.
LEMMA EmitIInv == IInv /\ Emit => IInv'
<1> SUFFICES ASSUME IInv, Emit PROVE IInv'
  OBVIOUS
<1> DEFINE h == Head(order)
<1>1. CASE order = <<>>
  <2>1. pc = "emit" /\ pc' = "idle" /\ UNCHANGED <<types, stack, order, generated, output, calls>>
    BY <1>1 DEF Emit
  <2> QED
    BY <2>1 DEF IInv, TypeOK, BaseIsBuiltin, Phases, StackIsOrdered,
       OrderIsOrdered, GeneratedIsOutput, OutputIsKnown, DeclaredBeforeUse,
       GeneratedOnce, Known, Before
<1>2. CASE order # <<>>
  <2>1. /\ pc = "emit" /\ pc' = "emit" /\ order' = Tail(order)
        /\ generated' = generated \cup {h}
        /\ types' = types /\ stack' = stack /\ calls' = calls
    BY <1>2 DEF Emit
  <2>2. order \in Seq(Ids) /\ output \in Seq(Ids) /\ generated \subseteq Ids
    BY DEF IInv, TypeOK
  <2>3. /\ h \in Ids /\ h = order[1] /\ order' \in Seq(Ids)
        /\ Len(order) \in Nat /\ Len(order') = Len(order) - 1
        /\ \A k \in 1..Len(order') : order'[k] = order[k + 1]
    BY <2>1, <2>2, <1>2, HeadTailProperties
  \* The rest of the order: what it relied on is there or marked.
  <2>4. OrderIsOrdered'
    <3>0. types' = types
      BY <2>1
    <3> SUFFICES ASSUME NEW k \in 1..Len(order')
                 PROVE  /\ Known(order'[k])
                        /\ types[order'[k]].kind = "struct" =>
                             \A f \in 1..Len(types[order'[k]].fields) :
                               \/ types[order'[k]].fields[f] \in generated'
                               \/ Before(types[order'[k]].fields[f], order', k - 1)
      BY <3>0 DEF OrderIsOrdered, Known, Before
    <3>1. k + 1 \in 1..Len(order) /\ order'[k] = order[k + 1]
      BY <2>3
    <3>2. /\ Known(order'[k])
          /\ types[order'[k]].kind = "struct" =>
               \A f \in 1..Len(types[order'[k]].fields) :
                 \/ types[order'[k]].fields[f] \in generated
                 \/ Before(types[order'[k]].fields[f], order, k)
      BY <3>1, <2>1 DEF IInv, OrderIsOrdered
    <3>3. ASSUME NEW i, Before(i, order, k)
          PROVE  i \in generated' \/ Before(i, order', k - 1)
      <4>1. CASE i \in Builtin
        BY <4>1 DEF Before
      <4>2. ASSUME NEW j \in 1..k, order[j] = i
            PROVE  i \in generated' \/ Before(i, order', k - 1)
        <5>1. CASE j = 1
          BY <5>1, <4>2, <2>1, <2>3
        <5>2. CASE j # 1
          <6>1. j - 1 \in 1..(k - 1) /\ order'[j - 1] = i
            BY <5>2, <4>2, <2>3
          <6> QED BY <6>1 DEF Before
        <5> QED BY <5>1, <5>2
      <4> QED BY <4>1, <4>2, <3>3 DEF Before
    <3> QED BY <3>2, <3>3, <2>1
  <2>5. CASE h \in generated
    <3>1. output' = output /\ generated' = generated
      BY <2>5, <2>1, <1>2 DEF Emit
    <3>2. TypeOK' /\ BaseIsBuiltin' /\ Phases' /\ StackIsOrdered'
      <4>1. TypeOK'
        BY <3>1, <2>1, <2>3 DEF IInv, TypeOK
      <4>2. BaseIsBuiltin' /\ Phases' /\ StackIsOrdered'
        BY <2>1 DEF IInv, BaseIsBuiltin, Phases, StackIsOrdered, Known
      <4> QED BY <4>1, <4>2
    <3>3. GeneratedIsOutput' /\ OutputIsKnown' /\ DeclaredBeforeUse' /\ GeneratedOnce'
      BY <3>1, <2>1 DEF IInv, GeneratedIsOutput, OutputIsKnown,
         DeclaredBeforeUse, GeneratedOnce, Known
    <3> QED BY <3>2, <3>3, <2>4 DEF IInv
  <2>6. CASE h \notin generated
    <3> DEFINE m == Len(output)
    <3>1. output' = Append(output, h)
      BY <2>6, <1>2 DEF Emit, Write
    <3>2. /\ m \in Nat /\ Known(h)
          /\ output' \in Seq(Ids) /\ Len(output') = m + 1
          /\ \A k \in 1..m : output'[k] = output[k] /\ output[k] # h
          /\ output'[m + 1] = h
          /\ types[h].kind = "struct" =>
               \A f \in 1..Len(types[h].fields) :
                 \/ types[h].fields[f] \in Builtin
                 \/ \E j \in 1..m : output[j] = types[h].fields[f]
      BY <3>1, <2>1, <2>2, <2>6, <1>2, OutputGrows
    <3>3. TypeOK'
      BY <3>2, <2>1, <2>3 DEF IInv, TypeOK
    <3>4. BaseIsBuiltin' /\ Phases' /\ StackIsOrdered'
      <4>1. BaseIsBuiltin' /\ Phases'
        BY <2>1 DEF IInv, BaseIsBuiltin, Phases, Known
      <4>2. stack = <<>>
        BY <2>1 DEF IInv, Phases
      <4> QED BY <4>1, <4>2, <2>1 DEF StackIsOrdered
    <3>5. GeneratedIsOutput'
      BY <3>2, <2>1, <2>3 DEF IInv, GeneratedIsOutput
    <3>6. OutputIsKnown'
      BY <3>2, <2>1 DEF IInv, OutputIsKnown, Known
    <3>7. DeclaredBeforeUse'
      <4>1. ASSUME NEW k \in 1..(m + 1), types[output'[k]].kind = "struct",
                   NEW f \in 1..Len(types[output'[k]].fields)
            PROVE  \/ types[output'[k]].fields[f] \in Builtin
                   \/ \E j \in 1..(k - 1) : output'[j] = types[output'[k]].fields[f]
        <5>1. CASE k \in 1..m
          <6>1. \/ types[output'[k]].fields[f] \in Builtin
                \/ \E j \in 1..(k - 1) : output[j] = types[output'[k]].fields[f]
            BY <5>1, <4>1, <3>2 DEF IInv, DeclaredBeforeUse
          <6> QED BY <6>1, <5>1, <3>2
        <5>2. CASE k = m + 1
          BY <5>2, <4>1, <3>2
        <5> QED BY <5>1, <5>2, <3>2
      <4> QED BY <4>1, <3>2, <2>1 DEF DeclaredBeforeUse
    <3>8. GeneratedOnce'
      BY <3>2 DEF IInv, GeneratedOnce
    <3> QED BY <3>3, <3>4, <3>5, <3>6, <3>7, <3>8, <2>4 DEF IInv
  <2> QED BY <2>5, <2>6
<1> QED BY <1>1, <1>2

-----------------------------------------------------------------------------
LEMMA StepIInv == IInv /\ [Next]_vars => IInv'
<1> SUFFICES ASSUME IInv, [Next]_vars PROVE IInv'
  OBVIOUS
<1>1. ASSUME NEW i \in Ids, NEW fields \in Fields, AddNode(i, "struct", fields)
      PROVE  IInv'
  <2>1. fields \in Seq(Ids)
    BY TypesAssumption DEF Fields
  <2> QED BY <1>1, <2>1, AddNodeIInv
<1>2. ASSUME NEW i \in Ids, AddNode(i, "enum", <<>>) PROVE IInv'
  <2>1. <<>> \in Seq(Ids)
    OBVIOUS
  <2> QED BY <1>2, <2>1, AddNodeIInv
<1>3. ASSUME NEW i \in Ids, GenerateClass(i) PROVE IInv'
  BY <1>3, GenerateClassIInv
<1>4. CASE UNCHANGED vars
  BY <1>4 DEF vars, IInv, TypeOK, BaseIsBuiltin, Phases, StackIsOrdered,
     OrderIsOrdered, GeneratedIsOutput, OutputIsKnown, DeclaredBeforeUse,
     GeneratedOnce, Known, Before
<1> QED
  BY <1>1, <1>2, <1>3, <1>4, ReturnTrueIInv, DescendIInv, ReturnFalseIInv,
     EmitIInv DEF Next

LEMMA Inductive == Spec => []IInv
  BY InitIInv, StepIInv, PTL DEF Spec

\* The members of each class in the files of the TypeGenerator are of built-in
\* types or of classes before it, whatever the nodesets hold.
THEOREM MembersAreDeclared == Spec => []DeclaredBeforeUse
<1>1. IInv => DeclaredBeforeUse
  BY DEF IInv
<1> QED BY <1>1, Inductive, PTL

\* No class is in the files twice.
THEOREM ClassesAreUnique == Spec => []GeneratedOnce
<1>1. IInv => GeneratedOnce
  BY DEF IInv
<1> QED BY <1>1, Inductive, PTL

\* The generator stays well typed: buildOrder never leaves the fields of a type.
THEOREM GeneratorTypes == Spec => []TypeOK
<1>1. IInv => TypeOK
  BY DEF IInv
<1> QED BY <1>1, Inductive, PTL

\* The classes convert their members the way they declare them, but for value
\* rank 0, cast numbers only, but for the built-in classes and those with the id
\* of a built-in type, and call only conversion functions written before.
THEOREM MembersAreConverted == Spec => []ConversionsFit
<1>1. IInv => ConversionsFit
  <2> SUFFICES ASSUME IInv,
                      NEW k \in 1..Len(output),
                      types[output[k]].kind = "struct",
                      NEW n \in 1..Len(types[output[k]].fields)
               PROVE  LET m == Member(output[k], n)
                          c == Conversion(output[k], n)
                      IN  /\ c.looped # m.vector => Rank[output[k]][m.type] = 0
                          /\ c.by = "cast" /\ ~IsNumber(m.type) =>
                               m.type \in Classes
                                 \/ (m.type \in Small /\ ~c.looped)
                          /\ c.by = "from" =>
                               \E j \in 1..(k - 1) : output[j] = m.type
    BY DEF ConversionsFit
  <2> DEFINE i == output[k]
             t == types[i].fields[n]
  <2>1. /\ i \in Ids /\ types[i] \in Type
    BY ElementOfSeq DEF IInv, TypeOK, OutputIsKnown, Known
  <2>2. t \in Ids
    BY <2>1, ElementOfSeq DEF Type
  <2>3. Rank[i][t] \in Int
    BY <2>1, <2>2, TypesAssumption
  <2>4. t \in Builtin => types[t].kind = "base"
    BY <2>2 DEF IInv, BaseIsBuiltin
  <2>5. t \notin Builtin => \E j \in 1..(k - 1) : output[j] = t
    BY DEF IInv, DeclaredBeforeUse
  <2>6. t \in Builtin \/ types[t].kind \in {"enum", "struct"}
    <3> SUFFICES ASSUME t \notin Builtin PROVE types[t].kind \in {"enum", "struct"}
      OBVIOUS
    <3>1. PICK j \in 1..(k - 1) : output[j] = t
      BY <2>5
    <3>2. j \in 1..Len(output)
      BY DEF IInv, TypeOK
    <3>3. Known(t)
      BY <3>1, <3>2 DEF IInv, OutputIsKnown
    <3> QED BY <2>2, <3>3 DEF IInv, TypeOK, Known, Type, BaseIsBuiltin
  <2>7. (Rank[i][t] > 0) # (Rank[i][t] > -1) => Rank[i][t] = 0
    BY <2>3
  <2>8. Member(i, n) = [type |-> t, vector |-> Rank[i][t] > -1]
    BY DEF Member
  <2>9. /\ Conversion(i, n).looped = (Rank[i][t] > 0)
        /\ Conversion(i, n).by = IF Rank[i][t] > 0 THEN ArrayConversion(t)
                                 ELSE ScalarConversion(t)
    BY DEF Conversion
  <2>10. Conversion(i, n).by = "cast" /\ ~IsNumber(t) =>
           t \in Classes \/ (t \in Small /\ ~Conversion(i, n).looped)
    BY <2>4, <2>6, <2>9 DEF ScalarConversion, ArrayConversion, IsNumber
  <2>11. Conversion(i, n).by = "from" => t \notin Builtin
    BY <2>4, <2>9 DEF ScalarConversion, ArrayConversion
  <2>12. Member(i, n).type = t /\ Member(i, n).vector = (Rank[i][t] > -1)
    BY <2>8
  <2>13. Conversion(i, n).looped # Member(i, n).vector => Rank[i][t] = 0
    BY <2>7, <2>9, <2>12
  <2> HIDE DEF i, t
  <2> QED BY <2>5, <2>10, <2>11, <2>12, <2>13 DEF i
<1> QED BY <1>1, Inductive, PTL

-----------------------------------------------------------------------------
(* The generator implements TypeTable.                                     *)

\* A type is made of itself.
LEMMA ClosureRoot ==
  ASSUME NEW i \in Ids
  PROVE  i \in Table!Closure(i)
  BY DEF Table!Closure

\* What a part of a type is made of, the type is made of.
LEMMA ClosureParts ==
  ASSUME NEW i \in Ids, NEW j \in Table!Closure(i),
         NEW p \in Table!Parts(j), p \in Ids
  PROVE  p \in Table!Closure(i)
  BY DEF Table!Closure

\* A type is made of nothing else.
LEMMA ClosureLeast ==
  ASSUME NEW i \in Ids, NEW S \in SUBSET Ids, i \in S,
         \A s \in S : Table!Parts(s) \subseteq S
  PROVE  Table!Closure(i) \subseteq S
  BY DEF Table!Closure

Root == stack[1].id
Ordered == {order[k] : k \in 1..Len(order)}

\* Only what the requested type is made of is looked at, and what is ordered is
\* ordered with all its parts, by this call.
WithinRequest ==
  pc = "order" =>
    /\ Root \in Ids
    /\ \A k \in 1..Len(stack) : stack[k].id \in Table!Closure(Root)
    /\ \A k \in 1..Len(order) :
         LET t == types[order[k]]
         IN  /\ order[k] \in Table!Closure(Root)
             /\ t.kind # "base"
             /\ t.kind = "struct" =>
                  \A n \in 1..Len(t.fields) : Before(t.fields[n], order, k - 1)

RInv == IInv /\ WithinRequest

\* What a step of the generator has to be for TypeTable.
TableStep == [Table!TableNext]_(Table!tvars)

\* The stack while a field is looked at.
LEMMA DescendStack ==
  ASSUME IInv, Descend
  PROVE  /\ Len(stack) \in Nat \ {0}
         /\ Len(stack') = Len(stack) + 1
         /\ \A k \in 1..Len(stack) : stack'[k].id = stack[k].id
         /\ stack'[Len(stack) + 1].id = Field
         /\ Field \in Ids /\ Field \in Table!Parts(Top.id)
<1> DEFINE n == Len(stack)
           e == [stack[n] EXCEPT !.next = @ + 1]
           s == [stack EXCEPT ![n].next = @ + 1]
           c == [id |-> Field, next |-> 1]
<1>1. /\ n \in Nat \ {0} /\ Top \in Call /\ Top = stack[n]
      /\ Known(Top.id) /\ This = types[Top.id] /\ This \in Type
  BY TopIsKnown DEF Descend
<1>2. /\ This.kind = "struct" /\ Top.next \in 1..Len(This.fields)
      /\ Field \in Ids
  BY <1>1 DEF Descend, AtEnd, Field, Type, Call
<1>3. Field \in Table!Parts(Top.id)
  BY <1>1, <1>2 DEF Table!Parts, Field, Known
<1>4. stack \in Seq(Call) /\ e \in Call /\ n \in 1..Len(stack) /\ c \in Call
  <2>1. e \in Call /\ n \in 1..Len(stack)
    BY <1>1 DEF Call
  <2>2. c \in Call
    BY <1>2 DEF Call
  <2>3. stack \in Seq(Call)
    BY DEF IInv, TypeOK, Call
  <2> QED BY <2>1, <2>2, <2>3
<1>5. e.id = stack[n].id
  BY <1>1 DEF Call
<1>6. s = [stack EXCEPT ![n] = e]
  OBVIOUS
<1>7. stack' = Append(s, c)
  BY DEF Descend
<1> HIDE DEF s, e, c
<1>8. /\ s \in Seq(Call) /\ Len(s) = n
      /\ \A k \in 1..n : s[k] = IF k = n THEN e ELSE stack[k]
  <2> HIDE DEF n
  <2>1. /\ [stack EXCEPT ![n] = e] \in Seq(Call)
        /\ Len([stack EXCEPT ![n] = e]) = Len(stack)
        /\ \A k \in 1..Len(stack) :
             [stack EXCEPT ![n] = e][k] = IF k = n THEN e ELSE stack[k]
    BY <1>4, ExceptSeq
  <2> QED BY <1>6, <2>1 DEF n
<1>9. /\ Len(stack') = n + 1
      /\ \A k \in 1..n : stack'[k] = s[k]
      /\ stack'[n + 1] = c
  BY <1>4, <1>7, <1>8, AppendProperties
<1> QED BY <1>1, <1>2, <1>3, <1>5, <1>8, <1>9 DEF c

\* The end of a call: the callers stay, and the type is ordered unless it is a
\* base type.
LEMMA ReturnStack ==
  ASSUME RInv, ReturnTrue
  PROVE  /\ Len(stack) \in Nat \ {0}
         /\ Callers = <<>> <=> Len(stack) = 1
         /\ Len(Callers) = Len(stack) - 1
         /\ \A k \in 1..Len(Callers) : Callers[k] = stack[k]
         /\ Len(order') >= Len(order)
         /\ \A k \in 1..Len(order) : order'[k] = order[k]
         /\ \A k \in 1..Len(order') :
              k > Len(order) => /\ k = Len(order) + 1 /\ order'[k] = Top.id
                                /\ This.kind # "base"
         /\ Before(Top.id, order', Len(order'))
         /\ order' \in Seq(Ids)
<1> DEFINE n == Len(stack)
           o == Len(order)
<1>1. /\ n \in Nat \ {0} /\ Top \in Call /\ This = types[Top.id]
      /\ stack \in Seq(Call) /\ order \in Seq(Ids)
  BY TopIsKnown DEF ReturnTrue, RInv, IInv, TypeOK, Call
<1>2. /\ Callers \in Seq(Call) /\ Len(Callers) = n - 1
      /\ \A k \in 1..(n - 1) : Callers[k] = stack[k]
  <2>1. n - 1 \in Nat /\ n - 1 < Len(stack)
    BY <1>1
  <2> QED BY <2>1, <1>1, Prefix DEF Callers
<1>3. Callers = <<>> <=> Len(stack) = 1
  BY <1>1, <1>2, EmptySeq
<1>4. /\ Len(order') >= o /\ order' \in Seq(Ids)
      /\ \A k \in 1..o : order'[k] = order[k]
      /\ \A k \in 1..Len(order') :
           k > o => k = o + 1 /\ order'[k] = Top.id /\ This.kind # "base"
      /\ Before(Top.id, order', Len(order'))
  <2>1. CASE This.kind = "base"
    <3>1. order' = order
      BY <2>1 DEF ReturnTrue
    <3>2. Top.id \in Ids /\ types[Top.id] # Unknown
      BY <1>1, TopIsKnown DEF ReturnTrue, RInv, Call, Known
    <3>3. Top.id \in Builtin
      BY <2>1, <1>1, <3>2 DEF RInv, IInv, BaseIsBuiltin, Known
    <3> QED BY <3>1, <3>3, <1>1 DEF Before
  <2>2. CASE This.kind # "base"
    <3>1. order' = Append(order, Top.id)
      BY <2>2 DEF ReturnTrue
    <3>2. /\ order' \in Seq(Ids) /\ Len(order') = o + 1
          /\ \A k \in 1..o : order'[k] = order[k]
          /\ order'[o + 1] = Top.id
      BY <3>1, <1>1, AppendProperties DEF Call
    <3> QED BY <3>2, <2>2, <1>1 DEF Before
  <2> QED BY <2>1, <2>2
<1> QED BY <1>1, <1>2, <1>3, <1>4

LEMMA ReturnWithin ==
  ASSUME RInv, ReturnTrue
  PROVE  /\ WithinRequest'
         /\ \A k \in 1..Len(order') :
              LET t == types[order'[k]]
              IN  /\ order'[k] \in Table!Closure(Root)
                  /\ t.kind # "base"
                  /\ t.kind = "struct" =>
                       \A n \in 1..Len(t.fields) :
                         Before(t.fields[n], order', k - 1)
<1>1. pc = "order" /\ types' = types /\ stack' = Callers
  BY DEF ReturnTrue
<1>2. /\ Root \in Ids
      /\ \A k \in 1..Len(stack) : stack[k].id \in Table!Closure(Root)
      /\ Len(stack) \in Nat \ {0} /\ Len(order) \in Nat
  BY <1>1, ReturnStack DEF RInv, WithinRequest, IInv, TypeOK
<1>3. /\ Top.id \in Table!Closure(Root)
      /\ This = types[Top.id] /\ This \in Type
      /\ This.kind = "struct" =>
           \A n \in 1..Len(This.fields) :
             Before(This.fields[n], order, Len(order))
  <2>1. Top = stack[Len(stack)] /\ Len(stack) \in 1..Len(stack)
    BY <1>2 DEF Top
  <2>2. This = types[Top.id] /\ This \in Type /\ Top \in Call
    BY <1>1, TopIsKnown DEF RInv
  <2>3. This.kind = "struct" =>
          \A n \in 1..Len(This.fields) :
            Before(This.fields[n], order, Len(order))
    BY <1>2, <2>1, <2>2
    DEF ReturnTrue, AtEnd, RInv, IInv, StackIsOrdered, Type, Call
  <2> QED BY <1>2, <2>1, <2>2, <2>3
<1>4. ASSUME NEW k \in 1..Len(order')
      PROVE  /\ order'[k] \in Table!Closure(Root)
             /\ types[order'[k]].kind # "base"
             /\ types[order'[k]].kind = "struct" =>
                  \A n \in 1..Len(types[order'[k]].fields) :
                    Before(types[order'[k]].fields[n], order', k - 1)
  <2>1. Len(order') \in Nat
    BY ReturnStack
  <2>2. CASE k <= Len(order)
    <3>1. k \in 1..Len(order) /\ order'[k] = order[k]
      BY <2>2, <1>2, ReturnStack
    <3>2. /\ order[k] \in Table!Closure(Root)
          /\ types[order[k]].kind # "base"
          /\ types[order[k]].kind = "struct" =>
               \A n \in 1..Len(types[order[k]].fields) :
                 Before(types[order[k]].fields[n], order, k - 1)
      BY <1>1, <3>1 DEF RInv, WithinRequest
    <3>3. \A i : Before(i, order, k - 1) => Before(i, order', k - 1)
      <4>1. \A j \in 1..(k - 1) : order'[j] = order[j]
        BY <1>2, <3>1, ReturnStack
      <4> QED BY <4>1 DEF Before
    <3> QED BY <3>1, <3>2, <3>3
  <2>3. CASE k > Len(order)
    <3>1. k = Len(order) + 1 /\ order'[k] = Top.id /\ This.kind # "base"
      BY <2>3, ReturnStack
    <3>2. \A i : Before(i, order, Len(order)) => Before(i, order', k - 1)
      <4>1. \A j \in 1..Len(order) : order'[j] = order[j] /\ j \in 1..(k - 1)
        BY <1>2, <3>1, ReturnStack
      <4> QED BY <4>1 DEF Before
    <3> QED BY <3>1, <3>2, <1>3
  <2> QED BY <2>1, <2>2, <2>3, <1>2
<1>5. WithinRequest'
  <2> SUFFICES ASSUME pc' = "order" PROVE WithinRequest'
    BY DEF WithinRequest
  <2>1. Callers # <<>>
    BY <1>1 DEF ReturnTrue
  <2>2. Len(stack) > 1 /\ 1 \in 1..Len(Callers)
    BY <2>1, <1>2, ReturnStack
  <2>3. Root' = Root
    BY <1>1, <2>2, ReturnStack DEF Root
  <2>4. \A k \in 1..Len(stack') : stack'[k].id \in Table!Closure(Root)
    <3>1. \A k \in 1..Len(Callers) : k \in 1..Len(stack) /\ Callers[k] = stack[k]
      BY <1>2, ReturnStack
    <3> QED BY <1>1, <1>2, <3>1
  <2>5. Table!Closure(Root)' = Table!Closure(Root)
    BY <1>1, <2>3 DEF Table!Closure, Table!Parts
  <2>6. \A i, k : Before(i, order, k)' = Before(i, order', k)
    BY DEF Before
  <2> QED
    BY <1>1, <1>2, <1>4, <2>3, <2>4, <2>5, <2>6 DEF WithinRequest
<1> QED BY <1>4, <1>5

LEMMA DescendWithin ==
  ASSUME RInv, Descend
  PROVE  WithinRequest' /\ Root' = Root
<1>1. /\ pc = "order" /\ pc' = "order" /\ types' = types /\ order' = order
      /\ Top = stack[Len(stack)]
  BY DEF Descend, Top
<1>2. /\ Len(stack) \in Nat \ {0}
      /\ Len(stack') = Len(stack) + 1
      /\ \A k \in 1..Len(stack) : stack'[k].id = stack[k].id
      /\ stack'[Len(stack) + 1].id = Field
      /\ Field \in Ids /\ Field \in Table!Parts(Top.id)
  BY DescendStack DEF RInv
<1>3. Root' = Root
  BY <1>2 DEF Root
<1>4. /\ Root \in Ids
      /\ \A k \in 1..Len(stack) : stack[k].id \in Table!Closure(Root)
  BY <1>1 DEF RInv, WithinRequest
<1>5. Field \in Table!Closure(Root)
  BY <1>1, <1>2, <1>4, ClosureParts
<1>6. \A k \in 1..Len(stack') : stack'[k].id \in Table!Closure(Root)
  <2>1. \A k \in 1..Len(stack') : k \in 1..Len(stack) \/ k = Len(stack) + 1
    BY <1>2
  <2> QED BY <2>1, <1>2, <1>4, <1>5
<1>7. Table!Closure(Root)' = Table!Closure(Root)
  BY <1>1, <1>3 DEF Table!Closure, Table!Parts
<1> QED
  BY <1>1, <1>3, <1>4, <1>6, <1>7 DEF RInv, WithinRequest, Before

LEMMA StepWithin == RInv /\ [Next]_vars => RInv'
<1> SUFFICES ASSUME RInv, [Next]_vars PROVE WithinRequest'
  BY StepIInv DEF RInv
<1>1. CASE pc' # "order"
  BY <1>1 DEF WithinRequest
<1>2. ASSUME NEW i \in Ids, GenerateClass(i) PROVE WithinRequest'
  <2>1. stack' = <<[id |-> i, next |-> 1]>> /\ order' = <<>> /\ types' = types
    BY <1>2 DEF GenerateClass
  <2>2. /\ Len(stack') = 1 /\ stack'[1].id = i /\ Len(order') = 0
    BY <2>1
  <2>3. i \in Table!Closure(i)
    BY ClosureRoot
  <2> QED
    BY <2>1, <2>2, <2>3 DEF WithinRequest, Root, Table!Closure, Table!Parts
<1>3. CASE Descend
  BY <1>3, DescendWithin
<1>4. CASE ReturnTrue
  BY <1>4, ReturnWithin
<1>5. CASE UNCHANGED vars
  BY <1>5 DEF vars, RInv, WithinRequest, Root, Table!Closure, Table!Parts,
     Before
<1>6. ASSUME pc' = "order", NEW i \in Ids, NEW k, NEW fields,
             AddNode(i, k, fields)
      PROVE  FALSE
  BY <1>6 DEF AddNode, RInv, IInv, Phases
<1>7. ASSUME pc' = "order", ReturnFalse \/ Emit PROVE FALSE
  BY <1>7 DEF ReturnFalse, Emit
<1> QED
  BY <1>1, <1>2, <1>3, <1>4, <1>5, <1>6, <1>7 DEF Next

LEMMA RInvariant == Spec => []RInv
<1>1. Init => RInv
  BY InitIInv DEF Init, RInv, WithinRequest
<1> QED BY <1>1, StepWithin, PTL DEF Spec

\* A request is done when its type is ordered: what is ordered then is all the
\* classes the type is made of.
LEMMA RequestOrdered ==
  ASSUME RInv, ReturnTrue, Callers = <<>>
  PROVE  /\ \A j \in Table!Closure(Root) : types[j] # Unknown
         /\ Ordered' = {j \in Table!Closure(Root) : types[j].kind # "base"}
<1> DEFINE S == Builtin \cup Ordered'
<1>1. Len(stack) = 1 /\ Top.id = Root /\ pc = "order" /\ Root \in Ids
  BY ReturnStack DEF Top, Root, ReturnTrue, RInv, WithinRequest
<1>2. /\ order' \in Seq(Ids)
      /\ \A k \in 1..Len(order') :
           LET t == types[order'[k]]
           IN  /\ order'[k] \in Table!Closure(Root)
               /\ t.kind # "base"
               /\ t.kind = "struct" =>
                    \A n \in 1..Len(t.fields) :
                      Before(t.fields[n], order', k - 1)
  BY ReturnStack, ReturnWithin
<1>3. Root \in S
  BY <1>1, ReturnStack DEF Before, Ordered
<1>4. S \subseteq Ids
  BY <1>2, ElementOfSeq, TypesAssumption DEF Ordered
<1>5. ASSUME NEW s \in S PROVE Table!Parts(s) \subseteq S
  <2>1. CASE s \in Builtin
    <3>1. types[s] # Unknown /\ types[s].kind = "base"
      BY <1>4, <2>1 DEF RInv, IInv, BaseIsBuiltin, Known
    <3> QED BY <3>1 DEF Table!Parts
  <2>2. CASE s \in Ordered'
    <3>1. PICK k \in 1..Len(order') : order'[k] = s
      BY <2>2 DEF Ordered
    <3>2. \A n \in 1..Len(types[s].fields) :
            types[s].kind = "struct" => Before(types[s].fields[n], order', k - 1)
      BY <1>2, <3>1
    <3>3. \A j \in 1..(k - 1) : j \in 1..Len(order')
      BY <1>2, <3>1
    <3>4. \A i : Before(i, order', k - 1) => i \in S
      BY <3>3 DEF Before, Ordered
    <3> QED BY <3>2, <3>4 DEF Table!Parts
  <2> QED BY <2>1, <2>2
<1> HIDE DEF S
<1>6. Table!Closure(Root) \subseteq S
  BY <1>1, <1>3, <1>4, <1>5, ClosureLeast
<1>7. \A j \in Builtin : types[j] # Unknown /\ types[j].kind = "base"
  BY TypesAssumption DEF RInv, IInv, BaseIsBuiltin, Known
<1>8. \A j \in Ordered' : /\ types[j] # Unknown /\ types[j].kind # "base"
                          /\ j \in Table!Closure(Root)
  <2>1. OrderIsOrdered' /\ pc' = "emit" /\ types' = types
    BY StepIInv DEF RInv, IInv, Next, ReturnTrue
  <2>2. \A k \in 1..Len(order') : types[order'[k]] # Unknown
    BY <2>1 DEF OrderIsOrdered, Known
  <2> QED BY <2>2, <1>2 DEF Ordered
<1> QED BY <1>6, <1>7, <1>8 DEF S

LEMMA OrderShrinks ==
  ASSUME TypeOK, order # <<>>, order' = Tail(order)
  PROVE  Ordered = Ordered' \cup {Head(order)}
<1>1. /\ Len(order) \in Nat \ {0} /\ order' \in Seq(Ids)
      /\ Len(order') = Len(order) - 1
      /\ \A k \in 1..Len(order') : order'[k] = order[k + 1]
      /\ Head(order) = order[1]
  BY EmptySeq, HeadTailProperties DEF TypeOK
<1>2. ASSUME NEW k \in 1..Len(order) PROVE order[k] \in Ordered' \cup {order[1]}
  <2>1. CASE k = 1
    BY <2>1
  <2>2. CASE k > 1
    <3>1. k - 1 \in 1..Len(order') /\ order'[k - 1] = order[k]
      BY <1>1, <2>2
    <3> QED BY <3>1 DEF Ordered
  <2> QED BY <1>1, <2>1, <2>2
<1>3. ASSUME NEW k \in 1..Len(order') PROVE order'[k] \in Ordered
  <2>1. k + 1 \in 1..Len(order)
    BY <1>1
  <2> QED BY <1>1, <2>1 DEF Ordered
<1>4. order[1] \in Ordered
  BY <1>1 DEF Ordered
<1>5. Ordered \subseteq Ordered' \cup {order[1]}
  BY <1>2 DEF Ordered
<1>6. Ordered' \subseteq Ordered
  BY <1>3 DEF Ordered
<1> QED BY <1>1, <1>4, <1>5, <1>6

\* What TypeTable sees of the generator: the request, and the classes that are
\* generated or bound to be.
Wanted  == IF pc = "order" THEN <<Root>> ELSE <<>>
Emitted == generated \cup (IF pc = "emit" THEN Ordered ELSE {})

\* A step that TypeTable does not see.
LEMMA TableUnseen ==
  ASSUME types' = types, Wanted' = Wanted, Emitted' = Emitted
  PROVE  TableStep
  BY DEF TableStep, Table!tvars, Wanted, Emitted, Root, Ordered

LEMMA TypeDefined ==
  ASSUME RInv, NEW i \in Ids, NEW kind \in {"enum", "struct"},
         NEW fields \in Seq(Ids), AddNode(i, kind, fields)
  PROVE  TableStep
<1> DEFINE t == [kind |-> kind, fields |-> fields]
<1>1. t # Unknown
  BY UnknownAssumption DEF Type
<1>2. /\ types[i] = Unknown /\ types' = [types EXCEPT ![i] = t] /\ types'[i] = t
      /\ pc = "idle" /\ generated = {}
      /\ UNCHANGED <<pc, stack, order, generated>>
  <2>1. Len(output) = 0
    BY DEF AddNode, RInv, IInv, Phases
  <2>2. generated = {}
    BY <2>1 DEF RInv, IInv, GeneratedIsOutput, TypeOK
  <2> QED BY <2>2 DEF AddNode, RInv, IInv, TypeOK, Phases, Known
<1> HIDE DEF t
<1>3. Table!Define(i)
  BY <1>1, <1>2 DEF Table!Define, Table!None
<1> QED BY <1>3 DEF TableStep, Table!TableNext

LEMMA TypeRequested ==
  ASSUME RInv, NEW i \in Ids, GenerateClass(i)
  PROVE  TableStep
<1>1. /\ pc = "idle" /\ pc' = "order" /\ types[i] # Unknown
      /\ stack' = <<[id |-> i, next |-> 1]>>
      /\ types' = types /\ generated' = generated
  BY DEF GenerateClass, Known
<1>2. stack'[1].id = i
  BY <1>1
<1>3. Table!Request(i)
  BY <1>1, <1>2 DEF Table!Request, Table!None
<1> QED BY <1>3 DEF TableStep, Table!TableNext

LEMMA TypeGenerated ==
  ASSUME RInv, ReturnTrue
  PROVE  TableStep
<1>1. /\ pc = "order" /\ stack' = Callers /\ types' = types
      /\ generated' = generated
      /\ pc' = IF Callers = <<>> THEN "emit" ELSE "order"
  BY DEF ReturnTrue
<1>2. CASE Callers # <<>>
  <2>1. Root' = Root
    <3>1. 1 \in 1..Len(Callers)
      BY <1>2, ReturnStack
    <3> QED BY <1>1, <3>1, ReturnStack DEF Root
  <2> QED BY <1>1, <1>2, <2>1, TableUnseen DEF Wanted, Emitted
<1>3. CASE Callers = <<>>
  <2>1. /\ \A j \in Table!Closure(Root) : types[j] # Unknown
        /\ Ordered' = {j \in Table!Closure(Root) : types[j].kind # "base"}
    BY <1>3, RequestOrdered
  <2>2. Wanted = <<Root>> /\ Wanted' = <<>> /\ Wanted[1] = Root
    BY <1>1, <1>3 DEF Wanted
  <2>3. Emitted = generated /\ Emitted' = generated \cup Ordered'
    BY <1>1, <1>3 DEF Emitted
  <2>4. Emitted' = Emitted \cup {j \in Table!Closure(Root) : types[j].kind # "base"}
    BY <2>1, <2>3
  <2>5. Table!Generate
    BY <1>1, <2>1, <2>2, <2>4
    DEF Table!Generate, Table!None, Wanted, Emitted, Root, Ordered
  <2> QED BY <2>5 DEF TableStep, Table!TableNext
<1> QED BY <1>2, <1>3

LEMMA TypeRefused ==
  ASSUME RInv, ReturnFalse
  PROVE  TableStep
<1>1. /\ pc = "order" /\ pc' = "idle" /\ types' = types
      /\ generated' = generated /\ ~AtEnd /\ types[Field] = Unknown
  BY DEF ReturnFalse, Known
<1>2. /\ Len(stack) \in Nat \ {0} /\ Top \in Call /\ Top = stack[Len(stack)]
      /\ Known(Top.id) /\ This = types[Top.id] /\ This \in Type
  BY <1>1, TopIsKnown DEF RInv
<1>3. /\ This.kind = "struct" /\ Top.next \in 1..Len(This.fields)
      /\ Field \in Ids
  BY <1>1, <1>2 DEF AtEnd, Field, Type, Call
<1>4. Field \in Table!Parts(Top.id)
  BY <1>2, <1>3 DEF Table!Parts, Field, Known
<1>5. Root \in Ids /\ Top.id \in Table!Closure(Root)
  BY <1>1, <1>2 DEF RInv, WithinRequest
<1>6. Field \in Table!Closure(Root)
  BY <1>3, <1>4, <1>5, ClosureParts
<1>7. ~ \A j \in Table!Closure(Root) : types[j] # Unknown
  BY <1>1, <1>6
<1>8. Wanted = <<Root>> /\ Wanted' = <<>> /\ Wanted[1] = Root
  BY <1>1 DEF Wanted
<1>9. Emitted' = Emitted
  BY <1>1 DEF Emitted
<1>10. Table!Generate
  BY <1>1, <1>7, <1>8, <1>9
  DEF Table!Generate, Table!None, Wanted, Emitted, Root, Ordered
<1> QED BY <1>10 DEF TableStep, Table!TableNext

LEMMA TypeEmitted ==
  ASSUME RInv, Emit
  PROVE  TableStep
<1>1. pc = "emit" /\ types' = types /\ pc' # "order"
  BY DEF Emit
<1>2. Emitted' = Emitted
  <2>1. CASE order = <<>>
    <3>1. Ordered = {}
      BY <2>1 DEF Ordered
    <3> QED BY <1>1, <2>1, <3>1 DEF Emit, Emitted
  <2>2. CASE order # <<>>
    <3>1. Ordered = Ordered' \cup {Head(order)}
      BY <2>2, OrderShrinks DEF Emit, RInv, IInv
    <3> QED BY <1>1, <2>2, <3>1 DEF Emit, Emitted
  <2> QED BY <2>1, <2>2
<1> QED BY <1>1, <1>2, TableUnseen DEF Wanted

LEMMA StepTable == RInv /\ [Next]_vars => TableStep
<1> SUFFICES ASSUME RInv, [Next]_vars PROVE TableStep
  OBVIOUS
<1>1. ASSUME NEW i \in Ids, NEW fields \in Fields, AddNode(i, "struct", fields)
      PROVE  TableStep
  <2>1. fields \in Seq(Ids)
    BY TypesAssumption DEF Fields
  <2> QED BY <1>1, <2>1, TypeDefined
<1>2. ASSUME NEW i \in Ids, AddNode(i, "enum", <<>>) PROVE TableStep
  <2>1. <<>> \in Seq(Ids)
    OBVIOUS
  <2> QED BY <1>2, <2>1, TypeDefined
<1>3. ASSUME NEW i \in Ids, GenerateClass(i) PROVE TableStep
  BY <1>3, TypeRequested
<1>4. CASE Descend
  <2>1. Root' = Root /\ pc = "order" /\ UNCHANGED <<types, pc, generated>>
    BY <1>4, DescendWithin DEF Descend
  <2> QED BY <2>1, TableUnseen DEF Wanted, Emitted
<1>5. CASE UNCHANGED vars
  BY <1>5, TableUnseen DEF vars, Wanted, Emitted, Root, Ordered
<1> QED
  BY <1>1, <1>2, <1>3, <1>4, <1>5, TypeGenerated, TypeRefused, TypeEmitted
  DEF Next

\* The generator keeps the promise of TypeTable: a request generates exactly the
\* classes the type is made of, or none when part of it is in no nodeset.
THEOREM ImplementsTable == Spec => TableSpec
<1>1. Init => Table!TableInit
  <2>1. [kind |-> "base", fields |-> <<>>] # Unknown
    <3>1. <<>> \in Seq(Ids)
      OBVIOUS
    <3>2. [kind |-> "base", fields |-> <<>>] \in Type
      BY <3>1 DEF Type
    <3> QED BY <3>2, UnknownAssumption
  <2> QED BY <2>1, TypesAssumption DEF Init, Table!TableInit, Table!None
<1>2. RInv /\ [Next]_vars => [Table!TableNext]_(Table!tvars)
  BY StepTable DEF TableStep
<1> QED BY <1>1, <1>2, RInvariant, PTL DEF Spec, TableSpec, Table!Spec
=============================================================================
