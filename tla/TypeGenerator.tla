--------------------------- MODULE TypeGenerator ---------------------------
(***************************************************************************)
(* The TypeGenerator: addNode fills the table of data types from a nodeset, *)
(* and generateClass writes a C++ class for a type after those of its       *)
(* members.  buildOrder finds the order by walking down the fields, here    *)
(* with its call stack made explicit.  Of the generated text the order of   *)
(* the classes is kept, and of a class how its members are declared and    *)
(* converted.                                                              *)
(***************************************************************************)
EXTENDS Integers, Sequences

CONSTANTS
  Ids,       \* NodeIds of data types
  Builtin,   \* the ones main() puts into the table: bool, char, int16_t, ...
  Classes,   \* those of them that are classes in C++: std::string, NodeId,
             \* QualifiedName and LocalizedText
  Unknown,   \* no entry in the table
  Small,     \* the numeric ids up to 11, of whatever namespace
  Rank,      \* Rank[i][t]: the value rank of the fields of i that are of type t
  MaxFields, \* bound on the fields of a type
  MaxCalls,  \* bound on the calls of generateClass
  MaxStack   \* bound on the call stack of buildOrder

ASSUME TypesAssumption ==
  /\ Builtin \subseteq Ids /\ Classes \subseteq Builtin
  /\ Rank \in [Ids -> [Ids -> Int]]
  /\ MaxFields \in Nat /\ MaxCalls \in Nat /\ MaxStack \in Nat

Type == [kind: {"base", "enum", "struct"}, fields: Seq(Ids)]

ASSUME UnknownAssumption == Unknown \notin Type

VARIABLES
  types,     \* the table
  pc,        \* "idle", "order" (in buildOrder) or "emit"
  stack,     \* calls of buildOrder: a type and the next field to look at
  order,     \* TypeGenerator::order
  generated, \* TypeGenerator::generated
  output,    \* the classes in the generated files
  calls      \* calls of generateClass so far

vars == <<types, pc, stack, order, generated, output, calls>>

TypeOK ==
  /\ types \in [Ids -> Type \cup {Unknown}]
  /\ pc \in {"idle", "order", "emit"}
  /\ stack \in Seq([id: Ids, next: Nat \ {0}])
  /\ order \in Seq(Ids)
  /\ generated \subseteq Ids
  /\ output \in Seq(Ids)
  /\ calls \in 0..MaxCalls

Known(i) == types[i] # Unknown

Init ==
  /\ types = [i \in Ids |-> IF i \in Builtin
                            THEN [kind |-> "base", fields |-> <<>>]
                            ELSE Unknown]
  /\ pc = "idle"
  /\ stack = <<>> /\ order = <<>> /\ output = <<>>
  /\ generated = {}
  /\ calls = 0

-----------------------------------------------------------------------------
(* Reading nodesets.                                                       *)

\* addNode: insert, which leaves a type that is there already.
AddNode(i, kind, fields) ==
  /\ calls = 0
  /\ ~Known(i)
  /\ types' = [types EXCEPT ![i] = [kind |-> kind, fields |-> fields]]
  /\ UNCHANGED <<pc, stack, order, generated, output, calls>>

-----------------------------------------------------------------------------
(* generateClass: the order.                                               *)

\* Mutant of GenerateClass: the order of the last call is not cleared.
GenerateClassKeepsOrder(i) ==
  /\ pc = "idle" /\ calls < MaxCalls
  /\ Known(i)
  /\ pc' = "order"
  /\ stack' = <<[id |-> i, next |-> 1]>>
  /\ calls' = calls + 1
  /\ UNCHANGED <<types, order, generated, output>>

\* Mutant of GenerateClass: the fields are counted from 0.
GenerateClassFromZero(i) ==
  /\ pc = "idle" /\ calls < MaxCalls
  /\ Known(i)
  /\ pc' = "order"
  /\ order' = <<>>
  /\ stack' = <<[id |-> i, next |-> 0]>>
  /\ calls' = calls + 1
  /\ UNCHANGED <<types, generated, output>>

\* A call for a type in the table.
GenerateClass(i) ==
  /\ pc = "idle" /\ calls < MaxCalls
  /\ Known(i)
  /\ pc' = "order"
  /\ order' = <<>>
  /\ stack' = <<[id |-> i, next |-> 1]>>
  /\ calls' = calls + 1
  /\ UNCHANGED <<types, generated, output>>

Top == stack[Len(stack)]
Callers == SubSeq(stack, 1, Len(stack) - 1)

\* The type buildOrder is at, and what is left of its fields.
This == types[Top.id]
AtEnd == This.kind # "struct" \/ Top.next > Len(This.fields)
Field == This.fields[Top.next]

\* Mutant of ReturnTrue: a type is written before the types of its fields.
ReturnTrueParentFirst ==
  /\ pc = "order" /\ AtEnd
  /\ order' = IF This.kind = "base" THEN order ELSE <<Top.id>> \o order
  /\ stack' = Callers
  /\ pc' = IF Callers = <<>> THEN "emit" ELSE "order"
  /\ UNCHANGED <<types, generated, output, calls>>

\* The end of buildOrder: nothing for a base type, push_back for the others.
ReturnTrue ==
  /\ pc = "order" /\ AtEnd
  /\ order' = IF This.kind = "base" THEN order ELSE Append(order, Top.id)
  /\ stack' = Callers
  /\ pc' = IF Callers = <<>> THEN "emit" ELSE "order"
  /\ UNCHANGED <<types, generated, output, calls>>

\* Mutant of Descend: looks at the same field again after the return.
DescendStays ==
  /\ pc = "order" /\ ~AtEnd /\ Known(Field)
  /\ Len(stack) < MaxStack
  /\ stack' = IF \E k \in 1..Len(order) : order[k] = Field THEN stack
              ELSE Append(stack, [id |-> Field, next |-> 1])
  /\ UNCHANGED <<types, pc, order, generated, output, calls>>

\* The recursive call, for a field of a type in the table.
Descend ==
  /\ pc = "order" /\ ~AtEnd /\ Known(Field)
  /\ Len(stack) < MaxStack
  /\ stack' = Append([stack EXCEPT ![Len(stack)].next = @ + 1],
                     [id |-> Field, next |-> 1])
  /\ UNCHANGED <<types, pc, order, generated, output, calls>>

\* An unknown type: false, all the way up, and generateClass gives up.
ReturnFalse ==
  /\ pc = "order" /\ ~AtEnd /\ ~Known(Field)
  /\ stack' = <<>>
  /\ pc' = "idle"
  /\ UNCHANGED <<types, order, generated, output, calls>>

-----------------------------------------------------------------------------
(* generateClass: the classes.                                             *)

\* Mutant of Emit: generated is not updated.
EmitUnmarked ==
  /\ pc = "emit"
  /\ IF order = <<>>
     THEN pc' = "idle" /\ UNCHANGED <<order, generated, output>>
     ELSE /\ order' = Tail(order)
          /\ output' = IF Head(order) \in generated THEN output
                       ELSE Append(output, Head(order))
          /\ UNCHANGED <<pc, generated>>
  /\ UNCHANGED <<types, stack, calls>>

\* addPrivateMember: the n-th member of the class of i.
Member(i, n) ==
  LET t == types[i].fields[n]
  IN  [type |-> t, vector |-> Rank[i][t] > -1]

\* Mutant of ScalarConversion: every type is taken for a built-in one.
ScalarConversionCasts(t) == "cast"

\* getScalarConversion: how a value of type t becomes one of open62541, by a
\* cast or by the function fromX that comes with a class X.
ScalarConversion(t) ==
  IF types[t].kind = "struct" /\ t \notin Small THEN "from" ELSE "cast"

\* getArrayConversion, for each element of a vector.
ArrayConversion(t) == IF types[t].kind = "struct" THEN "from" ELSE "cast"

\* addFromConversionFunction: the conversion of the n-th member.
Conversion(i, n) ==
  LET t == types[i].fields[n]
      looped == Rank[i][t] > 0
  IN  [looped |-> looped,
       by |-> IF looped THEN ArrayConversion(t) ELSE ScalarConversion(t)]

\* generate: header and implementation of the class of i, with Member and
\* Conversion of each of its fields if it is a structure.
Write(i) == Append(output, i)

\* The loop over order, which skips what is in the files already.
Emit ==
  /\ pc = "emit"
  /\ IF order = <<>>
     THEN pc' = "idle" /\ UNCHANGED <<order, generated, output>>
     ELSE /\ order' = Tail(order)
          /\ output' = IF Head(order) \in generated THEN output
                       ELSE Write(Head(order))
          /\ generated' = generated \cup {Head(order)}
          /\ UNCHANGED pc
  /\ UNCHANGED <<types, stack, calls>>

-----------------------------------------------------------------------------
Fields == UNION {[1..n -> Ids] : n \in 0..MaxFields}

Step == ReturnTrue \/ Descend \/ ReturnFalse \/ Emit

Next ==
  \/ \E i \in Ids, fields \in Fields : AddNode(i, "struct", fields)
  \/ \E i \in Ids : AddNode(i, "enum", <<>>)
  \/ \E i \in Ids : GenerateClass(i)
  \/ ReturnTrue
  \/ Descend
  \/ ReturnFalse
  \/ Emit

Spec == Init /\ [][Next]_vars

\* The generator runs to its end.
FairSpec == Spec /\ WF_vars(Step)

-----------------------------------------------------------------------------
(* Properties.                                                             *)

\* The members of a generated class are of built-in types or of classes that
\* were generated before it, whatever was asked for and in which order: no class
\* is used before it is declared, and addFromConversionFunction finds each type
\* it looks up.
DeclaredBeforeUse ==
  \A k \in 1..Len(output) :
    LET t == types[output[k]]
    IN  t.kind = "struct" =>
          \A n \in 1..Len(t.fields) :
            \/ t.fields[n] \in Builtin
            \/ \E j \in 1..(k - 1) : output[j] = t.fields[n]

\* What static_cast is for: a number or an enumeration.
IsNumber(t) == types[t].kind = "enum" \/ t \in Builtin \ Classes

\* The generated conversions fit the generated members, in whatever order the
\* types were asked for.  What is declared as a vector is converted in a loop,
\* unless its value rank is 0, on which addPrivateMember and
\* addFromConversionFunction disagree.  What is cast is a number, unless it is one
\* of the built-in Classes, for which BaseDataType has no other conversion, or a
\* class whose id happens to be Small.  A function fromX that is called came with
\* a class X earlier in the files.
ConversionsFit ==
  \A k \in 1..Len(output) :
    types[output[k]].kind = "struct" =>
      \A n \in 1..Len(types[output[k]].fields) :
        LET m == Member(output[k], n)
            c == Conversion(output[k], n)
        IN  /\ c.looped # m.vector => Rank[output[k]][m.type] = 0
            /\ c.by = "cast" /\ ~IsNumber(m.type) =>
                 m.type \in Classes \/ (m.type \in Small /\ ~c.looped)
            /\ c.by = "from" => \E j \in 1..(k - 1) : output[j] = m.type

\* No class is generated twice, neither by one call nor by several.
GeneratedOnce ==
  \A j, k \in 1..Len(output) : output[j] = output[k] => j = k

\* No type contains itself: among any types, one contains none of them.
WellFounded ==
  \A some \in SUBSET Ids \ {{}} :
    \E i \in some :
      Known(i) => \A k \in 1..Len(types[i].fields) : types[i].fields[k] \notin some

\* When no type contains itself, a call of generateClass ends; buildOrder has no
\* other way to stop.
GenerateEnds == (pc = "order" /\ WellFounded) ~> (pc = "idle")

-----------------------------------------------------------------------------
(* The generator keeps the promise of TypeTable: a call writes exactly what *)
(* the type is made of, or nothing.                                        *)

Table == INSTANCE TypeTable WITH
  table   <- types,
  wanted  <- IF pc = "order" THEN <<stack[1].id>> ELSE <<>>,
  emitted <- generated \cup (IF pc = "emit"
                             THEN {order[k] : k \in 1..Len(order)} ELSE {})

TableSpec == Table!Spec
=============================================================================
