--------------------------- MODULE VariantContents ---------------------------
(***************************************************************************)
(* What the Variants of VariantOwnership contain, and how operator== tells *)
(* them apart.  Every step of VariantOwnership is taken here with what it   *)
(* does to the contents; operator() is added, which writes a value into the *)
(* UA_Variant of a Variant.                                                *)
(***************************************************************************)
EXTENDS VariantOwnership

CONSTANTS
  Types,     \* UA_DataTypes
  Compared,  \* those whose kind has a comparison in CMP_TABLE
  Elements,  \* what data may point to
  NaN,       \* the one of Elements that is not equal to itself
  Values,    \* the values that applications and servers use
  Gone       \* in place of the value that UA_Server took back

\* type, the rank, and the elements data points to.
UAValue == [type: Types, scalar: BOOLEAN, data: Seq(Elements)]

\* What UA_Variant_init leaves: no type.
Empty == [type |-> None, scalar |-> FALSE, data |-> <<>>]

ASSUME ContentsAssumption ==
  /\ Values \subseteq UAValue
  /\ \A x \in Values : x.scalar => Len(x.data) = 1
  /\ None \notin Types
  /\ None \notin UAValue \cup {Empty}
  /\ Gone \notin UAValue \cup {Empty, None}

VARIABLES
  content \* address -> the value in the UA_Variant there

contentVars == <<vars, content>>

ContentTypeOK ==
  /\ TypeOK
  /\ content \in [Cells -> Values \cup {Empty, Gone}]

ContentInit ==
  /\ Init
  /\ content = [c \in Cells |-> Empty]

-----------------------------------------------------------------------------
(* operator==.                                                             *)

arrayLength(x) == IF x.scalar THEN 0 ELSE Len(x.data)

\* CMP_TABLE[typeKind] on what two data pointers point to: elements of a type
\* that is compared, or an assertion, or no element at all.
CmpTable(a, b) ==
  IF a.type \notin Compared \/ <<>> \in {a.data, b.data} THEN "undefined"
  ELSE IF a.data[1] = b.data[1] /\ a.data[1] # NaN THEN "equal"
  ELSE "different"

\* Mutant of Equal: the ranks are not compared.
EqualAnyRank(a, b) ==
  IF a = Empty \/ b = Empty
  THEN IF a = Empty /\ b = Empty THEN "equal" ELSE "different"
  ELSE IF a.type # b.type THEN "different" ELSE CmpTable(a, b)

\* Variant::operator==, which an assertion or a null pointer may keep from
\* returning.
Equal(a, b) ==
  IF a = Empty \/ b = Empty
  THEN IF a = Empty /\ b = Empty THEN "equal" ELSE "different"
  ELSE IF \/ a.scalar # b.scalar
          \/ a.type # b.type
          \/ arrayLength(a) # arrayLength(b) THEN "different"
  ELSE CmpTable(a, b)

-----------------------------------------------------------------------------
(* What the steps of VariantOwnership do to the contents.                  *)

\* The UA_Variants that go, go with what they contain.
Kept ==
  content' = [c \in Cells |->
    CASE cell'[c].kind \in {"unused", "freed"} -> Empty
      [] cell'[c].kind = "returned" -> Gone
      [] OTHER -> content[c]]

\* The UA_Variant of v gets the value x, if it can be used.
Gets(v, x) ==
  content' = IF undefined' THEN content ELSE [content EXCEPT ![ptr'[v]] = x]

\* Variant(), Variant(T&&), fromJson, Client::read.
ConstructFrom(v) ==
  /\ Construct(v)
  /\ \E x \in Values \cup {Empty} : Gets(v, x)

\* A value to write, or the empty UA_Variant a read or a method is to fill.
BorrowFrom(v) ==
  /\ Borrow(v)
  /\ \E x \in Values \cup {Empty} : Gets(v, x)

TakeBackFrom(c) == TakeBack(c) /\ Kept

CallReturnsValues(n) ==
  /\ CallReturns(n)
  /\ \E x \in [1..n -> Values] :
       content' = [c \in Cells |-> IF \E k \in 1..n : output'[k] = c
                                   THEN x[CHOOSE k \in 1..n : output'[k] = c]
                                   ELSE content[c]]

WrapOutputValue(v) == WrapOutput(v) /\ Kept

\* Mutant of CopyConstructValue: the value is handed over, and not copied.
CopyConstructStolen(v, w) ==
  /\ CopyConstruct(v, w)
  /\ content' = IF undefined' THEN content
                ELSE [content EXCEPT ![ptr'[v]] = content[ptr[w]], ![ptr[w]] = Empty]

\* UA_Variant_copy into the new UA_Variant.
CopyConstructValue(v, w) ==
  /\ CopyConstruct(v, w)
  /\ Gets(v, content[ptr[w]])

MoveConstructValue(v, w) == MoveConstruct(v, w) /\ Kept

\* What v owns is cleared, then UA_Variant_copy reads the other one, which is
\* the same if v is assigned to itself.
CopyAssignValue(v, w) ==
  /\ CopyAssign(v, w)
  /\ Gets(v, IF owned[v] /\ v = w THEN Empty ELSE content[ptr[w]])

MoveAssignValue(v, w) == MoveAssign(v, w) /\ Kept

DestroyValue(v) == Destroy(v) /\ Kept

\* get, isEmpty, isScalar, is_a, toString, and operator== for one of its sides.
Read(v) == Use(v) /\ UNCHANGED content

\* operator(): toUAVariant initializes the UA_Variant, whatever it holds.
Write(v, x) == Use(v) /\ Gets(v, x)

-----------------------------------------------------------------------------
ContentNext ==
  \/ \E v \in Variants : ConstructFrom(v)
  \/ \E v \in Variants : BorrowFrom(v)
  \/ \E c \in Cells : TakeBackFrom(c)
  \/ \E n \in 1..MaxOutputs : CallReturnsValues(n)
  \/ \E v \in Variants : WrapOutputValue(v)
  \/ \E v, w \in Variants : CopyConstructValue(v, w)
  \/ \E v, w \in Variants : MoveConstructValue(v, w)
  \/ \E v, w \in Variants : CopyAssignValue(v, w)
  \/ \E v, w \in Variants : MoveAssignValue(v, w)
  \/ \E v \in Variants : DestroyValue(v)
  \/ \E v \in Variants : Read(v)
  \/ \E v \in Variants, x \in Values : Write(v, x)

ContentSpec == ContentInit /\ [][ContentNext]_contentVars

-----------------------------------------------------------------------------
(* Properties.                                                             *)

Held(v) == IF ptr[v] = None THEN None ELSE content[ptr[v]]

\* The Variants whose value operator== can be asked for.
Holding == {v \in alive : Usable(v)}

\* operator== tells a difference exactly if there is one, between any two values
\* a program comes by, as long as one of them is empty or a scalar, and of a type
\* that is compared.  Of arrays it tells only that equal ones are.
EqualMeansSame ==
  \A v, w \in Holding :
    LET a == Held(v)  b == Held(w) IN
    /\ a = b => Equal(a, b) = "equal" \/ CmpTable(a, a) # "equal"
    /\ Equal(a, b) = "equal" /\ (a = Empty \/ a.scalar) => a = b

\* v is written, assigned or moved.
StepOn(v) ==
  \/ \E x \in Values : Write(v, x)
  \/ \E w \in Variants : \/ CopyAssignValue(v, w)
                         \/ MoveAssignValue(v, w)
                         \/ MoveAssignValue(w, v)
                         \/ MoveConstructValue(w, v)

\* A Variant changes its value only when it is written, assigned or moved itself,
\* whatever happens to the Variants it was copied from or copied to.  The one
\* thing it may lose otherwise is what it has from UA_Server, moved out of a
\* callback that has returned; what it was copied from such a Variant it keeps.
OnlyItself ==
  [][\A v \in Variants :
       v \in alive /\ v \in alive' /\ Held(v)' # Held(v) =>
         StepOn(v) \/ (~owned[v] /\ Held(v)' = Gone)]_contentVars

-----------------------------------------------------------------------------
(* Variants are values, wherever their UA_Variants are.                    *)

Semantics == INSTANCE ValueSemantics WITH
  value <- [v \in alive |-> Held(v)],
  views <- {v \in alive : ptr[v] # None /\ ~owned[v]}

\* A Variant has what it was constructed from, or what was last written, assigned
\* or moved to it, until it is moved from: copies are independent of what they
\* were copied from, and no allocation, deletion or lending elsewhere shows.
\* Only a Variant without a value makes a program undefined, and only one that
\* was moved from, or out of a callback that has returned, has none.
ValueSpec == Semantics!Spec
=============================================================================
