----------------------- MODULE VariantOwnershipProofs -----------------------
(***************************************************************************)
(* Proofs about VariantOwnership, for any number of Variants and           *)
(* UA_Variants, when methods return at most one output and the application *)
(* does not copy-assign to a Variant it was lent.                          *)
(***************************************************************************)
EXTENDS VariantOwnership, SequenceTheorems, TLAPS

Disciplined == MaxOutputs <= 1 /\ ~CopiesToLent

-----------------------------------------------------------------------------
(* The inductive invariant.                                                *)

\* A Variant that is not alive holds nothing, and is no argument.
DeadInv ==
  \A v \in Variants \ alive : ptr[v] = None /\ ~owned[v] /\ argument[v] = None

\* Every UA_Variant stands alone.
CellInv == \A c \in Cells : cell[c].base = c /\ cell[c].kind # "element"

\* The output Client::call has yet to wrap is allocated, and nobody's.
OutputInv ==
  /\ Len(output) <= 1
  /\ output # <<>> => /\ cell[Head(output)].kind = "heap"
                      /\ \A v \in Variants : ptr[v] # Head(output)

IInv == /\ TypeOK
        /\ DeadInv
        /\ CellInv
        /\ OutputInv
        /\ NoAlias
        /\ DeletesAreValid
        /\ BorrowsAreValid
        /\ NoLeak

LEMMA InitInv == Init => IInv
<1> SUFFICES ASSUME Init PROVE IInv
  OBVIOUS
<1>1. TypeOK
  <2>1. cell \in [Cells -> [kind: Kinds, base: Cells]]
    BY DEF Init, Kinds
  <2>2. /\ alive \in SUBSET Variants
        /\ ptr \in [Variants -> Cells \cup {None}]
        /\ owned \in [Variants -> BOOLEAN]
        /\ argument \in [Variants -> Cells \cup {None}]
    BY DEF Init
  <2>3. output \in Seq(Cells)
    BY DEF Init
  <2>4. undefined \in BOOLEAN
    BY Zenon DEF Init
  <2>5. QED
    BY <2>1, <2>2, <2>3, <2>4 DEF TypeOK
<1>2. QED
  BY <1>1 DEF Init, IInv, DeadInv, CellInv, OutputInv, NoAlias,
              DeletesAreValid, BorrowsAreValid, NoLeak

-----------------------------------------------------------------------------
(* Steps.                                                                  *)

\* A Variant that comes to life with a UA_Variant of its own.
LEMMA NewCellInv ==
  ASSUME IInv, NEW v \in Variants, NEW kind \in {"heap", "lent"},
         v \notin alive, alive' = alive \cup {v}, NewCell(v, kind),
         argument' = IF kind = "lent" THEN [argument EXCEPT ![v] = ptr'[v]]
                                      ELSE argument,
         ~undefined, undefined' \in BOOLEAN, output' = output
  PROVE  IInv'
<1> USE VariantAssumption DEF IInv
<1>1. PICK c \in Unused : /\ cell' = [cell EXCEPT ![c].kind = kind]
                          /\ ptr' = [ptr EXCEPT ![v] = c]
                          /\ owned' = [owned EXCEPT ![v] = kind = "heap"]
  BY DEF NewCell
<1>2. c \in Cells /\ cell[c].kind = "unused"
  BY <1>1 DEF Unused
<1>3. \A w \in Variants : ptr[w] # c
  BY <1>2 DEF TypeOK, DeadInv, DeletesAreValid, BorrowsAreValid
<1>5. /\ ptr'[v] = c
      /\ owned'[v] = (kind = "heap")
      /\ argument'[v] \in {c, None}
      /\ \A w \in Variants \ {v} : /\ ptr'[w] = ptr[w] /\ owned'[w] = owned[w]
                                   /\ argument'[w] = argument[w]
  BY <1>1 DEF TypeOK, DeadInv
<1>4. TypeOK'
  <2>1. argument' \in [Variants -> Cells \cup {None}]
    BY <1>2, <1>5 DEF TypeOK
  <2>2. QED
    BY <1>1, <1>2, <2>1 DEF TypeOK, Kinds
<1>6. /\ cell'[c].kind = kind /\ cell'[c].base = cell[c].base
      /\ \A x \in Cells \ {c} : cell'[x] = cell[x]
  BY <1>1, <1>2 DEF TypeOK
<1>7. DeadInv' /\ CellInv'
  BY <1>2, <1>5, <1>6 DEF DeadInv, CellInv
<1>8. NoAlias'
  BY <1>2, <1>3, <1>5 DEF TypeOK, NoAlias
<1>9. DeletesAreValid' /\ BorrowsAreValid'
  <2>1. ASSUME NEW w \in alive, ptr[w] # None
        PROVE  ptr[w] \in Cells \ {c}
    BY <1>3, <2>1 DEF TypeOK
  <2>2. ASSUME NEW w \in alive PROVE w # v /\ w \in Variants
    BY <2>2 DEF TypeOK
  <2>3. ASSUME NEW w \in alive'
        PROVE  /\ owned'[w] => ptr'[w] # None /\ cell'[ptr'[w]].kind = "heap"
               /\ ~owned'[w] /\ ptr'[w] # None =>
                    /\ cell'[ptr'[w]].kind \in {"lent", "returned"}
                    /\ cell'[ptr'[w]].kind = "returned" =>
                         \A a \in alive' : argument'[a] # ptr'[w]
    <3>1. CASE w = v
      <4>1. ptr'[w] = c /\ c # None /\ (owned'[w] <=> kind = "heap")
        BY <1>2, <1>5, <3>1
      <4>2. QED
        BY <1>6, <4>1
    <3>2. CASE w \in alive
      <4>1. ptr'[w] = ptr[w] /\ owned'[w] = owned[w]
        BY <1>5, <2>2, <3>2
      <4>2. ptr[w] # None => cell'[ptr[w]] = cell[ptr[w]] /\ ptr[w] # c
        BY <1>6, <2>1, <3>2
      <4>3. ASSUME NEW a \in alive', argument'[a] = ptr'[w], ptr[w] # None
            PROVE  a \in alive /\ argument[a] = ptr[w]
        BY <1>5, <2>2, <3>2, <4>1, <4>2, <4>3
      <4>4. QED
        BY <3>2, <4>1, <4>2, <4>3 DEF DeletesAreValid, BorrowsAreValid
    <3>3. QED
      BY <2>3, <3>1, <3>2
  <2>4. QED
    BY <2>3 DEF DeletesAreValid, BorrowsAreValid
<1>10. NoLeak'
  <2>1. ASSUME NEW x \in Cells, cell'[x].kind = "heap"
        PROVE  \/ \E w \in alive' : owned'[w] /\ ptr'[w] = x
               \/ \E k \in 1..Len(output) : output[k] = x
    <3>1. CASE x = c
      BY <1>5, <1>6, <2>1, <3>1
    <3>2. CASE x # c
      <4>1. cell[x].kind = "heap"
        BY <1>6, <2>1, <3>2
      <4>2. ASSUME NEW w \in alive PROVE w # v /\ w \in Variants
        BY <4>2 DEF TypeOK
      <4>3. QED
        BY <1>5, <4>1, <4>2 DEF NoLeak
    <3>3. QED
      BY <3>1, <3>2
  <2>2. QED
    BY <2>1 DEF NoLeak
<1>11. OutputInv'
  BY <1>1, <1>2, <1>3, <1>5, <1>6 DEF TypeOK, OutputInv
<1>12. QED
  BY <1>4, <1>7, <1>8, <1>9, <1>10, <1>11

\* Deleting what a Variant owns leaves every other UA_Variant as it is.
LEMMA LetGoCells ==
  ASSUME IInv, ~undefined, NEW v \in alive, LetGo(v)
  PROVE  /\ cell' \in [Cells -> [kind: Kinds, base: Cells]]
         /\ \A x \in Cells : /\ cell'[x].base = x
                             /\ ~(owned[v] /\ ptr[v] = x) => cell'[x] = cell[x]
         /\ owned[v] => cell'[ptr[v]].kind = "freed"
<1> USE VariantAssumption DEF IInv
<1>1. CASE ~owned[v]
  BY <1>1 DEF LetGo, TypeOK, CellInv
<1>2. CASE owned[v]
  <2>1. ptr[v] \in Cells
    BY <1>2 DEF DeletesAreValid, TypeOK
  <2>2. cell' = [x \in Cells |-> IF x = ptr[v] THEN [cell[x] EXCEPT !.kind = "freed"]
                                               ELSE cell[x]]
    BY <1>2, <2>1 DEF LetGo, Deleted, CellInv
  <2>3. QED
    BY <1>2, <2>1, <2>2 DEF TypeOK, CellInv, Kinds
<1>3. QED
  BY <1>1, <1>2

LEMMA DestroyInv ==
  ASSUME IInv, NEW v \in Variants, Destroy(v)
  PROVE  IInv'
<1> USE VariantAssumption DEF IInv
<1>1. /\ v \in alive /\ alive' = alive \ {v} /\ LetGo(v) /\ output' = output
      /\ ptr' = [ptr EXCEPT ![v] = None]
      /\ owned' = [owned EXCEPT ![v] = FALSE]
      /\ argument' = [argument EXCEPT ![v] = None]
      /\ ~undefined /\ undefined' = undefined
  BY DEF Destroy
<1>2. /\ cell' \in [Cells -> [kind: Kinds, base: Cells]]
      /\ \A x \in Cells : /\ cell'[x].base = x
                          /\ ~(owned[v] /\ ptr[v] = x) => cell'[x] = cell[x]
      /\ owned[v] => cell'[ptr[v]].kind = "freed"
  BY <1>1, LetGoCells
<1>3. /\ ptr'[v] = None /\ ~owned'[v] /\ argument'[v] = None
      /\ \A w \in Variants \ {v} : /\ ptr'[w] = ptr[w] /\ owned'[w] = owned[w]
                                   /\ argument'[w] = argument[w]
  BY <1>1 DEF TypeOK
<1>4. TypeOK'
  BY <1>1, <1>2 DEF TypeOK
<1>5. DeadInv' /\ CellInv'
  BY <1>1, <1>2, <1>3 DEF TypeOK, DeadInv, CellInv
<1>6. ASSUME NEW w \in alive'
      PROVE  /\ w \in alive /\ w \in Variants /\ ptr'[w] = ptr[w]
             /\ owned'[w] = owned[w] /\ argument'[w] = argument[w]
             /\ ptr[w] # None => ptr[w] \in Cells /\ cell'[ptr[w]] = cell[ptr[w]]
  BY <1>1, <1>2, <1>3, <1>6 DEF TypeOK, NoAlias
<1>7. NoAlias'
  BY <1>6 DEF NoAlias
<1>8. DeletesAreValid' /\ BorrowsAreValid'
  BY <1>1, <1>6 DEF DeletesAreValid, BorrowsAreValid
<1>9. NoLeak'
  <2>1. ASSUME NEW x \in Cells, cell'[x].kind = "heap"
        PROVE  \/ \E w \in alive' : owned'[w] /\ ptr'[w] = x
               \/ \E k \in 1..Len(output) : output[k] = x
    <3>1. cell[x].kind = "heap" /\ ~(owned[v] /\ ptr[v] = x)
      BY <1>2, <2>1
    <3>2. CASE \E w \in alive : owned[w] /\ ptr[w] = x
      BY <1>1, <1>6, <3>1, <3>2
    <3>3. QED
      BY <3>1, <3>2 DEF NoLeak
  <2>2. QED
    BY <1>1, <2>1 DEF NoLeak
<1>10. OutputInv'
  <2>1. output # <<>> => Head(output) \in Cells /\ ptr[v] # Head(output)
    BY DEF TypeOK, OutputInv
  <2>2. QED
    BY <1>1, <1>2, <1>3, <2>1 DEF OutputInv, TypeOK
<1>11. QED
  BY <1>4, <1>5, <1>7, <1>8, <1>9, <1>10

\* A UA_Variant passes from w to v, which held none or has let go of its own.
LEMMA MoveInv ==
  ASSUME IInv, NEW v \in Variants, NEW w \in alive,
         alive' = alive \cup {v}, UNCHANGED <<output, argument, undefined>>,
         ~undefined,
         ptr' = [ptr EXCEPT ![v] = ptr[w], ![w] = None],
         owned' = [owned EXCEPT ![v] = owned[w], ![w] = FALSE],
         \/ v \notin alive /\ cell' = cell
         \/ v \in alive /\ LetGo(v)
  PROVE  IInv'
<1> USE VariantAssumption DEF IInv
<1>1. w \in Variants /\ alive \subseteq Variants
  BY DEF TypeOK
<1>2. /\ cell' \in [Cells -> [kind: Kinds, base: Cells]]
      /\ \A x \in Cells : /\ cell'[x].base = x
                          /\ ~(owned[v] /\ ptr[v] = x) => cell'[x] = cell[x]
      /\ owned[v] => cell'[ptr[v]].kind = "freed"
  <2>1. CASE v \notin alive /\ cell' = cell
    BY <2>1 DEF DeadInv, TypeOK, CellInv
  <2>2. CASE v \in alive /\ LetGo(v)
    BY <2>2, LetGoCells
  <2>3. QED
    BY <2>1, <2>2
<1>3. /\ ptr'[w] = None /\ ~owned'[w]
      /\ v # w => ptr'[v] = ptr[w] /\ owned'[v] = owned[w]
      /\ \A u \in Variants \ {v, w} : ptr'[u] = ptr[u] /\ owned'[u] = owned[u]
  BY <1>1 DEF TypeOK
<1>4. TypeOK'
  BY <1>1, <1>2 DEF TypeOK
<1>5. DeadInv' /\ CellInv'
  BY <1>1, <1>2, <1>3 DEF TypeOK, DeadInv, CellInv
<1> DEFINE From(u) == IF u = v THEN w ELSE u
<1>6. ASSUME NEW u \in alive', ptr'[u] # None
      PROVE  /\ u # w /\ From(u) \in alive
             /\ ptr'[u] = ptr[From(u)] /\ owned'[u] = owned[From(u)]
             /\ ptr'[u] \in Cells
             /\ cell'[ptr'[u]] = cell[ptr'[u]]
  <2>1. /\ u # w /\ From(u) \in alive /\ From(u) \in Variants
        /\ ptr'[u] = ptr[From(u)] /\ owned'[u] = owned[From(u)]
    BY <1>1, <1>3, <1>6
  <2>2. ptr'[u] \in Cells
    BY <1>6, <2>1 DEF TypeOK
  <2>3. From(u) # v
    BY <2>1
  <2>4. ~(owned[v] /\ ptr[v] = ptr'[u])
    BY <1>6, <2>1, <2>3 DEF NoAlias, DeadInv
  <2>5. QED
    BY <1>2, <2>1, <2>2, <2>4
<1>7. ASSUME NEW u \in alive', owned'[u] PROVE ptr'[u] # None
  <2>1. u # w /\ u \in Variants
    BY <1>1, <1>3, <1>7
  <2>2. CASE u = v
    BY <1>3, <1>7, <2>1, <2>2 DEF DeletesAreValid
  <2>3. CASE u # v
    BY <1>3, <1>7, <2>1, <2>3 DEF DeletesAreValid
  <2>4. QED
    BY <2>2, <2>3
<1>8. \A t, u : t # w /\ u # w /\ From(t) = From(u) => t = u
  OBVIOUS
<1> HIDE DEF From
<1>9. DeletesAreValid' /\ BorrowsAreValid' /\ NoAlias'
  <2>1. ASSUME NEW u \in alive', owned'[u]
        PROVE  cell'[ptr'[u]].kind = "heap"
    <3>1. /\ From(u) \in alive /\ owned[From(u)] /\ ptr'[u] = ptr[From(u)]
          /\ cell'[ptr'[u]] = cell[ptr'[u]]
      BY <1>6, <1>7, <2>1
    <3>2. cell[ptr[From(u)]].kind = "heap"
      BY <3>1 DEF DeletesAreValid
    <3>3. QED
      BY <3>1, <3>2
  <2>2. ASSUME NEW u \in alive', ~owned'[u], ptr'[u] # None
        PROVE  /\ cell'[ptr'[u]].kind \in {"lent", "returned"}
               /\ cell'[ptr'[u]].kind = "returned" =>
                    \A a \in alive' : argument'[a] # ptr'[u]
    <3>1. /\ From(u) \in alive /\ ~owned[From(u)] /\ ptr'[u] = ptr[From(u)]
          /\ ptr[From(u)] # None /\ cell'[ptr'[u]] = cell[ptr'[u]]
      BY <1>6, <2>2
    <3>2. /\ cell[ptr[From(u)]].kind \in {"lent", "returned"}
          /\ cell[ptr[From(u)]].kind = "returned" =>
               \A a \in alive : argument[a] # ptr[From(u)]
      BY <3>1 DEF BorrowsAreValid
    <3>3. ASSUME NEW a \in alive', argument'[a] = ptr'[u]
          PROVE  a \in alive /\ argument[a] = ptr[From(u)]
      BY <1>1, <3>1, <3>3 DEF DeadInv
    <3>4. QED
      BY <3>1, <3>2, <3>3
  <2>3. ASSUME NEW t \in alive', NEW u \in alive', t # u,
               ptr'[t] = ptr'[u], ptr'[t] # None
        PROVE  FALSE
    <3>1. /\ From(t) \in alive /\ From(u) \in alive /\ From(t) # From(u)
          /\ ptr[From(t)] = ptr[From(u)] /\ ptr[From(t)] # None
      BY <1>6, <1>8, <2>3
    <3>2. QED
      BY <3>1 DEF NoAlias
  <2>4. QED
    BY <1>7, <2>1, <2>2, <2>3 DEF DeletesAreValid, BorrowsAreValid, NoAlias
<1>10. NoLeak'
  <2>1. ASSUME NEW x \in Cells, cell'[x].kind = "heap"
        PROVE  \/ \E u \in alive' : owned'[u] /\ ptr'[u] = x
               \/ \E k \in 1..Len(output) : output[k] = x
    <3>1. cell[x].kind = "heap" /\ ~(owned[v] /\ ptr[v] = x)
      BY <1>2, <2>1
    <3>2. ASSUME NEW u \in alive, owned[u], ptr[u] = x
          PROVE  \E t \in alive' : owned'[t] /\ ptr'[t] = x
      <4>1. u # v
        BY <3>1, <3>2
      <4>2. CASE u = w
        BY <1>3, <3>2, <4>1, <4>2
      <4>3. CASE u # w
        BY <1>1, <1>3, <3>2, <4>1, <4>3
      <4>4. QED
        BY <4>2, <4>3
    <3>3. QED
      BY <3>1, <3>2 DEF NoLeak
  <2>2. QED
    BY <2>1 DEF NoLeak
<1>11. OutputInv'
  <2>1. output # <<>> => /\ Head(output) \in Cells
                         /\ \A u \in Variants : ptr[u] # Head(output)
    BY DEF TypeOK, OutputInv
  <2>2. output # <<>> => \A u \in Variants : ptr'[u] # Head(output)
    BY <1>1, <1>3, <2>1
  <2>3. QED
    BY <1>2, <2>1, <2>2 DEF OutputInv
<1>12. QED
  BY <1>4, <1>5, <1>9, <1>10, <1>11

LEMMA TakeBackInv ==
  ASSUME IInv, NEW c \in Cells, TakeBack(c)
  PROVE  IInv'
<1> USE VariantAssumption DEF IInv
<1>1. /\ cell[c].kind = "lent" /\ cell'[c].kind = "returned" /\ cell'[c].base = c
      /\ \A x \in Cells \ {c} : cell'[x] = cell[x]
      /\ \A v \in alive : argument[v] # c
      /\ ~undefined
      /\ UNCHANGED <<alive, ptr, owned, output, argument, undefined>>
  BY DEF TakeBack, TypeOK, CellInv
<1>2. TypeOK'
  BY DEF TakeBack, TypeOK, Kinds
<1>3. DeadInv' /\ CellInv' /\ NoAlias'
  BY <1>1 DEF DeadInv, CellInv, NoAlias
<1>4. DeletesAreValid' /\ BorrowsAreValid'
  BY <1>1 DEF DeletesAreValid, BorrowsAreValid, TypeOK
<1>5. NoLeak'
  BY <1>1 DEF NoLeak
<1>6. OutputInv'
  <2>1. output # <<>> => Head(output) \in Cells
    BY DEF TypeOK
  <2>2. QED
    BY <1>1, <2>1 DEF OutputInv
<1>7. QED
  BY <1>2, <1>3, <1>4, <1>5, <1>6

LEMMA CallReturnsInv ==
  ASSUME IInv, NEW n \in 1..MaxOutputs, MaxOutputs <= 1, CallReturns(n)
  PROVE  IInv'
<1> USE VariantAssumption DEF IInv
<1>1. n = 1
  OBVIOUS
<1>2. PICK at \in [1..1 -> Unused] :
        /\ output' = at
        /\ cell' = [c \in Cells |->
             IF c = at[1] THEN [kind |-> "heap", base |-> c]
             ELSE IF \E k \in 2..1 : c = at[k]
                  THEN [kind |-> "element", base |-> at[1]]
             ELSE cell[c]]
  BY <1>1 DEF CallReturns
<1>3. at[1] \in Cells /\ cell[at[1]].kind = "unused"
  BY DEF Unused
<1>4. /\ output = <<>> /\ ~undefined
      /\ UNCHANGED <<alive, ptr, owned, argument, undefined>>
  BY DEF CallReturns
<1>5. /\ output' \in Seq(Cells) /\ Len(output') = 1 /\ Head(output') = at[1]
      /\ output'[1] = at[1]
  <2>1. at \in [1..1 -> Cells] /\ DOMAIN at = 1..1
    BY DEF Unused
  <2>2. at \in Seq(Cells) /\ Len(at) = 1
    <3>1. at \in Seq(Cells)
      BY <2>1, SeqDef
    <3>2. Len(at) \in Nat /\ 1..Len(at) = 1..1
      BY <2>1, <3>1, LenProperties
    <3>3. Len(at) = 1
      <4>1. 1 \in 1..Len(at) /\ Len(at) \in Nat
        BY <3>2
      <4>2. Len(at) \in 1..Len(at)
        BY <4>1
      <4>3. Len(at) \in 1..1
        BY <3>2, <4>2
      <4>4. QED
        BY <4>3
    <3>4. QED
      BY <3>1, <3>3
  <2>3. QED
    BY <1>2, <2>1, <2>2
<1>6. /\ cell'[at[1]] = [kind |-> "heap", base |-> at[1]]
      /\ \A x \in Cells \ {at[1]} : cell'[x] = cell[x]
  BY <1>2, <1>3
<1>7. TypeOK'
  BY <1>2, <1>3, <1>4, <1>5 DEF TypeOK, Kinds
<1>8. \A v \in Variants : ptr[v] # at[1]
  BY <1>3, <1>4 DEF TypeOK, DeadInv, DeletesAreValid, BorrowsAreValid
<1>9. DeadInv' /\ CellInv' /\ NoAlias'
  BY <1>4, <1>6 DEF DeadInv, CellInv, NoAlias
<1>10. DeletesAreValid' /\ BorrowsAreValid'
  BY <1>4, <1>6, <1>8 DEF DeletesAreValid, BorrowsAreValid, TypeOK
<1>11. OutputInv'
  BY <1>4, <1>5, <1>6, <1>8 DEF OutputInv
<1>12. NoLeak'
  <2>1. ASSUME NEW x \in Cells, cell'[x].kind = "heap"
        PROVE  \/ \E v \in alive : owned[v] /\ ptr[v] = x
               \/ \E k \in 1..Len(output') : output'[k] = x
    <3>1. CASE x = at[1]
      BY <1>5, <3>1
    <3>2. CASE x # at[1]
      BY <1>4, <1>6, <2>1, <3>2 DEF NoLeak
    <3>3. QED
      BY <3>1, <3>2
  <2>2. QED
    BY <1>4, <2>1 DEF NoLeak
<1>13. QED
  BY <1>7, <1>9, <1>10, <1>11, <1>12

LEMMA WrapOutputInv ==
  ASSUME IInv, NEW v \in Variants, WrapOutput(v)
  PROVE  IInv'
<1> USE VariantAssumption DEF IInv
<1> DEFINE c == Head(output)
<1>1. /\ output # <<>> /\ v \notin alive /\ alive' = alive \cup {v}
      /\ ptr' = [ptr EXCEPT ![v] = c]
      /\ owned' = [owned EXCEPT ![v] = TRUE]
      /\ output' = Tail(output) /\ cell' = cell
      /\ ~undefined /\ UNCHANGED <<argument, undefined>>
  BY DEF WrapOutput
<1>2. c \in Cells /\ cell[c].kind = "heap" /\ \A w \in Variants : ptr[w] # c
  BY <1>1 DEF TypeOK, OutputInv
<1>3. /\ Len(output) = 1 /\ output[1] = c
      /\ output' \in Seq(Cells) /\ Len(output') = 0 /\ output' = <<>>
  <2>1. output \in Seq(Cells) /\ Len(output) <= 1
    BY DEF TypeOK, OutputInv
  <2>2. Len(output) = 1
    <3>1. Len(output) \in Nat /\ Len(output) # 0
      BY <1>1, <2>1, EmptySeq, LenProperties
    <3>2. Len(output) <= 1
      BY <2>1
    <3>3. QED
      BY <3>1, <3>2
  <2>3. output[1] = c
    BY <1>1, <2>1, HeadTailProperties
  <2>4. Tail(output) \in Seq(Cells) /\ Len(Tail(output)) = 0
    BY <1>1, <2>1, <2>2, HeadTailProperties
  <2>5. Tail(output) = <<>>
    BY <2>4, EmptySeq
  <2>6. QED
    BY <1>1, <2>2, <2>3, <2>4, <2>5
<1> HIDE DEF c
<1>4. /\ ptr'[v] = c /\ owned'[v]
      /\ \A w \in Variants \ {v} : ptr'[w] = ptr[w] /\ owned'[w] = owned[w]
  BY <1>1 DEF TypeOK
<1>5. TypeOK'
  BY <1>1, <1>2, <1>3 DEF TypeOK
<1>6. DeadInv' /\ CellInv'
  BY <1>1, <1>4 DEF DeadInv, CellInv
<1>7. NoAlias'
  BY <1>1, <1>2, <1>4 DEF NoAlias, TypeOK
<1>8. DeletesAreValid' /\ BorrowsAreValid'
  <2>1. ASSUME NEW w \in alive PROVE ptr'[w] = ptr[w] /\ owned'[w] = owned[w]
    BY <1>1, <1>4, <2>1 DEF TypeOK
  <2>2. QED
    BY <1>1, <1>2, <1>4, <2>1 DEF DeletesAreValid, BorrowsAreValid, DeadInv
<1>9. OutputInv'
  BY <1>3 DEF OutputInv
<1>10. NoLeak'
  <2>1. ASSUME NEW x \in Cells, cell[x].kind = "heap"
        PROVE  \E w \in alive' : owned'[w] /\ ptr'[w] = x
    <3>1. CASE x = c
      BY <1>1, <1>4, <3>1
    <3>2. CASE x # c
      <4>1. PICK w \in alive : owned[w] /\ ptr[w] = x
        BY <1>3, <2>1, <3>2 DEF NoLeak
      <4>2. w \in Variants \ {v}
        BY <1>1 DEF TypeOK
      <4>3. QED
        BY <1>1, <1>4, <4>1, <4>2
    <3>3. QED
      BY <3>1, <3>2
  <2>2. QED
    BY <1>1, <2>1 DEF NoLeak
<1>11. QED
  BY <1>5, <1>6, <1>7, <1>8, <1>9, <1>10

LEMMA StillInv == IInv /\ UNCHANGED vars => IInv'
  BY DEF vars, IInv, TypeOK, DeadInv, CellInv, OutputInv, NoAlias,
         DeletesAreValid, BorrowsAreValid, NoLeak

\* Using what is not there ends the program, and changes no pointer.
LEMMA CopyAssignInv ==
  ASSUME ~CopiesToLent, IInv, NEW v \in Variants, NEW w \in Variants,
         CopyAssign(v, w)
  PROVE  IInv'
<1> USE DEF IInv
<1>1. /\ v \in alive /\ (owned[v] \/ ptr[v] = None) /\ ~undefined
      /\ owned' = [owned EXCEPT ![v] = TRUE]
      /\ undefined' = (~Usable(v) \/ ~Usable(w))
      /\ UNCHANGED <<alive, ptr, cell, output, argument>>
  BY DEF CopyAssign
<1>2. /\ owned'[v]
      /\ \A u \in Variants \ {v} : owned'[u] = owned[u]
  BY <1>1 DEF TypeOK
<1>3. TypeOK' /\ DeadInv' /\ CellInv' /\ OutputInv' /\ NoAlias'
  BY <1>1, <1>2 DEF TypeOK, DeadInv, CellInv, OutputInv, NoAlias
<1>4. BorrowsAreValid' /\ NoLeak'
  BY <1>1, <1>2 DEF TypeOK, BorrowsAreValid, NoLeak
<1>5. DeletesAreValid'
  <2>1. CASE ptr[v] = None
    BY <1>1, <2>1 DEF Usable, DeletesAreValid
  <2>2. CASE owned[v]
    BY <1>1, <1>2, <2>2 DEF TypeOK, DeletesAreValid
  <2>3. QED
    BY <1>1, <2>1, <2>2
<1>6. QED
  BY <1>3, <1>4, <1>5

LEMMA UseInv ==
  ASSUME IInv, NEW v \in Variants, Use(v)
  PROVE  IInv'
  BY DEF Use, IInv, TypeOK, DeadInv, CellInv, OutputInv, NoAlias,
         DeletesAreValid, BorrowsAreValid, NoLeak

LEMMA StepInv ==
  ASSUME Disciplined, IInv, [Next]_vars
  PROVE  IInv'
<1> USE DEF Disciplined
<1>1. ASSUME NEW v \in Variants, Construct(v) PROVE IInv'
  BY <1>1, NewCellInv DEF Construct, IInv, TypeOK
<1>2. ASSUME NEW v \in Variants, Borrow(v) PROVE IInv'
  BY <1>2, NewCellInv DEF Borrow, IInv, TypeOK
<1>3. ASSUME NEW c \in Cells, TakeBack(c) PROVE IInv'
  BY <1>3, TakeBackInv
<1>4. ASSUME NEW n \in 1..MaxOutputs, CallReturns(n) PROVE IInv'
  BY <1>4, CallReturnsInv
<1>5. ASSUME NEW v \in Variants, WrapOutput(v) PROVE IInv'
  BY <1>5, WrapOutputInv
<1>6. ASSUME NEW v \in Variants, NEW w \in Variants, CopyConstruct(v, w)
      PROVE  IInv'
  BY <1>6, NewCellInv DEF CopyConstruct, Usable
<1>7. ASSUME NEW v \in Variants, NEW w \in Variants, MoveConstruct(v, w)
      PROVE  IInv'
  BY <1>7, MoveInv DEF MoveConstruct
<1>8. ASSUME NEW v \in Variants, NEW w \in Variants, CopyAssign(v, w)
      PROVE  IInv'
  BY <1>8, CopyAssignInv
<1>9. ASSUME NEW v \in Variants, NEW w \in Variants, MoveAssign(v, w)
      PROVE  IInv'
  <2>1. alive' = alive \cup {v} /\ v \in alive /\ w \in alive
    BY <1>9 DEF MoveAssign
  <2>2. QED
    BY <1>9, <2>1, MoveInv DEF MoveAssign
<1>10. ASSUME NEW v \in Variants, Destroy(v) PROVE IInv'
  BY <1>10, DestroyInv
<1>11. ASSUME NEW v \in Variants, Use(v) PROVE IInv'
  BY <1>11, UseInv
<1>12. CASE UNCHANGED vars
  BY <1>12, StillInv
<1>13. QED
  BY <1>1, <1>2, <1>3, <1>4, <1>5, <1>6, <1>7, <1>8, <1>9, <1>10, <1>11, <1>12
     DEF Next

LEMMA Invariance == ASSUME Disciplined PROVE Spec => []IInv
<1>1. IInv /\ [Next]_vars => IInv'
  BY StepInv
<1>2. QED
  BY <1>1, InitInv, PTL DEF Spec

-----------------------------------------------------------------------------
(* The theorems.                                                           *)

\* However Variants are copied, moved, assigned (to themselves too) and
\* destroyed, two of them never hold the same UA_Variant.
THEOREM VariantsDoNotAlias == ASSUME Disciplined PROVE Spec => []NoAlias
<1>1. IInv => NoAlias
  BY DEF IInv
<1>2. QED
  BY <1>1, Invariance, PTL

\* A UA_Variant that a Variant owns was not deleted before, and is a block that
\* UA_Variant_delete accepts, until the program copies to or from a Variant that
\* has none.
THEOREM DeletesStayValid == ASSUME Disciplined PROVE Spec => []DeletesAreValid
<1>1. IInv => DeletesAreValid
  BY DEF IInv
<1>2. QED
  BY <1>1, Invariance, PTL

\* What a Variant does not own is UA_Server's, also when a callback has moved it
\* out of its arguments, and an argument has what it was made for while it lives.
THEOREM BorrowsStayValid == ASSUME Disciplined PROVE Spec => []BorrowsAreValid
<1>1. IInv => BorrowsAreValid
  BY DEF IInv
<1>2. QED
  BY <1>1, Invariance, PTL

\* Every UA_Variant that was allocated has a Variant that will delete it.
THEOREM NothingLeaks == ASSUME Disciplined PROVE Spec => []NoLeak
<1>1. IInv => NoLeak
  BY DEF IInv
<1>2. QED
  BY <1>1, Invariance, PTL
=============================================================================
