------------------------ MODULE VariantContentsProofs ------------------------
(***************************************************************************)
(* Proofs about VariantContents, for any values, types and elements.       *)
(***************************************************************************)
EXTENDS VariantContents, VariantOwnershipProofs

-----------------------------------------------------------------------------
(* The contents do not disturb the ownership.                              *)

\* Every step with contents is a step of VariantOwnership.
LEMMA StepIsOwnershipStep ==
  ASSUME [ContentNext]_contentVars
  PROVE  [Next]_vars
<1>1. CASE UNCHANGED contentVars
  BY <1>1 DEF contentVars
<1>2. CASE ContentNext
  BY <1>2
     DEF ContentNext, Next, ConstructFrom, BorrowFrom, TakeBackFrom,
         CallReturnsValues, WrapOutputValue, CopyConstructValue,
         MoveConstructValue, CopyAssignValue, MoveAssignValue, DestroyValue,
         Read, Write
<1>3. QED
  BY <1>1, <1>2

\* The Variants with contents are Variants of VariantOwnership, so all that is
\* proved of these holds of them.
THEOREM ContentsKeepOwnership == ContentSpec => Spec
<1>1. ContentInit => Init
  BY DEF ContentInit
<1>2. [ContentNext]_contentVars => [Next]_vars
  BY StepIsOwnershipStep
<1>3. QED
  BY <1>1, <1>2, PTL DEF ContentSpec, Spec

-----------------------------------------------------------------------------
(* The invariant: that of VariantOwnership, well-typed contents, and no      *)
(* value left where UA_Server has taken a UA_Variant back.                 *)

GoneInv == \A c \in Cells : cell[c].kind = "returned" <=> content[c] = Gone

ContentInv ==
  /\ IInv
  /\ content \in [Cells -> Values \cup {Empty, Gone}]
  /\ GoneInv

\* Neither a value nor the lack of one is what UA_Server took back.
LEMMA ValuesStay == Gone \notin Values \cup {Empty} /\ None \notin Values \cup {Empty}
                      /\ None # Gone
  BY ContentsAssumption

\* A UA_Variant that can be used has a value.
LEMMA UsableValue ==
  ASSUME ContentInv, NEW v \in Variants
  PROVE  /\ Usable(v) => ptr[v] \in Cells /\ content[ptr[v]] \in Values \cup {Empty}
         /\ ptr[v] # None /\ ~Usable(v) => content[ptr[v]] = Gone
<1>1. ptr[v] \in Cells \cup {None}
  BY DEF ContentInv, IInv, TypeOK
<1>2. QED
  BY <1>1 DEF ContentInv, GoneInv, Usable

\* The cells that are not given a value keep their kind or lose their contents.
LEMMA KeptInv ==
  ASSUME ContentInv, IInv', Kept,
         \A c \in Cells : cell'[c].kind = cell[c].kind
                         \/ cell'[c].kind \in {"freed", "returned"}
  PROVE  ContentInv'
<1>1. content' \in [Cells -> Values \cup {Empty, Gone}]
  BY DEF ContentInv, Kept
<1>2. ASSUME NEW c \in Cells
      PROVE  cell'[c].kind = "returned" <=> content'[c] = Gone
  <2>1. content'[c] = IF cell'[c].kind \in {"unused", "freed"} THEN Empty
                      ELSE IF cell'[c].kind = "returned" THEN Gone
                      ELSE content[c]
    BY DEF Kept
  <2>2. QED
    BY <2>1, ValuesStay DEF ContentInv, GoneInv
<1>3. QED
  BY <1>1, <1>2 DEF ContentInv, GoneInv

\* A Variant that can be used is given a value.
LEMMA GetsInv ==
  ASSUME ContentInv, IInv', NEW v \in Variants, NEW x, Gets(v, x),
         ~undefined' => /\ x \in Values \cup {Empty}
                        /\ ptr'[v] \in Cells /\ cell'[ptr'[v]].kind # "returned",
         \A c \in Cells : cell'[c].kind = "returned" <=> cell[c].kind = "returned"
  PROVE  ContentInv'
<1>1. CASE undefined'
  BY <1>1 DEF Gets, ContentInv, GoneInv
<1>2. CASE ~undefined'
  <2>1. /\ content' = [content EXCEPT ![ptr'[v]] = x]
        /\ ptr'[v] \in Cells /\ x \in Values \cup {Empty}
        /\ cell'[ptr'[v]].kind # "returned"
    BY <1>2 DEF Gets
  <2>2. content' \in [Cells -> Values \cup {Empty, Gone}]
    BY <2>1 DEF ContentInv
  <2>3. ASSUME NEW c \in Cells
        PROVE  cell'[c].kind = "returned" <=> content'[c] = Gone
    BY <2>1, ValuesStay DEF ContentInv, GoneInv
  <2>4. QED
    BY <2>2, <2>3 DEF ContentInv, GoneInv
<1>3. QED
  BY <1>1, <1>2

\* A new Variant's UA_Variant was unused.
LEMMA NewCellKinds ==
  ASSUME IInv, NEW v \in Variants, NEW kind \in {"heap", "lent"}, NewCell(v, kind)
  PROVE  /\ ptr'[v] \in Cells /\ cell'[ptr'[v]].kind = kind
         /\ \A c \in Cells : cell'[c].kind = "returned" <=> cell[c].kind = "returned"
<1>1. PICK c \in Unused : /\ cell' = [cell EXCEPT ![c].kind = kind]
                          /\ ptr' = [ptr EXCEPT ![v] = c]
  BY DEF NewCell
<1>2. c \in Cells /\ cell[c].kind = "unused"
  BY DEF Unused
<1>3. QED
  BY <1>1, <1>2 DEF IInv, TypeOK

\* What a Variant lets go is freed, and nothing else.
LEMMA LetGoKinds ==
  ASSUME IInv, ~undefined, NEW v \in alive, LetGo(v)
  PROVE  \A c \in Cells : cell'[c].kind = cell[c].kind \/ cell'[c].kind = "freed"
  BY LetGoCells

LEMMA ContentStepInv ==
  ASSUME Disciplined, ContentInv, [ContentNext]_contentVars
  PROVE  ContentInv'
<1>1. IInv'
  BY StepIsOwnershipStep, StepInv DEF ContentInv
<1>2. ASSUME NEW v \in Variants, ConstructFrom(v) \/ BorrowFrom(v)
      PROVE  ContentInv'
  <2>1. PICK kind \in {"heap", "lent"} : NewCell(v, kind)
    BY <1>2 DEF ConstructFrom, Construct, BorrowFrom, Borrow
  <2>2. PICK x \in Values \cup {Empty} : Gets(v, x)
    BY <1>2 DEF ConstructFrom, BorrowFrom
  <2>3. /\ ptr'[v] \in Cells /\ cell'[ptr'[v]].kind # "returned"
        /\ \A c \in Cells : cell'[c].kind = "returned" <=> cell[c].kind = "returned"
    BY <2>1, NewCellKinds DEF ContentInv
  <2>4. QED
    BY <1>1, <2>2, <2>3, GetsInv
<1>3. ASSUME NEW c \in Cells, TakeBackFrom(c) PROVE ContentInv'
  <2>1. \A x \in Cells : cell'[x].kind = cell[x].kind \/ cell'[x].kind = "returned"
    BY <1>3 DEF TakeBackFrom, TakeBack, ContentInv, IInv, TypeOK
  <2>2. QED
    BY <1>1, <1>3, <2>1, KeptInv DEF TakeBackFrom
<1>4. ASSUME NEW n \in 1..MaxOutputs, CallReturnsValues(n)
      PROVE  ContentInv'
  <2>1. PICK x \in [1..n -> Values] :
          content' = [c \in Cells |-> IF \E k \in 1..n : output'[k] = c
                                      THEN x[CHOOSE k \in 1..n : output'[k] = c]
                                      ELSE content[c]]
    BY <1>4 DEF CallReturnsValues
  <2>2. ASSUME NEW c \in Cells, \E k \in 1..n : output'[k] = c
        PROVE  (CHOOSE k \in 1..n : output'[k] = c) \in 1..n
    BY <2>2
  <2>3. content' \in [Cells -> Values \cup {Empty, Gone}]
    BY <2>1, <2>2 DEF ContentInv
  <2>4. PICK at \in [1..n -> Unused] :
          /\ output' = at
          /\ cell' = [c \in Cells |->
               IF c = at[1] THEN [kind |-> "heap", base |-> c]
               ELSE IF \E k \in 2..n : c = at[k]
                    THEN [kind |-> "element", base |-> at[1]]
               ELSE cell[c]]
    BY <1>4 DEF CallReturnsValues, CallReturns
  <2>5. n = 1 /\ at[1] \in Cells /\ cell[at[1]].kind = "unused"
    BY VariantAssumption DEF Disciplined, Unused
  <2>6. ASSUME NEW c \in Cells
        PROVE  cell'[c].kind = "returned" <=> content'[c] = Gone
    <3>1. CASE c = at[1]
      <4>1. \E k \in 1..n : output'[k] = c
        BY <2>4, <2>5, <3>1
      <4>2. content'[c] \in Values
        BY <2>1, <2>2, <4>1
      <4>3. cell'[c].kind = "heap"
        BY <2>4, <3>1
      <4>4. QED
        BY <4>2, <4>3, ValuesStay
    <3>2. CASE c # at[1]
      <4>1. ~\E k \in 1..n : output'[k] = c
        BY <2>4, <2>5, <3>2
      <4>2. content'[c] = content[c]
        BY <2>1, <4>1
      <4>3. cell'[c] = cell[c]
        BY <2>4, <2>5, <3>2
      <4>4. QED
        BY <4>2, <4>3 DEF ContentInv, GoneInv
    <3>3. QED
      BY <3>1, <3>2
  <2>7. QED
    BY <1>1, <2>3, <2>6 DEF ContentInv, GoneInv
<1>5. ASSUME NEW v \in Variants, WrapOutputValue(v) PROVE ContentInv'
  BY <1>1, <1>5, KeptInv DEF WrapOutputValue, WrapOutput
<1>6. ASSUME NEW v \in Variants, DestroyValue(v) PROVE ContentInv'
  <2>1. v \in alive /\ LetGo(v) /\ ~undefined /\ Kept
    BY <1>6 DEF DestroyValue, Destroy
  <2>2. QED
    BY <1>1, <2>1, LetGoKinds, KeptInv DEF ContentInv
<1>7. ASSUME NEW v \in Variants, NEW w \in Variants, MoveConstructValue(v, w)
      PROVE  ContentInv'
  BY <1>1, <1>7, KeptInv DEF MoveConstructValue, MoveConstruct
<1>8. ASSUME NEW v \in Variants, NEW w \in Variants, MoveAssignValue(v, w)
      PROVE  ContentInv'
  <2>1. v \in alive /\ LetGo(v) /\ ~undefined /\ Kept
    BY <1>8 DEF MoveAssignValue, MoveAssign
  <2>2. QED
    BY <1>1, <2>1, LetGoKinds, KeptInv DEF ContentInv
<1>9. ASSUME NEW v \in Variants, NEW w \in Variants, CopyConstructValue(v, w)
      PROVE  ContentInv'
  <2>1. /\ NewCell(v, "heap") /\ Gets(v, content[ptr[w]])
        /\ undefined' = ~Usable(w)
    BY <1>9 DEF CopyConstructValue, CopyConstruct
  <2>2. ~undefined' => content[ptr[w]] \in Values \cup {Empty}
    BY <2>1, UsableValue
  <2>3. /\ ptr'[v] \in Cells /\ cell'[ptr'[v]].kind = "heap"
        /\ \A c \in Cells : cell'[c].kind = "returned" <=> cell[c].kind = "returned"
    BY <2>1, NewCellKinds DEF ContentInv
  <2>4. QED
    BY <1>1, <2>1, <2>2, <2>3, GetsInv
<1>10. ASSUME NEW v \in Variants, NEW w \in Variants, CopyAssignValue(v, w)
       PROVE  ContentInv'
  <2> DEFINE x == IF owned[v] /\ v = w THEN Empty ELSE content[ptr[w]]
  <2>1. /\ Gets(v, x) /\ ptr' = ptr /\ cell' = cell
        /\ undefined' = (~Usable(v) \/ ~Usable(w))
    BY <1>10 DEF CopyAssignValue, CopyAssign
  <2>2. ~undefined' => /\ x \in Values \cup {Empty}
                       /\ ptr'[v] \in Cells /\ cell'[ptr'[v]].kind # "returned"
    BY <2>1, UsableValue DEF Usable
  <2> HIDE DEF x
  <2>3. QED
    BY <1>1, <2>1, <2>2, GetsInv
<1>11. ASSUME NEW v \in Variants, NEW x \in Values, Write(v, x)
       PROVE  ContentInv'
  <2>1. Gets(v, x) /\ ptr' = ptr /\ cell' = cell /\ undefined' = ~Usable(v)
    BY <1>11 DEF Write, Use
  <2>2. ~undefined' => ptr'[v] \in Cells /\ cell'[ptr'[v]].kind # "returned"
    BY <2>1, UsableValue DEF Usable
  <2>3. QED
    BY <1>1, <2>1, <2>2, GetsInv
<1>12. ASSUME NEW v \in Variants, Read(v) PROVE ContentInv'
  BY <1>1, <1>12 DEF Read, Use, ContentInv, GoneInv
<1>13. CASE UNCHANGED contentVars
  BY <1>1, <1>13 DEF ContentInv, GoneInv, contentVars, vars
<1>14. QED
  BY <1>2, <1>3, <1>4, <1>5, <1>6, <1>7, <1>8, <1>9, <1>10, <1>11, <1>12, <1>13
     DEF ContentNext

LEMMA ContentInvariance == ASSUME Disciplined PROVE ContentSpec => []ContentInv
<1>1. ContentInit => ContentInv
  <2>1. ASSUME ContentInit PROVE IInv /\ content \in [Cells -> Values \cup {Empty, Gone}]
    BY <2>1, InitInv DEF ContentInit
  <2>2. ASSUME ContentInit PROVE GoneInv
    BY <2>2, ValuesStay DEF ContentInit, Init, GoneInv
  <2>3. QED
    BY <2>1, <2>2 DEF ContentInv
<1>2. ContentInv /\ [ContentNext]_contentVars => ContentInv'
  BY ContentStepInv
<1>3. QED
  BY <1>1, <1>2, PTL DEF ContentSpec

-----------------------------------------------------------------------------
(* Which steps change what a Variant holds.                                *)

LEMMA StepsAreDefined == ContentNext => ~undefined
<1>1. Next => ~undefined
  BY DEF Next, Construct, Borrow, TakeBack, CallReturns, WrapOutput, CopyConstruct,
         MoveConstruct, CopyAssign, MoveAssign, Use, Destroy
<1>2. ContentNext => Next
  BY DEF ContentNext, Next, ConstructFrom, BorrowFrom, TakeBackFrom,
         CallReturnsValues, WrapOutputValue, CopyConstructValue,
         MoveConstructValue, CopyAssignValue, MoveAssignValue, DestroyValue,
         Read, Write
<1>3. QED
  BY <1>1, <1>2

\* A live Variant that still points where it did has kept its value, unless
\* UA_Server has just taken that back.
LEMMA KeptHolds ==
  ASSUME ContentInv, IInv', ~undefined', Kept, NEW v \in alive, v \in alive',
         ptr'[v] = ptr[v],
         \A c \in Cells : cell'[c].kind = cell[c].kind \/ cell'[c].kind = "freed"
  PROVE  Held(v)' = Held(v)
<1>1. CASE ptr[v] = None
  BY <1>1 DEF Held
<1>2. CASE ptr[v] # None
  <2>1. ptr[v] \in Cells
    BY <1>2 DEF ContentInv, IInv, TypeOK
  <2>2. cell'[ptr[v]].kind \in {"heap", "lent", "returned"}
    BY <1>2 DEF IInv, DeletesAreValid, BorrowsAreValid
  <2>3. cell[ptr[v]].kind = cell'[ptr[v]].kind
    BY <2>1, <2>2
  <2>4. content'[ptr[v]] = IF cell'[ptr[v]].kind = "returned" THEN Gone
                           ELSE content[ptr[v]]
    BY <2>1, <2>2 DEF Kept
  <2>5. content'[ptr[v]] = content[ptr[v]]
    BY <2>1, <2>3, <2>4 DEF ContentInv, GoneInv
  <2>6. QED
    BY <1>2, <2>5 DEF Held
<1>3. QED
  BY <1>1, <1>2

\* Nor does a value change that is put into a UA_Variant v does not point to.
LEMMA ElsewhereHolds ==
  ASSUME ContentInv, NEW v \in alive, ptr'[v] = ptr[v],
         NEW c, ptr[v] # None => ptr[v] # c,
         NEW x, content' = content \/ content' = [content EXCEPT ![c] = x]
  PROVE  Held(v)' = Held(v)
<1>1. ptr[v] # None => ptr[v] \in Cells
  BY DEF ContentInv, IInv, TypeOK
<1>2. QED
  BY <1>1 DEF Held, ContentInv

\* No live Variant points to unused memory.
LEMMA UnusedIsFree ==
  ASSUME IInv, ~undefined, NEW v \in alive, NEW c \in Unused
  PROVE  ptr[v] # c
  BY VariantAssumption DEF IInv, TypeOK, DeletesAreValid, BorrowsAreValid, Unused

\* A new Variant comes with a UA_Variant of its own.
LEMMA NewHolds ==
  ASSUME ContentInv, ~undefined,
         NEW u \in Variants, u \notin alive, NEW kind, NewCell(u, kind),
         NEW x, Gets(u, x), NEW v \in alive
  PROVE  Held(v)' = Held(v) /\ ptr'[v] = ptr[v] /\ owned'[v] = owned[v]
<1>1. PICK c \in Unused : /\ ptr' = [ptr EXCEPT ![u] = c]
                          /\ owned' = [owned EXCEPT ![u] = kind = "heap"]
  BY DEF NewCell
<1>2. ptr'[v] = ptr[v] /\ ptr'[u] = c /\ owned'[v] = owned[v]
  BY <1>1 DEF ContentInv, IInv, TypeOK
<1>3. ptr[v] # c
  BY UnusedIsFree DEF ContentInv
<1>4. QED
  BY <1>2, <1>3, ElsewhereHolds DEF Gets

\* So do the outputs of a call.
LEMMA CallHolds ==
  ASSUME ContentInv,
         NEW n \in 1..MaxOutputs, CallReturnsValues(n), NEW v \in alive
  PROVE  Held(v)' = Held(v)
<1>1. ptr' = ptr /\ ~undefined /\ \A k \in 1..n : output'[k] \in Unused
  BY DEF CallReturnsValues, CallReturns
<1>2. \A k \in 1..n : ptr[v] # output'[k]
  BY <1>1, UnusedIsFree DEF ContentInv
<1>3. ptr[v] # None => content'[ptr[v]] = content[ptr[v]]
  BY <1>2 DEF CallReturnsValues, ContentInv, IInv, TypeOK
<1>4. QED
  BY <1>1, <1>3 DEF Held

\* Variants that neither move nor let go of anything hold on to their values.
LEMMA MovesHold ==
  ASSUME ContentInv, IInv', ~undefined, undefined' = undefined, Kept,
         cell' = cell \/ \E u \in alive : LetGo(u)
  PROVE  \A v \in alive : v \in alive' /\ ptr'[v] = ptr[v] => Held(v)' = Held(v)
<1>1. \A c \in Cells : cell'[c].kind = cell[c].kind \/ cell'[c].kind = "freed"
  BY LetGoKinds DEF ContentInv
<1>2. QED
  BY <1>1, KeptHolds

\* A value passes to one Variant at most.
LEMMA AssignHolds ==
  ASSUME ContentInv, NEW u \in alive, ptr' = ptr, NEW x, Gets(u, x),
         ~undefined' => ptr[u] # None,
         NEW v \in alive, v # u
  PROVE  Held(v)' = Held(v)
<1>1. ptr[v] # None /\ ptr[u] # None => ptr[v] # ptr[u]
  BY DEF ContentInv, IInv, NoAlias
<1>2. CASE undefined'
  BY <1>2 DEF Gets, Held
<1>3. CASE ~undefined'
  BY <1>1, <1>3, ElsewhereHolds DEF Gets
<1>4. QED
  BY <1>2, <1>3

\* When UA_Server takes back what a Variant borrows.
LEMMA TakeBackHolds ==
  ASSUME ContentInv, IInv', NEW c \in Cells, TakeBackFrom(c), NEW v \in alive
  PROVE  /\ ptr[v] # c => Held(v)' = Held(v)
         /\ ptr[v] = c => Held(v)' = Gone /\ ~owned[v]
<1>1. /\ cell[c].kind = "lent" /\ cell'[c].kind = "returned"
      /\ \A x \in Cells \ {c} : cell'[x] = cell[x]
      /\ UNCHANGED <<alive, ptr, owned>> /\ ~undefined /\ ~undefined' /\ Kept
  BY DEF TakeBackFrom, TakeBack, ContentInv, IInv, TypeOK
<1>2. CASE ptr[v] = c
  <2>1. content'[c] = Gone
    BY <1>1 DEF Kept
  <2>2. c # None
    BY VariantAssumption
  <2>3. QED
    BY <1>1, <1>2, <2>1, <2>2 DEF Held, ContentInv, IInv, DeletesAreValid
<1>3. CASE ptr[v] # c /\ ptr[v] # None
  <2>1. ptr[v] \in Cells \ {c}
    BY <1>3 DEF ContentInv, IInv, TypeOK
  <2>2. cell[ptr[v]].kind \in {"heap", "lent", "returned"}
    BY <1>1, <1>3 DEF ContentInv, IInv, DeletesAreValid, BorrowsAreValid
  <2>3. content'[ptr[v]] = IF cell[ptr[v]].kind = "returned" THEN Gone
                           ELSE content[ptr[v]]
    BY <1>1, <2>1, <2>2 DEF Kept
  <2>4. content'[ptr[v]] = content[ptr[v]]
    BY <2>1, <2>3 DEF ContentInv, GoneInv
  <2>5. QED
    BY <1>1, <1>3, <2>4 DEF Held
<1>4. CASE ptr[v] = None
  BY <1>1, <1>4, VariantAssumption DEF Held
<1>5. QED
  BY <1>2, <1>3, <1>4

LEMMA OthersHold ==
  ASSUME Disciplined, ContentInv, ContentInv', [ContentNext]_contentVars,
         NEW v \in Variants, v \in alive, v \in alive', ~StepOn(v)
  PROVE  Held(v)' = Held(v) \/ (~owned[v] /\ Held(v)' = Gone)
<1> USE DEF ContentInv
<1>2. ASSUME NEW u \in Variants, ConstructFrom(u) \/ BorrowFrom(u)
      PROVE  Held(v)' = Held(v)
  BY <1>2, NewHolds DEF ConstructFrom, Construct, BorrowFrom, Borrow
<1>3. ASSUME NEW u \in Variants, NEW w \in Variants, CopyConstructValue(u, w)
      PROVE  Held(v)' = Held(v)
  BY <1>3, NewHolds DEF CopyConstructValue, CopyConstruct
<1>4. ASSUME NEW c \in Cells, TakeBackFrom(c)
      PROVE  Held(v)' = Held(v) \/ (~owned[v] /\ Held(v)' = Gone)
  BY <1>4, TakeBackHolds
<1>5. ASSUME NEW n \in 1..MaxOutputs, CallReturnsValues(n)
      PROVE  Held(v)' = Held(v)
  BY <1>5, CallHolds
<1>6. ASSUME NEW u \in Variants, WrapOutputValue(u) \/ DestroyValue(u)
      PROVE  Held(v)' = Held(v)
  <2>1. /\ u # v /\ Kept /\ ~undefined /\ undefined' = undefined
        /\ cell' = cell \/ (u \in alive /\ LetGo(u))
    BY <1>6 DEF WrapOutputValue, WrapOutput, DestroyValue, Destroy
  <2>2. ptr'[v] = ptr[v]
    BY <1>6, <2>1
       DEF WrapOutputValue, WrapOutput, DestroyValue, Destroy, IInv, TypeOK
  <2>3. QED
    BY <2>1, <2>2, MovesHold
<1>7. ASSUME NEW u \in Variants, NEW w \in Variants,
             MoveConstructValue(u, w) \/ MoveAssignValue(u, w)
      PROVE  Held(v)' = Held(v)
  <2>1. /\ u # v /\ w # v /\ Kept /\ ~undefined /\ undefined' = undefined
        /\ cell' = cell \/ (u \in alive /\ LetGo(u))
    BY <1>7 DEF StepOn, MoveConstructValue, MoveConstruct, MoveAssignValue, MoveAssign
  <2>2. ptr'[v] = ptr[v]
    BY <1>7, <2>1
       DEF MoveConstructValue, MoveConstruct, MoveAssignValue, MoveAssign, IInv, TypeOK
  <2>3. QED
    BY <2>1, <2>2, MovesHold
<1>8. ASSUME NEW u \in Variants, NEW w \in Variants, CopyAssignValue(u, w)
      PROVE  Held(v)' = Held(v)
  <2>1. u # v
    BY <1>8 DEF StepOn
  <2>2. /\ u \in alive /\ ptr' = ptr /\ (~undefined' => ptr[u] # None)
        /\ \E x : Gets(u, x)
    BY <1>8 DEF CopyAssignValue, CopyAssign, Usable
  <2>3. QED
    BY <2>1, <2>2, AssignHolds
<1>9. ASSUME NEW u \in Variants, NEW x \in Values, Write(u, x)
      PROVE  Held(v)' = Held(v)
  <2>1. /\ u # v /\ u \in alive /\ ptr' = ptr /\ (~undefined' => ptr[u] # None)
        /\ Gets(u, x)
    BY <1>9 DEF StepOn, Write, Use, Usable
  <2>2. QED
    BY <2>1, AssignHolds
<1>10. ASSUME NEW u \in Variants, Read(u)
      PROVE  Held(v)' = Held(v)
  BY <1>10 DEF Read, Use, Held
<1>11. CASE UNCHANGED contentVars
  BY <1>11 DEF contentVars, vars, Held
<1>12. QED
  BY <1>2, <1>3, <1>4, <1>5, <1>6, <1>7, <1>8, <1>9, <1>10, <1>11 DEF ContentNext

-----------------------------------------------------------------------------
(* The theorems.                                                           *)

\* Whatever is copied, moved, assigned and lent: a Variant that is not itself
\* written, assigned or moved keeps its value, if it is not one that UA_Server has
\* taken back.
THEOREM ValuesAreTheirOwn == ASSUME Disciplined PROVE ContentSpec => OnlyItself
<1>1. ASSUME ContentInv, ContentInv', [ContentNext]_contentVars
      PROVE  \A v \in Variants :
               v \in alive /\ v \in alive' /\ Held(v)' # Held(v) =>
                 StepOn(v) \/ (~owned[v] /\ Held(v)' = Gone)
  BY <1>1, OthersHold
<1>2. QED
  BY <1>1, ContentInvariance, PTL DEF ContentSpec, OnlyItself

\* operator== of what any two Variants hold: equal to itself if it is of a type
\* that is compared and has an element that equals itself; and a scalar, or an
\* empty Variant, equals nothing else.
THEOREM EqualTellsSame == ASSUME Disciplined PROVE ContentSpec => []EqualMeansSame
<1>1. ASSUME ContentInv PROVE EqualMeansSame
  <2>1. SUFFICES ASSUME NEW v \in Holding, NEW w \in Holding
                 PROVE  /\ Held(v) = Held(w) => \/ Equal(Held(v), Held(w)) = "equal"
                                               \/ CmpTable(Held(v), Held(v)) # "equal"
                        /\ Equal(Held(v), Held(w)) = "equal"
                             /\ (Held(v) = Empty \/ Held(v).scalar)
                           => Held(v) = Held(w)
    BY DEF EqualMeansSame
  <2>2. Held(v) \in Values \cup {Empty} /\ Held(w) \in Values \cup {Empty}
    <3>1. ASSUME NEW u \in Holding PROVE Held(u) \in Values \cup {Empty}
      BY <1>1, <3>1, UsableValue DEF Holding, Held, Usable, ContentInv, IInv, TypeOK
    <3>2. QED
      BY <3>1
  <2>3. ASSUME NEW a \in UAValue, NEW b \in UAValue, Len(a.data) = 1,
               Len(b.data) = 1, a.type = b.type, a.scalar = b.scalar,
               a.data[1] = b.data[1]
        PROVE  a = b
    <3>1. a.data = b.data
      BY <2>3 DEF UAValue
    <3>2. QED
      BY <2>3, <3>1 DEF UAValue
  <2>4. Held(v) = Held(w) => \/ Equal(Held(v), Held(w)) = "equal"
                             \/ CmpTable(Held(v), Held(v)) # "equal"
    BY DEF Equal
  <2>5. ASSUME Equal(Held(v), Held(w)) = "equal", Held(v) = Empty \/ Held(v).scalar
        PROVE  Held(v) = Held(w)
    <3>1. CASE Held(v) = Empty \/ Held(w) = Empty
      BY <2>5, <3>1 DEF Equal
    <3>2. CASE Held(v) # Empty /\ Held(w) # Empty
      <4>1. /\ Held(v) \in Values /\ Held(w) \in Values
            /\ Held(v).scalar /\ Held(v).scalar = Held(w).scalar
            /\ Held(v).type = Held(w).type
            /\ CmpTable(Held(v), Held(w)) = "equal"
        BY <2>2, <2>5, <3>2 DEF Equal
      <4>2. Held(v).data[1] = Held(w).data[1]
        BY <4>1 DEF CmpTable
      <4>3. QED
        BY <2>3, <4>1, <4>2, ContentsAssumption
    <3>3. QED
      BY <3>1, <3>2
  <2>6. QED
    BY <2>4, <2>5
<1>2. QED
  BY <1>1, ContentInvariance, PTL

-----------------------------------------------------------------------------
(* Variants are values: VariantContents implements ValueSemantics.         *)

\* What the Variants that live hold, and those that borrow it.
Value == [v \in alive |-> Held(v)]
Views == {v \in alive : ptr[v] # None /\ ~owned[v]}

\* A Variant has a value exactly if its UA_Variant can be used.
LEMMA ValueOf ==
  ASSUME ContentInv, NEW v \in alive
  PROVE  /\ Held(v) \in Values \cup {Empty, None, Gone}
         /\ Usable(v) <=> Semantics!HasValue(v)
         /\ Usable(v) => Held(v) = content[ptr[v]] /\ Held(v) \in Values \cup {Empty}
         /\ ptr[v] = None => Held(v) = None
<1>1. v \in Variants /\ ptr[v] \in Cells \cup {None}
  BY DEF ContentInv, IInv, TypeOK
<1>2. CASE ptr[v] = None
  BY <1>1, <1>2, ValuesStay
     DEF Held, Usable, Semantics!HasValue, Semantics!Living
<1>3. CASE ptr[v] # None
  <2>1. Held(v) = content[ptr[v]]
    BY <1>3 DEF Held
  <2>2. CASE Usable(v)
    <3>1. content[ptr[v]] \in Values \cup {Empty}
      BY <1>1, <2>2, UsableValue
    <3>2. QED
      BY <1>1, <1>3, <2>1, <2>2, <3>1, ValuesStay
         DEF Semantics!HasValue, Semantics!Living
  <2>3. CASE ~Usable(v)
    <3>1. content[ptr[v]] = Gone
      BY <1>1, <1>3, <2>3, UsableValue
    <3>2. QED
      BY <1>1, <1>3, <2>1, <2>3, <3>1
         DEF Semantics!HasValue, Semantics!Living
  <2>4. QED
    BY <2>2, <2>3
<1>4. QED
  BY <1>2, <1>3

\* A step that gives v the value x and leaves the others alone.
LEMMA OneChanges ==
  ASSUME NEW v, NEW x, alive' = alive \cup {v}, Held(v)' = x,
         \A u \in alive \ {v} : Held(u)' = Held(u)
  PROVE  Value' = Semantics!With(v, x)
  BY DEF Value, Semantics!With, Semantics!Living

\* A step that moves the value of w to v.
LEMMA TwoChange ==
  ASSUME NEW v, NEW w \in alive, alive' = alive \cup {v},
         v # w => Held(v)' = Held(w), Held(w)' = None,
         \A u \in alive \ {v, w} : Held(u)' = Held(u)
  PROVE  Value' = [Semantics!With(v, Held(w)) EXCEPT ![w] = None]
  BY DEF Value, Semantics!With, Semantics!Living

\* A step that no Variant shows.
LEMMA NoneChanges ==
  ASSUME alive' = alive, \A u \in alive : Held(u)' = Held(u)
  PROVE  UNCHANGED Value
  BY DEF Value

\* A UA_Variant with the value x comes to life in the Variant v, owned or borrowed.
LEMMA NewIsBegin ==
  ASSUME ContentInv, IInv', ~undefined, ~undefined', NEW v \in Variants,
         v \notin alive, alive' = alive \cup {v},
         NEW kind \in {"heap", "lent"}, NewCell(v, kind), NEW x, Gets(v, x)
  PROVE  /\ Value' = Semantics!With(v, x)
         /\ Views' = IF kind = "lent" THEN Views \cup {v} ELSE Views
<1>1. \A u \in alive : /\ Held(u)' = Held(u)
                       /\ ptr'[u] = ptr[u] /\ owned'[u] = owned[u]
  BY NewHolds
<1>2. PICK c \in Unused : /\ ptr' = [ptr EXCEPT ![v] = c]
                          /\ owned' = [owned EXCEPT ![v] = kind = "heap"]
  BY DEF NewCell
<1>3. c \in Cells /\ ptr'[v] = c /\ ptr'[v] # None /\ owned'[v] = (kind = "heap")
  BY <1>2, VariantAssumption DEF Unused, ContentInv, IInv, TypeOK
<1>4. Held(v)' = x
  BY <1>3 DEF Gets, Held, ContentInv
<1>5. Value' = Semantics!With(v, x)
  BY <1>1, <1>4, OneChanges
<1>6. v \notin Views
  BY DEF Views
<1>7. Views' = {u \in alive \cup {v} : ptr'[u] # None /\ ~owned'[u]}
  BY DEF Views
<1>8. Views' = IF kind = "lent" THEN Views \cup {v} ELSE Views
  BY <1>1, <1>3, <1>7 DEF Views
<1>9. QED
  BY <1>5, <1>8

\* A UA_Variant passes from w to v, with its value and its owner.
LEMMA PassIsMoved ==
  ASSUME ContentInv, IInv', ~undefined, undefined' = undefined, Kept,
         NEW v \in Variants, NEW w \in alive, alive' = alive \cup {v},
         ptr' = [ptr EXCEPT ![v] = ptr[w], ![w] = None],
         owned' = [owned EXCEPT ![v] = owned[w], ![w] = FALSE],
         \/ v \notin alive /\ cell' = cell
         \/ v \in alive /\ LetGo(v)
  PROVE  /\ Value' = [Semantics!With(v, Value[w]) EXCEPT ![w] = None]
         /\ Views' = ((Views \ {v}) \cup (IF w \in Views THEN {v} ELSE {})) \ {w}
<1> alive \subseteq Variants
  BY DEF ContentInv, IInv, TypeOK
<1>1. /\ v # w => ptr'[v] = ptr[w] /\ owned'[v] = owned[w]
      /\ ptr'[w] = None /\ ~owned'[w]
      /\ \A u \in alive \ {v, w} : ptr'[u] = ptr[u] /\ owned'[u] = owned[u]
  BY DEF ContentInv, IInv, TypeOK
<1>2. \A u \in alive \ {v, w} : Held(u)' = Held(u)
  BY <1>1, MovesHold
<1>3. Held(w)' = None
  BY <1>1 DEF Held
<1>4. ASSUME v # w PROVE Held(v)' = Held(w)
  <2>1. CASE ptr[w] = None
    BY <1>1, <1>4, <2>1 DEF Held
  <2>2. CASE ptr[w] # None
    <3>1. ptr[w] \in Cells /\ ptr'[v] = ptr[w]
      BY <1>1, <1>4, <2>2 DEF ContentInv, IInv, TypeOK
    <3>2. cell'[ptr[w]].kind \in {"heap", "lent", "returned"}
      <4>1. v \in alive'
        OBVIOUS
      <4>2. QED
        BY <2>2, <3>1, <4>1 DEF IInv, DeletesAreValid, BorrowsAreValid
    <3>3. \A c \in Cells : cell'[c].kind = cell[c].kind \/ cell'[c].kind = "freed"
      BY LetGoKinds DEF ContentInv
    <3>4. cell'[ptr[w]].kind = cell[ptr[w]].kind
      BY <3>1, <3>2, <3>3
    <3>5. content'[ptr[w]] = IF cell'[ptr[w]].kind = "returned" THEN Gone
                             ELSE content[ptr[w]]
      BY <3>1, <3>2 DEF Kept
    <3>6. content'[ptr[w]] = content[ptr[w]]
      BY <3>1, <3>4, <3>5 DEF ContentInv, GoneInv
    <3>7. QED
      BY <2>2, <3>1, <3>6 DEF Held
  <2>3. QED
    BY <2>1, <2>2
<1>5. Value' = [Semantics!With(v, Held(w)) EXCEPT ![w] = None]
  BY <1>2, <1>3, <1>4, TwoChange
<1>6. Value[w] = Held(w)
  BY DEF Value
<1>7. w \in Views <=> ptr[w] # None /\ ~owned[w]
  BY DEF Views
<1>8. Views' = {u \in alive \cup {v} : ptr'[u] # None /\ ~owned'[u]}
  BY DEF Views
<1>9. Views' = ((Views \ {v}) \cup (IF w \in Views THEN {v} ELSE {})) \ {w}
  <2>1. ASSUME NEW u \in alive \cup {v}
        PROVE  (ptr'[u] # None /\ ~owned'[u])
                 <=> u \in ((Views \ {v}) \cup (IF w \in Views THEN {v} ELSE {})) \ {w}
    <3>1. CASE u = w
      BY <1>1, <3>1
    <3>2. CASE u # w /\ u = v
      BY <1>1, <1>7, <3>2
    <3>3. CASE u # w /\ u # v
      BY <1>1, <2>1, <3>3 DEF Views
    <3>4. QED
      BY <3>1, <3>2, <3>3
  <2>2. ((Views \ {v}) \cup (IF w \in Views THEN {v} ELSE {})) \ {w} \subseteq alive \cup {v}
    BY DEF Views
  <2>3. QED
    BY <1>8, <2>1, <2>2
<1>10. QED
  BY <1>5, <1>6, <1>9

\* The value x is put into the UA_Variant of v.
LEMMA GetsIsWith ==
  ASSUME ContentInv, ~undefined', NEW v \in alive, Usable(v), NEW x, Gets(v, x),
         UNCHANGED <<alive, ptr>>
  PROVE  Value' = Semantics!With(v, x)
<1>1. v \in Variants /\ ptr[v] # None /\ ptr[v] \in Cells
  BY DEF ContentInv, IInv, TypeOK, Usable
<1>2. \A u \in alive \ {v} : Held(u)' = Held(u)
  BY <1>1, AssignHolds
<1>3. Held(v)' = x
  BY <1>1 DEF Gets, Held, ContentInv
<1>4. alive' = alive \cup {v}
  OBVIOUS
<1>5. QED
  BY <1>2, <1>3, <1>4, OneChanges

\* A Variant is used that has no value.
LEMMA UseFails ==
  ASSUME ContentInv, ~undefined, undefined', NEW v \in alive, ~Usable(v)
  PROVE  Semantics!ValueNext
<1>1. v \in Semantics!Living /\ ~Semantics!HasValue(v)
  BY ValueOf DEF Semantics!Living
<1>2. Semantics!Fail
  BY <1>1 DEF Semantics!Fail
<1>3. QED
  BY <1>2 DEF Semantics!ValueNext

LEMMA StepIsSemantic ==
  ASSUME Disciplined, ContentInv, ContentInv', [ContentNext]_contentVars
  PROVE  [Semantics!ValueNext]_<<Value, Views, undefined>>
<1> USE DEF ContentInv
<1> /\ alive \subseteq Variants /\ undefined \in BOOLEAN /\ undefined' \in BOOLEAN
  BY DEF IInv, TypeOK
<1> Semantics!Living = alive
  BY DEF Semantics!Living
<1>1. ASSUME NEW v \in Variants, ConstructFrom(v)
      PROVE  Semantics!ValueNext
  <2>1. /\ v \notin alive /\ alive' = alive \cup {v} /\ NewCell(v, "heap")
        /\ ~undefined /\ undefined' = undefined
    BY <1>1 DEF ConstructFrom, Construct
  <2>2. PICK x \in Values \cup {Empty} : Gets(v, x)
    BY <1>1 DEF ConstructFrom
  <2>3. Value' = Semantics!With(v, x) /\ Views' = Views
    BY <2>1, <2>2, NewIsBegin
  <2>4. Semantics!Begin(v, x)
    BY <2>1, <2>3 DEF Semantics!Begin, Value, Views
  <2>5. QED
    BY <2>1, <2>4 DEF Semantics!ValueNext, Semantics!Step
<1>2. ASSUME NEW v \in Variants, BorrowFrom(v)
      PROVE  Semantics!ValueNext
  <2>1. /\ v \notin alive /\ alive' = alive \cup {v} /\ NewCell(v, "lent")
        /\ ~undefined /\ undefined' = undefined
    BY <1>2 DEF BorrowFrom, Borrow
  <2>2. PICK x \in Values \cup {Empty} : Gets(v, x)
    BY <1>2 DEF BorrowFrom
  <2>3. Value' = Semantics!With(v, x) /\ Views' = Views \cup {v}
    BY <2>1, <2>2, NewIsBegin
  <2>4. Semantics!BeginView(v, x)
    BY <2>1, <2>3 DEF Semantics!BeginView, Value, Views
  <2>5. QED
    BY <2>1, <2>4 DEF Semantics!ValueNext, Semantics!Step
<1>3. ASSUME NEW v \in Variants, NEW w \in Variants, CopyConstructValue(v, w)
      PROVE  Semantics!ValueNext
  <2>1. /\ v \notin alive /\ alive' = alive \cup {v} /\ w \in alive
        /\ NewCell(v, "heap") /\ Gets(v, content[ptr[w]])
        /\ ~undefined /\ undefined' = ~Usable(w)
    BY <1>3 DEF CopyConstructValue, CopyConstruct
  <2>2. CASE Usable(w)
    <3>1. Semantics!HasValue(w) /\ Value[w] = content[ptr[w]]
      BY <2>1, <2>2, ValueOf DEF Value
    <3>2. ~undefined' /\ undefined' = undefined
      BY <2>1, <2>2
    <3>3. Value' = Semantics!With(v, content[ptr[w]]) /\ Views' = Views
      BY <2>1, <3>2, NewIsBegin
    <3>4. Semantics!BeginCopy(v, w)
      BY <2>1, <3>1, <3>3 DEF Semantics!BeginCopy, Value, Views
    <3>5. QED
      BY <2>1, <3>2, <3>4 DEF Semantics!ValueNext, Semantics!Step
  <2>3. CASE ~Usable(w)
    BY <2>1, <2>3, UseFails
  <2>4. QED
    BY <2>2, <2>3
<1>4. ASSUME NEW v \in Variants, WrapOutputValue(v)
      PROVE  Semantics!ValueNext
  <2>1. /\ output # <<>> /\ v \notin alive /\ alive' = alive \cup {v}
        /\ ptr' = [ptr EXCEPT ![v] = Head(output)]
        /\ owned' = [owned EXCEPT ![v] = TRUE]
        /\ cell' = cell /\ Kept /\ ~undefined /\ undefined' = undefined
    BY <1>4 DEF WrapOutputValue, WrapOutput
  <2>2. /\ Head(output) \in Cells /\ ptr'[v] = Head(output) /\ ptr'[v] # None
        /\ owned'[v] /\ cell[Head(output)].kind = "heap"
    BY <2>1, VariantAssumption DEF IInv, TypeOK, OutputInv
  <2>3. \A u \in alive : ptr'[u] = ptr[u] /\ owned'[u] = owned[u]
    BY <2>1 DEF IInv, TypeOK
  <2>4. \A u \in alive : Held(u)' = Held(u)
    BY <2>1, <2>3, MovesHold
  <2>5. Held(v)' = content[Head(output)]
    BY <2>1, <2>2 DEF Kept, Held
  <2>6. content[Head(output)] \in Values \cup {Empty}
    BY <2>2 DEF GoneInv
  <2>7. Value' = Semantics!With(v, content[Head(output)])
    BY <2>1, <2>4, <2>5, OneChanges
  <2>8. Views' = Views
    BY <2>1, <2>2, <2>3 DEF Views
  <2>9. Semantics!Begin(v, content[Head(output)])
    BY <2>1, <2>7, <2>8 DEF Semantics!Begin, Value, Views
  <2>10. QED
    BY <2>1, <2>6, <2>9 DEF Semantics!ValueNext, Semantics!Step
<1>5. ASSUME NEW v \in Variants, NEW w \in Variants, MoveConstructValue(v, w)
      PROVE  Semantics!ValueNext
  <2>1. /\ v \notin alive /\ w \in alive /\ alive' = alive \cup {v} /\ Kept
        /\ ptr' = [ptr EXCEPT ![v] = ptr[w], ![w] = None]
        /\ owned' = [owned EXCEPT ![v] = owned[w], ![w] = FALSE]
        /\ cell' = cell /\ ~undefined /\ undefined' = undefined
    BY <1>5 DEF MoveConstructValue, MoveConstruct
  <2>2. /\ Value' = [Semantics!With(v, Value[w]) EXCEPT ![w] = None]
        /\ Views' = ((Views \ {v}) \cup (IF w \in Views THEN {v} ELSE {})) \ {w}
    BY <2>1, PassIsMoved
  <2>3. Semantics!BeginMoved(v, w)
    BY <2>1, <2>2 DEF Semantics!BeginMoved, Semantics!Moved, Value, Views
  <2>4. QED
    BY <2>1, <2>3 DEF Semantics!ValueNext, Semantics!Step
<1>6. ASSUME NEW v \in Variants, NEW w \in Variants, MoveAssignValue(v, w)
      PROVE  Semantics!ValueNext
  <2>1. /\ v \in alive /\ w \in alive /\ alive' = alive \cup {v} /\ Kept
        /\ ptr' = [ptr EXCEPT ![v] = ptr[w], ![w] = None]
        /\ owned' = [owned EXCEPT ![v] = owned[w], ![w] = FALSE]
        /\ LetGo(v) /\ ~undefined /\ undefined' = undefined
    BY <1>6 DEF MoveAssignValue, MoveAssign
  <2>2. /\ Value' = [Semantics!With(v, Value[w]) EXCEPT ![w] = None]
        /\ Views' = ((Views \ {v}) \cup (IF w \in Views THEN {v} ELSE {})) \ {w}
    BY <2>1, PassIsMoved
  <2>3. Semantics!Move(v, w)
    BY <2>1, <2>2 DEF Semantics!Move, Semantics!Moved, Value, Views
  <2>4. QED
    BY <2>1, <2>3 DEF Semantics!ValueNext, Semantics!Step
<1>7. ASSUME NEW v \in Variants, NEW w \in Variants, CopyAssignValue(v, w)
      PROVE  Semantics!ValueNext
  <2>1. /\ v \in alive /\ w \in alive /\ UNCHANGED <<alive, ptr>>
        /\ owned[v] \/ ptr[v] = None
        /\ owned' = [owned EXCEPT ![v] = TRUE]
        /\ Gets(v, IF owned[v] /\ v = w THEN Empty ELSE content[ptr[w]])
        /\ ~undefined /\ undefined' = (~Usable(v) \/ ~Usable(w))
    BY <1>7 DEF CopyAssignValue, CopyAssign, Disciplined
  <2>2. CASE Usable(v) /\ Usable(w)
    <3>1. owned[v] /\ owned' = owned
      BY <2>1, <2>2 DEF Usable, IInv, TypeOK
    <3>2. /\ Semantics!HasValue(v) /\ Semantics!HasValue(w)
          /\ Value[w] = content[ptr[w]]
      BY <2>1, <2>2, ValueOf DEF Value
    <3>3. ~undefined' /\ undefined' = undefined
      BY <2>1, <2>2
    <3>4. Gets(v, IF v = w THEN Empty ELSE Value[w])
      BY <2>1, <3>1, <3>2
    <3>5. Value' = Semantics!With(v, IF v = w THEN Empty ELSE Value[w])
      BY <2>1, <2>2, <3>3, <3>4, GetsIsWith
    <3>6. Views' = Views /\ v \notin Views
      BY <2>1, <3>1 DEF Views
    <3>7. Semantics!Copy(v, w)
      BY <3>2, <3>5, <3>6 DEF Semantics!Copy, Value, Views
    <3>8. QED
      BY <2>1, <3>3, <3>7 DEF Semantics!ValueNext, Semantics!Step
  <2>3. CASE ~Usable(v) \/ ~Usable(w)
    BY <2>1, <2>3, UseFails
  <2>4. QED
    BY <2>2, <2>3
<1>8. ASSUME NEW v \in Variants, DestroyValue(v)
      PROVE  Semantics!ValueNext
  <2>1. /\ v \in alive /\ alive' = alive \ {v} /\ Kept /\ LetGo(v)
        /\ ptr' = [ptr EXCEPT ![v] = None]
        /\ owned' = [owned EXCEPT ![v] = FALSE]
        /\ ~undefined /\ undefined' = undefined
    BY <1>8 DEF DestroyValue, Destroy
  <2>2. \A u \in alive' : u \in alive /\ ptr'[u] = ptr[u] /\ owned'[u] = owned[u]
    BY <2>1 DEF IInv, TypeOK
  <2>3. \A u \in alive' : Held(u)' = Held(u)
    BY <2>1, <2>2, MovesHold
  <2>4. Value' = [u \in alive \ {v} |-> Value[u]]
    BY <2>1, <2>3 DEF Value
  <2>5. Views' = Views \ {v}
    BY <2>1, <2>2 DEF Views
  <2>6. Semantics!End(v)
    BY <2>1, <2>4, <2>5 DEF Semantics!End, Value, Views
  <2>7. QED
    BY <2>1, <2>6 DEF Semantics!ValueNext, Semantics!Step
<1>9. ASSUME NEW v \in Variants, NEW x \in Values, Write(v, x)
      PROVE  Semantics!ValueNext
  <2>1. /\ v \in alive /\ Gets(v, x) /\ UNCHANGED <<alive, ptr, owned>>
        /\ ~undefined /\ undefined' = ~Usable(v)
    BY <1>9 DEF Write, Use
  <2>2. CASE Usable(v)
    <3>1. Semantics!HasValue(v) /\ ~undefined' /\ undefined' = undefined
      BY <2>1, <2>2, ValueOf
    <3>2. Value' = Semantics!With(v, x) /\ Views' = Views
      BY <2>1, <2>2, <3>1, GetsIsWith DEF Views
    <3>3. Semantics!Assign(v, x)
      BY <3>1, <3>2 DEF Semantics!Assign, Value, Views
    <3>4. QED
      BY <2>1, <3>1, <3>3 DEF Semantics!ValueNext, Semantics!Step
  <2>3. CASE ~Usable(v)
    BY <2>1, <2>3, UseFails
  <2>4. QED
    BY <2>2, <2>3
<1>10. ASSUME NEW v \in Variants, Read(v)
       PROVE  [Semantics!ValueNext]_<<Value, Views, undefined>>
  <2>1. /\ v \in alive /\ UNCHANGED <<alive, ptr, owned, content>>
        /\ ~undefined /\ undefined' = ~Usable(v)
    BY <1>10 DEF Read, Use
  <2>2. CASE Usable(v)
    BY <2>1, <2>2 DEF Value, Views, Held
  <2>3. CASE ~Usable(v)
    BY <2>1, <2>3, UseFails
  <2>4. QED
    BY <2>2, <2>3
<1>11. ASSUME NEW c \in Cells, TakeBackFrom(c)
       PROVE  [Semantics!ValueNext]_<<Value, Views, undefined>>
  <2>1. /\ UNCHANGED <<alive, ptr, owned>> /\ ~undefined /\ undefined' = undefined
    BY <1>11 DEF TakeBackFrom, TakeBack
  <2>2. Views' = Views
    BY <2>1 DEF Views
  <2>3. CASE \A v \in alive : ptr[v] # c
    BY <1>11, <2>1, <2>2, <2>3, TakeBackHolds, NoneChanges
  <2>4. ASSUME NEW v \in alive, ptr[v] = c
        PROVE  Semantics!ValueNext
    <3>1. c # None
      BY VariantAssumption
    <3>2. Held(v)' = Gone /\ ~owned[v] /\ v \in Views
      BY <1>11, <2>4, <3>1, TakeBackHolds DEF Views
    <3>3. \A u \in alive \ {v} : ptr[u] # c
      BY <2>4, <3>1 DEF IInv, NoAlias
    <3>4. \A u \in alive \ {v} : Held(u)' = Held(u)
      BY <1>11, <3>3, TakeBackHolds
    <3>5. Value' = Semantics!With(v, Gone)
      <4>1. alive' = alive \cup {v}
        BY <2>1
      <4>2. QED
        BY <3>2, <3>4, <4>1, OneChanges
    <3>6. Semantics!Expire(v)
      BY <2>2, <3>2, <3>5 DEF Semantics!Expire, Value, Views
    <3>7. QED
      BY <2>1, <3>6 DEF Semantics!ValueNext, Semantics!Step
  <2>5. QED
    BY <2>3, <2>4
<1>12. ASSUME NEW n \in 1..MaxOutputs, CallReturnsValues(n)
       PROVE  UNCHANGED <<Value, Views, undefined>>
  <2>1. UNCHANGED <<alive, ptr, owned, undefined>>
    BY <1>12 DEF CallReturnsValues, CallReturns
  <2>2. QED
    BY <1>12, <2>1, CallHolds, NoneChanges DEF Views
<1>13. CASE UNCHANGED contentVars
  BY <1>13 DEF contentVars, vars, Held, Value, Views
<1>14. QED
  BY <1>1, <1>2, <1>3, <1>4, <1>5, <1>6, <1>7, <1>8, <1>9, <1>10, <1>11, <1>12,
     <1>13
     DEF ContentNext

\* With one output per call, and no assignment to what was lent, Variants are
\* values, however their UA_Variants are allocated, lent, shared out and deleted:
\* only a Variant without a value fails, and only a view loses one by itself.
THEOREM ImplementsValues == ASSUME Disciplined PROVE ContentSpec => ValueSpec
<1>1. ContentInit => Semantics!ValueInit
  BY DEF ContentInit, Init, Semantics!ValueInit
<1>2. ContentInv /\ ContentInv' /\ [ContentNext]_contentVars
        => [Semantics!ValueNext]_<<Value, Views, undefined>>
  BY StepIsSemantic
<1>3. QED
  BY <1>1, <1>2, ContentInvariance, PTL
     DEF ContentSpec, ValueSpec, Semantics!Spec, Value, Views
=============================================================================
