-------------------------- MODULE VariantOwnership --------------------------
(***************************************************************************)
(* Which modernopc::Variant deletes which UA_Variant.  A Variant points to *)
(* a UA_Variant it made or adopted (owned), or borrows one UA_Server lends  *)
(* to a callback.  Variants are constructed, copied, moved, assigned and    *)
(* destroyed; what the UA_Variants contain is left out.  A Variant that was *)
(* moved from points to nothing, and one that was moved out of a callback   *)
(* may point to what UA_Server has taken back: using either is undefined,   *)
(* and nothing is said of a program from there on.                         *)
(***************************************************************************)
EXTENDS Naturals, Sequences

CONSTANTS
  Variants,    \* C++ objects of class Variant
  Cells,       \* addresses of UA_Variants, never reused
  None,        \* nullptr
  MaxOutputs,  \* most outputs a method called by Client::call returns
  CopiesToLent \* the application copy-assigns to Variants it was lent

ASSUME VariantAssumption ==
  /\ None \notin Cells
  /\ MaxOutputs \in Nat
  /\ CopiesToLent \in BOOLEAN

VARIABLES
  alive,    \* Variants whose lifetime has begun and not ended
  ptr,      \* Variant -> its member variant
  owned,    \* Variant -> its member owned
  cell,     \* address -> what is there
  output,   \* the UA_Variants Client::call has yet to wrap
  argument, \* Variant -> the UA_Variant it passes to a callback, or None
  undefined \* a null or dangling pointer to a UA_Variant was used

vars == <<alive, ptr, owned, cell, output, argument, undefined>>

\* A "heap" UA_Variant was allocated alone or first in an array, an "element"
\* follows another UA_Variant (base) in its array; a "lent" one is UA_Server's
\* and in the hands of a callback, a "returned" one is UA_Server's again.
Kinds == {"unused", "heap", "element", "lent", "returned", "freed"}

TypeOK ==
  /\ alive \in SUBSET Variants
  /\ ptr \in [Variants -> Cells \cup {None}]
  /\ owned \in [Variants -> BOOLEAN]
  /\ cell \in [Cells -> [kind: Kinds, base: Cells]]
  /\ output \in Seq(Cells)
  /\ argument \in [Variants -> Cells \cup {None}]
  /\ undefined \in BOOLEAN

Init ==
  /\ alive = {}
  /\ ptr = [v \in Variants |-> None]
  /\ owned = [v \in Variants |-> FALSE]
  /\ cell = [c \in Cells |-> [kind |-> "unused", base |-> c]]
  /\ output = <<>>
  /\ argument = [v \in Variants |-> None]
  /\ undefined = FALSE

\* The UA_Variant of v can be read and written.
Usable(v) == ptr[v] # None /\ cell[ptr[v]].kind # "returned"

Unused == {c \in Cells : cell[c].kind = "unused"}

\* UA_Variant_new, or UA_Server lending a UA_Variant, to a new Variant v.
NewCell(v, kind) ==
  \E c \in Unused :
    /\ cell' = [cell EXCEPT ![c].kind = kind]
    /\ ptr' = [ptr EXCEPT ![v] = c]
    /\ owned' = [owned EXCEPT ![v] = kind = "heap"]

\* UA_Variant_delete(c): an array goes with its first element.
Deleted(c) ==
  [x \in Cells |-> IF x = c \/ cell[x].base = c
                   THEN [cell[x] EXCEPT !.kind = "freed"] ELSE cell[x]]

\* What happens to the UA_Variant of v when v lets go of it.
LetGo(v) == cell' = IF owned[v] THEN Deleted(ptr[v]) ELSE cell

-----------------------------------------------------------------------------
(* Constructors.                                                           *)

\* Variant(), Variant(T&&), fromJson and Client::read: a UA_Variant_new of
\* their own.
Construct(v) ==
  /\ ~undefined /\ v \notin alive
  /\ alive' = alive \cup {v}
  /\ NewCell(v, "heap")
  /\ UNCHANGED <<output, argument, undefined>>

\* Mutant of Borrow: owner is true unless the caller says otherwise.
BorrowOwned(v) ==
  /\ ~undefined /\ v \notin alive
  /\ alive' = alive \cup {v}
  /\ \E c \in Unused :
       /\ cell' = [cell EXCEPT ![c].kind = "lent"]
       /\ ptr' = [ptr EXCEPT ![v] = c]
       /\ owned' = [owned EXCEPT ![v] = TRUE]
  /\ argument' = [argument EXCEPT ![v] = ptr'[v]]
  /\ UNCHANGED <<output, undefined>>

\* Variant(var), the argument that internalRead, internalWrite and
\* internalMethodCallback pass to a callback in place of what UA_Server lends.
Borrow(v) ==
  /\ ~undefined /\ v \notin alive
  /\ alive' = alive \cup {v}
  /\ NewCell(v, "lent")
  /\ argument' = [argument EXCEPT ![v] = ptr'[v]]
  /\ UNCHANGED <<output, undefined>>

\* UA_Server has its UA_Variant back when the argument made for it is destroyed
\* and the callback has returned, whether or not the callback moved the pointer
\* out of the argument.
TakeBack(c) ==
  /\ ~undefined /\ cell[c].kind = "lent"
  /\ \A v \in alive : argument[v] # c
  /\ cell' = [cell EXCEPT ![c].kind = "returned"]
  /\ UNCHANGED <<alive, ptr, owned, output, argument, undefined>>

\* Client::call: UA_Client_call returns n outputs in one array ...
CallReturns(n) ==
  /\ ~undefined /\ output = <<>>
  /\ \E at \in [1..n -> Unused] :
       /\ \A j, k \in 1..n : j # k => at[j] # at[k]
       /\ output' = at
       /\ cell' = [c \in Cells |->
            IF c = at[1] THEN [kind |-> "heap", base |-> c]
            ELSE IF \E k \in 2..n : c = at[k]
                 THEN [kind |-> "element", base |-> at[1]]
            ELSE cell[c]]
  /\ UNCHANGED <<alive, ptr, owned, argument, undefined>>

\* ... and each of them becomes a Variant(var, true).
WrapOutput(v) ==
  /\ ~undefined /\ output # <<>>
  /\ v \notin alive
  /\ alive' = alive \cup {v}
  /\ ptr' = [ptr EXCEPT ![v] = Head(output)]
  /\ owned' = [owned EXCEPT ![v] = TRUE]
  /\ output' = Tail(output)
  /\ UNCHANGED <<cell, argument, undefined>>

\* Mutant of CopyConstruct: the members are copied.
CopyConstructShallow(v, w) ==
  /\ ~undefined /\ v \notin alive /\ w \in alive
  /\ alive' = alive \cup {v}
  /\ ptr' = [ptr EXCEPT ![v] = ptr[w]]
  /\ owned' = [owned EXCEPT ![v] = owned[w]]
  /\ UNCHANGED <<cell, output, argument, undefined>>

\* Variant(const Variant &), and Variant(T&&) for a Variant that is not const.
CopyConstruct(v, w) ==
  /\ ~undefined /\ v \notin alive /\ w \in alive
  /\ alive' = alive \cup {v}
  /\ NewCell(v, "heap")
  /\ undefined' = ~Usable(w)
  /\ UNCHANGED <<output, argument>>

\* Mutant of MoveConstruct: owned keeps its default.
MoveConstructBorrowing(v, w) ==
  /\ ~undefined /\ v \notin alive /\ w \in alive
  /\ alive' = alive \cup {v}
  /\ ptr' = [ptr EXCEPT ![v] = ptr[w], ![w] = None]
  /\ owned' = [owned EXCEPT ![v] = FALSE, ![w] = FALSE]
  /\ UNCHANGED <<cell, output, argument, undefined>>

\* Variant(Variant &&)
MoveConstruct(v, w) ==
  /\ ~undefined /\ v \notin alive /\ w \in alive
  /\ alive' = alive \cup {v}
  /\ ptr' = [ptr EXCEPT ![v] = ptr[w], ![w] = None]
  /\ owned' = [owned EXCEPT ![v] = owned[w], ![w] = FALSE]
  /\ UNCHANGED <<cell, output, argument, undefined>>

-----------------------------------------------------------------------------
(* Assignments, uses and the destructor.                                   *)

\* operator=(const Variant &): the UA_Variant stays, is owned from now on and
\* gets a copy, both of which may be nowhere.
CopyAssign(v, w) ==
  /\ ~undefined /\ {v, w} \subseteq alive
  /\ CopiesToLent \/ owned[v] \/ ptr[v] = None
  /\ owned' = [owned EXCEPT ![v] = TRUE]
  /\ undefined' = (~Usable(v) \/ ~Usable(w))
  /\ UNCHANGED <<alive, ptr, cell, output, argument>>

\* Mutant of MoveAssign: what the target owned is not deleted.
MoveAssignOver(v, w) ==
  /\ ~undefined /\ {v, w} \subseteq alive
  /\ ptr' = [ptr EXCEPT ![v] = ptr[w], ![w] = None]
  /\ owned' = [owned EXCEPT ![v] = owned[w], ![w] = FALSE]
  /\ UNCHANGED <<alive, cell, output, argument, undefined>>

\* operator=(Variant &&), of a Variant to itself too.
MoveAssign(v, w) ==
  /\ ~undefined /\ {v, w} \subseteq alive
  /\ LetGo(v)
  /\ ptr' = [ptr EXCEPT ![v] = ptr[w], ![w] = None]
  /\ owned' = [owned EXCEPT ![v] = owned[w], ![w] = FALSE]
  /\ UNCHANGED <<alive, output, argument, undefined>>

\* operator(), get, isEmpty, operator== and the other members that use the
\* UA_Variant.
Use(v) ==
  /\ ~undefined /\ v \in alive
  /\ undefined' = ~Usable(v)
  /\ UNCHANGED <<alive, ptr, owned, cell, output, argument>>

\* ~Variant
Destroy(v) ==
  /\ ~undefined /\ v \in alive
  /\ alive' = alive \ {v}
  /\ LetGo(v)
  /\ ptr' = [ptr EXCEPT ![v] = None]
  /\ owned' = [owned EXCEPT ![v] = FALSE]
  /\ argument' = [argument EXCEPT ![v] = None]
  /\ UNCHANGED <<output, undefined>>

-----------------------------------------------------------------------------
Next ==
  \/ \E v \in Variants : Construct(v)
  \/ \E v \in Variants : Borrow(v)
  \/ \E c \in Cells : TakeBack(c)
  \/ \E n \in 1..MaxOutputs : CallReturns(n)
  \/ \E v \in Variants : WrapOutput(v)
  \/ \E v, w \in Variants : CopyConstruct(v, w)
  \/ \E v, w \in Variants : MoveConstruct(v, w)
  \/ \E v, w \in Variants : CopyAssign(v, w)
  \/ \E v, w \in Variants : MoveAssign(v, w)
  \/ \E v \in Variants : Use(v)
  \/ \E v \in Variants : Destroy(v)

Spec == Init /\ [][Next]_vars

-----------------------------------------------------------------------------
(* Properties.                                                             *)

\* No two Variants share a UA_Variant, however they were copied and moved: one
\* never deletes or overwrites what another one holds.
NoAlias ==
  \A v, w \in alive : v # w /\ ptr[v] = ptr[w] => ptr[v] = None

\* What a Variant will delete is allocated, by itself: not deleted already, not
\* UA_Server's, not in the middle of an array.  A copy assignment to a Variant
\* that was moved from claims a UA_Variant that is not there: the program has
\* used a null pointer by then.
DeletesAreValid ==
  ~undefined =>
    \A v \in alive : owned[v] => ptr[v] # None /\ cell[ptr[v]].kind = "heap"

\* What a Variant points to and does not own is UA_Server's: no move loses an
\* owner.  The argument of a callback has what it was made for as long as it
\* lives; a Variant that outlives what it borrows was moved out of one.
BorrowsAreValid ==
  \A v \in alive : ~owned[v] /\ ptr[v] # None =>
    /\ cell[ptr[v]].kind \in {"lent", "returned"}
    /\ cell[ptr[v]].kind = "returned" => \A a \in alive : argument[a] # ptr[v]

\* Every UA_Variant modernopc allocated is held by a Variant that deletes it,
\* or about to be.
NoLeak ==
  \A c \in Cells : cell[c].kind = "heap" =>
    \/ \E v \in alive : owned[v] /\ ptr[v] = c
    \/ \E k \in 1..Len(output) : output[k] = c
=============================================================================
