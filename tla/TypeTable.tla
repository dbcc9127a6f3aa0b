----------------------------- MODULE TypeTable -----------------------------
(***************************************************************************)
(* What a run of the TypeGenerator promises: from a table of data types,   *)
(* each request for a type generates that type and whatever it is made of, *)
(* or, when part of that is not in the table, nothing.                     *)
(***************************************************************************)
EXTENDS Naturals, Sequences

CONSTANTS Ids, Builtin, Unknown

VARIABLES
  table,   \* the types
  wanted,  \* the type that is asked for, or none
  emitted  \* the types that are generated

tvars == <<table, wanted, emitted>>

None == <<>>

TableInit ==
  /\ table \in [Ids -> {Unknown} \cup {[kind |-> "base", fields |-> <<>>]}]
  /\ \A i \in Ids : table[i] # Unknown <=> i \in Builtin
  /\ wanted = None
  /\ emitted = {}

\* The types a type is made of.
Parts(i) == IF table[i] = Unknown \/ table[i].kind # "struct" THEN {}
            ELSE {table[i].fields[k] : k \in 1..Len(table[i].fields)}

\* A type, its parts, their parts, ...
Closure(i) ==
  {j \in Ids : \A S \in SUBSET Ids :
     (i \in S /\ \A s \in S : Parts(s) \subseteq S) => j \in S}

Define(i) ==
  /\ table[i] = Unknown /\ wanted = None /\ emitted = {}
  /\ table'[i] # Unknown
  /\ table' = [table EXCEPT ![i] = table'[i]]
  /\ UNCHANGED <<wanted, emitted>>

Request(i) ==
  /\ wanted = None /\ table[i] # Unknown
  /\ wanted' = <<i>>
  /\ UNCHANGED <<table, emitted>>

\* All that the wanted type is made of, or nothing.
Generate ==
  /\ wanted # None
  /\ LET needed == Closure(wanted[1])
     IN  emitted' = IF \A j \in needed : table[j] # Unknown
                    THEN emitted \cup {j \in needed : table[j].kind # "base"}
                    ELSE emitted
  /\ wanted' = None
  /\ UNCHANGED table

TableNext ==
  \/ \E i \in Ids : Define(i) \/ Request(i)
  \/ Generate

Spec == TableInit /\ [][TableNext]_tvars
=============================================================================
