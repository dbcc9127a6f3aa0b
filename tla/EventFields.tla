---------------------------- MODULE EventFields ----------------------------
(***************************************************************************)
(* The fields of an event object, and what a list of them makes of an      *)
(* event: shared by EventEmission and by EventDelivery, which it           *)
(* implements.                                                             *)
(***************************************************************************)
EXTENDS Naturals, Sequences

CONSTANTS
  Events,         \* event objects of the application
  Objects,        \* nodes it sets them on
  Values,         \* other values of fields
  Paths,          \* browse paths of fields
  Resolves,       \* those that UA_Server finds below an event
  Refused,        \* <<path, value>> that UA_Server does not write
  None,           \* no value, no node
  Preset          \* "An event has been generated."

Field == [path: Paths, value: Values \cup Objects]
Content == [Paths -> Values \cup Objects \cup {Preset, None}]

\* translatePathToNodeId and UA_Server_writeValue succeed.
Accepted(f) == f.path \in Resolves /\ <<f.path, f.value>> \notin Refused

\* What an event says before its fields are written.
Initially(path) == IF path = "Message" THEN Preset ELSE None

\* The first n fields that set path.
Settings(fields, n, path) ==
  {k \in 1..n : fields[k].path = path /\ Accepted(fields[k])}

\* content is what the first n fields make of an event.
Carries(content, fields, n) ==
  \A path \in Paths :
    \/ /\ Settings(fields, n, path) = {}
       /\ content[path] = Initially(path)
    \/ \E k \in Settings(fields, n, path) :
         /\ \A j \in Settings(fields, n, path) : j <= k
         /\ content[path] = fields[k].value
=============================================================================
