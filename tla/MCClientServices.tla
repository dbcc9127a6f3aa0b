-------------------------- MODULE MCClientServices --------------------------
(* ClientServices for TLC: nodes of two nodesets that share an identifier,    *)
(* and nodes of one nodeset whose identifiers differ in their type, in their  *)
(* sign as an int, behind a NUL byte, or in one member of a Guid.             *)
EXTENDS ClientServices

CONSTANTS ua, app, ns1, ns2, a

ServerArrays ==
  {<<ua, app>>, <<ua, app, ns1>>, <<ua, app, ns1, ns2>>, <<ua, app, ns2, ns1>>}

GuidOf(d) == [data1 |-> 0, data2 |-> 0, data3 |-> 0, data4 |-> d]

Node(u, t, x) == [uri |-> u, identifier |-> <<t, x>>]

SomeNodes ==
  {Node(ns1, "NUMERIC", 1), Node(ns2, "NUMERIC", 1), Node(ns1, "NUMERIC", 7),
   Node(ns1, "STRING", <<a>>), Node(ns1, "BYTESTRING", <<a>>),
   Node(ns1, "BYTESTRING", <<a, Nul>>), Node(ns2, "GUID", GuidOf(0)),
   Node(ns2, "GUID", GuidOf(1))}
=============================================================================
