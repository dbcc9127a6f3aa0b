--------------------------- MODULE ClientServices ---------------------------
(***************************************************************************)
(* What an application does with the NodeIds it gets from a Client: it     *)
(* resolves a name or browses, keeps the NodeId, and later reads, writes,   *)
(* calls or decodes with it, through the session of ClientSession and the   *)
(* conversions of NodeKeys, while the server changes.                      *)
(***************************************************************************)
EXTENDS ClientSession, NodeKeys

CONSTANTS
  Nodes,  \* the nodes of the nodesets: URI and identifier
  Nothing \* no NodeId, no call

ASSUME ServicesAssumption ==
  /\ Nodes \subseteq [uri: Uris, identifier: Identifier]
  /\ Nothing \notin [node: Nodes, id: NodeId]
  /\ Nothing \notin Nodes
  /\ \A a \in Arrays : Len(a) <= IndexModulus

VARIABLES
  held,   \* a NodeId the application holds, and the node it got it for
  reached \* history: the last read or write: the node meant, and the node found

serviceVars == <<vars, held, reached>>

ServiceTypeOK ==
  /\ TypeOK
  /\ held \in [node: Nodes, id: NodeId] \cup {Nothing}
  /\ reached \in [node: Nodes, at: Nodes \cup {Nothing}] \cup {Nothing}

ServiceInit ==
  /\ Init
  /\ held = Nothing
  /\ reached = Nothing

-----------------------------------------------------------------------------
(* The address space of the server.                                        *)

Present(n) == Has(serverNs, n.uri)

UaNodeId(n) ==
  [namespaceIndex |-> IndexOf(serverNs, n.uri), identifier |-> n.identifier]

\* UA_NodeId_equal is equality of these records.
NodesAt(id) == {n \in Nodes : Present(n) /\ UaNodeId(n) = id}

-----------------------------------------------------------------------------
(* Where NodeIds come from.                                                *)

\* resolve(UnresolvedNodeId(n.uri, text)), where text is i= or s= and the
\* identifier.  It throws for other types and for numbers std::stoi does not
\* take.
Resolve(n) ==
  /\ Has(namespaces, n.uri)
  /\ \/ n.identifier[1] = "STRING"
     \/ n.identifier[1] = "NUMERIC" /\ n.identifier[2] < IntModulus \div 2
  /\ held' = [node |-> n,
              id |-> [nsIdx |-> IndexOf(namespaces, n.uri) % IndexModulus,
                      type |-> n.identifier[1],
                      i |-> <<IF n.identifier[1] = "NUMERIC" THEN "int" ELSE "string",
                              n.identifier[2]>>]]
  /\ UNCHANGED <<vars, reached>>

\* The result of a browse that says n.  A failed one throws.
Browse(n) ==
  /\ channel /\ Present(n)
  /\ held' = [node |-> n, id |-> fromUaNodeId(UaNodeId(n))]
  /\ UNCHANGED <<vars, reached>>

-----------------------------------------------------------------------------
(* What they are used for.                                                 *)

\* read, write and call send fromNodeId of the NodeId, and throw if the server
\* has no such node.
Access ==
  /\ channel /\ held # Nothing
  /\ LET found == NodesAt(fromNodeId(held.id)) IN
     reached' = [node |-> held.node,
                 at |-> IF found = {} THEN Nothing ELSE CHOOSE n \in found : TRUE]
  /\ UNCHANGED <<vars, held>>

\* The custom data types createVariantFromJson may decode with, by the namespace
\* of their ids.
findCustomDataType(id) == {t \in types : t.index = id.namespaceIndex}

-----------------------------------------------------------------------------
ServiceNext ==
  \/ Connect /\ UNCHANGED <<held, reached>>
  \/ Disconnect /\ UNCHANGED <<held, reached>>
  \/ \E u \in Uris : LoadNodeset(u) /\ UNCHANGED <<held, reached>>
  \/ \E u \in Uris : /\ Len(serverNs) < IndexModulus
                     /\ AddNamespace(u)
                     /\ UNCHANGED <<held, reached>>
  \/ Restart /\ UNCHANGED <<held, reached>>
  \/ \E n \in Nodes : Resolve(n)
  \/ \E n \in Nodes : Browse(n)
  \/ Access

ServiceSpec == ServiceInit /\ [][ServiceNext]_serviceVars

-----------------------------------------------------------------------------
(* Properties.                                                             *)

\* A NodeId an application holds, from resolve or from browse, leads each read,
\* write and call to the node it was got for, on a server that has not changed
\* between connections; whatever namespaces were added, and however often the
\* client appended the array.  Identifiers with a NUL byte are cut, and excepted.
ServicesReachTheNode ==
  reached # Nothing /\ SameServer /\ Uncut(reached.node.identifier) =>
    reached.at = reached.node

\* While connected to such a server, a NodeId that is held is the key under which
\* a map keyed by NodeId finds exactly the node the server finds under it, be it
\* entered from another browse or resolved.
KeysAgree ==
  held # Nothing /\ channel /\ SameServer /\ Uncut(held.node.identifier) =>
    \A n \in Nodes : Present(n) /\ Uncut(n.identifier) =>
      (SameKey(held.id, fromUaNodeId(UaNodeId(n)))
         <=> n \in NodesAt(fromNodeId(held.id)))

\* What is decoded with a NodeId that is held is decoded with a data type of the
\* nodeset the node belongs to.
DecodesWithItsNodeset ==
  held # Nothing /\ channel /\ SameServer =>
    \A t \in findCustomDataType(fromNodeId(held.id)) : t.uri = held.node.uri
=============================================================================
