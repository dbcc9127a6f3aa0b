--------------------------- MODULE ClientSession ---------------------------
(***************************************************************************)
(* What a modernopc::Client keeps about the server it talks to: the        *)
(* namespace array it read when it connected, with which it turns URIs     *)
(* into namespace indices, and the custom data types it decodes with,      *)
(* whose ids carry such an index.  The server may add namespaces, and may   *)
(* restart with another array, at any time.                                *)
(***************************************************************************)
EXTENDS Naturals, Sequences

CONSTANTS
  Uris,        \* namespace URIs, of servers and of nodeset files
  Arrays,      \* namespace arrays a server may start with
  MaxConnects  \* bound on the calls of connect()

ASSUME SessionAssumption ==
  /\ Arrays \subseteq Seq(Uris)
  /\ \A a \in Arrays : \A j, k \in 1..Len(a) : a[j] = a[k] => j = k
  /\ MaxConnects \in Nat

VARIABLES
  serverNs,   \* the namespace array of the server
  channel,    \* the UA_Client is connected
  namespaces, \* Client::namespaces
  types,      \* customDataTypes of the client: nodeset URI and index of the ids
  loaded,     \* URIs of the nodesets loaded with success
  connects,   \* calls of connect() so far
  changed     \* history: the server changed its array after the first of them

vars == <<serverNs, channel, namespaces, types, loaded, connects, changed>>

TypeOK ==
  /\ serverNs \in Seq(Uris)
  /\ channel \in BOOLEAN
  /\ namespaces \in Seq(Uris)
  /\ types \subseteq [uri: Uris, index: Nat]
  /\ loaded \subseteq Uris
  /\ connects \in 0..MaxConnects
  /\ changed \in BOOLEAN

Init ==
  /\ serverNs \in Arrays
  /\ channel = FALSE
  /\ namespaces = <<>>
  /\ types = {}
  /\ loaded = {}
  /\ connects = 0
  /\ changed = FALSE

Has(a, u) == \E k \in 1..Len(a) : a[k] = u

\* resolveNamespaceUri: the first match, counted from 0.
IndexOf(a, u) ==
  (CHOOSE k \in 1..Len(a) : a[k] = u /\ \A j \in 1..(k - 1) : a[j] # u) - 1

-----------------------------------------------------------------------------
(* The client.                                                             *)

\* Mutant of Connect: the loop over the array starts at index 1.
ConnectSkipsFirst ==
  /\ connects < MaxConnects
  /\ connects' = connects + 1
  /\ channel' = TRUE
  /\ namespaces' \in {namespaces \o Tail(serverNs), namespaces}
  /\ UNCHANGED <<serverNs, types, loaded, changed>>

\* connect(): UA_Client_connect, then the namespace array is appended.  When
\* the array cannot be read it throws, connected; when the connection fails it
\* throws, and nothing changes.
Connect ==
  /\ connects < MaxConnects
  /\ connects' = connects + 1
  /\ channel' = TRUE
  /\ namespaces' \in {namespaces \o serverNs, namespaces}
  /\ UNCHANGED <<serverNs, types, loaded, changed>>

Disconnect ==
  /\ channel
  /\ channel' = FALSE
  /\ UNCHANGED <<serverNs, namespaces, types, loaded, connects, changed>>

\* Mutant of LoadNodeset: the ids keep the index the temporary server gave them.
LoadNodesetTemporary(u) ==
  /\ Has(namespaces, u)
  /\ types' = {[uri |-> u, index |-> 2]}
  /\ loaded' = loaded \cup {u}
  /\ UNCHANGED <<serverNs, channel, namespaces, connects, changed>>

\* loadNodeset(path, resolveNamespaceUri(u)).  A file that cannot be loaded and
\* a URI that cannot be resolved change nothing.
LoadNodeset(u) ==
  /\ Has(namespaces, u)
  /\ types' = {[uri |-> u, index |-> IndexOf(namespaces, u)]}
  /\ loaded' = loaded \cup {u}
  /\ UNCHANGED <<serverNs, channel, namespaces, connects, changed>>

-----------------------------------------------------------------------------
(* The server.                                                             *)

AddNamespace(u) ==
  /\ ~Has(serverNs, u)
  /\ serverNs' = Append(serverNs, u)
  /\ changed' = IF connects > 0 THEN TRUE ELSE changed
  /\ UNCHANGED <<channel, namespaces, types, loaded, connects>>

Restart ==
  /\ serverNs' \in Arrays
  /\ changed' = IF connects > 0 /\ serverNs' # serverNs THEN TRUE ELSE changed
  /\ channel' = FALSE
  /\ UNCHANGED <<namespaces, types, loaded, connects>>

-----------------------------------------------------------------------------
Next ==
  \/ Connect
  \/ Disconnect
  \/ \E u \in Uris : LoadNodeset(u)
  \/ \E u \in Uris : AddNamespace(u)
  \/ Restart

Spec == Init /\ [][Next]_vars

-----------------------------------------------------------------------------
(* Properties.                                                             *)

\* While the client is connected, the index it resolves a URI to is the one the
\* server uses for that URI.
ResolvedIndexIsServers ==
  channel => \A u \in Uris : Has(namespaces, u) =>
    Has(serverNs, u) /\ IndexOf(namespaces, u) = IndexOf(serverNs, u)

\* The client did not connect again to a server that had changed.
SameServer == connects <= 1 \/ ~changed

\* The same of a client that connects once, whatever the server does then, and of
\* one that connects again, and appends again, while the server stays the same.
ResolvesOnSameServer == SameServer => ResolvedIndexIsServers

\* While such a client is connected, the ids of its custom data types are those
\* under which the server knows these types.
TypeIdsAreServers ==
  SameServer /\ channel => \A t \in types :
    Has(serverNs, t.uri) /\ t.index = IndexOf(serverNs, t.uri)

\* findCustomDataType finds the types of every nodeset that was loaded.
LoadedTypesAreFound == \A u \in loaded : \E t \in types : t.uri = u
=============================================================================
