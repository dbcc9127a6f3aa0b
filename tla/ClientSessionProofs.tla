------------------------ MODULE ClientSessionProofs ------------------------
(***************************************************************************)
(* Proofs about ClientSession, for any set of URIs and any namespace       *)
(* arrays: a client that connects at most once, and one that connects      *)
(* again while its server stays the same.  Then about ClientServices, for  *)
(* any nodes: what such a client does with the NodeIds it holds.           *)
(***************************************************************************)
EXTENDS ClientServices, SequenceTheorems, TLAPS

-----------------------------------------------------------------------------
(* Searching an array.                                                     *)

\* k is where resolveNamespaceUri stops.
FirstAt(a, u, k) ==
  /\ k \in 1..Len(a)
  /\ a[k] = u
  /\ \A j \in 1..(k - 1) : a[j] # u

\* There is one such place, and IndexOf finds it.
LEMMA IndexOfFirst ==
  ASSUME NEW a \in Seq(Uris), NEW u, NEW k, FirstAt(a, u, k)
  PROVE  IndexOf(a, u) = k - 1
<1>1. \A i : FirstAt(a, u, i) => i = k
  <2> SUFFICES ASSUME NEW i, FirstAt(a, u, i) PROVE i = k
    OBVIOUS
  <2>1. i \in Nat /\ k \in Nat /\ i >= 1 /\ k >= 1
    BY LenProperties DEF FirstAt
  <2>2. ~(i < k)
    <3> SUFFICES ASSUME i < k PROVE FALSE
      OBVIOUS
    <3>1. i \in 1..(k - 1)
      BY <2>1
    <3>2. QED
      BY <3>1 DEF FirstAt
  <2>3. ~(k < i)
    <3> SUFFICES ASSUME k < i PROVE FALSE
      OBVIOUS
    <3>1. k \in 1..(i - 1)
      BY <2>1
    <3>2. QED
      BY <3>1 DEF FirstAt
  <2>4. QED
    BY <2>1, <2>2, <2>3
<1>2. (CHOOSE i \in 1..Len(a) : a[i] = u /\ \A j \in 1..(i - 1) : a[j] # u) = k
  BY <1>1 DEF FirstAt
<1>3. QED
  BY <1>2 DEF IndexOf

-----------------------------------------------------------------------------
(* The inductive invariant.                                                *)

\* The server never lists a URI twice.
DistinctInv ==
  \A j \in 1..Len(serverNs) : \A k \in 1..Len(serverNs) :
    serverNs[j] = serverNs[k] => j = k

\* Before the first connect() the client knows nothing.
FreshInv ==
  connects = 0 => namespaces = <<>> /\ types = {} /\ ~channel /\ ~changed

\* The client may rely on what it read.
Valid == ~changed \/ (channel /\ connects <= 1)

\* Every URI the client knows comes first somewhere, and, as long as it may rely
\* on what it read, where the server has it.
AgreeInv ==
  \A j \in 1..Len(namespaces) :
    \E k \in 1..Len(namespaces) :
      /\ FirstAt(namespaces, namespaces[j], k)
      /\ Valid => FirstAt(serverNs, namespaces[j], k)

\* A server that does not change tells the client everything the first time.
CoverInv ==
  ~changed /\ namespaces # <<>> =>
    \A k \in 1..Len(serverNs) :
      \E j \in 1..Len(namespaces) : namespaces[j] = serverNs[k]

TypesInv ==
  Valid => \A t \in types : FirstAt(serverNs, t.uri, t.index + 1)

IInv == /\ TypeOK
        /\ DistinctInv
        /\ FreshInv
        /\ AgreeInv
        /\ CoverInv
        /\ TypesInv

LEMMA InitInv == Init => IInv
<1> SUFFICES ASSUME Init PROVE IInv
  OBVIOUS
<1>1. TypeOK
  <2>1. serverNs \in Seq(Uris)
    BY SessionAssumption DEF Init
  <2>2. namespaces \in Seq(Uris)
    BY EmptySeq DEF Init
  <2>3. connects \in 0..MaxConnects
    BY SessionAssumption DEF Init
  <2>4. QED
    BY <2>1, <2>2, <2>3 DEF Init, TypeOK
<1>2. DistinctInv
  BY SessionAssumption DEF Init, DistinctInv
<1>3. Len(namespaces) = 0
  BY EmptySeq DEF Init
<1>4. AgreeInv
  BY <1>3 DEF AgreeInv
<1>5. QED
  BY <1>1, <1>2, <1>4 DEF Init, IInv, FreshInv, CoverInv, TypesInv

\* What comes first in an array comes first in a longer one.
LEMMA FirstInLonger ==
  ASSUME NEW a \in Seq(Uris), NEW b \in Seq(Uris), NEW u, NEW k,
         FirstAt(a, u, k)
  PROVE  FirstAt(a \o b, u, k)
<1>1. k \in 1..Len(a) /\ Len(a) \in Nat /\ Len(b) \in Nat
  BY LenProperties DEF FirstAt
<1>2. Len(a \o b) = Len(a) + Len(b)
  OBVIOUS
<1>3. \A j \in 1..Len(a) : (a \o b)[j] = a[j]
  OBVIOUS
<1>4. k \in 1..Len(a \o b)
  BY <1>1, <1>2
<1>5. (a \o b)[k] = u
  BY <1>1, <1>3 DEF FirstAt
<1>6. \A j \in 1..(k - 1) : (a \o b)[j] # u
  <2> TAKE j \in 1..(k - 1)
  <2>1. j \in 1..Len(a)
    BY <1>1
  <2>2. QED
    BY <1>3, <2>1 DEF FirstAt
<1>7. QED
  BY <1>4, <1>5, <1>6 DEF FirstAt

\* In an array without repetitions, everything comes first where it is.
LEMMA FirstIfDistinct ==
  ASSUME IInv, NEW k \in 1..Len(serverNs)
  PROVE  FirstAt(serverNs, serverNs[k], k)
<1>1. Len(serverNs) \in Nat
  BY LenProperties DEF IInv, TypeOK
<1>2. \A j \in 1..(k - 1) : serverNs[j] # serverNs[k]
  <2> TAKE j \in 1..(k - 1)
  <2>1. j \in 1..Len(serverNs) /\ j # k
    BY <1>1
  <2>2. QED
    BY <2>1 DEF IInv, DistinctInv
<1>3. QED
  BY <1>2 DEF FirstAt

-----------------------------------------------------------------------------
(* Steps.                                                                  *)

\* connect() by a client that knows nothing, or the same as before.
LEMMA ConnectInv == ASSUME IInv, Connect PROVE IInv'
<1> USE SessionAssumption DEF IInv, Connect
<1>1. TypeOK'
  <2>1. namespaces \o serverNs \in Seq(Uris)
    BY DEF TypeOK
  <2>2. connects' \in 0..MaxConnects
    BY DEF TypeOK
  <2>3. QED
    BY <2>1, <2>2 DEF TypeOK
<1>2. DistinctInv'
  BY DEF DistinctInv
<1>3. FreshInv'
  BY DEF FreshInv, TypeOK
<1>4. Valid' => ~changed
  BY DEF FreshInv, TypeOK, Valid
<1>5. Len(serverNs) \in Nat /\ Len(namespaces) \in Nat
  BY LenProperties DEF TypeOK
<1>6. TypesInv'
  BY <1>4 DEF TypesInv, Valid
<1>7. CASE namespaces' = namespaces
  <2>1. AgreeInv'
    BY <1>4, <1>7 DEF AgreeInv, Valid
  <2>2. CoverInv'
    BY <1>7 DEF CoverInv
  <2> QED BY <1>1, <1>2, <1>3, <1>6, <2>1, <2>2
<1>8. CASE namespaces' = namespaces \o serverNs
  <2>1. /\ Len(namespaces') = Len(namespaces) + Len(serverNs)
        /\ \A j \in 1..Len(namespaces) : namespaces'[j] = namespaces[j]
        /\ \A k \in 1..Len(serverNs) :
             namespaces'[Len(namespaces) + k] = serverNs[k]
    BY <1>8 DEF TypeOK
  <2>2. CoverInv'
    <3> SUFFICES ASSUME NEW k \in 1..Len(serverNs)
                 PROVE  \E j \in 1..Len(namespaces') : namespaces'[j] = serverNs[k]
      BY DEF CoverInv
    <3>1. Len(namespaces) + k \in 1..Len(namespaces')
      BY <1>5, <2>1
    <3> QED BY <2>1, <3>1
  <2>3. ASSUME NEW j \in 1..Len(namespaces)
        PROVE  \E k \in 1..Len(namespaces') :
                 /\ FirstAt(namespaces', namespaces[j], k)
                 /\ Valid' => FirstAt(serverNs, namespaces[j], k)
    <3>1. PICK k \in 1..Len(namespaces) :
            /\ FirstAt(namespaces, namespaces[j], k)
            /\ Valid => FirstAt(serverNs, namespaces[j], k)
      BY DEF AgreeInv
    <3>2. FirstAt(namespaces', namespaces[j], k)
      BY <1>8, <3>1, FirstInLonger DEF TypeOK
    <3>3. k \in 1..Len(namespaces')
      BY <3>2 DEF FirstAt
    <3>4. Valid' => Valid
      BY <1>4 DEF Valid
    <3> QED BY <3>1, <3>2, <3>3, <3>4
  <2>4. ASSUME NEW m \in 1..Len(serverNs)
        PROVE  \E k \in 1..Len(namespaces') :
                 /\ FirstAt(namespaces', serverNs[m], k)
                 /\ Valid' => FirstAt(serverNs, serverNs[m], k)
    <3>1. CASE \E j \in 1..Len(namespaces) : namespaces[j] = serverNs[m]
      BY <2>3, <3>1
    <3>2. ASSUME \A j \in 1..Len(namespaces) : namespaces[j] # serverNs[m]
          PROVE  FirstAt(namespaces', serverNs[m], Len(namespaces) + m)
      <4>1. Len(namespaces) + m \in 1..Len(namespaces')
        BY <1>5, <2>1
      <4>2. ASSUME NEW i \in 1..(Len(namespaces) + m - 1)
            PROVE  namespaces'[i] # serverNs[m]
        <5>1. CASE i \in 1..Len(namespaces)
          BY <2>1, <3>2, <5>1
        <5>2. CASE i \notin 1..Len(namespaces)
          <6>1. /\ i - Len(namespaces) \in 1..Len(serverNs)
                /\ i - Len(namespaces) # m
                /\ i = Len(namespaces) + (i - Len(namespaces))
            BY <1>5, <5>2
          <6>2. namespaces'[i] = serverNs[i - Len(namespaces)]
            BY <2>1, <6>1
          <6> QED BY <6>1, <6>2 DEF DistinctInv
        <5> QED BY <5>1, <5>2
      <4> QED BY <2>1, <4>1, <4>2 DEF FirstAt
    <3>3. ASSUME \A j \in 1..Len(namespaces) : namespaces[j] # serverNs[m], Valid'
          PROVE  namespaces = <<>>
      <4>1. ~changed
        BY <1>4, <3>3
      <4> QED BY <3>3, <4>1 DEF CoverInv
    <3>4. namespaces = <<>> => Len(namespaces) + m = m
      BY <1>5, EmptySeq
    <3>5. FirstAt(serverNs, serverNs[m], m)
      BY FirstIfDistinct
    <3> QED BY <3>1, <3>2, <3>3, <3>4, <3>5 DEF FirstAt
  <2>5. AgreeInv'
    <3> SUFFICES ASSUME NEW i \in 1..Len(namespaces')
                 PROVE  \E k \in 1..Len(namespaces') :
                          /\ FirstAt(namespaces', namespaces'[i], k)
                          /\ Valid' => FirstAt(serverNs, namespaces'[i], k)
      BY DEF AgreeInv
    <3>1. CASE i \in 1..Len(namespaces)
      BY <2>1, <2>3, <3>1
    <3>2. CASE i \notin 1..Len(namespaces)
      <4>1. /\ i - Len(namespaces) \in 1..Len(serverNs)
            /\ i = Len(namespaces) + (i - Len(namespaces))
        BY <1>5, <2>1, <3>2
      <4> QED BY <2>1, <2>4, <4>1
    <3> QED BY <3>1, <3>2
  <2> QED BY <1>1, <1>2, <1>3, <1>6, <2>2, <2>5
<1> QED BY <1>7, <1>8

\* Types are loaded with an index that was valid, if the client may rely on it.
LEMMA LoadInv == ASSUME IInv, NEW u \in Uris, LoadNodeset(u) PROVE IInv'
<1> USE SessionAssumption DEF IInv, LoadNodeset
<1>1. PICK j \in 1..Len(namespaces) : namespaces[j] = u
  BY DEF Has
<1>2. namespaces # <<>>
  BY <1>1, EmptySeq
<1>3. FreshInv'
  BY <1>2 DEF FreshInv
<1>4. DistinctInv' /\ AgreeInv' /\ CoverInv'
  BY DEF DistinctInv, AgreeInv, CoverInv, Valid
<1>5. PICK k \in 1..Len(namespaces) : /\ FirstAt(namespaces, u, k)
                                      /\ Valid => FirstAt(serverNs, u, k)
  BY <1>1 DEF AgreeInv
<1>6. IndexOf(namespaces, u) = k - 1
  BY <1>5, IndexOfFirst DEF TypeOK
<1>7. k \in Nat /\ k >= 1
  BY LenProperties DEF TypeOK
<1>8. TypesInv'
  BY <1>5, <1>6, <1>7 DEF TypesInv, Valid
<1>9. TypeOK'
  <2>1. types' \subseteq [uri: Uris, index: Nat]
    BY <1>6, <1>7
  <2>2. QED
    BY <2>1 DEF TypeOK
<1>10. QED
  BY <1>3, <1>4, <1>8, <1>9

\* The server grows at the end.
LEMMA AddInv == ASSUME IInv, NEW u \in Uris, AddNamespace(u) PROVE IInv'
<1>1. /\ serverNs' = serverNs \o <<u>>
      /\ serverNs' \in Seq(Uris)
      /\ Len(serverNs') = Len(serverNs) + 1
      /\ \A k \in 1..Len(serverNs) : serverNs'[k] = serverNs[k]
      /\ serverNs'[Len(serverNs) + 1] = u
  <2>1. serverNs \in Seq(Uris) /\ serverNs' = Append(serverNs, u)
    BY DEF IInv, TypeOK, AddNamespace
  <2> QED BY <2>1
<1> USE DEF IInv, AddNamespace
<1>2. TypeOK'
  BY <1>1 DEF TypeOK
<1>3. DistinctInv'
  <2> SUFFICES ASSUME NEW j \in 1..Len(serverNs'), NEW k \in 1..Len(serverNs'),
                      serverNs'[j] = serverNs'[k]
               PROVE  j = k
    BY DEF DistinctInv
  <2>1. Len(serverNs) \in Nat
    BY LenProperties DEF TypeOK
  <2>2. \A i \in 1..Len(serverNs) : serverNs'[i] # u
    BY <1>1 DEF Has
  <2>3. /\ j \in 1..Len(serverNs) \/ j = Len(serverNs) + 1
        /\ k \in 1..Len(serverNs) \/ k = Len(serverNs) + 1
    BY <1>1, <2>1
  <2>4. CASE j \in 1..Len(serverNs) /\ k \in 1..Len(serverNs)
    BY <1>1, <2>4 DEF DistinctInv
  <2>5. QED
    BY <1>1, <2>2, <2>3, <2>4
<1>4. FreshInv'
  BY DEF FreshInv
<1>5. CoverInv'
  <2>1. connects = 0 => namespaces = <<>>
    BY DEF FreshInv
  <2>2. connects # 0 => connects > 0
    BY SessionAssumption DEF TypeOK
  <2>3. connects # 0 => changed'
    BY <2>2
  <2> QED BY <2>1, <2>3 DEF CoverInv
<1>6. ASSUME NEW v, NEW k, FirstAt(serverNs, v, k) PROVE FirstAt(serverNs', v, k)
  <2>1. serverNs \in Seq(Uris) /\ <<u>> \in Seq(Uris)
    BY DEF TypeOK
  <2>2. FirstAt(serverNs \o <<u>>, v, k)
    BY <1>6, <2>1, FirstInLonger
  <2>3. QED
    BY <1>1, <2>2
<1>7. AgreeInv'
  BY <1>6 DEF AgreeInv, Valid
<1>8. TypesInv'
  BY <1>6 DEF TypesInv, Valid
<1>9. QED
  BY <1>2, <1>3, <1>4, <1>5, <1>7, <1>8

LEMMA RestartInv == ASSUME IInv, Restart PROVE IInv'
<1> USE DEF IInv, Restart
<1>1. serverNs' \in Seq(Uris)
  BY SessionAssumption
<1>2. TypeOK'
  BY <1>1 DEF TypeOK
<1>3. DistinctInv'
  BY SessionAssumption DEF DistinctInv
<1>4. FreshInv'
  BY DEF FreshInv
<1>5. CASE connects = 0
  BY <1>2, <1>3, <1>4, <1>5, EmptySeq DEF FreshInv, AgreeInv, CoverInv, TypesInv
<1>6. CASE connects # 0 /\ serverNs' = serverNs
  <2>1. Valid' => Valid
    BY <1>6 DEF Valid
  <2> QED
    BY <1>2, <1>3, <1>4, <1>6, <2>1 DEF AgreeInv, CoverInv, TypesInv
<1>7. CASE connects # 0 /\ serverNs' # serverNs
  <2>1. changed' /\ ~Valid'
    BY <1>7 DEF Valid, TypeOK
  <2> QED
    BY <1>2, <1>3, <1>4, <2>1 DEF AgreeInv, CoverInv, TypesInv
<1>8. QED
  BY <1>5, <1>6, <1>7

LEMMA StepInv == ASSUME IInv, [Next]_vars PROVE IInv'
<1>1. CASE Connect
  BY <1>1, ConnectInv
<1>2. CASE Disconnect
  <2> USE <1>2 DEF IInv, Disconnect
  <2>1. TypeOK' /\ DistinctInv' /\ FreshInv' /\ CoverInv'
    BY DEF TypeOK, DistinctInv, FreshInv, CoverInv
  <2>2. AgreeInv' /\ TypesInv'
    BY DEF AgreeInv, TypesInv, Valid
  <2>3. QED
    BY <2>1, <2>2
<1>3. ASSUME NEW u \in Uris, LoadNodeset(u) PROVE IInv'
  BY <1>3, LoadInv
<1>4. ASSUME NEW u \in Uris, AddNamespace(u) PROVE IInv'
  BY <1>4, AddInv
<1>5. CASE Restart
  BY <1>5, RestartInv
<1>6. CASE UNCHANGED vars
  <2> USE <1>6 DEF IInv, vars
  <2>1. TypeOK' /\ DistinctInv' /\ FreshInv'
    BY DEF TypeOK, DistinctInv, FreshInv
  <2>2. AgreeInv'
    BY DEF AgreeInv, Valid, FirstAt
  <2>3. CoverInv' /\ TypesInv'
    BY DEF CoverInv, TypesInv, Valid, FirstAt
  <2>4. QED
    BY <2>1, <2>2, <2>3
<1>7. QED
  BY <1>1, <1>2, <1>3, <1>4, <1>5, <1>6 DEF Next

LEMMA Invariance == Spec => []IInv
<1>1. Init => IInv
  BY InitInv
<1>2. IInv /\ [Next]_vars => IInv'
  BY StepInv
<1>3. QED
  BY <1>1, <1>2, PTL DEF Spec

-----------------------------------------------------------------------------
(* The theorems.                                                           *)

\* resolveNamespaceUri of a client that connects once, or connects
\* again while its server stays the same, answers with the server's index.
THEOREM ResolvesAsServer == Spec => []ResolvesOnSameServer
<1>1. IInv => ResolvesOnSameServer
  <2> SUFFICES ASSUME IInv, SameServer, channel, NEW u \in Uris, Has(namespaces, u)
               PROVE  Has(serverNs, u) /\ IndexOf(namespaces, u) = IndexOf(serverNs, u)
    BY DEF ResolvesOnSameServer, ResolvedIndexIsServers
  <2>1. PICK k \in 1..Len(namespaces) : /\ FirstAt(namespaces, u, k)
                                        /\ FirstAt(serverNs, u, k)
    BY DEF IInv, AgreeInv, Valid, SameServer, Has
  <2>2. Has(serverNs, u)
    BY <2>1 DEF Has, FirstAt
  <2>3. IndexOf(namespaces, u) = k - 1 /\ IndexOf(serverNs, u) = k - 1
    BY <2>1, IndexOfFirst DEF IInv, TypeOK
  <2>4. QED
    BY <2>2, <2>3
<1>2. QED
  BY <1>1, Invariance, PTL

\* The ids loadNodeset gives its data types, for such a client, are the ones the
\* server uses while the client is connected.
THEOREM TypesAreServers == Spec => []TypeIdsAreServers
<1>1. IInv => TypeIdsAreServers
  <2> SUFFICES ASSUME IInv, SameServer, channel, NEW t \in types
               PROVE  Has(serverNs, t.uri) /\ t.index = IndexOf(serverNs, t.uri)
    BY DEF TypeIdsAreServers
  <2>1. FirstAt(serverNs, t.uri, t.index + 1)
    BY DEF IInv, TypesInv, Valid, SameServer
  <2>2. t.index \in Nat
    BY DEF IInv, TypeOK
  <2>3. IndexOf(serverNs, t.uri) = (t.index + 1) - 1
    BY <2>1, IndexOfFirst DEF IInv, TypeOK
  <2>4. Has(serverNs, t.uri)
    BY <2>1 DEF Has, FirstAt
  <2>5. QED
    BY <2>2, <2>3, <2>4
<1>2. QED
  BY <1>1, Invariance, PTL

-----------------------------------------------------------------------------
(* NodeIds.                                                                *)

\* The cast of an identifier to int and back.
LEMMA IntRoundTrip ==
  ASSUME NEW n \in 0..(IntModulus - 1)
  PROVE  ToUInt32(ToInt(n)) = n
<1>1. IntModulus \in Nat /\ IntModulus > 0 /\ n \in Nat /\ n < IntModulus
  BY KeysAssumption
<1>2. n % IntModulus = n
  BY <1>1
<1>3. (n - IntModulus) % IntModulus = n
  BY <1>1
<1>4. QED
  BY <1>2, <1>3 DEF ToUInt32, ToInt

\* The cast tells numbers apart.
LEMMA IntInjective ==
  ASSUME NEW m \in 0..(IntModulus - 1), NEW n \in 0..(IntModulus - 1),
         ToInt(m) = ToInt(n)
  PROVE  m = n
BY IntRoundTrip

\* A server finds under a converted NodeId what it gave the NodeId for.
THEOREM ConvertsBack ==
  ASSUME NEW id \in UA_NodeId, Uncut(id.identifier)
  PROVE  fromNodeId(fromUaNodeId(id)) = id
<1> DEFINE k == id.identifier[1]
           x == id.identifier[2]
<1>1. /\ id.identifier = <<k, x>>
      /\ id = [namespaceIndex |-> id.namespaceIndex, identifier |-> <<k, x>>]
  BY DEF UA_NodeId, Identifier
<1>2. CASE k = "NUMERIC"
  <2>1. x \in 0..(IntModulus - 1)
    BY <1>2 DEF UA_NodeId, Identifier
  <2>2. ToUInt32(ToInt(x)) = x
    BY <2>1, IntRoundTrip
  <2> QED BY <1>1, <1>2, <2>2 DEF fromNodeId, fromUaNodeId
<1>3. CASE k = "GUID"
  <2>1. x \in Guid
    BY <1>3 DEF UA_NodeId, Identifier
  <2>2. CopyGuid(CopyGuid(x)) = x
    BY <2>1 DEF CopyGuid, Guid
  <2> QED BY <1>1, <1>3, <2>2 DEF fromNodeId, fromUaNodeId
<1>4. CASE k \in {"STRING", "BYTESTRING"}
  <2>1. CStr(x) = x
    BY <1>4 DEF Uncut, CStr
  <2> QED BY <1>1, <1>4, <2>1 DEF fromNodeId, fromUaNodeId
<1>5. k \in {"NUMERIC", "GUID", "STRING", "BYTESTRING"}
  BY DEF UA_NodeId, Identifier
<1>6. QED
  BY <1>2, <1>3, <1>4, <1>5

\* Maps keyed by NodeId tell apart what servers tell apart: hash and operator==
\* of converted ids agree exactly for the same id.
THEOREM KeysTellApart ==
  ASSUME NEW a \in UA_NodeId, NEW b \in UA_NodeId
  PROVE  SameKey(fromUaNodeId(a), fromUaNodeId(b)) <=> a = b
<1> SUFFICES ASSUME SameKey(fromUaNodeId(a), fromUaNodeId(b)) PROVE a = b
  BY DEF SameKey, Equals
<1> DEFINE k == a.identifier[1]
<1>1. /\ a.namespaceIndex = b.namespaceIndex
      /\ k = b.identifier[1]
      /\ fromUaNodeId(a).i[2] = fromUaNodeId(b).i[2]
  BY DEF SameKey, Equals, fromUaNodeId
<1>2. a.identifier[2] = b.identifier[2]
  <2>1. CASE k = "NUMERIC"
    <3>1. /\ a.identifier[2] \in 0..(IntModulus - 1)
          /\ b.identifier[2] \in 0..(IntModulus - 1)
      BY <1>1, <2>1 DEF UA_NodeId, Identifier
    <3>2. ToInt(a.identifier[2]) = ToInt(b.identifier[2])
      BY <1>1, <2>1 DEF fromUaNodeId
    <3> QED BY <3>1, <3>2, IntInjective
  <2>2. CASE k = "GUID"
    <3>1. a.identifier[2] \in Guid /\ b.identifier[2] \in Guid
      BY <1>1, <2>2 DEF UA_NodeId, Identifier
    <3>2. CopyGuid(a.identifier[2]) = CopyGuid(b.identifier[2])
      BY <1>1, <2>2 DEF fromUaNodeId
    <3> QED BY <3>1, <3>2 DEF CopyGuid, Guid
  <2>3. CASE k \notin {"NUMERIC", "GUID"}
    BY <1>1, <2>3 DEF fromUaNodeId
  <2> QED BY <2>1, <2>2, <2>3
<1>3. QED
  BY <1>1, <1>2 DEF UA_NodeId, Identifier

-----------------------------------------------------------------------------
(* The inductive invariant of the services.                                *)

IdAt(index, n) == [namespaceIndex |-> index, identifier |-> n.identifier]

\* Every index of the server fits into a NodeId.
FitsInv == Len(serverNs) <= IndexModulus

\* A NodeId that is held has the identifier of its node and, as long as the
\* client may rely on what it read, the index.
HeldInv ==
  held # Nothing =>
    /\ held.node \in Nodes
    /\ connects # 0
    /\ \E index \in 0..(IndexModulus - 1) :
         /\ held.id = fromUaNodeId(IdAt(index, held.node))
         /\ Valid => FirstAt(serverNs, held.node.uri, index + 1)

SInv == IInv /\ FitsInv /\ HeldInv /\ ServicesReachTheNode

\* The id of a node, at whatever index, is one that can be converted.
LEMMA IdAtType ==
  ASSUME NEW n \in Nodes, NEW index \in 0..(IndexModulus - 1)
  PROVE  IdAt(index, n) \in UA_NodeId
BY ServicesAssumption DEF IdAt, UA_NodeId

\* The server knows a node it has under the first place of its URI.
LEMMA UaNodeIdAt ==
  ASSUME SInv, NEW n \in Nodes, Present(n)
  PROVE  \E index \in 0..(IndexModulus - 1) :
           /\ UaNodeId(n) = IdAt(index, n)
           /\ FirstAt(serverNs, n.uri, index + 1)
<1>1. PICK k \in 1..Len(serverNs) : serverNs[k] = n.uri
  BY DEF Present, Has
<1>2. FirstAt(serverNs, n.uri, k)
  BY <1>1, FirstIfDistinct DEF SInv
<1>3. IndexOf(serverNs, n.uri) = k - 1
  BY <1>2, IndexOfFirst DEF SInv, IInv, TypeOK
<1>4. Len(serverNs) \in Nat
  BY LenProperties DEF SInv, IInv, TypeOK
<1>5. k - 1 \in 0..(IndexModulus - 1) /\ (k - 1) + 1 = k
  BY <1>1, <1>4, KeysAssumption DEF SInv, FitsInv
<1>6. QED
  BY <1>2, <1>3, <1>5 DEF UaNodeId, IdAt

\* While the client may rely on what it read, a NodeId that is held is the id
\* under which the server knows its node.
LEMMA HeldIsServers ==
  ASSUME SInv, held # Nothing, Valid
  PROVE  /\ Present(held.node)
         /\ UaNodeId(held.node) \in UA_NodeId
         /\ held.id = fromUaNodeId(UaNodeId(held.node))
<1>1. PICK index \in 0..(IndexModulus - 1) :
        /\ held.id = fromUaNodeId(IdAt(index, held.node))
        /\ FirstAt(serverNs, held.node.uri, index + 1)
  BY DEF SInv, HeldInv
<1>2. IndexOf(serverNs, held.node.uri) = (index + 1) - 1
  BY <1>1, IndexOfFirst DEF SInv, IInv, TypeOK
<1>3. index \in Int
  BY KeysAssumption
<1>4. UaNodeId(held.node) = IdAt(index, held.node)
  BY <1>2, <1>3 DEF UaNodeId, IdAt
<1>5. QED
  BY <1>1, <1>4, IdAtType DEF SInv, HeldInv, Present, Has, FirstAt

\* Two nodes with one id are one node.
LEMMA IdsAreUnique ==
  ASSUME SInv, NEW m \in Nodes, NEW n \in Nodes, Present(m), Present(n),
         UaNodeId(m) = UaNodeId(n)
  PROVE  m = n
<1>1. PICK j \in 0..(IndexModulus - 1) :
        UaNodeId(m) = IdAt(j, m) /\ FirstAt(serverNs, m.uri, j + 1)
  BY UaNodeIdAt
<1>2. PICK k \in 0..(IndexModulus - 1) :
        UaNodeId(n) = IdAt(k, n) /\ FirstAt(serverNs, n.uri, k + 1)
  BY UaNodeIdAt
<1>3. j = k /\ m.identifier = n.identifier
  <2>1. IdAt(j, m) = IdAt(k, n)
    BY <1>1, <1>2
  <2> QED BY <2>1 DEF IdAt
<1>4. m.uri = n.uri
  BY <1>1, <1>2, <1>3 DEF FirstAt
<1>5. QED
  BY <1>3, <1>4, ServicesAssumption

\* Under a NodeId that is held the server finds its node.
LEMMA FindsHeld ==
  ASSUME SInv, held # Nothing, Valid, Uncut(held.node.identifier)
  PROVE  /\ fromNodeId(held.id) = UaNodeId(held.node)
         /\ NodesAt(fromNodeId(held.id)) = {held.node}
<1>1. held.node \in Nodes
  BY DEF SInv, HeldInv
<1>2. UaNodeId(held.node).identifier = held.node.identifier
  BY DEF UaNodeId
<1>3. fromNodeId(held.id) = UaNodeId(held.node)
  BY <1>2, HeldIsServers, ConvertsBack
<1>4. QED
  BY <1>1, <1>3, HeldIsServers, IdsAreUnique DEF NodesAt

-----------------------------------------------------------------------------
(* Steps.                                                                  *)

LEMMA ServiceInitInv == ServiceInit => SInv
<1> SUFFICES ASSUME ServiceInit PROVE SInv
  OBVIOUS
<1>1. IInv
  BY InitInv DEF ServiceInit
<1>2. FitsInv
  BY ServicesAssumption DEF ServiceInit, Init, FitsInv
<1>3. QED
  BY <1>1, <1>2 DEF ServiceInit, SInv, HeldInv, ServicesReachTheNode

\* A first place the client may rely on stays where it is.
LEMMA PlaceStays ==
  ASSUME IInv, [Next]_vars, connects # 0, Valid'
  PROVE  /\ Valid
         /\ connects' # 0
         /\ \A u, k : FirstAt(serverNs, u, k) => FirstAt(serverNs', u, k)
<1> USE DEF IInv
<1>0. connects \in Nat /\ connects > 0
  BY SessionAssumption DEF TypeOK
<1>1. CASE Connect
  BY <1>0, <1>1 DEF Connect, Valid, FirstAt
<1>2. CASE Disconnect
  BY <1>2 DEF Disconnect, Valid, FirstAt
<1>3. ASSUME NEW u \in Uris, LoadNodeset(u)
      PROVE  Valid /\ connects' = connects /\ serverNs' = serverNs
  BY <1>3 DEF LoadNodeset, Valid
<1>4. ASSUME NEW v \in Uris, AddNamespace(v)
      PROVE  /\ Valid /\ connects' = connects
             /\ \A u, k : FirstAt(serverNs, u, k) => FirstAt(serverNs', u, k)
  <2>1. Valid /\ connects' = connects
    BY <1>0, <1>4 DEF AddNamespace, Valid
  <2>2. /\ serverNs \in Seq(Uris) /\ <<v>> \in Seq(Uris)
        /\ serverNs' = serverNs \o <<v>>
    BY <1>4 DEF TypeOK, AddNamespace
  <2> QED BY <2>1, <2>2, FirstInLonger
<1>5. CASE Restart
  BY <1>0, <1>5 DEF Restart, Valid, FirstAt
<1>6. CASE UNCHANGED vars
  BY <1>6 DEF vars, Valid, FirstAt
<1>7. QED
  BY <1>1, <1>2, <1>3, <1>4, <1>5, <1>6 DEF Next, FirstAt

\* A client that did not connect again to a changed server did not before.
LEMMA SameServerBefore ==
  ASSUME IInv, [Next]_vars, SameServer'
  PROVE  SameServer
<1> USE DEF IInv, TypeOK, SameServer
<1>1. CASE Connect
  BY <1>1, SessionAssumption DEF Connect
<1>2. CASE Disconnect
  BY <1>2 DEF Disconnect
<1>3. ASSUME NEW u \in Uris, LoadNodeset(u) PROVE SameServer
  BY <1>3 DEF LoadNodeset
<1>4. ASSUME NEW u \in Uris, AddNamespace(u) PROVE SameServer
  BY <1>4 DEF AddNamespace
<1>5. CASE Restart
  BY <1>5 DEF Restart
<1>6. CASE UNCHANGED vars
  BY <1>6 DEF vars
<1>7. QED
  BY <1>1, <1>2, <1>3, <1>4, <1>5, <1>6 DEF Next

\* Steps of the session and of the server leave what is held as good as it was.
LEMMA SessionStepInv ==
  ASSUME SInv, [Next]_vars, FitsInv', UNCHANGED <<held, reached>>
  PROVE  SInv'
<1>1. IInv'
  BY StepInv DEF SInv
<1>2. HeldInv'
  <2> SUFFICES ASSUME held # Nothing PROVE HeldInv'
    BY DEF HeldInv
  <2>1. /\ held.node \in Nodes /\ connects # 0
        /\ connects' # 0
    <3>1. held.node \in Nodes /\ connects # 0
      BY DEF SInv, HeldInv
    <3>2. connects' # 0
      <4>1. connects \in Nat /\ connects # 0
        BY <3>1, SessionAssumption DEF SInv, IInv, TypeOK
      <4>2. connects' = connects \/ connects' = connects + 1
        BY DEF Next, vars, Connect, Disconnect, LoadNodeset, AddNamespace, Restart
      <4> QED BY <4>1, <4>2
    <3> QED BY <3>1, <3>2
  <2>2. PICK index \in 0..(IndexModulus - 1) :
          /\ held.id = fromUaNodeId(IdAt(index, held.node))
          /\ Valid => FirstAt(serverNs, held.node.uri, index + 1)
    BY DEF SInv, HeldInv
  <2>3. Valid' => FirstAt(serverNs', held.node.uri, index + 1)
    BY <2>1, <2>2, PlaceStays DEF SInv
  <2> QED BY <2>1, <2>2, <2>3 DEF HeldInv, IdAt
<1>3. ServicesReachTheNode'
  BY SameServerBefore DEF SInv, ServicesReachTheNode
<1>4. QED
  BY <1>1, <1>2, <1>3 DEF SInv

\* resolve() answers with what a browse would answer with.
LEMMA ResolveInv == ASSUME SInv, NEW n \in Nodes, Resolve(n) PROVE SInv'
<1> USE DEF Resolve
<1>1. IInv' /\ FitsInv' /\ ServicesReachTheNode'
  <2>1. IInv' BY StepInv DEF SInv
  <2>2. FitsInv' BY DEF SInv, FitsInv, vars
  <2>3. ServicesReachTheNode'
    BY DEF SInv, ServicesReachTheNode, SameServer, vars
  <2> QED BY <2>1, <2>2, <2>3
<1>2. PICK j \in 1..Len(namespaces) : namespaces[j] = n.uri
  BY DEF Has
<1>3. PICK k \in 1..Len(namespaces) : /\ FirstAt(namespaces, n.uri, k)
                                      /\ Valid => FirstAt(serverNs, n.uri, k)
  BY <1>2 DEF SInv, IInv, AgreeInv
<1>4. IndexOf(namespaces, n.uri) = k - 1
  BY <1>3, IndexOfFirst DEF SInv, IInv, TypeOK
<1>5. k \in Nat /\ k >= 1 /\ Len(serverNs) \in Nat
  BY LenProperties DEF SInv, IInv, TypeOK
<1> DEFINE index == (k - 1) % IndexModulus
<1>6. index \in 0..(IndexModulus - 1)
  BY <1>5, KeysAssumption
<1>7. Valid => FirstAt(serverNs, n.uri, index + 1)
  <2> SUFFICES ASSUME Valid PROVE FirstAt(serverNs, n.uri, index + 1)
    OBVIOUS
  <2>1. k - 1 \in 0..(IndexModulus - 1)
    BY <1>3, <1>5, KeysAssumption DEF SInv, FitsInv, FirstAt
  <2>2. index = k - 1
    BY <2>1, KeysAssumption
  <2> QED BY <1>3, <1>5, <2>2
<1>8. /\ held'.node = n
      /\ held'.id = fromUaNodeId(IdAt(index, n))
  <2>1. CASE n.identifier[1] = "STRING"
    BY <1>4, <2>1 DEF fromUaNodeId, IdAt
  <2>2. CASE n.identifier[1] = "NUMERIC" /\ n.identifier[2] < IntModulus \div 2
    BY <1>4, <2>2 DEF fromUaNodeId, IdAt, ToInt
  <2> QED BY <2>1, <2>2
<1>9. connects # 0
  <2>1. namespaces # <<>>
    BY <1>2, EmptySeq
  <2> QED BY <2>1 DEF SInv, IInv, FreshInv
<1>10. HeldInv'
  BY <1>6, <1>7, <1>8, <1>9 DEF HeldInv, vars, Valid, FirstAt, IdAt
<1>11. QED
  BY <1>1, <1>10 DEF SInv

LEMMA BrowseInv == ASSUME SInv, NEW n \in Nodes, Browse(n) PROVE SInv'
<1> USE DEF Browse
<1>1. IInv' /\ FitsInv' /\ ServicesReachTheNode'
  <2>1. IInv' BY StepInv DEF SInv
  <2>2. FitsInv' BY DEF SInv, FitsInv, vars
  <2>3. ServicesReachTheNode'
    BY DEF SInv, ServicesReachTheNode, SameServer, vars
  <2> QED BY <2>1, <2>2, <2>3
<1>2. PICK index \in 0..(IndexModulus - 1) :
        UaNodeId(n) = IdAt(index, n) /\ FirstAt(serverNs, n.uri, index + 1)
  BY UaNodeIdAt
<1>3. connects # 0
  BY DEF SInv, IInv, FreshInv
<1>4. held'.node = n /\ held'.id = fromUaNodeId(IdAt(index, n))
  BY <1>2
<1>5. HeldInv'
  BY <1>2, <1>3, <1>4 DEF HeldInv, vars, FirstAt, IdAt
<1>6. QED
  BY <1>1, <1>5 DEF SInv

LEMMA AccessInv == ASSUME SInv, Access PROVE SInv'
<1> USE DEF Access
<1>1. IInv' /\ FitsInv'
  BY StepInv DEF SInv, FitsInv, vars
<1>2. HeldInv'
  BY DEF SInv, HeldInv, vars, Valid, FirstAt
<1>3. ServicesReachTheNode'
  <2> SUFFICES ASSUME SameServer, Uncut(held.node.identifier)
               PROVE  reached'.at = held.node
    BY DEF ServicesReachTheNode, SameServer, vars
  <2>1. Valid
    BY DEF SameServer, Valid
  <2>2. NodesAt(fromNodeId(held.id)) = {held.node}
    BY <2>1, FindsHeld
  <2>3. (CHOOSE n \in {held.node} : TRUE) = held.node
    OBVIOUS
  <2> QED BY <2>2, <2>3
<1>4. QED
  BY <1>1, <1>2, <1>3 DEF SInv

LEMMA ServiceStepInv == SInv /\ [ServiceNext]_serviceVars => SInv'
<1> SUFFICES ASSUME SInv, [ServiceNext]_serviceVars PROVE SInv'
  OBVIOUS
<1>1. ASSUME Connect \/ Disconnect \/ (\E u \in Uris : LoadNodeset(u)),
             UNCHANGED <<held, reached>>
      PROVE  SInv'
  <2>1. FitsInv'
    BY <1>1 DEF SInv, FitsInv, Connect, Disconnect, LoadNodeset
  <2> QED BY <1>1, <2>1, SessionStepInv DEF Next
<1>2. ASSUME NEW u \in Uris, Len(serverNs) < IndexModulus, AddNamespace(u),
             UNCHANGED <<held, reached>>
      PROVE  SInv'
  <2>1. serverNs \in Seq(Uris) /\ serverNs' = Append(serverNs, u)
    BY <1>2 DEF SInv, IInv, TypeOK, AddNamespace
  <2>2. FitsInv'
    BY <1>2, <2>1, KeysAssumption DEF FitsInv
  <2> QED BY <1>2, <2>2, SessionStepInv DEF Next
<1>3. ASSUME Restart, UNCHANGED <<held, reached>> PROVE SInv'
  <2>1. FitsInv'
    BY <1>3, ServicesAssumption DEF FitsInv, Restart
  <2> QED BY <1>3, <2>1, SessionStepInv DEF Next
<1>4. ASSUME NEW n \in Nodes, Resolve(n) PROVE SInv'
  BY <1>4, ResolveInv
<1>5. ASSUME NEW n \in Nodes, Browse(n) PROVE SInv'
  BY <1>5, BrowseInv
<1>6. CASE Access
  BY <1>6, AccessInv
<1>7. CASE UNCHANGED serviceVars
  <2>1. UNCHANGED vars /\ UNCHANGED <<held, reached>>
    BY <1>7 DEF serviceVars
  <2>2. FitsInv'
    BY <2>1 DEF SInv, FitsInv, vars
  <2> QED BY <2>1, <2>2, SessionStepInv
<1>8. QED
  BY <1>1, <1>2, <1>3, <1>4, <1>5, <1>6, <1>7 DEF ServiceNext

LEMMA ServiceInvariance == ServiceSpec => []SInv
BY ServiceInitInv, ServiceStepInv, PTL DEF ServiceSpec

-----------------------------------------------------------------------------
(* The theorems about the services.                                        *)

\* The services are a use of the session: what is proved of it holds for them.
THEOREM ServicesKeepSession == ServiceSpec => Spec
<1>1. ServiceInit => Init
  BY DEF ServiceInit
<1>2. [ServiceNext]_serviceVars => [Next]_vars
  BY DEF ServiceNext, Next, serviceVars, Resolve, Browse, Access
<1>3. QED
  BY <1>1, <1>2, PTL DEF ServiceSpec, Spec

\* Reads, writes and calls reach the node their NodeId was got for.
THEOREM ServicesReach == ServiceSpec => []ServicesReachTheNode
<1>1. SInv => ServicesReachTheNode
  BY DEF SInv
<1>2. QED
  BY <1>1, ServiceInvariance, PTL

\* A map keyed by NodeId and the server agree on what a held NodeId stands for.
THEOREM MapsAgreeWithServer == ServiceSpec => []KeysAgree
<1>1. SInv => KeysAgree
  <2> SUFFICES ASSUME SInv, held # Nothing, channel, SameServer,
                      Uncut(held.node.identifier),
                      NEW n \in Nodes, Present(n)
               PROVE  SameKey(held.id, fromUaNodeId(UaNodeId(n)))
                        <=> n \in NodesAt(fromNodeId(held.id))
    BY DEF KeysAgree
  <2>1. Valid
    BY DEF SameServer, Valid
  <2>2. UaNodeId(n) \in UA_NodeId
    BY UaNodeIdAt, IdAtType
  <2>3. SameKey(held.id, fromUaNodeId(UaNodeId(n)))
          <=> UaNodeId(held.node) = UaNodeId(n)
    BY <2>1, <2>2, HeldIsServers, KeysTellApart
  <2>4. fromNodeId(held.id) = UaNodeId(held.node)
    BY <2>1, FindsHeld
  <2> QED BY <2>3, <2>4 DEF NodesAt
<1>2. QED
  BY <1>1, ServiceInvariance, PTL

\* The data types found by the index of a held NodeId are of its nodeset.
THEOREM DecodesRight == ServiceSpec => []DecodesWithItsNodeset
<1>1. SInv => DecodesWithItsNodeset
  <2> SUFFICES ASSUME SInv, held # Nothing, channel, SameServer,
                      NEW t \in findCustomDataType(fromNodeId(held.id))
               PROVE  t.uri = held.node.uri
    BY DEF DecodesWithItsNodeset
  <2>1. Valid
    BY DEF SameServer, Valid
  <2>2. PICK index \in 0..(IndexModulus - 1) :
          /\ held.id = fromUaNodeId(IdAt(index, held.node))
          /\ FirstAt(serverNs, held.node.uri, index + 1)
    BY <2>1 DEF SInv, HeldInv
  <2>3. t \in types /\ t.index = index
    BY <2>2 DEF findCustomDataType, fromNodeId, fromUaNodeId, IdAt
  <2>4. FirstAt(serverNs, t.uri, t.index + 1)
    BY <2>1, <2>3 DEF SInv, IInv, TypesInv
  <2> QED BY <2>2, <2>3, <2>4 DEF FirstAt
<1>2. QED
  BY <1>1, ServiceInvariance, PTL
=============================================================================
