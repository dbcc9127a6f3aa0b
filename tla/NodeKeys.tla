------------------------------ MODULE NodeKeys ------------------------------
(***************************************************************************)
(* modernopc::NodeId, which the applications and the maps of modernopc     *)
(* know nodes by, and UA_NodeId, which open62541 knows them by: the        *)
(* conversions between them, and when each side takes two for the same.    *)
(***************************************************************************)
EXTENDS Integers, Sequences

CONSTANTS
  IntModulus,   \* 2^32: values of int and UA_UInt32
  IndexModulus, \* 2^16: values of a namespace index
  Bytes,        \* what strings and byte strings are made of
  Nul,          \* the byte at which strlen stops
  GuidParts     \* values of the members of a Guid

ASSUME KeysAssumption ==
  /\ IntModulus \in Nat \ {0} /\ IntModulus % 2 = 0
  /\ IndexModulus \in Nat \ {0}

Guid == [data1: GuidParts, data2: GuidParts, data3: GuidParts, data4: GuidParts]

\* The type of an identifier, and the member of the union that goes with it.
Identifier ==
  ({"NUMERIC"} \X (0..(IntModulus - 1)))
    \cup ({"STRING", "BYTESTRING"} \X Seq(Bytes))
    \cup ({"GUID"} \X Guid)

UA_NodeId == [namespaceIndex: 0..(IndexModulus - 1), identifier: Identifier]

\* std::variant<int, std::string, Guid>
Alternative ==
  ({"int"} \X ((-(IntModulus \div 2))..((IntModulus \div 2) - 1)))
    \cup ({"string"} \X Seq(Bytes))
    \cup ({"Guid"} \X Guid)

NodeId == [nsIdx: 0..(IndexModulus - 1),
           type: {"NUMERIC", "STRING", "GUID", "BYTESTRING"},
           i: Alternative]

-----------------------------------------------------------------------------
(* Conversions.                                                            *)

\* static_cast<int> of a UA_UInt32, and back.
ToInt(n) == IF n < IntModulus \div 2 THEN n ELSE n - IntModulus
ToUInt32(n) == n % IntModulus

CopyGuid(g) ==
  [data1 |-> g.data1, data2 |-> g.data2, data3 |-> g.data3, data4 |-> g.data4]

\* UA_STRING and UA_BYTESTRING of s.c_str(): what is before the first NUL.
CStr(s) ==
  IF \E k \in 1..Len(s) : s[k] = Nul
  THEN SubSeq(s, 1, (CHOOSE k \in 1..Len(s) : /\ s[k] = Nul
                                              /\ \A j \in 1..(k - 1) : s[j] # Nul) - 1)
  ELSE s

\* Mutant of fromUaNodeId: a byte string becomes a NodeId of the default type.
fromUaNodeIdString(id) ==
  LET x == id.identifier[2] IN
  [nsIdx |-> id.namespaceIndex,
   type |-> IF id.identifier[1] = "BYTESTRING" THEN "STRING" ELSE id.identifier[1],
   i |-> CASE id.identifier[1] = "NUMERIC" -> <<"int", ToInt(x)>>
           [] id.identifier[1] = "GUID" -> <<"Guid", CopyGuid(x)>>
           [] OTHER -> <<"string", x>>]

fromUaNodeId(id) ==
  LET x == id.identifier[2] IN
  [nsIdx |-> id.namespaceIndex,
   type |-> id.identifier[1],
   i |-> CASE id.identifier[1] = "NUMERIC" -> <<"int", ToInt(x)>>
           [] id.identifier[1] = "GUID" -> <<"Guid", CopyGuid(x)>>
           [] OTHER -> <<"string", x>>]

\* Mutant of fromNodeId: byte strings are converted as strings.
fromNodeIdString(id) ==
  [namespaceIndex |-> id.nsIdx,
   identifier |-> CASE id.type = "NUMERIC" -> <<"NUMERIC", ToUInt32(id.i[2])>>
                    [] id.type = "GUID" -> <<"GUID", CopyGuid(id.i[2])>>
                    [] OTHER -> <<"STRING", CStr(id.i[2])>>]

fromNodeId(id) ==
  [namespaceIndex |-> id.nsIdx,
   identifier |-> CASE id.type = "NUMERIC" -> <<"NUMERIC", ToUInt32(id.i[2])>>
                    [] id.type = "GUID" -> <<"GUID", CopyGuid(id.i[2])>>
                    [] OTHER -> <<id.type, CStr(id.i[2])>>]

-----------------------------------------------------------------------------
(* Keys of std::unordered_map.                                             *)

\* Without collisions: the hashes of the index and of the std::variant.
getHash(id) == <<id.nsIdx, id.i>>

\* NodeId::operator==
Equals(a, b) == a.nsIdx = b.nsIdx /\ a.type = b.type /\ a.i[2] = b.i[2]

SameKey(a, b) == getHash(a) = getHash(b) /\ Equals(a, b)

-----------------------------------------------------------------------------
\* An identifier fromNodeId does not cut.
Uncut(identifier) ==
  identifier[1] \in {"STRING", "BYTESTRING"} =>
    \A k \in 1..Len(identifier[2]) : identifier[2][k] # Nul
=============================================================================
