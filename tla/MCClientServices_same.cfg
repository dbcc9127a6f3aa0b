SPECIFICATION ServiceSpec
CONSTANTS
  ua = ua
  app = app
  ns1 = ns1
  ns2 = ns2
  a = a
  Nul = Nul
  Nothing = Nothing
  Uris = {ua, app, ns1, ns2}
  Arrays <- ServerArrays
  MaxConnects = 2
  IntModulus = 8
  IndexModulus = 4
  Bytes = {a, Nul}
  GuidParts = {0, 1}
  Nodes <- SomeNodes
INVARIANTS
  ResolvesOnSameServer
  TypeIdsAreServers
  ServicesReachTheNode
  KeysAgree
  DecodesWithItsNodeset
