SPECIFICATION Spec
CONSTANTS
  ua = ua
  app = app
  ns1 = ns1
  ns2 = ns2
  Uris = {ua, app, ns1, ns2}
  Arrays <- ServerArrays
  MaxConnects = 2
INVARIANTS
  ResolvedIndexIsServers
