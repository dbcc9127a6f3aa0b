SPECIFICATION Spec
CONSTANTS
  ua = ua
  app = app
  ns1 = ns1
  ns2 = ns2
  Uris = {ua, app, ns1, ns2}
  Arrays <- ServerArrays
  MaxConnects = 1
INVARIANTS
  LoadedTypesAreFound
CHECK_DEADLOCK FALSE
