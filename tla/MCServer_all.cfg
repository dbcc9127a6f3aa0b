SPECIFICATION ServerSpec
CONSTANTS
  i1 = i1
  a1 = a1
  w1 = w1
  w2 = w2
  w3 = w3
  p1 = p1
  p2 = p2
  p3 = p3
  obj1 = obj1
  t1 = t1
  Ids = {i1}
  MadeUp = {a1}
  Null = Null
  None = None
  Objects = {obj1}
  Wrappers = {w1, w2, w3}
  Payloads = {p1, p2, p3}
  MaxDepth = 2
  Interleave = TRUE
  Rebinding = "any"
  Threads = {t1}
  MaxRuns = 1
SYMMETRY Addresses
INVARIANTS
  SettledContext
  TypedContext
  VariableContextLive
  CallbacksAreServed
PROPERTIES
  RegistrySpec
CHECK_DEADLOCK FALSE
