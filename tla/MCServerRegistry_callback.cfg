SPECIFICATION Spec
CONSTANTS
  i1 = i1
  i2 = i2
  a1 = a1
  w1 = w1
  w2 = w2
  w3 = w3
  p1 = p1
  p2 = p2
  p3 = p3
  obj1 = obj1
  Ids = {i1, i2}
  MadeUp = {a1}
  Null = Null
  None = None
  Objects = {obj1}
  Wrappers = {w1, w2, w3}
  Payloads = {p1, p2, p3}
  MaxDepth = 2
  Interleave = FALSE
  Rebinding = "quiet"
SYMMETRY Addresses
INVARIANTS
  TypeOK
  NoUseAfterFree
  OneWrapperPerNode
PROPERTIES
  BindingSpec
CHECK_DEADLOCK FALSE
