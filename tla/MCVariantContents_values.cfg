SPECIFICATION ContentSpec
CONSTANTS
  v1 = v1
  v2 = v2
  v3 = v3
  c1 = c1
  c2 = c2
  c3 = c3
  double = double
  struct = struct
  e1 = e1
  e2 = e2
  NaN = NaN
  Variants = {v1, v2, v3}
  Cells = {c1, c2, c3}
  None = None
  MaxOutputs = 1
  CopiesToLent = FALSE
  Types = {double, struct}
  Compared = {double}
  Elements = {e1, e2, NaN}
  Values <- SomeValues
  Gone = Gone
SYMMETRY Symmetry
INVARIANTS
  NoAlias
  DeletesAreValid
  BorrowsAreValid
  NoLeak
  EqualMeansSame
PROPERTIES
  OnlyItself
  ValueSpec
CHECK_DEADLOCK FALSE
