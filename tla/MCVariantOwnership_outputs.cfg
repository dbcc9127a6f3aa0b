SPECIFICATION Spec
CONSTANTS
  v1 = v1
  v2 = v2
  v3 = v3
  c1 = c1
  c2 = c2
  c3 = c3
  c4 = c4
  c5 = c5
  Variants = {v1, v2, v3}
  Cells = {c1, c2, c3, c4, c5}
  None = None
  MaxOutputs = 2
  CopiesToLent = FALSE
SYMMETRY Symmetry
INVARIANTS
  DeletesAreValid
CHECK_DEADLOCK FALSE
