SPECIFICATION FairSpec
CONSTANTS
  b = b
  x = x
  y = y
  z = z
  Ids = {b, x, y, z}
  Builtin = {b}
  Classes = {b}
  Unknown = Unknown
  Small = {z}
  Rank <- Ranks
  MaxFields = 2
  MaxCalls = 2
  MaxStack = 4
INVARIANTS
  TypeOK
  DeclaredBeforeUse
  GeneratedOnce
  ConversionsFit
PROPERTIES
  TableSpec
  GenerateEnds
CHECK_DEADLOCK FALSE
