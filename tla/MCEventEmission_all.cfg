SPECIFICATION Spec
CONSTANTS
  e1 = e1
  o1 = o1
  o2 = o2
  v1 = v1
  v2 = v2
  Events = {e1}
  Objects = {o1, o2}
  Values = {v1, v2}
  Paths <- AllPaths
  Resolves <- Known
  Refused <- Mismatch
  None = None
  Preset = Preset
  Garbage = Garbage
  MaxFields = 4
  MaxEvents = 3
SYMMETRY Same
INVARIANTS
  TypeOK
  CarriesLatest
  NamesItsSource
  NoNodeLeft
PROPERTIES
  DeliverySpec
CHECK_DEADLOCK FALSE
