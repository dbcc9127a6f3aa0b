SPECIFICATION Spec
CONSTANTS
  m1 = m1
  m2 = m2
  o1 = o1
  o2 = o2
  Device = Device
  Other = Other
  Int = Int
  String = String
  d1 = d1
  d2 = d2
  Methods = {m1, m2}
  Objects = {o1, o2}
  Classes = {Device, Other}
  ContextOf <- SomeContexts
  Types = {Int, String}
  Data = {d1, d2}
  Nothing = Nothing
  Empty = Empty
  Unset = Unset
  None = None
  Callables <- SomeCallables
  Described <- SomeDescribed
  Sent <- SomeSent
  MaxOutputs = 2
SYMMETRY Perms
INVARIANTS
  TypeOK
  AccessesAreValid
  ArgumentsArrive
  OutputsAreAnnounced
CHECK_DEADLOCK FALSE
