CONSTANTS
  d = d
  a = a
  b = b
  p = p
  q = q
  Processes = {p, q}
  Databases = {d}
  Names = {a, b}
  Whole = Whole
  Requests <- SomeRequests
  Worlds <- SomeWorlds
  MaxId = 5
  MaxSteps = 3
  MaxOthers = 1
  MaxCalls = 1
SPECIFICATION Spec
INVARIANTS
  TypeOK
PROPERTIES
  RadiusIsOwn
  PairsFollowRenames
SYMMETRY OneAsAnother
CHECK_DEADLOCK FALSE
