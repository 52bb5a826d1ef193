CONSTANTS
  d = d
  a = a
  b = b
  c = c
  Databases = {d}
  Names = {a, b, c}
  Whole = Whole
  Inputs <- AllInputs
  Situations <- SomeSituations
  Production = FALSE
  FirstId = 4
  MaxId = 6
SPECIFICATION Spec
INVARIANTS
  TypeOK
  RunIsAsPlanned
PROPERTIES
  ForeignIsAsked
  QuietPlanAltersUnread
CHECK_DEADLOCK FALSE
