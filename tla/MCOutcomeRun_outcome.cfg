CONSTANTS
  c1 = c1
  Changes = {c1}
  Gated = TRUE
  Turns = 2
  Commands <- SomeCommands
  MaxCommands = 2
  MaxAgents = 3
  MaxTroubles = 1
SPECIFICATION Spec
INVARIANTS
  TypeOK
  StartsFresh
  GradedAtRest
  SkippedIsUnsynchronised
  GreenIsWhole
  QuietEndIsClean
PROPERTIES
  RunnerEnds
CHECK_DEADLOCK FALSE
