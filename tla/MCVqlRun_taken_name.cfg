CONSTANTS
  d1 = d1
  d2 = d2
  a = a
  b = b
  Databases = {d1}
  Names = {a, b}
  Whole = Whole
  Here = Here
  Default = d1
  Procs = {p1}
  Scripts <- TakenNameScripts
  Servers <- ViewServers
  FirstId = 3
  MaxId = 6
  MaxRuns = 1
  MaxMoves = 0
  Others = FALSE
SPECIFICATION Spec
INVARIANTS
  CreatedMeansNew
CHECK_DEADLOCK FALSE
