CONSTANTS
  d1 = d1
  d2 = d2
  a = a
  b = b
  Databases = {d1, d2}
  Names = {a}
  Whole = Whole
  Here = Here
  Default = d1
  Procs = {p1}
  Scripts <- DatabaseScripts
  Servers <- DatabaseServers
  FirstId = 5
  MaxId = 7
  MaxRuns = 2
  MaxMoves = 2
  Others = TRUE
SPECIFICATION Spec
INVARIANTS
  VouchedIsMade
  MadeIsRecorded
CHECK_DEADLOCK FALSE
