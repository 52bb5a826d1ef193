CONSTANTS
  d1 = d1
  d2 = d2
  a = a
  b = b
  Databases = {d1}
  Names = {a, b}
  Whole = Whole
  Here = Here
  Default = d1
  Procs = {p1, p2}
  Scripts <- PairScripts
  Servers <- ViewServers
  FirstId = 3
  MaxId = 5
  MaxRuns = 3
  MaxMoves = 1
  Others = TRUE
SPECIFICATION Spec
CONSTRAINTS
  Together
  ContMatters
SYMMETRY Interchangeable
INVARIANTS
  TypeOK
  Grounded
  RecordedIsMade
  VouchedIsMade
  MadeIsRecorded
  RecordingKept
CHECK_DEADLOCK FALSE
