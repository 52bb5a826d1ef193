CONSTANTS
  a = a
  b = b
  c = c
  theirs = theirs
  NoName = NoName
  Elements = {a, b, c, theirs}
  Outside = {theirs}
  Unfit = {b}
  Readers <- ReadBy
  Scripts <- SomeScripts
  Servers <- SomeServers
  FirstId = 3
  MaxId = 5
  MaxCalls = 1
  MaxMoves = 0
SPECIFICATION Spec
INVARIANTS
  TornIsLeftOut
CHECK_DEADLOCK FALSE
