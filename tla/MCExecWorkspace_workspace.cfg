CONSTANTS
  a = a
  b = b
  c = c
  theirs = theirs
  NoName = NoName
  Elements = {a, b, c, theirs}
  Outside = {theirs}
  Unfit = {b}
  Readers <- ReadBy
  Scripts <- SomeScripts
  Servers <- SomeServers
  FirstId = 3
  MaxId = 5
  MaxCalls = 2
  MaxMoves = 1
SPECIFICATION Spec
INVARIANTS
  TypeOK
  TouchesOwn
  MadeIsLive
  AppliedIsWhole
PROPERTIES
  OnlyGrows
  KeepsLog
CHECK_DEADLOCK FALSE
