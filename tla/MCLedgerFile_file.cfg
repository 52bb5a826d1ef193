CONSTANTS
  Procs = {p1, p2, p3}
  MaxWrites = 2
SPECIFICATION FairSpec
INVARIANTS
  TypeOK
  OneHolder
  WritersKnow
  KeptWrites
PROPERTIES
  Implements
  WriteEnds
CHECK_DEADLOCK FALSE
