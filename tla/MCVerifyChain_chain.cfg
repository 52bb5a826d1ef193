CONSTANTS
  db = db
  table = table
  tag = tag
  project = project
  theirDatabase = theirDatabase
  theirView = theirView
  tableSource = tableSource
  tagId = tagId
  projectId = projectId
  cache = cache
  Objects = {db, table, tag, project}
  Database = db
  Changes = {theirDatabase, theirView}
  HalfOf <- Halved
  Settings = {tableSource}
  Captures = {tagId, projectId}
  Features = {cache}
  Chain <- SmallChain
  Drops <- SmallDrops
  Entries <- SmallEntries
  FlagSets <- SomeFlags
  Leftovers = {{}, {db, table, tag, project}}
  Production = FALSE
  Attempts = 2
  MaxRuns = 1
SPECIFICATION FairSpec
INVARIANTS
  TypeOK
  NeedsAreMet
  Accounted
  GreenIsClean
PROPERTIES
  SparesOthers
  RunEnds
CHECK_DEADLOCK FALSE
