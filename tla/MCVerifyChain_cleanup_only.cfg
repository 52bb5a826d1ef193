CONSTANTS
  db = db
  table = table
  tag = tag
  project = project
  theirDatabase = theirDatabase
  theirView = theirView
  tableSource = tableSource
  tagId = tagId
  projectId = projectId
  cache = cache
  Objects = {db, table, tag, project}
  Database = db
  Changes = {theirDatabase, theirView}
  HalfOf <- Halved
  Settings = {tableSource}
  Captures = {tagId, projectId}
  Features = {cache}
  Chain <- SmallChain
  Drops <- SmallDrops
  Entries <- SmallEntries
  FlagSets <- AllFlags
  Leftovers = {{}}
  Production = FALSE
  Attempts = 2
  MaxRuns = 2
SPECIFICATION Spec
INVARIANTS
  CleanupOnlyRemoves
CHECK_DEADLOCK FALSE
