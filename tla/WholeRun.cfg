SPECIFICATION Spec
CONSTANTS
  a = a
  b = b
  t1 = t1
  t2 = t2
  pkg = pkg
  f = f
  g = g
  called = called
  loaded = loaded
  other = other
  Absent = Absent
  Quoted = {}
  Folders <- BMayBeNew
  NoCommit = NoCommit
  NoConfig = NoConfig
  Fn = {f, g}
  Inline = {g}
  Path <- MCPath
  Unit <- MCUnit
  TestOf <- MCTestOf
  Contents <- OtherEdits
  Configs <- MCConfigs
  Loads <- MCLoads
  Calls <- MCCalls
  Windows <- SomeNarrow
  Declared <- Narrow
  HasBlocks <- SomeBlocks
  WholeRun = TRUE
  Interference = FALSE
  MaxEdits = 2
  MaxCommits = 2
INVARIANTS SelectionSound ExplainForetells
PROPERTY WholeRunReconciled
CHECK_DEADLOCK FALSE
