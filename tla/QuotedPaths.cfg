SPECIFICATION Spec
CONSTANTS
  a = a
  b = b
  t1 = t1
  t2 = t2
  pkg = pkg
  f = f
  g = g
  called = called
  loaded = loaded
  other = other
  Absent = Absent
  Quoted <- MCQuoted
  Folders = {}
  NoCommit = NoCommit
  NoConfig = NoConfig
  Fn = {f, g}
  Inline = {g}
  Path <- MCPath
  Unit <- MCUnit
  TestOf <- MCTestOf
  Contents <- CodeEdits
  Configs <- OneConfig
  Loads <- MCLoads
  Calls <- MCCalls
  Windows <- Everything
  Declared <- MCPath
  HasBlocks <- MCUnit
  WholeRun = FALSE
  Interference = FALSE
  MaxEdits = 1
  MaxCommits = 2
INVARIANT SelectionSound
CHECK_DEADLOCK FALSE
