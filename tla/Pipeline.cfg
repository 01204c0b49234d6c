SPECIFICATION Spec
CONSTANTS
  c1 = c1  c2 = c2  c3 = c3  F = F  G = G
  u1 = u1  u2 = u2  u3 = u3  u4 = u4  s1 = s1  s2 = s2  j1 = j1  j2 = j2
  File = {F, G}
  Unit = {u1, u2, u3, u4}
  FileOf <- MCFileOf
  TitleOf <- MCTitleOf
  EndsIn <- MCEndsIn
  Earlier <- MCEarlier
  Torn = Torn
  NoMap = NoMap
  NoCommit = NoCommit
  Job = {j1, j2}
  Commit <- MCCommit
  Ancestors <- MCAncestors
  Source = {s1, s2}
  Tree <- MCTree
  Reads <- MCReads
  Breaks <- MCBreaks
  Adapters <- MCAdapters
  Instant = {1, 2}
  Keep = 1
  Parts <- MCParts
  MaxRecords = 2
  MaxShards = 2
  MaxPublishes <- MCMaxPublishes
  MaxStuck = 1
  MaxKills = 1
INVARIANTS GreenIsGreen OneReading
PROPERTIES ArchiveBounded
SYMMETRY Jobs
CHECK_DEADLOCK FALSE
