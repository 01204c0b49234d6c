SPECIFICATION Spec
CONSTANTS
  a = a  b = b  t = t  man = man  sub = sub  lock = lock  virtual = virtual
  u = u  x = x  y = y  f = f  g = g
  root = root  p1 = p1  p2 = p2  q1 = q1  n1 = n1  n2 = n2
  Fn = {f, g}
  Inline = {}
  Path <- MCPath
  Quoted = {}
  Folders = {}
  Absent = Absent
  Unit <- MCUnit
  TestOf <- MCTestOf
  NoCommit = NoCommit
  Importer = {root}
  Entry = {p1, p2, q1, n1, n2}
  NameOf <- MCNameOf
  Pinned = {p1, p2, q1, n1, n2}
  Observable = {p1, p2, q1}
  NoDependencies = NoDependencies
  NoPackages = NoPackages
  NoInventory = NoInventory
  NoConfig = NoConfig
  Contents <- NativeContents
  Committed <- NativeCommitted
  Manifests = {man, sub}
  Lock = lock
  NestedLocks = {}
  External = {x, y}
  Root = root
  Uses <- NativeUses
  Behaviours <- MCBehaviours
  Recorders <- OneRecorder
  Splits <- MCSplits
  Suites <- NoSuite
  Unversioned = Unversioned
  Config <- MCConfig
  NoMap = NoMap
  MaxChanges = 2
  MaxShards = 2
INVARIANTS PackagesCount
CHECK_DEADLOCK FALSE
