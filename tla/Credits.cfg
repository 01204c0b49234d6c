SPECIFICATION Spec
CONSTANTS
  a = a  b = b  v = v  d = d  p = p  t1 = t1  t2 = t2  f = f  g = g
  Unanswered = Unanswered
  BareNames = FALSE
  Mixed = FALSE
  Disks <- MCDisks
  Observations <- MCObservations
  Layouts <- MCLayouts
  Lengths <- MCLengths
  RangeSets <- MCRangeSets
  Boots <- MCBoots
  Windows <- MCWindows
  Snapshots <- MCSnapshots
  FunctionOf <- MCFunctionOf
  Source <- MCSource
  Vendored <- MCVendored
  Built <- MCBuilt
  Other = {}
  Nowhere = Nowhere
  Package <- MCPackage
  BlockAt <- MCBlockAt
  NoText = NoText
  NoMap = NoMap
INVARIANTS FilesHold PackagesHold BlocksHold ProjectionHolds BootKept DeltaHolds
CHECK_DEADLOCK FALSE
