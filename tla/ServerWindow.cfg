SPECIFICATION Spec
CONSTANTS
  Code = {c}
  BootCode = {b}
  Isolate = isolate
  Page = page
  Pid = {p}
  MaxTests = 2
  MaxWorkers = 2
  MaxProcesses = 2
  MaxForeign = 1
INVARIANTS UnitsHoldAll BootIsWhole
PROPERTIES BootDumpStands WorkerGoesOn
