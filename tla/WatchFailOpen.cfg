SPECIFICATION Spec
CONSTANTS
  src = src
  out = out
  map = map
  Unnamed = Unnamed
  Path <- MCPath
  Noise <- MCNoise
  Ignored <- MCIgnored
  Artifacts <- MCArtifacts
  Debounce = 2
  MaxWait = 1
  InitialRun = FALSE
  Records = TRUE
  GitMayFail = TRUE
  CallbackAborts = TRUE
PROPERTY EveryChangeSelected
CHECK_DEADLOCK FALSE
