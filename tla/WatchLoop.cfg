SPECIFICATION Spec
CONSTANTS
  src = src
  out = out
  map = map
  Unnamed = Unnamed
  Path <- MCPath
  Noise <- MCNoise
  Ignored <- MCIgnored
  Artifacts <- MCArtifacts
  Debounce = 2
  MaxWait = 3
  InitialRun = TRUE
  Records = TRUE
  GitMayFail = FALSE
  CallbackAborts = FALSE
INVARIANTS
  TypeOK
  ChangeAccounted
  BacklogArmed
  WaitBounded
  ResolvedIsQuiet
PROPERTIES
  EveryChangeSelected
  ComesToRest
  ImplementsContract
