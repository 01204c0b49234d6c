\* Harnesses that wait for every response and harnesses that do not; two tests,
\* each of which may also run twice, reported in every way.
SPECIFICATION Spec
CONSTANTS
  a = a
  b = b
  Test = {a, b}
  Harnesses <- AnyHarness
  Outcome <- AnyOutcome
  StartDangles = FALSE
  MaxWindows = 2
  MaxRequests = 1
INVARIANTS TypeOK OneWindow UnitsAreExact NothingMissing
PROPERTIES WindowsEnd Settles
