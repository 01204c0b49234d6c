SPECIFICATION Spec
CONSTANTS
  t1 = t1  t2 = t2  a = a  b = b  c = c
  Test = {t1, t2}
  Order <- MCOrder
  Child = Child
  Other = Other
  Harnesses <- MCHarnesses
  Prompt <- MCPrompt
  Late <- MCLate
  Settles = TRUE
  MaxDeaths = 1
  MaxInterrupts = 1
PROPERTIES RecordSettles
CHECK_DEADLOCK FALSE
