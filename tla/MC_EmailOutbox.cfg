CONSTANTS
  m1 = m1
  w1 = w1
  w2 = w2
  w3 = w3
  Rows = {m1}
  Reminders = {m1}
  OptOut = {m1}
  Address <- MCAddress
  Workers = {w1, w2, w3}
  MaxAttempts = 2
  MaxFaults = 1
SPECIFICATION Spec
INVARIANTS OneOwner CopiesExplained
PROPERTIES SettledStays EveryMailEnds
CHECK_DEADLOCK FALSE
