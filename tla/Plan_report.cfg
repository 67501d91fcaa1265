SPECIFICATION Spec
CONSTANTS
  k1 = k1  k2 = k2
  b1 = b1  b2 = b2  b3 = b3
  g1 = g1  g2 = g2
  Planners = {k1, k2}
  Builders = {b1, b2, b3}
  Generations = {g1, g2}
  Generation <- MCGeneration
  None = None
  MaxFaults = 1
SYMMETRY Interchangeable
INVARIANTS
  PlansAreWhole
  UnlockedReportsOpen
  AccurateLocksResume
PROPERTIES
  LocksOutliveTheirWork
CHECK_DEADLOCK FALSE
