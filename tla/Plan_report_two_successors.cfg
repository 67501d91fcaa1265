SPECIFICATION Spec
CONSTANTS
  k1 = k1  k2 = k2
  b1 = b1  b2 = b2  b3 = b3
  g1 = g1  g2 = g2
  Planners = {k1}
  Builders = {b1, b2, b3}
  Generations = {g1}
  Generation <- OneGeneration
  None = None
  MaxFaults = 0
PROPERTIES
  OnlyTheDeadAreClearedUp
CHECK_DEADLOCK FALSE
