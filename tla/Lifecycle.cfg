SPECIFICATION LifecycleSpec
CONSTANTS
  p1 = p1
  p2 = p2
  p3 = p3
  anchor1 = anchor1
  rival1 = rival1
  anchor2 = anchor2
  Free = Free
  Absent = Absent
  Procs <- MCProcs
  Anchors <- MCAnchors
  Generation <- MCGeneration
  Predecessor <- MCPredecessor
  MaxFailures = 1
SYMMETRY Interchangeable
INVARIANTS
  UnlockedIsWhole
  ChainIsLinear
  OutcomesTruthful
  ObservationsCurrent
