SPECIFICATION OrderlySpec
CONSTANTS
  p1 = p1
  p2 = p2
  k1 = k1
  e1 = e1
  Procs <- MCProcs
  Sealers <- MCSealers
  Builders <- MCSealers
  Planners <- MCPlanners
  Inputs <- MCInputs
  Loops <- MCLoops
  NoFile = NoFile
  Torn = Torn
  NoLock = NoLock
  StaleMs = 1
  MaxTime = 0
  MaxAttempts = 2
INVARIANTS
  HolderKeepsLock
  AnsweredRunsVerify
  EndedRunsAreProven
PROPERTIES
  ReportsAreAnchored
CHECK_DEADLOCK FALSE
