SPECIFICATION KeySpec
CONSTANTS
  p1 = p1
  p2 = p2
  p3 = p3
  Procs <- Three
  NoLock = NoLock
  StaleMs = 5
  MaxTime = 0
  MaxAttempts = 1
  NoKey = NoKey
  Partial = Partial
SYMMETRY Interchangeable
CHECK_DEADLOCK FALSE
INVARIANTS
  KeyAgreement
