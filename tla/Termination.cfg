SPECIFICATION Spec
CONSTANTS
  c1 = c1
  c2 = c2
  w1 = w1
  Compensations <- MCCompensations
  Writers <- MCWriters
  Reserved = FALSE
SYMMETRY Interchangeable
CHECK_DEADLOCK FALSE
INVARIANT SealedHighest
INVARIANT SealedCompensated
INVARIANT SealedTruthful
