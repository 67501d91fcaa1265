SPECIFICATION Spec
CONSTANTS
  c1 = c1  c2 = c2
  i1 = i1  i2 = i2
  Compilers = {c1, c2}
  Ids = {i1, i2}
  None = None
  MaxAttempts = 2
  MaxFaults = 2
INVARIANTS
  ReadablePacksAreComplete
  CompileAnswersTruthful
PROPERTIES
  CompilesAreAnswered
CHECK_DEADLOCK FALSE
