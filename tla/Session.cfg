SPECIFICATION Spec
CONSTANTS
  w1 = w1
  w2 = w2
  Writers <- MCWriters
  Actions = {"a1"}
  RequestIds = {"r1"}
  Free = Free
  Stale = Stale
  Offered <- MCOffered
  MaxSeq = 7
  MaxLeases = 2
CHECK_DEADLOCK FALSE
INVARIANTS
  HolderIsCurrent PausedIsQuiet AnswersTruthful OrdinaryStartsClean ConsumedOnce
PROPERTIES
  StopsNameTheirAttempt StoppedAttemptAdmitsNothing ImplementsFencedRun
