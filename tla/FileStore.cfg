SPECIFICATION FairSpec
CONSTANTS
  p1 = p1
  p2 = p2
  plain = plain
  recorded = recorded
  again = again
  file1 = file1
  file2 = file2
  Procs <- MCProcs
  Batches = {plain, recorded, again}
  Artifacts = {file1, file2}
  ArtifactsOf <- Revocations
  Torn = Torn
  NoLock = NoLock
  NoBatch = NoBatch
  Unawaited = {plain}
  OperatorErrs = FALSE
  MaxFaults = 1
  MaxCrashes = 1
INVARIANTS
  LockExclusion
  OutcomesAreDurable
  SyncedInOrder
PROPERTIES
  NamedFilesStay
  ImplementsDurableLog
  SessionEnds
