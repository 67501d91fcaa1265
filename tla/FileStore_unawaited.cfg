SPECIFICATION Spec
CONSTANTS
  p1 = p1
  p2 = p2
  plain = plain
  recorded = recorded
  again = again
  file1 = file1
  file2 = file2
  Procs <- MCProcs
  Batches = {plain, again}
  Artifacts = {file1, file2}
  ArtifactsOf <- Revocations
  Torn = Torn
  NoLock = NoLock
  NoBatch = NoBatch
  Unawaited = {plain}
  OperatorErrs = FALSE
  MaxFaults = 0
  MaxCrashes = 0
PROPERTIES
  AppendsToCaptured
