\* The lease is the only one, so one call at most reaches its adapter: the
\* other waits behind it, fails, closes the coordinator or uses the second
\* session.  A quarantined run needs seven envelopes: events of the kernel
\* leave the termination, or the pair, without one.
\* All calls end: the system stops.
SPECIFICATION Spec
CONSTANTS
  s1 = s1  s2 = s2
  c1 = c1  c2 = c2
  a1 = a1  a2 = a2
  Sessions = {s1, s2}
  Calls = {c1, c2}
  Adapters = {a1, a2}
  None = None
  Envelopes = 7
  MaxFaults = 1
  MaxKernel = 2
INVARIANTS
  EffectsAreRecorded QuarantinePairs EndedCallsFreeTheLock ResultsDieWithCoordinator
PROPERTIES
  CallsAnswered
CHECK_DEADLOCK FALSE
