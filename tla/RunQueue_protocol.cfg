SPECIFICATION Spec
CONSTANTS
  Worker = {w1, w2}
  Client = {c1, c2}
  NoWorker = NoWorker
  NoKey = NoKey
  Key = {k1, k2}
  FollowUpKey = {f1}
  MaxRuns = 3
  MaxSubmitted = 2
  LeaseTicks = 1
  BackoffBase = 1
  MaxAttempts = 2
  MaxTime = 2
  FaultHorizon = 0
  MaxFaults = 1
  Kinds = {"done", "more", "raised"}
  Isolation = {"serializable", "read committed"}
SYMMETRY Interchangeable
INVARIANTS TokensAreExclusive OneRunPerKey
PROPERTIES SupersededWritesNothing FollowUpLandsWithSuccess ImplementsLeaseQueue
CHECK_DEADLOCK FALSE
