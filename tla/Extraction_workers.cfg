SPECIFICATION SpecExtraction
CONSTANTS
  Worker = {w1, w2}
  Client = {c1}
  NoWorker = NoWorker
  NoKey = NoKey
  Key = {k1, k2}
  FollowUpKey = {0,1,2}
  MaxRuns = 3
  MaxSubmitted = 2
  LeaseTicks = 1
  BackoffBase = 1
  MaxAttempts = 3
  MaxTime = 1
  FaultHorizon = 0
  MaxFaults = 1
  Kinds = {"done", "raised"}
  Isolation = {"serializable"}
  Content = {b1}
  Area = {a1, a2}
SYMMETRY Interchangeable
INVARIANT NoTwins
CHECK_DEADLOCK FALSE
