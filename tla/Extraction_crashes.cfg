SPECIFICATION FairExtraction
CONSTANTS
  Worker = {w1}
  Client = {c1}
  NoWorker = NoWorker
  NoKey = NoKey
  Key = {k1, k2}
  FollowUpKey = {0,1,2,3}
  MaxRuns = 4
  MaxSubmitted = 2
  LeaseTicks = 1
  BackoffBase = 1
  MaxAttempts = 3
  MaxTime = 1
  FaultHorizon = 0
  MaxFaults = 2
  Kinds = {"done", "raised"}
  Isolation = {"read committed"}
  Content = {b1,b2}
  Area = {a1, a2}
 
PROPERTIES  EveryRunSettles
CHECK_DEADLOCK FALSE
