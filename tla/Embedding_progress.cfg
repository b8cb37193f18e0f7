SPECIFICATION RepeatedSpec
CONSTANTS
  titan = titan
  deterministic = deterministic
  OldModel = OldModel
  NoVector = NoVector
  Current = 2
  Chunk = {1,2,3}
  Initial = {1,2}
  Runner = {r1}
  Filler = {}
  ModelOf <- SameModel
  ItemOf <- OwnItem
  MaxDistance = 1
  Words = 2
  MinCoverage = 1
  Strong = 1
  PageSize = 1
  BatchSize = 2
  MaxChunks = 5
  Limit = 2
  Refused = {1}
  MaxText = 1
  MaxOutages = 1
  MaxCrashes = 0
  MaxReleases = 0
PROPERTY UsableArrives
CHECK_DEADLOCK FALSE
