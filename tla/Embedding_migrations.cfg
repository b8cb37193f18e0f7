SPECIFICATION Spec
CONSTANTS
  titan = titan
  deterministic = deterministic
  OldModel = OldModel
  NoVector = NoVector
  Current = 2
  Chunk = {1,2}
  Initial = {1,2}
  Runner = {r1,r2}
  Filler = {f1}
  ModelOf <- SameModel
  ItemOf <- OwnItem
  MaxDistance = 1
  Words = 2
  MinCoverage = 1
  Strong = 1
  PageSize = 1
  BatchSize = 1
  MaxChunks = 3
  Limit = 2
  Refused = {2}
  MaxText = 1
  MaxOutages = 0
  MaxCrashes = 1
  MaxReleases = 1
INVARIANTS ClaimsAreHeld 
CHECK_DEADLOCK FALSE
