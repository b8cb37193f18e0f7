SPECIFICATION SpecCandidates
CONSTANTS
  i1 = i1
  i2 = i2
  needs = needs
  value = value
  pain = pain
  gain = gain
  c1 = c1
  c2 = c2
  Item = {i1, i2}
  Area = {value}
  Claim = {}
  NoClaim = NoClaim
  KindOf <- KindOfItem
  SourcesOf <- SourcesOfItem
  Version = {1, 2}
  Template <- NarrowTemplates
  Calculator = {c1, c2}
  ServiceOf <- Services
  Stored = {1, 2}
  Exclusions <- ExcludeNothing
  MaxRevision = 2
  MaxSnapshots = 2
  Isolation = {"serializable", "read committed"}
INVARIANTS  FactsPrecedeTheLabel
 
CHECK_DEADLOCK FALSE
