SPECIFICATION SpecAnyAnswer
CONSTANTS
  i1 = i1
  i2 = i2
  i3 = i3
  needs = needs
  value = value
  pain = pain
  gain = gain
  c1 = c1
  c2 = c2
  Item = {i1, i2, i3}
  Area = {needs, value}
  Claim = {pain, gain}
  NoClaim = NoClaim
  KindOf <- KindOfThree
  SourcesOf <- SourcesOfThree
  Version = {1, 2}
  Template <- Templates
  Calculator = {c2}
  ServiceOf <- Services
  Stored = {1, 2}
  Exclusions <- ExcludeNothing
  MaxRevision = 1
  MaxSnapshots = 1
  Isolation = {"serializable"}
  Unknown = "unknown"
  Assumed = "assumption"
  FromMessage <- Said
  Near <- SaySame
  Shipped = 2
  Unset = Unset
  Deployment <- Regular
  Requested <- RequestsAbout
INVARIANT FindingsDisappear
CHECK_DEADLOCK FALSE
