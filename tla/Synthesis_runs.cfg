SPECIFICATION Spec
CONSTANTS
  Nothing = Nothing
  ItemOrder <- Items
  KeyOrder <- Keys
  Statement <- Spoken
  Key <- Keyed
  Theme <- Themes
  Reading <- Readings
  AreaOf <- Areas
  AttentionBound = 1
  Runner = {r1}
  Person = {p1}
  Domains <- Domain
  Beginnings <- Begun
  Approvals <- Approved
  MaxRuns = 2
  MaxRequests = 1
  MaxChanges = 1
  Isolation = {"serializable", "read committed"}
INVARIANTS RerunIsQuiet EventMeansWritten
 
CHECK_DEADLOCK FALSE
