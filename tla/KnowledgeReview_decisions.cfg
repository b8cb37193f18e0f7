SPECIFICATION Spec
CONSTANTS
  Reviewer = {v1, v2}
  Item = {i1, i2}
  Key = {k1}
  NoKey = NoKey
  MaxRequests = 3
  Isolation = {"serializable", "read committed"}
SYMMETRY Interchangeable
INVARIANTS AuthorityCoversWording CorrectionIsKept OneDecisionPerKey 
CHECK_DEADLOCK FALSE
