SPECIFICATION Spec
CONSTANTS
  Caller = {c1, c2}
  Subject = {s1, s2}
  Wording = {u1, u2}
  Text = {t1, t2}
  Key = {k1}
  NoKey = NoKey
  Limits = {1, 2}
  MaxRequests = 3
  MaxSessions = 2
  Isolation = {"serializable", "read committed"}
SYMMETRY Interchangeable
INVARIANTS AskedOnce OneVerdict 
CHECK_DEADLOCK FALSE
