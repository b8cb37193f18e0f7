SPECIFICATION Spec
CONSTANTS
  Caller = {c1, c2}
  MaxCalls = 3
  Isolation = {"serializable", "read committed"}
  Service = {"setup values", "setup targets", "modules", "assumptions", "classification", "deliverables", "publication", "evidence", "sources", "submissions", "projects", "runs"}
  Nothing = Nothing
  Beginning <- StoreBeginning
  Requests <- StoreRequests
  Reads <- StoreReads
  Locks <- StoreLocks
  ReadsLater <- StoreReadsLater
  Outcome <- StoreOutcome
  Outside <- StoreOutside
  Unique <- StoreUnique
  f1 = f1
  t1 = t1
  t2 = t2
  t3 = t3
  m1 = m1
  g1 = g1
  k1 = k1
  k2 = k2
  p1 = p1
  v1 = v1
  v2 = v2
  v3 = v3
  v4 = v4
  Evidence = {v1, v2, v3, v4}
  About <- Statements
  Alike <- Overlaps
  Resolves <- Answers
  Suffices <- Sufficiencies
  l1 = l1
  a2 = a2
  Location = {l1, l2}
  SourceState = {"connected", "pinned"}
  Revision = {r1, r2}
  Disposed = {"memory", "ephemeral"}
  Bodies <- Documents
  MaxChunks = {1, 2}
  Submitter = {a1, a2}
  i1 = i1
  i2 = i2
  KnowledgeItem = {i1, i2}
  Field = {f1, f2}
  KnownField = {f1}
  Value = {w1, w2}
  Person = {p1, p2}
  TargetName = {t1, t2, t3}
  Purpose = {"deliverable", "snapshot"}
  ModuleKey = {k1, k2, k3}
  Statement = {s1}
  Actor = {a1, a2}
  Message = {m1, m2}
  Version = {"v1", "v2"}
  Finds <- Readings
  Settler = {"p"}
  ProjectKey = {"k"}
  KeyAttempts = 2
  RunKey = {"k"}
SYMMETRY Interchangeable
INVARIANTS OneResultPerKey StreamShowsTheEnd NothingIsLeftBehind AcceptedIsQueued StalenessIsNoticed PublishedStaysWhole GraphAnswers 
PROPERTIES  ConfirmedAsWritten 
CHECK_DEADLOCK FALSE
