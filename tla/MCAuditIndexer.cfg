SPECIFICATION AuditSpec
CONSTANTS
  c1 = c1
  c2 = c2
  s1 = s1
  s2 = s2
  Contracts <- OneContract
  Sync = {s1, s2}
  FromArgs = {0, 2}
  LowerBound = 0
  Chunk = 2
  Limit = 1
  PerBlock = {0, 2}
  MaxBlock = 2
  MaxRestarts = 1
  Failures = TRUE
SYMMETRY SyncSymmetry
INVARIANTS OverlapHarmless PagesInOrder
PROPERTIES RebuildRepairs ResumeKeepsComplete
