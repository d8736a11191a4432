CONSTANTS
  Runs = {r1, r2}
  Writes = {w1, w2}
  MaxSessions = 2
  MaxIndex = 2
  AtRisk = 1
  None = None
SPECIFICATION FairSpec
CHECK_DEADLOCK FALSE
INVARIANT RestartKeepsRuns
PROPERTY FilesFollowMemory
