CONSTANTS
  Runs = {r1, r2}
  Turns = {t1, t2}
  Calls = {c1}
  None = None
SPECIFICATION FairSpec
CONSTRAINT MCBound
CHECK_DEADLOCK FALSE
INVARIANT StoppedIsSilent
PROPERTIES KeepsContract ShutdownCompletes
