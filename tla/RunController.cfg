CONSTANTS
  Runs = {r1, r2}
  Turns = {t1, t2, t3}
  Calls = {c1}
  Concurrency = 1
  NoTurn = NoTurn
  NoRun = NoRun
  SerialHost = TRUE
SPECIFICATION FairSpec
CHECK_DEADLOCK FALSE
INVARIANTS NobodyWaitsInVain NoSessionIsLeft
PROPERTIES StoppedTurnIsInert KeepsContract
