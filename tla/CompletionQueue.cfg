CONSTANTS
  Runs = {r1, r2}
  Waits = {w1}
  MaxTurns = 2
  MaxWork = 3
SPECIFICATION FairSpec
CHECK_DEADLOCK FALSE
INVARIANT EveryNoticeIsArmed
PROPERTIES NoticeIsNews NoticesDrain
