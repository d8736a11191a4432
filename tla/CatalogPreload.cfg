CONSTANTS
  Servers = {s1, s2}
  Requests = {r1, r2, r3}
  Loops = {l1, l2, l3}
  Backoffs = 2
  None = None
SPECIFICATION FairPreloadSpec
CHECK_DEADLOCK FALSE
INVARIANT DemandIsBounded
PROPERTIES BackgroundKeepsTrying WaitsEnd
