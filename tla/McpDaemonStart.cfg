CONSTANTS
  Clients = {c1, c2}
  Daemons = {d1, d2, d3}
  Nothing = Nothing
  Faults = {"crash", "deadline", "stop"}
SPECIFICATION FairStartSpec
CHECK_DEADLOCK FALSE
INVARIANTS LockIsKept DaemonIsReachable
PROPERTY CallsEnd
