CONSTANTS
  Sessions = {s1, s2, s3}
  Envs = {e1}
  Host = Host
  Blank = Blank
SPECIFICATION FairLeaseSpec
CHECK_DEADLOCK FALSE
INVARIANT EnvironmentsAreOwn
PROPERTY SessionsLetGo
