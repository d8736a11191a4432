CONSTANT Calls = {c1, c2}
SPECIFICATION TimedSpec
CHECK_DEADLOCK FALSE
INVARIANT ShutdownReachesAll
PROPERTIES KeepsContract CallsEnd
