CONSTANTS
  Clients = {c1, c2, c3}
  NoOne = NoOne
SPECIFICATION CacheSpec
CHECK_DEADLOCK FALSE
INVARIANT DiscoveryIsExclusive
PROPERTY LookupsEnd
