CONSTANTS
  Versions = {v1, v2, v3}
  v1 = v1
  v2 = v2
  v3 = v3
  McpMode <- MCMcpMode
  MaxStarts = 3
  MaxReloads = 1
  MaxEdits = 2
  MaxQueued = 1
  Replied = 2
  MaxPosts = 2
  MaxGone = 1
  Limits = {1, 2}
  Options = {o1, o2}
  Typed = Typed
SPECIFICATION Spec
SYMMETRY Symmetry
CHECK_DEADLOCK FALSE
INVARIANTS NoForeignModel HandsBackTheProcess RequestsAreSettled PagesAreComplete OwnMessagesOnly OutcomeIsTheUsers
PROPERTIES NudgedOnce
