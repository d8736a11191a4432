CONSTANTS
  Calls = {c1, c2}
  Limit = 1
SPECIFICATION Spec
CHECK_DEADLOCK FALSE
INVARIANTS SlotsAreKept RetriesAreSafe NothingIsCutOff
PROPERTY CommandEnds
