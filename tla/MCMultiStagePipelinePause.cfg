\* One stage, one pause and one reset: does a pause hold?
SPECIFICATION Spec
CONSTANTS
  K = 1
  Cap = 1
  Filters = {}
  Holders = {}
  Faulty = {}
  None = None
  MaxItems = 1
  Clones = {}
  MaxCalls <- PauseCalls
  MaxTotal = 2
INVARIANT PauseHolds
CHECK_DEADLOCK FALSE
