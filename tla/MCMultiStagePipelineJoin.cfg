\* Two stages, one shutdown and two joins: does Stopped mean that they finished?
SPECIFICATION Spec
CONSTANTS
  K = 2
  Cap = 1
  Filters = {}
  Holders = {}
  Faulty = {}
  None = None
  MaxItems = 1
  Clones = {}
  MaxCalls <- JoinCalls
  MaxTotal = 3
INVARIANT StoppedMeansFinished
CHECK_DEADLOCK FALSE
