\* Two stages that may panic, the second of which holds items back; other threads send and
\* receive.
SPECIFICATION FairSpec
CONSTANTS
  K = 2
  Cap = 1
  Filters = {}
  Holders = {2}
  Faulty = {1, 2}
  None = None
  MaxItems = 1
  Clones = {"input", "output"}
  MaxCalls <- LivenessCalls
  MaxTotal = 2
PROPERTIES
  ShutdownEnds
  HeadIsTaken
CHECK_DEADLOCK FALSE
