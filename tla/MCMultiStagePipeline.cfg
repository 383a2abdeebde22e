\* Two stages: the first may filter and panic, the second holds items back.
SPECIFICATION Spec
CONSTANTS
  K = 2
  Cap = 1
  Filters = {1}
  Holders = {2}
  Faulty = {1}
  None = None
  MaxItems = 2
  Clones = {}
  MaxCalls <- SafetyCalls
  MaxTotal = 2
INVARIANTS
  TypeOK
  OrderKept
  
  LossHasACause
  ShutdownTakesOneMore
  ShutdownIsComplete
CHECK_DEADLOCK FALSE
