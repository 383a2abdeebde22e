\* All three policies; the ring is full after two pushes, and four are made. One
\* stage that holds items back and may panic, under a handle of either builder.
SPECIFICATION MCSpec
CONSTANTS
  Capacity = 2
  MaxOffers = 4
  MaxPolls = 1
  Period = 2
  K = 1
  Cap = 1
  Filters = {}
  Holders = {1}
  Faulty = {1}
  None = None
  MaxItems = 2
  HandleCommands = 1
INVARIANTS
  TypeOK
  OffersAccounted
  ResultsInOrder
  PublishedCountIsClose
  HandlesAreSound
PROPERTIES
  DropsReturn
  AcceptedIsProcessed
CHECK_DEADLOCK FALSE
