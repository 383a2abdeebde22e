\* One call of split: one producer, one consumer, four slots of which three are
\* usable; five accepted pushes take head around the array.
SPECIFICATION Spec
CONSTANTS
  N = 4
  Producers = {p1}
  Consumers = {c1}
  Values = {a, b}
  None = None
  MaxPushes = 5
INVARIANTS
  TypeOK
  FirstInFirstOut
  NoSlotRace
  SlotsUsedOnce
  LenStaysABound
  PeekedItemStays
  EachItemLeavesOnce
PROPERTIES
  ImplementsFifo
  WaitFree
CHECK_DEADLOCK FALSE
