\* Two senders, two receivers, a channel of two items.
SPECIFICATION Spec
CONSTANTS
  Cap = 2
  Senders = {s1, s2}
  Receivers = {r1, r2}
  MaxSends = 3
  MaxDrops = 1
  MaxResets = 1
SYMMETRY Symmetry
INVARIANTS
  TypeOK
  TotalsSettle
  DepthNotUnderstated
  HighWaterMark
CHECK_DEADLOCK FALSE
