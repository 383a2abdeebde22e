\* One sender, one receiver, one item is enough.
SPECIFICATION Spec
CONSTANTS
  Cap = 1
  Senders = {s1}
  Receivers = {r1}
  MaxSends = 1
  MaxDrops = 0
  MaxResets = 0
INVARIANT DepthSettles
CHECK_DEADLOCK FALSE
