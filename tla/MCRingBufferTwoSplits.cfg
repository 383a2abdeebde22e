\* Two calls of split: two producers and two consumers share one buffer.
SPECIFICATION Spec
CONSTANTS
  N = 4
  Producers = {p1, p2}
  Consumers = {c1, c2}
  Values = {a, b}
  None = None
  MaxPushes = 3
INVARIANT FirstInFirstOut
CHECK_DEADLOCK FALSE
