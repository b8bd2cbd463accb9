\* Only the orderings that the release stores and acquire loads guarantee.
SPECIFICATION Spec
CONSTANTS
  Capacity = 2
  Words = {w1, w2}
  Producers = {p1}
  Consumers = {c1}
  MaxPush = 3
  Timeout = 0
  InOrder = FALSE
INVARIANT IntactDelivery
