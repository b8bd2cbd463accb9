\* One publisher, one subscriber with two consumer threads.
SPECIFICATION ChannelSpec
CONSTANTS
  Capacity = 2
  Words = {w1}
  Producers = {p1}
  Consumers = {c1, c2}
  MaxPush = 5
  Timeout = 0
  InOrder = TRUE
SYMMETRY Symmetry
INVARIANTS ChannelInv EveryPositionAccounted
