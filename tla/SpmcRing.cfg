\* One producer that may die, one polling consumer, program order: safety and
\* liveness.
SPECIFICATION LiveSpec
CONSTANTS
  Capacity = 2
  Words = {w1, w2}
  Producers = {p1}
  Consumers = {c1}
  MaxPush = 7
  Timeout = 1
  InOrder = TRUE
INVARIANTS IntactDelivery WindowReadable
PROPERTIES ReadyIsConsumed DeadProducerReported
