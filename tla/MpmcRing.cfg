\* Two producers, two consumers: the ring is a bounded FIFO queue.
SPECIFICATION Spec
CONSTANTS
  Capacity = 2
  Items = {a, b}
  None = None
  Producers = {p1, p2}
  Consumers = {c1, c2}
  Observers = {}
  MaxPush = 4
  Spurious = TRUE
SYMMETRY Symmetry
INVARIANTS RingInv PopsWhatWasPushed
PROPERTIES ImplementsFifo FailsForCause
