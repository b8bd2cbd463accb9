\* Every operation that was begun returns; approx_size() beside producers and
\* consumers; threads that call more than one operation.
SPECIFICATION LiveSpec
CONSTANTS
  Capacity = 2
  Items = {a}
  None = None
  Producers = {p1, t1}
  Consumers = {c1, t1}
  Observers = {p1}
  MaxPush = 3
  Spurious = FALSE
 
PROPERTY OperationsReturn
