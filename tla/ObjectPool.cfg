\* Two threads on a pool of two slots, with spurious failures of the weak CAS:
\* safety and liveness.
SPECIFICATION LiveSpec
CONSTANTS
  Capacity = 2
  Threads = {t1, t2}
  MaxTag = 5
  Spurious = TRUE
INVARIANTS ListIntact EachSlotOnce WalkExactWhenQuiet
PROPERTIES ImplementsPool OperationsReturn
