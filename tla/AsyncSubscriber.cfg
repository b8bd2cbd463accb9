\* One owner that starts up to three workers, two other threads in spin().
SPECIFICATION LiveSpec
CONSTANTS
  Spinners = {s1, s2}
  MaxStarts = 3
  Capacity = 2
INVARIANTS OnlyWorkerSpins WorkerInv
PROPERTIES StopReturns SpinReturnsOnceStopped
CHECK_DEADLOCK FALSE
