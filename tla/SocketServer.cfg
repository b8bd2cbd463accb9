\* Two connections where one is allowed; the server is started twice.
SPECIFICATION LiveSpec
CONSTANTS
  Conns = {c1, c2}
  Fds <- MCFds
  MaxClients = 1
  MaxStarts = 2
  Free = Free
INVARIANTS ListedAreOpen ServerInv StoppedIsQuiet
PROPERTY StopReturns
