\* Two publishing processes, one of which also lists; three channels for a
\* table of two entries; a process may die at any point.
SPECIFICATION Spec
CONSTANTS
  MaxChannels = 2
  p1 = p1
  p2 = p2
  a = a
  b = b
  c = c
  Names = {a, b, c}
  Nil = Nil
  Partial = Partial
  Uses <- MCUses
  Listers = {p2}
INVARIANTS    TableInv
\* Both processes may be dead.
CHECK_DEADLOCK FALSE
