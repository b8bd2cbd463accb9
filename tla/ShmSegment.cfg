\* Three publishers on one name, after or beside each other, one subscriber.
SPECIFICATION Spec
CONSTANTS
  Publishers = {p1, p2, p3}
  Subscribers = {s1}
  None = None
  MaxPush = 2
SYMMETRY Symmetry
INVARIANTS PublisherReachable CursorNotAhead SegmentInv
 
CHECK_DEADLOCK FALSE
