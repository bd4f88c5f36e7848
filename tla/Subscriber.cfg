CONSTANTS
  Keys = {k1, k2}
  Period = 1
  MaxTime = 3
  RingSize = 2
  Publishers = {p1, p2}
  MaxAccepted = 3
SPECIFICATION Spec
INVARIANTS TypeOK FeedIsRing
PROPERTIES CooldownHolds WindowCatchesUp
CHECK_DEADLOCK FALSE
