SPECIFICATION ServiceFairSpec
CONSTANTS
  w1 = w1
  w2 = w2
  p1 = p1
  p2 = p2
  Waiters = {w1}
  Servers = {p1}
  Timeouts = {"infinite"}
  Operations = {"add"}
  MatchFirst = FALSE
  Ros2 = FALSE
  MaxWaits = 1
  MaxEvents = 2
PROPERTY AvailabilityEndsWait
CHECK_DEADLOCK FALSE
