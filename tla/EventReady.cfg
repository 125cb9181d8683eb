SPECIFICATION EventSpec
CONSTANTS
  Events = {e1, e2}
  EventTypes = {"y"}
  Callbacks = {c1}
  GenMax = 2
  IdMax = 2
  NoEvent = NoEvent
INVARIANT EventReadyUntilTaken
CHECK_DEADLOCK FALSE
