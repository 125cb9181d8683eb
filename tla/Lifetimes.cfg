SPECIFICATION LifetimesSpec
CONSTANTS
  Events = {e1, e2}
  EventTypes = {"y"}
  Callbacks = {c1}
  GenMax = 2
  IdMax = 2
  NoEvent = NoEvent
  Updaters = {u1, u2}
  IntMax = 4
  SteadyEnd = 2
  RosTimes = {3}
  Periods = {0, 2}
  Durations = {1}
  MaxNativeWait = 2
  Parts <- ThreeParts
  MaxEntityFaults = 2
  Nobody = Nobody
  PyCalls = {k1, k2}
  MaxEarly = 1
  MaxReplies = 1
  MaxMoves = 0
  MaxIoFaults = 1
INVARIANTS EventsDelivered EntitiesWhole
PROPERTIES TimerPunctual LifetimesEnd
CHECK_DEADLOCK FALSE
