SPECIFICATION FairSpec
CONSTANTS
  w1 = w1
  w2 = w2
  c1 = c1
  c2 = c2
  g1 = g1
  r1 = r1
  NoThread = NoThread
  Waiters = {w1}
  Clients = {c1}
  Guards = {g1}
  Readers = {}
  Operations = {"trigger", "shutdown"}
  Timeouts = {"infinite"}
  InitialRegs <- GuardRegistered
  MaxRegistrations = 1
  MaxTrigger = 1
  MaxCalls = 1
  MaxArrivals = 0
  MaxFaults = 0
PROPERTY ShutdownCompletes
CHECK_DEADLOCK FALSE
