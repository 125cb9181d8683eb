SPECIFICATION UseSpec
CONSTANTS
  w1 = w1
  w2 = w2
  c1 = c1
  c2 = c2
  g1 = g1
  r1 = r1
  NoThread = NoThread
  Waiters = {w1}
  Clients = {c1, c2}
  Guards = {}
  Readers = {r1}
  Operations = {"block", "remove", "shutdown"}
  Timeouts = {"infinite", "finite", "poll"}
  InitialRegs <- ReaderRegistered
  MaxRegistrations = 1
  MaxTrigger = 0
  MaxCalls = 1
  MaxArrivals = 1
  MaxFaults = 0
INVARIANTS MutatorWakesSleeper ConditionMatchesCapacity
PROPERTIES UnreadEndsWait MutationFinishes ShutdownCompletes
CHECK_DEADLOCK FALSE
