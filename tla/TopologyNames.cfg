SPECIFICATION PartsSpec
CONSTANTS
  w1 = w1
  w2 = w2
  c1 = c1
  c2 = c2
  g1 = g1
  r1 = r1
  NoThread = NoThread
  Waiters = {w1}
  Clients = {c1, c2}
  Guards = {g1}
  Readers = {r1}
  Operations = {"trigger", "add", "remove", "close", "block"}
  Timeouts = {"infinite"}
  InitialRegs <- BothRegistered
  MaxRegistrations = 3
  MaxTrigger = 1
  MaxCalls = 1
  MaxArrivals = 0
  MaxFaults = 1
  Inputs <- SomeInputs
  AllEndpoints <- SomeEndpoints
  Here = "here"
  ServerParts <- ServerSides
  WantedAction = "act"
  WantedTypes <- SameTypes
  ClientQos <- WantsReliable
INVARIANTS TypeOK NoTriggerSleptOn ExclusiveRegistration NoStaleCondition NamesAgree QueriesAgree
SYMMETRY ClientSymmetry
CHECK_DEADLOCK FALSE
