SPECIFICATION BothSpec
CONSTANTS
  t1 = t1
  t2 = t2
  t3 = t3
  r1 = r1
  r2 = r2
  r3 = r3
  NoThread = NoThread
  Threads = {t1, t2, t3}
  Readers = {r1, r2, r3}
  Waitables <- Mixed
  Operations = {"add", "remove", "close"}
  Failing = {"attach", "detach", "delete"}
  MaxRegistrations = 2
  MaxCalls = 2
  MaxFaults = 1
  Tokens = {"a", "b"}
  ParamNames <- SomeNames
  DefaultValues <- SomeValues
  Descriptors <- SomeDescriptors
  SetRequests <- SomeRequests
  ReadLists <- SomeReads
  Listings <- SomeListings
  OverrideEntries <- SomeEntries
  NodeScopes = {"", "n"}
  IntMax = 127
  MaxDelta = 2
  MaxOverlap = 2
INVARIANTS NoDanglingCondition ClaimsBalanced StoreConsistent PendingCoversDelta
PROPERTY DeclarationHonoured
SYMMETRY ThreadSymmetry
CHECK_DEADLOCK FALSE
