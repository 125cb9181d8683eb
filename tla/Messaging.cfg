SPECIFICATION MessagingSpec
CONSTANTS
  p1 = p1
  p2 = p2
  t1 = t1
  t2 = t2
  t3 = t3
  t4 = t4
  NoThread = NoThread
  Invalid = Invalid
  Unknown = Unknown
  Threads = {t1, t2}
  Requests = {q1, q2}
  Targeted = {q1}
  MaxPending = 2
  Changes = {"match", "remove", "shutdown"}
  MaxCalls = 2
  MaxArrivals = 2
  MaxFaults = 0
  Waiters = {w1}
  Servers = {p1}
  Timeouts = {"infinite", "finite", "poll"}
  Operations = {"add", "remove", "degrade", "unavailable", "metadata", "interrupt", "shutdown"}
  MatchFirst = TRUE
  Ros2 = TRUE
  MaxWaits = 1
  MaxEvents = 4
  Peers = {p1, p2}
  Workers = {t1, t2, t3, t4}
  PeerOf <- PeerOfWorker
  Duties <- DutiesOfWorker
  NodeLists = {0, 1}
  NoNodesYet = 0
  Mortal = {p1}
  MaxCommits <- TwoCommits
  MaxLostWrites = 1
  RegThreads = {t1, t2, t3}
  Wants <- SomeWants
  NoTopic = "none"
  MaxRounds = 1
  MaxRegFaults = 1
INVARIANTS NothingMissed RegistriesConsistent
PROPERTIES ClaimResolves ServiceWaitEnds MetadataConverges RegistryWaitEnds ImplementsSharing
CHECK_DEADLOCK FALSE
