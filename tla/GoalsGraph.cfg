SPECIFICATION TablesSpec
CONSTANTS
  t1 = t1
  t2 = t2
  g1 = g1
  g2 = g2
  p1 = p1
  Zero = Zero
  NoThread = NoThread
  Threads = {t1, t2}
  Goals = {g1, g2}
  Stamp <- Ordered
  Requests = {r1}
  ResultTimeout = 1
  Operations = {"accept", "update", "status", "expire", "request", "register", "take", "respond", "discard", "shutdown"}
  Failing = {"accept", "alloc"}
  MaxTime = 2
  MaxCalls = 3
  MaxFaults = 1
  NoNodes = NoNodes
  NoNode = NoNode
  NoEvent = NoEvent
  Facade = Facade
  GraphThreads = {t1, t2}
  Participants = {p1}
  Endpoints = {e1}
  Home <- OneHome
  Snapshots = {NoNodes, s1}
  Nodes = {n1}
  LocalEndpoints = {l1}
  Events = {v1}
  GraphOperations = {"discover", "gate", "remote", "node", "local", "event"}
  MaxRevision = 3
  MaxGraphCalls = 3
  MaxGraphFaults = 1
INVARIANTS TypeOK ReservationOwned RequestsMatchGoals SleepCoversExpiry ChangeWakes GraphSound
PROPERTY FinalStaysFinal
SYMMETRY ThreadSymmetry
CHECK_DEADLOCK FALSE
