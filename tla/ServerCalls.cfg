SPECIFICATION EndsSpec
CONSTANTS
  NoThread = NoThread
  Invalid = Invalid
  Unknown = Unknown
  Threads = {t1, t2}
  Requests = {q1, q2}
  Targeted = {q1}
  MaxPending = 2
  Changes = {"unmatch", "degrade", "duplicate", "lose"}
  MaxCalls = 2
  MaxArrivals = 3
  MaxFaults = 1
  Nobody = Nobody
  PyCalls = {k1, k2}
  MaxEarly = 1
  MaxReplies = 2
  MaxMoves = 1
  MaxIoFaults = 1
INVARIANTS TypeOK CapacityKept NoOrphanClaim CallsCorrelated TakenIsKept StoppedIsQuiet
SYMMETRY EndsSymmetry
CHECK_DEADLOCK FALSE
