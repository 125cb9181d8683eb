SPECIFICATION FairSpec
CONSTANTS
  t1 = t1
  t2 = t2
  t3 = t3
  r1 = r1
  r2 = r2
  r3 = r3
  NoThread = NoThread
  Threads = {t1}
  Readers = {r1}
  Waitables <- Single
  Operations = {"add", "readd"}
  Failing = {}
  MaxRegistrations = 2
  MaxCalls = 2
  MaxFaults = 0
PROPERTY AddReturns
CHECK_DEADLOCK FALSE
