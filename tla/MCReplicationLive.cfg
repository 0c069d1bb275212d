SPECIFICATION FairSpec
CONSTANTS
  r1 = r1
  r2 = r2
  w1 = w1
  w2 = w2
  None = None
  Executor = Executor
  Replica = {r1}
  Crashers = {}
  Waiter = {w1, w2}
  Num <- NumLive
  Timed = {w2}
  WriteSize = 1
  GetAckSize = 2
  MaxWrites = 1
  MaxAsks = 1
CHECK_DEADLOCK FALSE
PROPERTIES WaitsEnd
