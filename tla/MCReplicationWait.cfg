SPECIFICATION Spec
CONSTANTS
  r1 = r1
  r2 = r2
  w1 = w1
  w2 = w2
  None = None
  Executor = Executor
  Replica = {r1, r2}
  Crashers = {r2}
  Waiter = {w1}
  Num <- NumOne
  Timed = {}
  WriteSize = 1
  GetAckSize = 2
  MaxWrites = 2
  MaxAsks = 1
CHECK_DEADLOCK FALSE
INVARIANTS RInv SlaveBehind AcksAreTrue WaitIsSound
PROPERTIES NoGap AcksGrow
