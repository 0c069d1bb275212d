SPECIFICATION Spec
CONSTANTS
  a = a
  b = b
  d = d
  x = x
  y = y
  p = p
  None = None
  Conn <- Two
  Channel = {x, y}
  Password = {p}
  Requests <- TxRequests
  MaxRequests <- TxMax
  MaxExec = 1
  SocketCap = 9
  Readers = {}
  Leavers = {}
CHECK_DEADLOCK FALSE
INVARIANTS XInv StrangersDoNothing
PROPERTIES DiscardedNeverRun TransactionsPromise
