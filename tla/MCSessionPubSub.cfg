SPECIFICATION FairSpec
CONSTANTS
  a = a
  b = b
  d = d
  x = x
  y = y
  p = p
  None = None
  Conn <- Three
  Channel = {x, y}
  Password = {p}
  Requests <- PubSubRequests
  MaxRequests <- PubSubMax
  MaxExec = 1
  SocketCap = 1
  Readers = {a, b, d}
  Leavers = {b}
CHECK_DEADLOCK FALSE
INVARIANTS SInv SubscriptionsAgree CountIsDelivered
PROPERTIES MessagesOnlyToSubscribers RequestsAnswered
