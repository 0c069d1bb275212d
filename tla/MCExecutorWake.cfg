SPECIFICATION FairSpec
CONSTANTS
  k1 = k1
  k2 = k2
  b1 = b1
  b2 = b2
  b3 = b3
  p1 = p1
  t1 = t1
  s1 = s1
  None = None
  Key <- TwoKeys
  Cmd <- WakeCmd
  IsTx <- WakeTx
  Body <- WakeBody
  QueueCap = 2
CHECK_DEADLOCK FALSE
INVARIANTS IInv NoSleepingWaiter NobodyForgotten NobodyWokenTwice TakenIsDelivered ExecutorDoesNotBlock OnePlaceEach
PROPERTIES ListsPromise RequestsAnswered TimedOutAnswered
