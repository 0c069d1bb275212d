SPECIFICATION Spec
CONSTANTS
  Member <- Three
  Score = {1, 2}
  NaN = NaN
  Cap = 2
  HeadNode = HeadNode
  Nil = Nil
  MaxPairs = 2
  Ranks <- Indexes
  Searches <- Areas
CHECK_DEADLOCK FALSE
INVARIANTS ZInv SpansAreDistances MapAndListAgree
PROPERTIES SetPromise
