SPECIFICATION Spec
CONSTANTS
  Zero = 0
  Null = Null
  Request <- Requests
  BufferSize = 12
  MaxSent = 2
CHECK_DEADLOCK FALSE
INVARIANTS LeftoverIsUnprocessed
