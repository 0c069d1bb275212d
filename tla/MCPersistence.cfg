SPECIFICATION Spec
CONSTANTS
  Key = {"k1", "k2"}
  String = {"a", "b"}
  List = List
  None = None
  Dump <- Dumps
  Saver = {s1, s2}
  MaxTime = 2
  MaxStarts = 2
CHECK_DEADLOCK FALSE
INVARIANTS SavedIsRestored
