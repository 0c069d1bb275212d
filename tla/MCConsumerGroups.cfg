SPECIFICATION Spec
CONSTANTS
  g = g
  a = a
  b = b
  r = r
  s = s
  None = None
  Nobody = Nobody
  MaxUint = 2
  Group = {g}
  Consumer = {a, b}
  Reader = {r, s}
  Added <- Asked
  Starts <- Given
  Counts = {0, 1}
  MinIdles = {1}
  FirstMs = 1
  LastMs = 2
  MaxEntries = 2
  MaxPending = 2
  MaxParked = 2
SYMMETRY Symmetry
INVARIANTS GInv NothingSkipped CountsAgree AckIsFinal 
 
