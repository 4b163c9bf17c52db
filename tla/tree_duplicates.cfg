SPECIFICATION Spec
CONSTANTS
  r1 = r1  r2 = r2
  None = None
  NumChunks = 3
  NodeIds = {11, 12, 13}
  Runs = {r1, r2}
  BufferSize = 2
  CascadeSize = 2
  SameJobTwice = FALSE
  Faults = {}
  MaxFaults = 0
INVARIANT OneParent
CHECK_DEADLOCK FALSE
