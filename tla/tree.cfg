SPECIFICATION FairSpec
CONSTANTS
  r1 = r1  r2 = r2
  None = None
  NumChunks = 3
  NodeIds = {11, 12, 13, 14}
  Runs = {r1, r2}
  BufferSize = 2
  CascadeSize = 2
  SameJobTwice = FALSE
  Faults = {"provider", "abort"}
  MaxFaults = 1
INVARIANTS NothingFallsOut ChainsDown OneParentUnlessOverlapped
PROPERTIES LifecycleForward FullBufferSeals
CHECK_DEADLOCK FALSE
