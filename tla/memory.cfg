SPECIFICATION FairSpec
CONSTANTS
  c1 = c1  c2 = c2
  Chunks = {c1, c2}
  NumSlots = 2
  Threshold = 1
  LastDay = 1
  MaxRetries = 2
  Faults = {"model", "worker", "overrun", "tick", "down", "erasure"}
  MaxFaults = 2
  MaxPersists = 3
CONSTRAINT MCErasure
INVARIANTS TypeOK OneNodePerScope HotEntityHasNode LockedNodesErased RowsHaveFiles
PROPERTIES DayDigested
CHECK_DEADLOCK FALSE
