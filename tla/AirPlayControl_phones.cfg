SPECIFICATION FairSpec
CONSTANTS
  Conn = {1, 2}
  v1 = v1
  Stream = {v1}
  None = 0
  MaxEvents = 3
  MaxBatch = 1
  MaxStops = 1
INVARIANTS ServedAreRegistered ResourcesHaveOwner
PROPERTIES StreamUsesItsKey EndIsHeard
CHECK_DEADLOCK FALSE
