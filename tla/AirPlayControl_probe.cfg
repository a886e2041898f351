SPECIFICATION Spec
CONSTANTS
  Conn = {1, 2}
  v1 = v1
  Stream = {v1}
  None = 0
  MaxEvents = 3
  MaxBatch = 1
  MaxStops = 0
PROPERTIES ProbeSparesMirror
CHECK_DEADLOCK FALSE
