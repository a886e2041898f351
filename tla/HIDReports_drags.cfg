SPECIFICATION Spec
CONSTANTS
  Window = {w1,w2}
  Shortcut = {s1}
  MaxEvents = 2
  MaxQueue = 2
  None = None
SYMMETRY ReportSymmetry
INVARIANTS TypeOK ReportsArrive ReleasedAtRest
CHECK_DEADLOCK FALSE
