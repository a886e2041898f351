SPECIFICATION Spec
CONSTANTS
  s1 = s1
  s2 = s2
  Stream = {s1, s2}
  None = None
  Other = Other
  Reset = Reset
  MaxFd = 2
  MaxSetups = 1
  MaxResets = 0
SYMMETRY StreamSymmetry
PROPERTIES StopSparesOthers
CHECK_DEADLOCK FALSE
