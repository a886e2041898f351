SPECIFICATION FairSpec
CONSTANTS
  s1 = s1
  s2 = s2
  Stream = {s1, s2}
  None = None
  Other = Other
  Reset = Reset
  MaxFd = 3
  MaxSetups = 1
  MaxResets = 2
INVARIANTS NoForgottenStream ConfigurationStays
PROPERTIES NewcomerReads
CHECK_DEADLOCK FALSE
