SPECIFICATION Spec
CONSTANTS
  Device = {d1}
  UsbTask = {t1}
  AirPlay = airplay
  Network = network
  None = none
  MaxInputs = 3
  Flaky = {}
INVARIANTS
  OffMeansNoSessions
CHECK_DEADLOCK FALSE
