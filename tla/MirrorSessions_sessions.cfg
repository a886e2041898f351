SPECIFICATION FairSpec
CONSTANTS
  Device = {d1, d2}
  UsbTask = {t1, t2}
  AirPlay = airplay
  Network = network
  None = none
  MaxInputs = 3
  Flaky = {t1, t2}
INVARIANTS TypeOK SessionsAreLive ActiveIsLive TrackedIsPlugged NoOrphanCapture
CHECK_DEADLOCK FALSE
PROPERTIES OrphansStop
