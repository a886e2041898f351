SPECIFICATION FairSpec
CONSTANTS
  Call = {c1, c2}
  MaxInputs = 3
INVARIANTS ResumedOnce OffMeansOffAir GattInstalledOnce AdvertisedWithService
PROPERTIES EveryConnectReturns
CHECK_DEADLOCK FALSE
