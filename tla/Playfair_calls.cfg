SPECIFICATION CallSpec
CONSTANTS
  Bit <- MCBit
  Mode <- MCMode
  TableS1 <- MCTableS1
  TableS2 <- MCTableS2
  TableS3 <- MCTableS3
  TableS4 <- MCTableS4
  TableS10 <- MCTableS10
  TableT <- MCTableT
  TableS9 <- MCTableS9
  MessageKey <- MCMessageKey
  Mangle <- MCMangle
  TKey <- MCTKey
  Sample <- MCSample
  Key <- MCKey
  InitialSessionKey <- MCInitialSessionKey
  SapKeyMaterial <- MCSapKeyMaterial
  MessageIV <- MCMessageIV
  SapIV <- MCSapIV
  ZKey <- MCZKey
  XKey <- MCXKey
  XorByte <- MCXorByte
  Digest <- MCDigest
  Garbled <- MCGarbled
  Message <- MCMessage
  StaticSource1 <- MCStaticSource1
  StaticSource2 <- MCStaticSource2
  DefaultSap <- MCDefaultSap
  Swaps <- MCSwaps
  Unset = Unset
INVARIANTS
  CallTypeOK
  ScheduleExpands
  SapTiled
  WordsOncePerQuarter
  DefinedBeforeUse
  DigestChained
PROPERTIES
  ImplementsCBC
  StepsReversible
