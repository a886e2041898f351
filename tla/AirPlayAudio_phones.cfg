SPECIFICATION OneAtATime
CONSTANTS
  p1 = p1
  p2 = p2
  Phone = {p1, p2}
  None = None
  MaxMessages = 2
  First = 65535
  Ahead <- MCAhead
  Behind <- MCBehind
  MaxStreams = 2
  MaxDatagrams = 3
  MaxPending = 2
SYMMETRY PhoneSymmetry
INVARIANTS
  UndisturbedKey
  SetupRetiresMessages
  ForwardOnly
  OnePhoneHeard
  StoppedIsSilent
PROPERTIES
  NewerIsPlayed
