SPECIFICATION CommandSpec
CONSTANTS
  k1 = k1  k2 = k2  k3 = k3
  alice = alice  alise = alise  bob = bob
  Key <- MCKey
  Name <- MCName
  Near <- MCNear
  ServerName = ServerName
  Server = Server
  NoName = NoName
  RegisterOpenMax = 2
  MaxHead = 7
SYMMETRY Symmetry
CHECK_DEADLOCK FALSE
INVARIANTS
  OneLiveKeyPerName
  PendingPairsOff
  RevokedInTheLog
  TrustWasEarned
PROPERTIES
  OwnerGetsWhatWasSeen
  OnlyTheOwnerDecides
  NamesAreKept
