CONSTANTS
  MaxWrites = 3
  QuietStart = TRUE
  Nil = Nil
  s1 = s1
  s2 = s2
  Serials = {s1, s2}
  Handshakes = {h1, h2}
  Signed <- MCSigned
  Revoked <- MCRevoked
SPECIFICATION PeerFairSpec
CHECK_DEADLOCK FALSE
INVARIANTS
  NoChangeLost
  AcceptedAgainstSignedList
  SettledListEnforced
  CacheFromSignedLists
  FatalNeedsRevocation
PROPERTY
  ServedUpdateReachesCache
