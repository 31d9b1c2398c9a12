SPECIFICATION FairSpec
CONSTANTS
  p1 = p1
  p2 = p2
  p3 = p3
  Peers <- ThreePeers
  Trusted <- WhiteList
  MaxOpen = 2
  Malformed = 1
  Bad = 2
  Suspicious = 2
  Malicious = 2
  MaxTries = 1
  MaxEntries = 3
  OneHour = 0
  Firewall = TRUE
  MaxPipe = 2
INVARIANTS
  TypeOK
  RulesFollowTable
  EarnedBlock
PROPERTIES
  Forgiven
CHECK_DEADLOCK FALSE
