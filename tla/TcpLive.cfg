SPECIFICATION FairSpec
CONSTANTS
  IvLen = 1
  HdrLen = 3
  BufSize = 6
  UpTotal = 8
  DnTotal = 2
  FirstWrite = 5
  Faults = FALSE
  Clients <- SafeSessions
PROPERTIES
  AllDelivered
CHECK_DEADLOCK FALSE
