SPECIFICATION FairSpec
CONSTANTS
  IvLen = 1
  HdrLen = 3
  BufSize = 6
  UpTotal = 8
  DnTotal = 2
  FirstWrite = 1
  Faults = TRUE
  Clients <- SafeSessions
INVARIANTS
  UpInOrder
  NoOrphans
  GracefulEof
PROPERTIES
  PipeSpec
  RemoteEofCloses
CHECK_DEADLOCK FALSE
