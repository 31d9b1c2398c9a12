SPECIFICATION PluginsSpec
CONSTANTS
  Sessions <- HonestSessions
  RequestSizes = {60, 2000}
  ReplySizes = {300, 2048}
  HelloSize = 450
  Request = 380
  Extra = {0, 63}
  PieceSizes = {100, 4195}
  CutDistances <- CutsNearEnds
  MaxRequests = 2
  LastConnection = 2
CHECK_DEADLOCK FALSE
INVARIANTS
  PluginsTypeOK
  Served
PROPERTY
  Completes
