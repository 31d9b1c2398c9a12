SPECIFICATION FairSpec
CONSTANTS
  main = main
  spare = spare
  Servers <- TwoServers
  Main = main
  Enabled <- AllEnabled
  MaxJobs = 2
  Patience = 2
  Nobody = Nobody
INVARIANTS
  TypeOK
  NoStaleLock
  ComesUp
  SwitchKnowsAlone
  StopIsFinal
PROPERTIES
  ReturnsToMain
