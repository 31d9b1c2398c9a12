SPECIFICATION SwitchSpec
CONSTANTS
  Node = "m"
  BackupNodes <- Backups
  Others = 1
  MaxFiles = 5
INVARIANTS
  SwitchTypeOK
  OthersWatched
PROPERTY
  SettlesDown
