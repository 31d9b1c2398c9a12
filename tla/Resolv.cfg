SPECIFICATION FairSpec
CONSTANTS
  Clients = {c1, c2}
  Blocks = {b1, b2}
  MaxRecords = 2
  Accepted <- SomeAccepted
INVARIANTS
  TypeOK
  HandlesLive
  LookupsOwned
PROPERTIES
  Heard
  QueriesEnd
