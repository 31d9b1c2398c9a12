SPECIFICATION Spec
CONSTANTS
  Protocols <- AllProtocols
  WriteSizes = {1, 400, 901, 2048}
  HeadSizes = {7, 30}
  Paddings = {1, 200, 1024}
  Cuts <- CutsNearEnds
  MaxWrites = 2
  MaxConnections = 3
  FirstIds = {1, 2}
  LastId = 3
CHECK_DEADLOCK FALSE
INVARIANTS
  TypeOK
  Reassembles
  PackingFits
  HeadersDistinct
