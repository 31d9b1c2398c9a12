SPECIFICATION Spec
CONSTANTS
  s1 = s1
  s2 = s2
  a1 = a1
  a2 = a2
  a6 = a6
  n1 = n1
  n2 = n2
  n3 = n3
  r1 = r1
  r2 = r2
  r3 = r3
  Sources <- MCSources
  Addrs <- MCAddrs
  Names <- MCNames
  Remotes <- MCRemotes
  Family <- MCFamily
  Resolves <- MCResolves
  Asks <- AllAsks
  MaxEntries = 3
  MaxQueries = 2
SYMMETRY HeapSymmetry
INVARIANTS
  TypeOK
  TableExact
  RightDestinationIfSingle
  RightLabel
