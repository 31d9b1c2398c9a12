SPECIFICATION Spec
CONSTANTS
  Invocations = {11, 12}
  Looks = 3
  MaxMonitors = 2
INVARIANTS
  TypeOK
  OneAtATime
PROPERTY
  Recovers
