\* A pair without the native currency: three routes, two instances, two of them taken.
SPECIFICATION Spec
CONSTANTS
  c1 = c1
  c2 = c2
  None = None
  Route <- Routes
  ProtocolOf <- MCProtocolOf
  PoolsOf <- MCPoolsOf
  Currency = {"wrapped"}
  ProtocolSets <- MCProtocolSets
  Client = {c1, c2}
  RoutesToTake = 2
  BatchSize = 1
  MaxBlock = 1
  MaxSets = 2
SYMMETRY ClientSymmetry
INVARIANTS
  TypeOK
  ServedAsRequested
  MostRecentFound
  DeletedRoutesGone
CHECK_DEADLOCK FALSE
