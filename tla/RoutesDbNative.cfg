\* A pair with the native currency, cached for it and for its wrapped token.
SPECIFICATION Spec
CONSTANTS
  c1 = c1
  c2 = c2
  None = None
  Route <- Routes
  ProtocolOf <- MCProtocolOf
  PoolsOf <- MCPoolsOf
  Currency = {"native", "wrapped"}
  ProtocolSets <- MCProtocolSets
  Client = {c1, c2}
  RoutesToTake = 2
  BatchSize = 1
  MaxBlock = 1
  MaxSets = 2
SYMMETRY ClientSymmetry
INVARIANT MostRecentFound
CHECK_DEADLOCK FALSE
