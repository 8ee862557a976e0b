\* The choice of providers: every kind of weight, three sessions in a cache of two, the
\* sample probabilities of the deployed configuration (0).
SPECIFICATION Spec
CONSTANTS
  never = never
  main = main
  fallback1 = fallback1
  fallback2 = fallback2
  s1 = s1
  s2 = s2
  s3 = s3
  None = None
  Provider <- AllProviders
  Position <- AllPositions
  Weight <- AllWeights
  DbSynced = {}
  Session = {s1, s2, s3}
  MaxSessions = 2
  Sampling = FALSE
  HealthWait = 0
  LatencyWait = 0
  Method = {"getCode"}
  MaxCalls = 5
  MaxPending = 1
  MaxTime = 1
SYMMETRY SessionSymmetry
PROPERTIES
  SelectionFollowsWeights
  SessionSticks
CHECK_DEADLOCK FALSE
