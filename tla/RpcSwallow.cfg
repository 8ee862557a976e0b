\* Latency evaluations of two providers: what becomes of their errors.
SPECIFICATION Spec
CONSTANTS
  never = never
  main = main
  fallback1 = fallback1
  fallback2 = fallback2
  s1 = s1
  s2 = s2
  s3 = s3
  None = None
  Provider <- TwoProviders
  Position <- TwoPositions
  Weight <- TwoWeights
  DbSynced = {}
  Session = {s1}
  MaxSessions = 1
  Sampling = TRUE
  HealthWait = 1
  LatencyWait = 1
  Method = {"call", "send"}
  MaxCalls = 3
  MaxPending = 3
  MaxTime = 5
INVARIANT ShadowErrorsSwallowed
CHECK_DEADLOCK FALSE
