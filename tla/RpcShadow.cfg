\* Shadow calls: two providers, one session, any sample drawn, three calls.
SPECIFICATION Spec
CONSTANTS
  never = never
  main = main
  fallback1 = fallback1
  fallback2 = fallback2
  s1 = s1
  s2 = s2
  s3 = s3
  None = None
  Provider <- TwoProviders
  Position <- TwoPositions
  Weight <- TwoWeights
  DbSynced = {main}
  Session = {s1}
  MaxSessions = 1
  Sampling = TRUE
  HealthWait = 1
  LatencyWait = 0
  Method = {"call", "getCode"}
  MaxCalls = 3
  MaxPending = 3
  MaxTime = 4
INVARIANTS
  TypeOK
  OneHealthCheck
  ShadowsInRequests
PROPERTIES
  HealthChecksSpaced
CHECK_DEADLOCK FALSE
