\* Three notifications for providers that have no row yet.
SPECIFICATION Spec
CONSTANTS
  p1 = p1
  p2 = p2
  errorRate1 = errorRate1
  latency1 = latency1
  errorRate2 = errorRate2
  Null = Null
  Provider <- TwoProviders
  Alarm <- MCAlarms
  ProviderOf <- MCProviderOf
  InitItem <- NoRows
  MaxEvents = 3
  MaxRetries = 2
PROPERTY ConflictsDetected
CHECK_DEADLOCK FALSE
