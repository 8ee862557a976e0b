\* Three notifications over two providers, p1 with a row and p2 without, each invocation
\* retried once.
SPECIFICATION Spec
CONSTANTS
  p1 = p1
  p2 = p2
  errorRate1 = errorRate1
  latency1 = latency1
  errorRate2 = errorRate2
  Null = Null
  Provider <- TwoProviders
  Alarm <- MCAlarms
  ProviderOf <- MCProviderOf
  InitItem <- OneSeeded
  MaxEvents = 3
  MaxRetries = 1
INVARIANTS
  TypeOK
  HealthyIffNoAlarm
  OrderlyAlarmsRecorded
PROPERTIES
  NoLostUpdate
  ImplementsLedger
CHECK_DEADLOCK FALSE
