\* Two notifications with the deployed number of retries, from an empty table.
SPECIFICATION FairSpec
CONSTANTS
  p1 = p1
  p2 = p2
  errorRate1 = errorRate1
  latency1 = latency1
  errorRate2 = errorRate2
  Null = Null
  Provider <- TwoProviders
  Alarm <- MCAlarms
  ProviderOf <- MCProviderOf
  InitItem <- NoRows
  MaxEvents = 2
  MaxRetries = 2
PROPERTY EveryAlertSettles
CHECK_DEADLOCK FALSE
