SPECIFICATION FairSpec
CONSTANTS
  Alerts = {1, 2, 3, 4}
  BatchSize = 3
  ChunkSize = 2
  Lookback = 1
  MaxTime = 2
  MaxTie = 2
  MaxCopies = 2
  Scenarios <- MCScenarios
INVARIANTS AtLeastOnce ShippedOnce
PROPERTY EveryAlertShipped
CHECK_DEADLOCK FALSE
