SPECIFICATION FairSpec
CONSTANTS
  Wazuh = w
  Falcon = f
  Cortex = x
  Connectors = {w, f, x}
  Pollers = {p1}
  Alerts <- MCAlerts
  TimeOf <- MCTimeOf
  VendorOf <- MCVendorOf
  ArrivalOf <- MCArrivalOf
  Limit = 3
  Rejected = {}
  Lookback = 1
  MaxClock = 2
  MaxRows = 1
  MaxCopies = 2
INVARIANTS NoLoss NoDuplicates
PROPERTIES CursorAdvances ImplementsEventFeed EveryAlertArrives
CHECK_DEADLOCK FALSE
