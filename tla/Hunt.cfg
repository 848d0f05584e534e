SPECIFICATION MCSpec
CONSTANTS
  vt = vt
  ip1 = ip1
  ip2 = ip2
  sweep = sweep
  button = button
  there = there
  back = back
  Providers <- MCProviders
  Indicators = {ip1, ip2}
  Hunters = {sweep, button}
  Lookups <- MCLookups
  IndicatorsOf <- MCIndicatorsOf
  Concurrency = 1
  Threshold = 1
  Fickle = {}
  Top = 1
  Ttl = 1
  MaxWait = 0
PROPERTY NobodyHangs
