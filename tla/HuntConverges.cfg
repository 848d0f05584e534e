SPECIFICATION MCSpec
CONSTANTS
  vt = vt
  ip1 = ip1
  sweep = sweep
  request = request
  Providers <- MCProviders
  Indicators = {ip1}
  Hunters = {sweep}
  Lookups <- MCLookups
  IndicatorsOf <- MCIndicatorsOf
  Concurrency = 1
  Threshold = 1
  Fickle = {ip1}
  Top = 2
  Ttl = 1
  MaxWait = 1
INVARIANT AnswersWithinTtl
PROPERTY LeadsConverge
