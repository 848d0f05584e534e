SPECIFICATION MCSpec
CONSTANTS
  Events = {e1, e2, e3, e4}
  HostOf <- MCHostOf
  TimeOf <- MCTimeOf
  e1 = e1
  e2 = e2
  e3 = e3
  e4 = e4
  Windows = {2}
  Correlators = {auto}
  Analysts = {alice}
  Statuses = {"triaged"}
  Ids = {1, 2, 3, 4, 5, 6}
  Runs = {i1}
  Cases = {c1}
  Flow = {"new", "closed"}
  Requests = {r1}
INVARIANTS ClustersAreChains NoDuplicates NoDanglingRows
PROPERTIES TriagedSurvive NotResurrected PassesAnswer RunsSettle
CHECK_DEADLOCK FALSE
