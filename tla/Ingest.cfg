SPECIFICATION FairSpec
CONSTANTS
  p1 = p1
  p2 = p2
  p3 = p3
  p4 = p4
  hostile = hostile
  unknown = unknown
  p5 = p5
  p6 = p6
  Payloads = {p1, p2, p3, p4, p5, p6, hostile, unknown}
  KindOf <- MCKindOf
  TimeOf <- MCTimeOf
  SignalOf <- MCSignalOf
  GraphOf <- MCGraphOf
  ContentOf <- MCContentOf
  Batches = {1, 2, 3}
INVARIANTS BatchLands SignalsCountEvents SpansHoldEvents GraphsAreWhole
PROPERTY BatchesEnd
CHECK_DEADLOCK FALSE
