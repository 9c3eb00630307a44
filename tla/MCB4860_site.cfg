SPECIFICATION Spec
CONSTANTS
  h1 = h1  h2 = h2  r1 = r1  r2 = r2  o1 = o1
  Hub = {h1, h2}
  Rru = {r2}
  Oam = {o1}
  Hop <- ChainHop
  Port <- AllPort
  UPort <- ChainUPort
  Measurement <- OneMeasurement
  RruDelay <- OwnDelay
  MaxConn = 3
  MaxQueue = 1
  Faults = {"exit"}
  MaxTotals = 0
  RRUToffset = 6
  T12 = 1
CHECK_DEADLOCK FALSE
INVARIANTS RouteIndexShape KnownBeforeUse UpgradingIsPending
