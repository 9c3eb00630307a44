SPECIFICATION Spec
CONSTANTS
  h1 = h1  h2 = h2  r1 = r1  r2 = r2  o1 = o1
  Hub = {h1}
  Rru = {r1}
  Oam = {}
  Hop <- StarHop
  Port <- AllPort
  UPort <- StarUPort
  Measurement <- OneMeasurement
  RruDelay <- OwnDelay
  MaxConn = 3
  MaxQueue = 2
  Faults = {"powerLoss"}
  MaxTotals = 1
  RRUToffset = 6
  T12 = 1
CHECK_DEADLOCK FALSE
INVARIANT ConnectedHubKeepsDelays
