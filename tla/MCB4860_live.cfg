SPECIFICATION FairSpec
CONSTANTS
  h1 = h1  h2 = h2  r1 = r1  r2 = r2  o1 = o1
  Hub = {h1}
  Rru = {r1}
  Oam = {o1}
  Hop <- StarHop
  Port <- AllPort
  UPort <- StarUPort
  Measurement <- TwoMeasurements
  RruDelay <- OwnDelay
  MaxConn = 2
  MaxQueue = 2
  Faults = {"exit", "bbuRestart", "rebootFails"}
  MaxTotals = 0
  RRUToffset = 6
  T12 = 1
CHECK_DEADLOCK FALSE
PROPERTIES HubsMeasured RrusAnswered DeparturesNoticed
INVARIANTS TypeOK OneMeasurementPerLevel
