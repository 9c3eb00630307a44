SPECIFICATION FairSpec
CONSTANTS
  Hub = {"hub1", "hub2"}
  Rru = {"rru3"}
  hop <- Hops
  uport <- UPorts
  LinkDelay <- Delays
  m_base = 2
  Name = {1, 2, 3}
  MaxFaults = 2
CHECK_DEADLOCK FALSE
INVARIANTS TypeOK FlagMarksRefused RoutedOrClosing RouteIsHubs StaleOnlyAtPortZero TotalsHaveRru
PROPERTY RefusedRrusReturn
