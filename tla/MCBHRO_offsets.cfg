SPECIFICATION Spec
CONSTANTS
  Hub = {"hub1"}
  Rru = {"rru2", "rru2b"}
  hop <- Hops
  uport <- UPorts
  LinkDelay <- Delays
  m_base = 3
  Name = {1, 2, 3}
  MaxFaults = 0
CHECK_DEADLOCK FALSE
INVARIANT CompensationUpdated
