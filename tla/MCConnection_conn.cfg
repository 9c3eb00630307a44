SPECIFICATION ConnSpec
CONSTANTS
  Connection = {c1, c2, c3}
  timeoutSec_ = 3
CHECK_DEADLOCK FALSE
INVARIANTS ConnTypeOK HeldAtLastMessage NeverLate ClosedOnce RegistryTimely OnlyExpiryOverlaps
PROPERTIES NeverEarly EndedConnectionsGo
