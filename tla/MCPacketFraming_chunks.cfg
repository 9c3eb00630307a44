SPECIFICATION Spec
CONSTANTS
  Base = 8
  HeadByte = 6
  EndByte = 7
  HEADLENGTH = 3
  Data <- SmallData
  MinRead = 1
  MaxPackets = 4
CHECK_DEADLOCK FALSE
INVARIANT StickingSolved
