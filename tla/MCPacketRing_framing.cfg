SPECIFICATION RingSpec
CONSTANTS
  Base = 8
  HeadByte = 6
  EndByte = 7
  HEADLENGTH = 3
  Data <- SmallData
  MinRead = 3
  MaxPackets = 5
  MaxRead = 16
  CycleBufferSize = 26
CHECK_DEADLOCK FALSE
INVARIANTS TypeOK BytesAccounted NothingWithheld
PROPERTIES ImplementsStream RingImplementsList
