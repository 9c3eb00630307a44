SPECIFICATION FairSpec
CONSTANTS
  Handle = {h1, h2, h3}
  MaxFaults = 2
CHECK_DEADLOCK FALSE
PROPERTY Reconnects
