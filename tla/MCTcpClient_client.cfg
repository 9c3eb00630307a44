SPECIFICATION FairSpec
CONSTANTS
  Handle = {h1, h2, h3}
  MaxFaults = 6
CHECK_DEADLOCK FALSE
INVARIANTS TypeOK OneAttempt HandlesOwned WritesOnOpen
PROPERTY ReconnectsUnlessFailed
