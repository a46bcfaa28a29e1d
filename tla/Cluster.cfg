SPECIFICATION FairSpec
CONSTANTS
  N = 3
  Faults = {}
  MaxCrashes = 2
  MaxScales = 2
  MaxGeneration = 4
INVARIANTS
  FencedOff
PROPERTIES
  ClearedIsKept
  EventuallyLed
  EventuallyJoined
CHECK_DEADLOCK FALSE
