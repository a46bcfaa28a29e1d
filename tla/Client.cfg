SPECIFICATION FairSpec
CONSTANTS
  c1 = c1
  c2 = c2
  k1 = k1
  k2 = k2
  Commands = {"client", "replay"}
  Options <- MCOptions
  Messages <- MCMessages
  Channel = c1
  PerPage = 2
  MaxMessages <- MCMaxMessages
  MaxBreaks = 2
  MaxTime = 2
INVARIANTS
  InOrder
  
  PollsMeet
PROPERTIES
  EventuallyHandled
CHECK_DEADLOCK FALSE
