SPECIFICATION FairSpec
CONSTANTS
  c1 = c1
  c2 = c2
  Channels <- MCChannels
  NoChannel = NoChannel
  Sizes = {1, 3}
  TTLs = {0, 1}
  MaxSize = 3
  MaxBytes = 4
  MaxAge = 2
  MaxAppends = 5
  MaxClock = 4
INVARIANTS
  TypeOK
  RingInv
  FIFOInv
  BytesInv
  BudgetInv
  GetInv
PROPERTIES
  ImplementsRetainedLog
  ExpiredIsRemoved
