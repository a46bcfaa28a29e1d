SPECIFICATION FairSpec
CONSTANTS
  c1 = c1
  s1 = s1
  alice = alice
  Channels <- MCChannels
  NoChannel = NoChannel
  Sizes = {2}
  TTLs = {0}
  MaxSize = 2
  MaxBytes = 0
  MaxAge = 1
  MaxAppends = 3
  MaxClock = 2
  Streams <- MCStreams
  Clients <- MCClients
  NoClient = NoClient
  ClientOf <- MCClientOf
  MaxConns = 1
  DrainLimit = 1
  QueueDepth = 2
  QueueBytes = 5
  MsTicks = 2
INVARIANTS
  NoSendOnClosed
  SubsMatchStreams
  LimiterExact
  NoGap
  QueueBytesExact
  LiveInOrder
PROPERTIES
  QueueIsServed
  StreamIsReleased
