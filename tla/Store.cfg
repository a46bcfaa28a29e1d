SPECIFICATION Spec
CONSTANTS
  n1 = n1
  n2 = n2
  c1 = c1
  Nodes <- MCTwoNodes
  Channels <- MCChannels
  Names <- MCNoNames
  BootstrapFiles <- MCFiles
  NoSnapshotRestore = {TRUE, FALSE}
  Concurrent = TRUE
  MaxLog = 4
  MaxCrashes = 1
  MaxSnapshots = 1
INVARIANTS
  Recovered
  BootstrapOnce
CHECK_DEADLOCK FALSE
SYMMETRY MCSymmetry
