SPECIFICATION Spec
CONSTANTS
  n1 = n1
  n2 = n2
  c1 = c1
  Nodes <- MCOneNode
  Channels <- MCNoChannels
  Names <- MCNames
  BootstrapFiles <- MCNoFiles
  NoSnapshotRestore = {FALSE}
  Concurrent = FALSE
  MaxLog = 6
  MaxCrashes = 1
  MaxSnapshots = 0
INVARIANT RecoveredUsers
CHECK_DEADLOCK FALSE
