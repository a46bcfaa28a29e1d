SPECIFICATION Spec
CONSTANTS
  i1 = i1
  a1 = a1
  a2 = a2
  s1 = s1
  s2 = s2
  IPs = {i1}
  Accounts = {a1, a2}
  Configs <- MCConfigs
  DefaultWindow = 3
  Slots = {s1, s2}
  MaxTime = 4
  MaxRequests = 3
  MaxChanges = 2
SYMMETRY MCSymmetry
INVARIANTS
  WindowExact
  GuessBound
PROPERTIES
  BanSound
  BanHolds
CHECK_DEADLOCK FALSE
