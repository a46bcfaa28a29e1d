SPECIFICATION Spec
CONSTANTS
  k1 = k1
  k2 = k2
  t1 = t1
  t2 = t2
  p1 = p1
  a1 = a1
  a2 = a2
  NoChannel = NoChannel
  Posts = {p1}
  Admins = {a1, a2}
  Bodies <- MCBodies
  Changes <- MCChanges
  Globals <- MCGlobals
  MaxPosts = 1
  MaxChanges = 2
SYMMETRY MCSymmetry
INVARIANTS
  QuietExact
  ChecksHeld
  StrictSigned
  NoPlaintext
  TTLSettles
CHECK_DEADLOCK FALSE
