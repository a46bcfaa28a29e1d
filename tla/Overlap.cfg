SPECIFICATION Spec
CONSTANTS
  google = google
  azure = azure
  r1 = r1
  r2 = r2
  l1 = l1
  Names <- MCThreeNames
  Providers <- MCOneProvider
  Requests <- MCRequests
  Logins <- MCOneLogin
  Asked <- MCOverlapping
  Stores <- MCFullStore
  MayFail = FALSE
  MaxRequests = 6
SYMMETRY Symmetry
INVARIANT
  SomeGuaranteeKept
