SPECIFICATION Spec
CONSTANTS
  google = google
  azure = azure
  r1 = r1
  r2 = r2
  l1 = l1
  Names <- MCNames
  Providers <- MCProviders
  Requests <- MCRequests
  Logins <- MCOneLogin
  Asked <- MCAsked
  Stores <- MCStores
  MayFail = TRUE
  MaxRequests = 3
SYMMETRY Symmetry
INVARIANTS
  AccountsTypeOK
  IndexLostOnlyByRace
  AdminLostOnlyByRace
  ProviderLostOnlyByRace
  RevocationLostOnlyByRace
