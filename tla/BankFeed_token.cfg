SPECIFICATION Spec
CONSTANTS
  r1 = r1
  r2 = r2
  a1 = a1
  a2 = a2
  Requests = {r1, r2}
  Accounts = {a1, a2}
  Routes <- MCRoutes
  Pages <- MCPages
  MaxRevoked = 2
  MaxExpired = 1
  MaxFaults = 1
  None = None
INVARIANTS
  RefreshesAreCollapsed
  RetriesUseAnotherToken
PROPERTIES
  RequestsEndWhole
CHECK_DEADLOCK FALSE
