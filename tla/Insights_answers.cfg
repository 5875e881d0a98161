SPECIFICATION InsightsSpec
CONSTANTS
  a1 = a1
  a2 = a2
  a3 = a3
  Rows <- MCRows
  MaxInstallments = 4
  RatioGrain = 200
  MaxShops = 2
  TopCategories = 2
  TopAccounts = 2
  TopStores = 2
  Days = 7
  Absent = Absent
INVARIANTS
  TotalsAreWhatHappened
  BreakdownsAddUp
CHECK_DEADLOCK FALSE
