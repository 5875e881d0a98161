SPECIFICATION Spec
CONSTANTS
    cA = cA
    Keys = {k1, k2}
    Contents = {cA, cB}
    Text <- OwnText
    EndDate <- CAEndsAt2
    NoDate = none
    Null = none
    AbsenceThreshold = 2
    AbsenceGrace = 1
    CoverageNum = 2
    CoverageDen = 3
    ExpireOnSourceDate = TRUE
    Storage = "mongo"
    DeleteExpired = FALSE
    MaxTime = 4
    MaxInterrupts = 1
SYMMETRY Symmetry
INVARIANTS
  TypeOK
  AsOfIsUnambiguous
  ReadModelNeverLeads
PROPERTIES
  HistoryIsAppendOnly
  OnlyAScrapeReactivates
  DealsRetireForAReason
  ImplementsLog
CHECK_DEADLOCK FALSE
