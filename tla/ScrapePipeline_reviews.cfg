SPECIFICATION PipelineSpec
CONSTANTS
    cA = cA
    Keys = {k1, k2}
    Contents = {cA, cB}
    Text <- OwnText
    EndDate <- Undated
    NoDate = none
    Null = none
    AbsenceThreshold = 2
    AbsenceGrace = 1
    CoverageNum = 1
    CoverageDen = 2
    ExpireOnSourceDate = TRUE
    Storage = "json"
    DeleteExpired = TRUE
    MaxTime = 4
    MaxInterrupts = 1
    KnownStores = {k1}
    WithRebuild = TRUE
INVARIANTS
  ArchiveCoversHeads
  CollectionsAgree
CHECK_DEADLOCK FALSE
