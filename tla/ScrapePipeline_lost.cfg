SPECIFICATION PipelineSpec
CONSTANTS
    cA = cA
    Keys = {k1, k2}
    Contents = {cA}
    Text <- OwnText
    EndDate <- Undated
    NoDate = none
    Null = none
    AbsenceThreshold = 2
    AbsenceGrace = 2
    CoverageNum = 1
    CoverageDen = 2
    ExpireOnSourceDate = TRUE
    Storage = "mongo"
    DeleteExpired = FALSE
    MaxTime = 4
    MaxInterrupts = 1
    KnownStores = {k1, k2}
    WithRebuild = FALSE
SYMMETRY Symmetry
CHECK_DEADLOCK FALSE
PROPERTY NextRunRedoesTheWork
