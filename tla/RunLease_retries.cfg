SPECIFICATION FairSpec
CONSTANTS
    Replicas = {r1, r2}
    Orphan = orphan
    MaxAttempts = 3
    Timeout = 4
    MaxDelay = 1
    Lag = 1
    GcAfter = 3
INVARIANTS
  FirstAttemptsNeverOverlap
PROPERTIES
  LiveLeaseIsRespected
  SourceIsNeverStuck
  EveryRunEnds
