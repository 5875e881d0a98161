SPECIFICATION Spec
CONSTANTS
  hot = "hot"
  mastercard = "mastercard"
  Sources = {"hot", "mastercard"}
  Starts <- MCStarts
  Schedules <- MCSchedules
  Moments <- MCMoments
  MaxConcurrency = 1
  MaxAttempts = 2
  MaxRuns = 2
  MaxFaults = 1
  HourLength = 2
  DayLength = 2
  WeekLength = 3
  MonthLength = 4
  YearLength = 2
  DayScan = 24
INVARIANTS
  NextFireIsTheNextSlot
  NothingIsLeaked
PROPERTIES
  ShutdownEnds
  FiresAreServed
CHECK_DEADLOCK FALSE
