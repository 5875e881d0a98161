SPECIFICATION Spec
CONSTANTS
  a = a
  Tags = {a}
  Requests <- MuteOrRelevel
  Results <- SomeOrNone
  Tabs = {t1, t2}
  Commands = {c1}
  Saves = {s1}
  Assigns = {d1}
  Retries = 1
  MaxBusy = 2
  MaxRestarts = 1
  None = None
INVARIANTS
  TableHoldsOnlyOpenTabs
  SerialSyncIsExact
PROPERTIES
  NoLostUpdate
  EventsSettle
CHECK_DEADLOCK FALSE
