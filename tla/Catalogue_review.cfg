SPECIFICATION Spec
CONSTANTS
  None = None
  golf = golf
  Spellings = {}
  LowInformation = {}
  OnlineWords = {"online"}
  Records <- MCRecords
  SeedStores <- MCStores
  Merchants = {"lisa.co.il", "golf.co.il"}
  Wrappers = {"shops"}
  VoucherWords = {"voucher"}
  Categories = {"food"}
  ReviewNoMatch = TRUE
  Groups <- MCGroups
  Cards <- MCCards
  TypedNames <- MCTypedNames
  MaxTurns <- MCTurns
  MaxCommands = 4
  MaxCrashes = 1
INVARIANTS
  DecisionsStick
  OnlineParity
  NamesAreMadeOnce
  MembersWaitOnce
PROPERTIES
  HandEntriesSurvive
CHECK_DEADLOCK FALSE
