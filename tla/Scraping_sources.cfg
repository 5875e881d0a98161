SPECIFICATION Spec
CONSTANTS
  None = None
  Groups <- MCGroups
  Limitations <- MCLimitations
  Aliases <- MCAliases
  ShortKeys = {}
  Placeholders = {"default"}
  Sites <- MCSites
  Truth <- MCTruth
  PageSize = 2
  MaxCategoryPages = 2
  MaxFaults = 3
  Products = {1, 2, 3}
  MaxAttempts = 2
  MaxCrashes = 2
INVARIANTS
  EachOfferArrivesOnce
  DealsTellTheTruth
  FingerprintsTellOffersApart
PROPERTIES
  ScannerLosesNothing
