CONSTANTS
  Catalog <- MCCatalog
  Queries <- MCQueries
  MaxOffered = 3
  Budgets = {2, 3}
  ClubRows <- MCClubRows
  Stripped <- MCStripped
  TopN = 4
  Grain = 20
  Nil = Nil
SPECIFICATION OptimizerSpec
INVARIANTS
  FirstOptionIsOptimal
  OptionsAreSound
CHECK_DEADLOCK FALSE
