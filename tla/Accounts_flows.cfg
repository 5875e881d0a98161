SPECIFICATION Spec
CONSTANTS
  MaxAttempts = 2
  MaxResends = 2
  MaxFailures = 2
  RotateRefresh = TRUE
  MaxTokens = 2
  MaxAccounts = 2
  None = None
INVARIANTS
  NewCodeEndsTicket
  RowsBelongToAnAccount
PROPERTIES
  AnsweredResetEndsSessions
CHECK_DEADLOCK FALSE
