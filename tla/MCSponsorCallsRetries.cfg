SPECIFICATION Spec
CONSTANTS
  None = None
  ContextNeeded = 2
  CostLimit = 2
  Order <- MCOrder
  Catalogs <- MCCatalogs
  SmokeModel = 2
  Sources = {"first", "second", "unparsable"}
  VerdictOn <- MCVerdictOn
  Tokens = {3}
  MaxModelRetries = 1
  MaxSearchRetries = 2
  MaxTransients = 2
INVARIANT RetriesAreAttempts
CHECK_DEADLOCK FALSE
