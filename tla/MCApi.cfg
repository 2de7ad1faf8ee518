SPECIFICATION FairSpec
CONSTANTS
  None = None
  Configured = "v1.4"
  OtherModels = {"v1.3"}
  Errors = {"RPC_UNAVAILABLE", "POOL_SCHEMA_MISMATCH", "INDEX_CORRUPT"}
  MaxSourceAge = 1
  MaxSkew = 1
  MaxTime = 4
  KilledAt = 1
INVARIANT TypeOK
INVARIANT ReadyMeansPreflight
INVARIANT AvailableIsBacked
INVARIANT NoFalseAlarm
PROPERTY DeadIndexerIsNoticed
CHECK_DEADLOCK FALSE
