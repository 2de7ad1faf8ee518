SPECIFICATION FairSpec
CONSTANTS
  Deposit = Deposit
  Key = Key
  None = None
  Contents <- MCContents
  Queries <- MCQueries
  Timestamp <- MCTimestamp
  MaxHeight = 5
  MaxReverts = 1
  Finalized = 1
  DeploymentBlock = 1
  Required = 1
  SourceOptions = {None, 1, 4}
  MaxSourceAge = 2
  MaxIndexLag = 2
  Evaluations = {1, 3, 9}
INVARIANT TypeOK
INVARIANT AcceptedIsExact
INVARIANT RefusesOnlyAfterReorg
INVARIANT BoundaryIsTight
PROPERTY Completes
CHECK_DEADLOCK FALSE
