SPECIFICATION Spec
CONSTANTS
  None = None
  Quiet = Quiet
  Deposit = Deposit
  Withdrawal = Withdrawal
  V13 = V13
  V14 = V14
  Selectors <- MCSelectors
  Contents = {Deposit, Withdrawal}
  Versions = {V13, V14}
  MaxHeight = 3
  MaxReverts = 2
  Finalized = 1
  MaxHistory = 2
  DeploymentBlock = 1
  MaxRange = 2
  Window = 2
  Horizons = {1, 2}
  HorizonMovesBack = TRUE
  FaultCodes = {"RPC_UNAVAILABLE"}
  MaxFaults = 2
  ReorgMidSync = FALSE
INVARIANTS
  ServedIsBacked
  IndexIsExact
