SPECIFICATION Spec
CONSTANTS
  None = None
  Quiet = Quiet
  Deposit = Deposit
  Withdrawal = Withdrawal
  V13 = V13
  V14 = V14
  Selectors <- MCSelectors
  Contents = {Quiet, Deposit}
  Versions = {V13}
  MaxHeight = 3
  MaxReverts = 1
  Finalized = 0
  MaxHistory = 2
  DeploymentBlock = 1
  MaxRange = 4
  Window = 3
  Horizons = {1}
  HorizonMovesBack = FALSE
  FaultCodes = {"RPC_UNAVAILABLE"}
  MaxFaults = 0
  ReorgMidSync = TRUE
INVARIANTS
  ServedIsExact
