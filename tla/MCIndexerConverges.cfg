SPECIFICATION FairSpec
CONSTANTS
  None = None
  Quiet = Quiet
  Deposit = Deposit
  Withdrawal = Withdrawal
  V13 = V13
  V14 = V14
  Selectors <- MCSelectors
  Contents = {Quiet, Deposit}
  Versions = {V13}
  MaxHeight = 4
  MaxReverts = 2
  Finalized = 2
  MaxHistory = 1
  DeploymentBlock = 1
  MaxRange = 2
  Window = 2
  Horizons = {1, 2}
  HorizonMovesBack = FALSE
  FaultCodes = {"RPC_UNAVAILABLE"}
  MaxFaults = 1
  ReorgMidSync = TRUE
INVARIANTS
  StoreIsOneChain
PROPERTIES
  Converges
