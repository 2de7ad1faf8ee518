SPECIFICATION Spec
CONSTANTS
  Accounts = {alice}
  Amounts = {1, 2}
  MaximumAge = 1
  MaxSnapshots = 1
  Verdict <- MovingVerdict
  Advice <- MovingAdvice
  None = None
  Actions = {"shield"}
  MaxTime = 0
  MaxRequests = 8
  MaxInFlight = 2
  WaitsForWallet = FALSE
PROPERTIES
  WalletGetsWhatIsShown
CHECK_DEADLOCK FALSE
