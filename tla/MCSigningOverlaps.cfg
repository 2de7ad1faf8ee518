SPECIFICATION Spec
CONSTANTS
  Accounts = {alice, bob}
  Amounts = {1, 2}
  MaximumAge = 0
  MaxSnapshots = 1
  Verdict <- StillVerdict
  Advice <- StillAdvice
  None = None
  Actions = {"shield", "withdraw"}
  MaxTime = 1
  MaxRequests = 6
  MaxInFlight = 2
  WaitsForWallet = FALSE
SYMMETRY Symmetry
INVARIANTS
  ProgressHasARequest
PROPERTIES
  NoUnbackedCall
CHECK_DEADLOCK FALSE
