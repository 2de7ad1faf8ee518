SPECIFICATION Spec
CONSTANTS
  Accounts = {alice, bob}
  Amounts = {1, 2}
  MaximumAge = 0
  MaxSnapshots = 2
  Verdict <- MovingVerdict
  Advice <- MovingAdvice
  None = None
  Actions = {"shield"}
  MaxTime = 1
  MaxRequests = 6
  MaxInFlight = 2
  WaitsForWallet = TRUE
SYMMETRY Symmetry
INVARIANTS
  TypeOK
PROPERTIES
  WalletGetsWhatIsShown
  ArtifactBindsItsEvidence
  AcknowledgementIsOfThePlan
CHECK_DEADLOCK FALSE
