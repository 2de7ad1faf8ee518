SPECIFICATION Spec
CONSTANTS
  ObservationSeconds = 8
  CohortSeconds = 2
  DaySeconds = 2
  ProximitySeconds = 1
  ChannelSeconds = 1
  ThinCohort = 1
  MinAddresses = 2
  MinActiveDays = 2
  RoundUnit = 2
  RowLimit = 2
  CoverDeadline = 1
  Synthetic = Synthetic
  alice = alice
  bob = bob
  carol = carol
  Accounts = {alice, bob, carol}
  Tokens = {"T", "U"}
  Actors = {bob}
  User = carol
  Amounts <- ThreeAmounts
  Sessions <- AllSessions
  PageDeadline = 0
  StartTime = 6
  MaxTime = 8
  MaxArrivals = 1
INVARIANTS
  TypeOK
  BurstIsTheBusiestWindow
  VerdictIsReplayable
  OrderIsIrrelevant
  RecommendationIsClosest
  RecommendedDepositIsAllowed
  HealthyHasAPast
  CoverHoldsForNewcomers
PROPERTIES
  WaitingAloneDoesNotHeal
CHECK_DEADLOCK FALSE
