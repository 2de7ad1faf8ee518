SPECIFICATION FairSpec
CONSTANTS
  MaximumBackoff = 3
  InitialBackoff = 1
  Interval = 2
  MaxChanges = 2
INVARIANTS
  TypeOK
  HandedOutIsSound
  NeverSleepsStopping
PROPERTIES
  StopsEventually
  Recovers
CHECK_DEADLOCK FALSE
