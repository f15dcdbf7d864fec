SPECIFICATION FairSpec
CONSTANTS
  Times <- MCTimes
  PageSize = 2
  Start = 4
  MaxTime = 6
  MaxResult = 5
INVARIANT ResultIsConfirmed
CHECK_DEADLOCK FALSE
