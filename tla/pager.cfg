SPECIFICATION FairSpec
CONSTANTS
  Times <- MCTimes
  PageSize = 2
  Start = 4
  MaxTime = 6
  MaxResult = 5
INVARIANTS ResultAscends ResultIsComplete WriterGetsResult RequestsShrink OnlyNewestIsOpen
PROPERTY DownloadEnds
CHECK_DEADLOCK FALSE
