SPECIFICATION FairSpec
CONSTANTS
  Instruments = {i1, i2, i3}
  Slots = 2
  MinTime = 3
  MaxTime = 1
  MaxTasks = 3
INVARIANTS RatesAreComplete NothingOutlivesTheConnector
PROPERTIES ImplementsSlidingWindow EarlierWorkerIsJoined EveryBatchEnds
CHECK_DEADLOCK FALSE
