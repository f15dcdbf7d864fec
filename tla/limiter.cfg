SPECIFICATION FairSpec
CONSTANTS
  Threads = {t1, t2}
  NoThread = NoThread
  Limit = 2
  Window = 2
  Slack = 1
  MaxCalls = 4
  MaxTime = 5
INVARIANTS GrantsAreBounded DequeIsBounded
PROPERTIES ImplementsSlidingWindow EveryCallIsGranted
CHECK_DEADLOCK FALSE
