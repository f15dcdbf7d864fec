SPECIFICATION FairSpec
CONSTANTS
  Tickers = {}
  Candles = {"1m", "1H"}
  Readers = {reader1}
  Timeouts = {0, 1}
  TriesPerSecond = 1
  MaxEvents = 2
INVARIANTS CandlesAreFresh NoCallbackAfterFree RunningIsFlagged SpawnOnlyWhenJoined
PROPERTIES EveryReadEnds FlagDownStartsContext StopIsHonoured
CHECK_DEADLOCK FALSE
