SPECIFICATION FairSpec
CONSTANTS
  c1 = c1
  c2 = c2
  other = other
  broken = broken
  Requests = {c1, other, broken}
  NoRequest = NoRequest
  Channels = {c1, c2}
  Parse <- MCParse
  Unreadable = Unreadable
  Garbled = Garbled
  NoFrame = NoFrame
  MaxCalls = 3
  MaxPings = 1
  MaxCloses = 2
INVARIANTS TypeOK OneStepAtATime EmptyFrameIsFirst OpenIsDriven KeepAliveArmed SentAsOftenAsAsked
PROPERTIES PendingIsServed CancelledIsReleased ImplementsSubscriptions
CHECK_DEADLOCK FALSE
