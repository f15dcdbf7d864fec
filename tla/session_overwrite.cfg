SPECIFICATION Spec
CONSTANTS
  c1 = c1
  c2 = c2
  other = other
  broken = broken
  Requests = {c1, other}
  NoRequest = NoRequest
  Channels = {c1, c2}
  Parse <- ReadableParse
  Unreadable = Unreadable
  Garbled = Garbled
  NoFrame = NoFrame
  MaxCalls = 2
  MaxPings = 1
  MaxCloses = 1
PROPERTY NoPendingRequestOverwritten
CHECK_DEADLOCK FALSE
