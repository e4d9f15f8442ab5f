CONSTANTS
  Conns = {c1, c2, c3}
  MAX_CLIENTS = 2
  NULL = NULL
  Senders = {c1, c2}
  Quota = 1
  MayLeave = {c2}
  MayStall = {c1}
  MaySignal = TRUE
SPECIFICATION FairSpec
INVARIANT FramesWhole
INVARIANT SameOrder
INVARIANT SlotsAgree
PROPERTY EveryMessageBroadcast
CHECK_DEADLOCK FALSE
