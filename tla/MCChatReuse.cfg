CONSTANTS
  Conns = {c1, c2, c3}
  MAX_CLIENTS = 3
  NULL = NULL
  Senders = {c1, c2, c3}
  Quota = 1
  MayLeave = {c1}
  MayStall = {}
  MaySignal = FALSE
SPECIFICATION Spec
INVARIANT BroadcastWhole
CHECK_DEADLOCK FALSE
