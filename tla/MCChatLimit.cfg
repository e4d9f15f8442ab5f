CONSTANTS
  Conns = {c1, c2, c3}
  MAX_CLIENTS = 2
  NULL = NULL
  Senders = {c1}
  Quota = 1
  MayLeave = {c2}
  MayStall = {}
  MaySignal = FALSE
SPECIFICATION Spec
INVARIANT LimitKept
CHECK_DEADLOCK FALSE
