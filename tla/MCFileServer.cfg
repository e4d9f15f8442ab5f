CONSTANTS
  c1 = c1
  f = f
  Clients = {c1, c2, c3}
  NULL = NULL
  Verbs <- AnyVerbs
  Name <- OneName
  Buffers = 2
  NoFile = {c3}
  Garbage = {0, 9}
  MayDie = {c2}
  MaySignal = TRUE
SPECIFICATION FairSpec
INVARIANT GetsWholeFile
INVARIANT ListAgrees
PROPERTY OkMeansDone
PROPERTY EveryoneAnswered
