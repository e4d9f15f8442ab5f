CONSTANTS
  t1 = t1
  t2 = t2
  t3 = t3
  t4 = t4
  Threads = {t1, t2, t3, t4}
  Main = main
  Data = {d1, d2}
  Nodes = {n1, n2, n3}
  NULL = NULL
  MaxSize = 2
  Program <- MixedProgram
  MallocMayFail = TRUE
SPECIFICATION FairSpec
INVARIANT ListSound
INVARIANT NoStrandedWaiter
PROPERTY IsFifo
PROPERTY Termination
CHECK_DEADLOCK FALSE
