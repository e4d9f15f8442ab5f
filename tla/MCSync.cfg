CONSTANTS
  t1 = t1
  t2 = t2
  t3 = t3
  t4 = t4
  Threads = {t1, t2, t3, t4}
  NULL = NULL
  Rounds = 3
  Modulus = 2
  Initial = 1
  max_val = 1
  Program <- Balanced
SPECIFICATION SyncSpec
INVARIANT RoundsSeparate
INVARIANT NobodyStranded
PROPERTY AllDone
