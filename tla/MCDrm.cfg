CONSTANTS
  Threads = {t1, t2, t3}
  Drms = {d1, d2}
  Nobody = Nobody
SPECIFICATION MutexSpec
INVARIANT GraphAgrees
INVARIANT DeadlockFree
INVARIANT RefusesExactly
PROPERTY WaitReturns
CHECK_DEADLOCK FALSE
