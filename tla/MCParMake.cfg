CONSTANTS
  Workers = {w1, w2, w3}
  NULL = NULL
  a = a
  b = b
  c = c
  d = d
  Targets = {a, b, c, d}
  Deps <- DiamondDeps
  Creates = {b, d}
  Files <- DiamondFiles
  MayFail = {b, c}
SPECIFICATION FairSpec
INVARIANT OneOwner
INVARIANT RunsAfterDeps
INVARIANT HaltedIsUpToDate
PROPERTY AllSettled
CHECK_DEADLOCK FALSE
