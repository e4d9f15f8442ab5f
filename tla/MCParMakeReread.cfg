CONSTANTS
  Workers = {w1, w2}
  NULL = NULL
  a = a
  b = b
  c = c
  d = d
  Targets = {a, b, d}
  Deps <- ForkDeps
  Creates = {}
  Files <- ForkFiles
  MayFail = {}
SPECIFICATION Spec
INVARIANT AllSatisfied
