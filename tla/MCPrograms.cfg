CONSTANTS
  j1 = j1
  j2 = j2
  j3 = j3
  w1 = w1
  w2 = w2
  w3 = w3
  u1 = u1
  u2 = u2
  u3 = u3
  u4 = u4
  Jobs = {j1, j2, j3}
  NULL = NULL
  Schemes = {"FCFS", "PRI", "PPRI", "PSRTF", "RR", "SJF"}
  RunTime <- Lengths
  Priority <- Priorities
  MaxIdle = 2
  Workers = {w1, w2, w3}
  Nothing = NULL
  Tasks <- StdinLines
  Crackable = {u1, u2}
  Known = {u3}
  Users = 3
  Candidates = 2
  Secret <- Secrets
  Pids = {1, 2}
  Self = 9
  Lines <- SomeLines
  MaxLines = 3
  None = NULL
  mapper_count = 2
  Capacity = 1
  Share <- Shares
SPECIFICATION ProgramSpec
INVARIANT NoJobLost
INVARIANT StatsExact
INVARIANT NothingLost
INVARIANT SummaryCorrect
INVARIANT TableFollows
 
INVARIANT OutputWhole
PROPERTY ChoosesRight
PROPERTY EverythingEnds
CHECK_DEADLOCK FALSE
