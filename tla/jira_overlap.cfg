\* Two overlapping pods, a cap that covers every issue, a search index that lags,
\* a crash or a lost answer.
SPECIFICATION Spec
CONSTANTS
  j1 = j1
  j2 = j2
  a = a
  b = b
  Job = {j1, j2}
  Issue = {a, b}
  MaxTime = 3
  Document <- MCDocument
  Backend = "postgres"
  MaxItems = 1
  MaxFaults = 1
  Minute = 1
  Overlap = 1
  PageSize = 2
  MaxIssues = 2
  Lag = 1
  SearchTime = 0
  OwnOrders = {FALSE}
SYMMETRY IssueSymmetry
INVARIANTS TypeOK NothingLost
PROPERTIES ImplementsFeed
CHECK_DEADLOCK FALSE
