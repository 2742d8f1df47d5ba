\* One pod at a time, pages of one, a search that time passes in, the file store
\* in a directory that is kept, queries with and without ORDER BY.
SPECIFICATION FairSpec
CONSTANTS
  j1 = j1
  a = a
  b = b
  Job = {j1}
  Issue = {a, b}
  MaxTime = 3
  Document <- MCDocument
  Backend = "directory"
  MaxItems = 1
  MaxFaults = 1
  Minute = 1
  Overlap = 1
  PageSize = 1
  MaxIssues = 2
  Lag = 0
  SearchTime = 1
  OwnOrders = {FALSE, TRUE}
INVARIANTS NothingLost
PROPERTIES EventuallyIndexed
CHECK_DEADLOCK FALSE
