\* Hits in one thread, a budget that has room for some states of the
\* channel only, and that a request may carry.
SPECIFICATION FairSpec
CONSTANTS
  j1 = j1
  Job = {j1}
  MaxMessages = 6
  Document = {1, 2, 3, 4, 5, 6}
  Root <- MCRoot
  NoChannel = {4}
  Ranking <- MCRanking
  RtsLimit = 2
  Radius = 1
  Cap = 4
  Backend = "container"
  MaxItems = 4
  MaxFaults = 2
INVARIANTS TypeOK CompleteIfRoom
PROPERTIES BestThreadIndexed
CHECK_DEADLOCK FALSE
