\* Two overlapping pods, a cap that is no multiple of the page and above the
\* request limit, so that some full drains are refused and some are not.
SPECIFICATION Spec
CONSTANTS
  j1 = j1
  j2 = j2
  Job = {j1, j2}
  MaxMessages = 5
  Document = {1, 2, 3, 4, 5}
  NoChannel = {2}
  Backend = "postgres"
  PageSize = 2
  Cap = 3
  MaxItems = 2
  MaxFaults = 2
SYMMETRY JobSymmetry
INVARIANTS TypeOK NeverSkips
PROPERTIES RetreatsOnlyWhenOvertaken ImplementsFeed
CHECK_DEADLOCK FALSE
