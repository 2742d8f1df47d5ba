\* One pod at a time, a cap that the request limit allows, the Postgres store:
\* every message gets through that the cap does not cut off.
SPECIFICATION FairSpec
CONSTANTS
  j1 = j1
  Job = {j1}
  MaxMessages = 5
  Document = {1, 2, 3, 4, 5}
  NoChannel = {2}
  Backend = "postgres"
  PageSize = 2
  Cap = 3
  MaxItems = 3
  MaxFaults = 2
INVARIANTS EmbeddedOnceIfFaultFree
PROPERTIES EventuallyIndexed
CHECK_DEADLOCK FALSE
