\* A deduper for two ids and three of them, two events that have none and one
\* that is no mention.
SPECIFICATION Spec
CONSTANTS
  a = a
  b = b
  c = c
  n = n
  m = m
  EmptyId = EmptyId
  NoEvent = NoEvent
  Event = {a, b, c, n, m}
  NoId = {n, m}
  Unusable = {c}
  Dedupe = TRUE
  MaxEntries = 2
  MaxDeliveries = 5
  MaxRestarts = 1
SYMMETRY EventSymmetry
INVARIANTS TypeOK RunsOnceUnlessExcused
PROPERTIES DropsOnlyTwins
CHECK_DEADLOCK FALSE
