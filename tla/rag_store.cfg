\* Three requests side by side, embeds, relates and queries over two scopes.
SPECIFICATION FairSpec
CONSTANTS
  r1 = r1
  r2 = r2
  r3 = r3
  e1 = e1
  e2 = e2
  e3 = e3
  mine = mine
  other = other
  cites = cites
  blocks = blocks
  Request = {r1, r2, r3}
  Body <- Bodies
  Entity = {e1, e2, e3}
  Scope = {mine, other}
  Type = {cites, blocks}
  NoEntity = NoEntity
  NoBody = NoBody
  NoOne = NoOne
  MaxRestarts = 1
INVARIANTS
  TypeOK
  SeesWhatWasAnswered
  SeesWholeBatches
  IncompleteOnlyIfUnanswered
  ExpandsToWithinReach
PROPERTIES EventuallyAnswered
CHECK_DEADLOCK FALSE
