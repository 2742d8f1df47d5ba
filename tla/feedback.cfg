\* Two replicas, three reactions of a user to a message, a delivery repeated.
SPECIFICATION Spec
CONSTANTS
  a1 = a1
  a2 = a2
  m1 = m1
  u1 = u1
  up = up
  plus = plus
  down = down
  smile = smile
  positive = positive
  negative = negative
  Replica = {a1, a2}
  Stores = {"memory", "postgres"}
  Database = Database
  Message = {m1}
  User = {u1}
  Emoji = {up, plus, down, smile}
  Label = {positive, negative}
  NoLabel = NoLabel
  LabelOf <- MCLabelOf
  Scalar <- MCScalar
  MaxEvents = 3
  MaxAgain = 1
  MaxFaults = 1
SYMMETRY ReplicaSymmetry
INVARIANTS
  TypeOK
  OneSideUnlessRaced
  MirrorsTheLog
  AnsweredForIsNoOrphan
  FeedbackHasItsSideEffect
CHECK_DEADLOCK FALSE
