\* Ephemeral requests in flight together with others.
SPECIFICATION Spec
CONSTANTS
  t1 = t1
  t2 = t2
  s1 = s1
  NoSkill = NoSkill
  NoAnswer = NoAnswer
  NoRequest = NoRequest
  Thread = {t1, t2}
  Skill = {s1}
  Stores = {"none", "shared", "postgres"}
  HasSubagents = FALSE
  Requests <- MCRequests
  Mixing = TRUE
  MaxRuns = 2
  MaxRestarts = 0
INVARIANTS EphemeralUnrecorded
CHECK_DEADLOCK FALSE
