\* Any store; ephemeral requests never in flight with others.
SPECIFICATION Spec
CONSTANTS
  t1 = t1
  t2 = t2
  s1 = s1
  NoSkill = NoSkill
  NoAnswer = NoAnswer
  NoRequest = NoRequest
  Thread = {t1, t2}
  Skill = {s1}
  Stores = {"none", "shared", "fresh", "postgres"}
  HasSubagents = FALSE
  Requests <- MCRequests
  Mixing = FALSE
  MaxRuns = 3
  MaxRestarts = 1
SYMMETRY ThreadSymmetry
INVARIANTS TypeOK EphemeralUnrecorded SkillsComeFromTheThread
PROPERTIES ImplementsThreadLog
CHECK_DEADLOCK FALSE
