\* The ids of the calls that a supervisor makes in one turn.
SPECIFICATION Spec
CONSTANTS
  search = search
  react = react
  move = move
  rag = rag
  triage = triage
  http = http
  bridge = bridge
  Run = {http, bridge}
  Langfuse = TRUE
  Wandb = TRUE
  MaxFaults = 0
  Tool = {search, react, move, rag}
  Skill = {triage}
  KindOf <- Kinds
  Registered = {react, move, rag}
  Enabled = {react}
  ExtraTools <- Extras
  NoTool = NoTool
  MaxCalls = 2
  NoSkill = NoSkill
  Bodies <- MCBodies
  NoBody = NoBody
  Durable = TRUE
  MaxTurns = 1
INVARIANT ToolCallIdsUnique
CHECK_DEADLOCK FALSE
