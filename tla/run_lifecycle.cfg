\* A supervisor of a bridge beside requests over HTTP.
SPECIFICATION Spec
CONSTANTS
  search = search
  react = react
  move = move
  rag = rag
  triage = triage
  http = http
  bridge = bridge
  Run = {http, bridge}
  Langfuse = TRUE
  Wandb = TRUE
  MaxFaults = 1
  Tool = {search, react, move, rag}
  Skill = {triage}
  KindOf <- Kinds
  Registered = {react, move, rag}
  Enabled = {react}
  ExtraTools <- Extras
  NoTool = NoTool
  MaxCalls = 2
  NoSkill = NoSkill
  Bodies <- MCBodies
  NoBody = NoBody
  Durable = TRUE
  MaxTurns = 1
INVARIANTS
  TypeOK
  EffectsOnRecord
  CallsCountedOnce
  RefusedOnlyIfLocked
  OneTracePerRun
  OneFirstToken
  SessionsFinished
PROPERTIES ImplementsSessions
CHECK_DEADLOCK FALSE
