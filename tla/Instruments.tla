----------------------------- MODULE Instruments -----------------------------
(***************************************************************************)
(* agent/observability: the lifecycle bus of the agent process and what    *)
(* its subscribers keep.  A publisher calls them one after the other, the  *)
(* metrics first, then Langfuse, then Weights & Biases, and an exception   *)
(* of one of them is the publisher's.                                      *)
(*                                                                         *)
(* An event is what it is called, the run it is about and the subject it   *)
(* counts for: a run, a call of a tool or a generation of a model.         *)
(* Observations are abstracted to the trace that they are put on, labels,  *)
(* durations and token numbers are left out.                               *)
(***************************************************************************)
EXTENDS Naturals, FiniteSets, Bags

CONSTANTS
  Run,            \* runs of the trigger graph
  Langfuse,       \* whether the Langfuse plugin is enabled
  Wandb,          \* whether W&B is enabled
  MaxFaults       \* bound: exceptions of plugins and stores, ends of the process

ASSUME InstrumentsAssumption ==
  Langfuse \in BOOLEAN /\ Wandb \in BOOLEAN /\ MaxFaults \in Nat

VARIABLES
  counted,        \* Prometheus: a bag of metrics with the subjects counted
  trace,          \* LangfuseLifecycleBridge._runs: the trace of a run, 0 if none
  traces,         \* traces made for a run
  observed,       \* the traces that hold observations of a run
  session,        \* the W&B run of each run
  faults

instruments == <<counted, trace, traces, observed, session, faults>>

InstrumentsTypeOK ==
  /\ IsABag(counted)
  /\ trace \in [Run -> Nat] /\ traces \in [Run -> Nat]
  /\ observed \in [Run -> SUBSET Nat]
  /\ \A r \in Run : trace[r] <= traces[r]
  /\ session \in [Run -> {"none", "open", "closed"}]
  /\ faults \in 0..MaxFaults

InstrumentsInit ==
  /\ counted = EmptyBag
  /\ trace = [r \in Run |-> 0] /\ traces = [r \in Run |-> 0]
  /\ observed = [r \in Run |-> {}]
  /\ session = [r \in Run |-> "none"]
  /\ faults = 0

Fault == faults < MaxFaults /\ faults' = faults + 1

-----------------------------------------------------------------------------
(* Events *)

Event(name, r, of) == [name |-> name, run |-> r, of |-> of]

RunStarted(r) == Event("run.started", r, r)
RunEnded(r) == Event("run.ended", r, r)
Responded(r) == Event("trigger.responded", r, r)
SkillLoaded(r) == Event("skill.completed", r, r)
SkillFailed(r) == Event("skill.failed", r, r)
ToolCompleted(r, c) == Event("tool.completed", r, c)
ToolFailed(r, c) == Event("tool.failed", r, c)
SubagentCompleted(r, c) == Event("subagent.completed", r, c)
SubagentFailed(r, c) == Event("subagent.failed", r, c)
FirstToken(r, g) == Event("llm.first_token", r, g)
Generated(r, g) == Event("llm.completed", r, g)

-----------------------------------------------------------------------------
(* Prometheus *)

\* The metric of an event: completed and failed are labels of one metric.
Metric(name) ==
  CASE name = "trigger.responded" -> "dalc_trigger_requests_total"
    [] name \in {"tool.completed", "tool.failed"} -> "dalc_tool_calls_total"
    [] name \in {"subagent.completed", "subagent.failed"} -> "dalc_subagent_invocations_total"
    [] name \in {"skill.completed", "skill.failed"} -> "dalc_skill_loads_total"
    [] name = "llm.first_token" -> "dalc_llm_time_to_first_token_seconds"
    [] name = "llm.completed" -> "dalc_llm_*_total"

Count(e) ==
  counted' = IF e.name \in {"run.started", "run.ended"} THEN counted
             ELSE counted (+) SetToBag({<<Metric(e.name), e.of>>})

Copies(metric, of) ==
  IF BagIn(<<metric, of>>, counted) THEN counted[<<metric, of>>] ELSE 0

-----------------------------------------------------------------------------
(* Langfuse *)

\* An observation of run r, on the trace that _ensure_meta found or on a new one.
Observe(r, found) ==
  IF ~Langfuse THEN UNCHANGED <<trace, traces, observed>>
  ELSE LET t == IF found = 0 THEN traces[r] + 1 ELSE found
       IN /\ trace' = [trace EXCEPT ![r] = t]
          /\ traces' = [traces EXCEPT ![r] = IF found = 0 THEN t ELSE @]
          /\ observed' = [observed EXCEPT ![r] = @ \cup {t}]

\* Mutant: a generation is only put on a trace that is there.
MirrorButGenerations(e) ==
  IF e.name \in {"run.started", "run.ended", "llm.first_token", "llm.completed"}
  THEN UNCHANGED <<trace, traces, observed>>
  ELSE Observe(e.run, trace[e.run])

\* The handlers of the bridge, on the thread of the run.
Mirror(e) ==
  IF e.name \in {"run.started", "run.ended"} THEN UNCHANGED <<trace, traces, observed>>
  ELSE Observe(e.run, trace[e.run])

-----------------------------------------------------------------------------
(* Weights & Biases *)

SessionAfter(e) ==
  CASE e.name = "run.started" /\ Wandb -> "open"
    [] e.name = "run.ended" /\ session[e.run] = "open" -> "closed"
    [] OTHER -> session[e.run]

Follow(e) == session' = [session EXCEPT ![e.run] = SessionAfter(e)]

-----------------------------------------------------------------------------

\* publish: every subscriber has its turn ...
Publish(e) == Count(e) /\ Mirror(e) /\ Follow(e) /\ UNCHANGED faults

\* ... or one of them raises: Langfuse before or after it has made the trace, or
\* W&B, whose session then is neither opened nor finished.
PublishRaises(e) ==
  /\ Fault
  /\ Count(e)
  /\ \/ Langfuse /\ e.name \notin {"run.started", "run.ended"} /\ UNCHANGED <<trace, traces, observed>>
     \/ (Wandb \/ Langfuse) /\ Mirror(e)
  /\ UNCHANGED session

=============================================================================
