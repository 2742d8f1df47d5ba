------------------------------ MODULE ToolCalls ------------------------------
(***************************************************************************)
(* trigger_steps.run_tool_json, subagent_exec and the tools for Slack and  *)
(* Jira: the way of one call from the model or the request to an outside   *)
(* service and back into the records.                                      *)
(*                                                                         *)
(* Calls of one turn of the supervisor run side by side, each on a thread  *)
(* with a copy of the run's context: a call sees the tool sequence of its  *)
(* run and cannot advance it for another call.                             *)
(*                                                                         *)
(* A service may refuse, or do what it is asked and have its answer lost.  *)
(* A write is done once by a call; in simulated mode doing is recording.   *)
(***************************************************************************)
EXTENDS Instruments

CONSTANTS
  Tool, Skill,
  KindOf,         \* "subagent", "read", or what changes something outside:
                  \* "post" in Slack and "write" in Jira; "transition" in Jira,
                  \* which asks for the transition first; "amend", chat.update and
                  \* reactions in Slack, whose changes are not put on record
  Registered,     \* tools with an entry point
  Enabled,        \* enabled_mcp_tools
  ExtraTools,     \* the tools that a skill unlocks
  NoTool,
  MaxCalls        \* bound: calls of tools in a run

ASSUME ToolsAssumption ==
  /\ KindOf \in [Tool -> {"subagent", "read", "write", "transition", "post", "amend"}]
  /\ Registered \subseteq Tool /\ Enabled \subseteq Registered
  /\ ExtraTools \in [Skill -> SUBSET Tool]
  /\ NoTool \notin Tool /\ MaxCalls \in Nat

Call == Run \X (1..MaxCalls)
RunOf(c) == c[1]

VARIABLES
  callPc,         \* where each call is
  tool,           \* its tool
  callId,         \* its tool_call_id, a run and a number
  verdict,        \* how it went
  found,          \* the trace that _ensure_meta found for it
  toolSeq,        \* _tool_seq in the context of each run
  unlocked,       \* skills_state._unlocked
  effects,        \* history: calls that changed something outside
  checkpoints,    \* calls with a side effect checkpoint
  steps,          \* the trajectory: calls
  rows,           \* span summaries: calls
  logged,         \* W&B: calls
  offered         \* the tools that the supervisor of each run was given

calls == <<callPc, tool, callId, verdict, found>>
records == <<checkpoints, steps, rows, logged>>
toolVars == <<calls, toolSeq, unlocked, effects, records, offered>>

ToolsTypeOK ==
  /\ callPc \in [Call -> {"free", "called", "lookup", "request", "record", "count",
                          "emit", "book", "done", "raised", "gone"}]
  /\ tool \in [Call -> Tool \cup {NoTool}]
  /\ callId \in [Call -> (Run \X Nat) \cup {<<>>}]
  /\ verdict \in [Call -> {"none", "ok", "not_ok", "forbidden", "unknown", "failed"}]
  /\ found \in [Call -> Nat]
  /\ toolSeq \in [Run -> Nat]
  /\ unlocked \subseteq Tool
  /\ effects \subseteq Call /\ checkpoints \subseteq Call /\ steps \subseteq Call
  /\ rows \subseteq steps /\ logged \subseteq Call
  /\ offered \in [Run -> SUBSET Tool]

ToolsInit ==
  /\ callPc = [c \in Call |-> "free"]
  /\ tool = [c \in Call |-> NoTool]
  /\ callId = [c \in Call |-> <<>>]
  /\ verdict = [c \in Call |-> "none"]
  /\ found = [c \in Call |-> 0]
  /\ toolSeq = [r \in Run |-> 0]
  /\ unlocked = {} /\ effects = {} /\ checkpoints = {}
  /\ steps = {} /\ rows = {} /\ logged = {}
  /\ offered = [r \in Run |-> {}]

Goto(c, where) == callPc' = [callPc EXCEPT ![c] = where]
Judge(c, how) == verdict' = [verdict EXCEPT ![c] = how]
IsSubagent(c) == KindOf[tool[c]] = "subagent"
Recorded(c) == KindOf[tool[c]] \in {"write", "transition", "post"}
Changes(c) == Recorded(c) \/ KindOf[tool[c]] = "amend"
Allowed == Enabled \cup unlocked

-----------------------------------------------------------------------------
(* run_tool_json *)

\* next_tool_call_id, in a context of the call's own.
TakeId(c) ==
  /\ callId' = [callId EXCEPT ![c] = <<RunOf(c), toolSeq[RunOf(c)] + 1>>]
  /\ UNCHANGED toolSeq

\* The call gets its id and is let through, or counted as failed; a subagent has
\* neither an id nor to be enabled.
Invoke(c) ==
  /\ callPc[c] = "called"
  /\ IF IsSubagent(c)
     THEN Goto(c, "request") /\ UNCHANGED <<callId, toolSeq, verdict>>
     ELSE /\ TakeId(c)
          /\ \/ tool[c] \notin Allowed /\ Judge(c, "forbidden") /\ Goto(c, "count")
             \/ /\ tool[c] \in Allowed \ Registered
                /\ Judge(c, "unknown") /\ Goto(c, "count")
             \/ /\ tool[c] \in Allowed \cap Registered /\ UNCHANGED verdict
                /\ Goto(c, IF KindOf[tool[c]] = "transition" THEN "lookup" ELSE "request")
  /\ UNCHANGED <<instruments, tool, found, unlocked, effects, records, offered>>

\* The handler raises ValueError before it asks for anything: a scope that is
\* not enabled, a missing argument, a subagent without a prompt.
RejectArguments(c) ==
  /\ callPc[c] \in {"lookup", "request"}
  /\ IF IsSubagent(c) THEN Judge(c, "failed") /\ Goto(c, "count")
     ELSE UNCHANGED verdict /\ Goto(c, "raised")
  /\ UNCHANGED <<instruments, tool, callId, toolSeq, found, unlocked, effects, records, offered>>

\* _resolve_explicit_or_named_transition: the id is given or found; an error ends
\* the call, and a name that is no transition raises.
LookUpTransition(c) ==
  /\ callPc[c] = "lookup"
  /\ \/ Goto(c, "request") /\ UNCHANGED verdict
     \/ Judge(c, "not_ok") /\ Goto(c, "count")
     \/ Goto(c, "raised") /\ UNCHANGED verdict
  /\ UNCHANGED <<instruments, tool, callId, toolSeq, found, unlocked, effects, records, offered>>

\* Mutant: what the service did is recorded whatever it answered.
RefusedRecorded(c) ==
  /\ callPc[c] = "request" /\ Changes(c)
  /\ checkpoints' = checkpoints \cup {c}
  /\ Judge(c, "not_ok") /\ Goto(c, "count")
  /\ UNCHANGED <<instruments, tool, callId, toolSeq, found, unlocked, effects, steps, rows,
                 logged, offered>>

\* The service refuses: nothing has changed, and the answer says so.
Refused(c) ==
  /\ callPc[c] = "request" /\ Changes(c)
  /\ Judge(c, "not_ok") /\ Goto(c, "count")
  /\ UNCHANGED <<instruments, tool, callId, toolSeq, found, unlocked, effects, records, offered>>

\* It does what it is asked, and says so.
Performed(c) ==
  /\ callPc[c] = "request" /\ Changes(c)
  /\ effects' = effects \cup {c}
  /\ \/ Recorded(c) /\ Goto(c, "record") /\ UNCHANGED verdict
     \/ ~Recorded(c) /\ Judge(c, "ok") /\ Goto(c, "count")
  /\ UNCHANGED <<instruments, tool, callId, toolSeq, found, unlocked, records, offered>>

\* Request or answer is lost, or makes no sense: request_json turns that into an
\* answer that is not ok, Slack's client raises (a post without a ts is not ok).
Lost(c) ==
  /\ callPc[c] = "request" /\ Changes(c)
  /\ effects' \in {effects, effects \cup {c}}
  /\ \/ Judge(c, "not_ok") /\ Goto(c, "count")
     \/ KindOf[tool[c]] \in {"post", "amend"} /\ UNCHANGED verdict /\ Goto(c, "raised")
  /\ UNCHANGED <<instruments, tool, callId, toolSeq, found, unlocked, records, offered>>

\* A read is answered, or is not; a subagent that fails has an event for it.
Read(c) ==
  /\ callPc[c] = "request" /\ ~Changes(c)
  /\ \/ Judge(c, "ok")
     \/ Judge(c, IF IsSubagent(c) THEN "failed" ELSE "not_ok")
  /\ Goto(c, "count")
  /\ UNCHANGED <<instruments, tool, callId, toolSeq, found, unlocked, effects, records, offered>>

\* record_side_effect_checkpoint (and, for a post, its correlation).
Record(c) ==
  /\ callPc[c] = "record"
  /\ checkpoints' = checkpoints \cup {c}
  /\ Judge(c, "ok")
  /\ Goto(c, "count")
  /\ UNCHANGED <<instruments, tool, callId, toolSeq, found, unlocked, effects, steps, rows,
                 logged, offered>>

\* The event of the call.
EventOf(c) ==
  LET r == RunOf(c) IN
  CASE IsSubagent(c) /\ verdict[c] = "ok" -> SubagentCompleted(r, c)
    [] IsSubagent(c) /\ verdict[c] # "ok" -> SubagentFailed(r, c)
    [] ~IsSubagent(c) /\ verdict[c] \in {"ok", "not_ok"} -> ToolCompleted(r, c)
    [] ~IsSubagent(c) /\ verdict[c] \notin {"ok", "not_ok"} -> ToolFailed(r, c)

\* The metrics count the event, and Langfuse looks for the trace of the run ...
CountCall(c) ==
  /\ callPc[c] = "count"
  /\ Count(EventOf(c))
  /\ found' = [found EXCEPT ![c] = trace[RunOf(c)]]
  /\ Goto(c, "emit")
  /\ UNCHANGED <<trace, traces, observed, session, faults, tool, callId, verdict, toolSeq,
                 unlocked, effects, records, offered>>

Booked(c) == ~IsSubagent(c) /\ verdict[c] \in {"ok", "not_ok"}

AfterEvent(c) ==
  CASE Booked(c) -> "book"
    [] IsSubagent(c) /\ verdict[c] = "ok" -> "done"
    [] OTHER -> "raised"

\* ... which by now another call of the run may have made, and puts the call on
\* the one it found or makes; W&B logs a completed call.
EmitCall(c) ==
  /\ callPc[c] = "emit"
  /\ Observe(RunOf(c), found[c])
  /\ logged' = IF Booked(c) /\ session[RunOf(c)] = "open" THEN logged \cup {c} ELSE logged
  /\ Goto(c, AfterEvent(c))
  /\ UNCHANGED <<counted, session, faults, tool, callId, verdict, found, toolSeq, unlocked,
                 effects, checkpoints, steps, rows, offered>>

\* The trajectory and the span summary, whose outcome is "success" for both.
Book(c) ==
  /\ callPc[c] = "book"
  /\ steps' = steps \cup {c} /\ rows' = rows \cup {c}
  /\ Goto(c, "done")
  /\ UNCHANGED <<instruments, tool, callId, verdict, found, toolSeq, unlocked, effects,
                 checkpoints, logged, offered>>

\* Mutant: an event that failed is published again.
CallRepublished(c) ==
  /\ callPc[c] = "emit" /\ Fault
  /\ Goto(c, "count")
  /\ UNCHANGED <<counted, trace, traces, observed, session, tool, callId, verdict, found,
                 toolSeq, unlocked, effects, records, offered>>

\* Mutant: the span summary comes before the trajectory.
CallFailsSpanFirst(c) ==
  /\ callPc[c] = "book" /\ Fault
  /\ Goto(c, "raised")
  /\ rows' = rows \cup {c}
  /\ UNCHANGED <<counted, trace, traces, observed, session, tool, callId, verdict, found,
                 toolSeq, unlocked, effects, checkpoints, steps, logged, offered>>

\* A subscriber raises, or the database is away: the call ends where it is.
CallFails(c) ==
  /\ callPc[c] \in {"record", "emit", "book"}
  /\ callPc[c] = "emit" => Langfuse \/ session[RunOf(c)] = "open"
  /\ Fault
  /\ Goto(c, "raised")
  /\ steps' = IF callPc[c] = "book" THEN steps \cup {c} ELSE steps
  /\ \/ callPc[c] = "emit" /\ Observe(RunOf(c), found[c])
     \/ UNCHANGED <<trace, traces, observed>>
  /\ UNCHANGED <<counted, session, tool, callId, verdict, found,
                 toolSeq, unlocked, effects, checkpoints, rows, logged, offered>>

CallStep(c) ==
  \/ Invoke(c) \/ RejectArguments(c) \/ LookUpTransition(c)
  \/ Refused(c) \/ Performed(c) \/ Lost(c) \/ Read(c) \/ Record(c)
  \/ CountCall(c) \/ EmitCall(c) \/ Book(c) \/ CallFails(c)

=============================================================================
