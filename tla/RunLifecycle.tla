---------------------------- MODULE RunLifecycle ----------------------------
(***************************************************************************)
(* One run of the trigger graph from the request to its response:          *)
(* trigger_graph.run_trigger_graph with what it reports, the skill, tool   *)
(* and supervisor nodes, the supervisor's turns of model and tools, and    *)
(* the response of the HTTP route or of a bridge.                          *)
(*                                                                         *)
(* HTTP requests follow one another, since their coroutine does not await; *)
(* bridges run beside them.  Which graph a run gets, and what a thread     *)
(* remembers, is TriggerGraph's.                                           *)
(***************************************************************************)
EXTENDS ToolCalls

CONSTANTS
  NoSkill,
  Bodies,         \* the requests that a run may be for
  NoBody,
  Durable,        \* whether records survive the process: the Postgres store
  MaxTurns        \* bound: generations of a supervisor

\* What node a request leads to, see TriggerGraph's Route; an unknown skill is
\* one that the catalog does not have.
Body == [via : {"http", "bridge"}, skill : Skill \cup {NoSkill, "unknown"},
         node : {"skill", "tool", "supervisor", "reply"}, tool : Tool \cup {NoTool}]

ASSUME LifecycleAssumption ==
  /\ Bodies \in [Run -> SUBSET Body] /\ NoBody \notin Body
  /\ NoSkill \notin Skill /\ "unknown" \notin Skill
  /\ \A r \in Run : \A b \in Bodies[r] : b.node = "tool" <=> b.tool # NoTool
  /\ Durable \in BOOLEAN /\ MaxTurns \in Nat

VARIABLES
  pc,             \* where each run is
  body,
  turn,           \* generations of its model begun
  hasFirst,       \* ttft_done of the one under way
  result,         \* of the run
  abandoned       \* history: runs whose session an exception kept from its end

vars == <<instruments, toolVars, pc, body, turn, hasFirst, result, abandoned>>

TypeOK ==
  /\ InstrumentsTypeOK
  /\ ToolsTypeOK
  /\ pc \in [Run -> {"new", "compile", "load", "node", "model", "generating", "generated",
                     "decide", "tools", "end", "respond", "guard", "over", "gone"}]
  /\ \A r \in Run : body[r] \in Bodies[r] \cup {NoBody}
  /\ turn \in [Run -> 0..MaxTurns]
  /\ hasFirst \in [Run -> BOOLEAN]
  /\ result \in [Run -> {"none", "success", "error"}]
  /\ abandoned \subseteq Run

Init ==
  /\ InstrumentsInit
  /\ ToolsInit
  /\ pc = [r \in Run |-> "new"]
  /\ body = [r \in Run |-> NoBody]
  /\ turn = [r \in Run |-> 0]
  /\ hasFirst = [r \in Run |-> FALSE]
  /\ result = [r \in Run |-> "none"]
  /\ abandoned = {}

Move(r, where) == pc' = [pc EXCEPT ![r] = where]
Over == {"new", "over", "gone"}
CallsOf(r) == {c \in Call : RunOf(c) = r /\ callPc[c] # "free"}
Ended == {"done", "raised", "gone"}
Generation(r) == <<r, turn[r], "generation">>

-----------------------------------------------------------------------------
(* run_trigger_graph *)

\* The contexts are bound, the sequence is reset, and run_started is published,
\* before the try whose finally ends the run.
Begin(r) ==
  /\ pc[r] = "new"
  /\ \E b \in Bodies[r] :
       /\ b.via = "http" => \A q \in Run : pc[q] \notin Over => body[q].via # "http"
       /\ body' = [body EXCEPT ![r] = b]
  /\ toolSeq' = [toolSeq EXCEPT ![r] = 0]
  /\ \/ Publish(RunStarted(r)) /\ Move(r, "compile") /\ UNCHANGED result
     \/ /\ Wandb /\ PublishRaises(RunStarted(r))
        /\ Move(r, "respond") /\ result' = [result EXCEPT ![r] = "error"]
  /\ UNCHANGED <<calls, unlocked, effects, records, offered, turn, hasFirst, abandoned>>

\* The graph is compiled; without a checkpointer that can be reached this raises,
\* and nothing ends what run_started began.
Compile(r) ==
  /\ pc[r] = "compile"
  /\ \/ Move(r, "load") /\ UNCHANGED <<faults, result, abandoned>>
     \/ /\ Fault
        /\ Move(r, "respond") /\ result' = [result EXCEPT ![r] = "error"]
        /\ abandoned' = abandoned \cup {r}
  /\ UNCHANGED <<counted, trace, traces, observed, session, toolVars, body, turn, hasFirst>>

\* unlock_tools
Unlock(s) == unlocked' = unlocked \cup ExtraTools[s]

\* run_skill_load_json, if the request names a skill.
LoadSkill(r) ==
  /\ pc[r] = "load"
  /\ LET s == body[r].skill IN
       \/ /\ s = NoSkill
          /\ Move(r, "node")
          /\ UNCHANGED <<instruments, unlocked, result>>
       \/ /\ s \in Skill
          /\ Unlock(s)
          /\ \/ Publish(SkillLoaded(r)) /\ Move(r, "node") /\ UNCHANGED result
             \/ /\ PublishRaises(SkillLoaded(r))
                /\ Move(r, "end") /\ result' = [result EXCEPT ![r] = "error"]
       \/ /\ s = "unknown"
          /\ \/ Publish(SkillFailed(r)) \/ PublishRaises(SkillFailed(r))
          /\ Move(r, "end") /\ result' = [result EXCEPT ![r] = "error"]
          /\ UNCHANGED unlocked
  /\ UNCHANGED <<calls, toolSeq, effects, records, offered, body, turn, hasFirst, abandoned>>

-----------------------------------------------------------------------------
(* The nodes *)

\* The calls that a run makes next, one of its tools each.
Make(r, tools) ==
  /\ callPc' = [c \in Call |-> IF c \in DOMAIN tools THEN "called" ELSE callPc[c]]
  /\ tool' = [c \in Call |-> IF c \in DOMAIN tools THEN tools[c] ELSE tool[c]]

Specialists == {t \in Tool : KindOf[t] = "subagent"}

\* Mutant: the supervisor gets all the tools there are.
EnterNodeWithAll(r) ==
  /\ pc[r] = "node" /\ body[r].node = "supervisor"
  /\ offered' = [offered EXCEPT ![r] = Specialists \cup Registered]
  /\ Move(r, "model")
  /\ UNCHANGED <<instruments, calls, toolSeq, unlocked, effects, records, body, turn, hasFirst,
                 result, abandoned>>

\* emit_skill and reply answer, tool calls the tool that the request names, and
\* the supervisor gets the subagents and the tools that are allowed just now.
EnterNode(r) ==
  /\ pc[r] = "node"
  /\ \/ /\ body[r].node \in {"skill", "reply"}
        /\ Move(r, "end") /\ result' \in {[result EXCEPT ![r] = "success"],
                                          [result EXCEPT ![r] = "error"]}
        /\ UNCHANGED <<callPc, tool, offered>>
     \/ /\ body[r].node = "tool"
        /\ Make(r, [c \in {<<r, 1>>} |-> body[r].tool])
        /\ Move(r, "tools") /\ UNCHANGED <<result, offered>>
     \/ /\ body[r].node = "supervisor"
        /\ offered' = [offered EXCEPT ![r] = Specialists \cup (Allowed \cap Registered)]
        /\ Move(r, "model") /\ UNCHANGED <<callPc, tool, result>>
  /\ UNCHANGED <<instruments, callId, verdict, found, toolSeq, unlocked, effects, records, body,
                 turn, hasFirst, abandoned>>

-----------------------------------------------------------------------------
(* The supervisor's model and SupervisorLlmMetricsCallback, whose exceptions  *)
(* LangChain logs and drops                                                   *)

\* on_chat_model_start
StartGeneration(r) ==
  /\ pc[r] = "model" /\ turn[r] < MaxTurns
  /\ turn' = [turn EXCEPT ![r] = @ + 1]
  /\ hasFirst' = [hasFirst EXCEPT ![r] = FALSE]
  /\ Move(r, "generating")
  /\ UNCHANGED <<instruments, toolVars, body, result, abandoned>>

\* on_llm_new_token, with something in it: ttft_done is set if nothing raised.
NewToken(r) ==
  /\ pc[r] = "generating" /\ ~hasFirst[r]
  /\ \/ Publish(FirstToken(r, Generation(r))) /\ hasFirst' = [hasFirst EXCEPT ![r] = TRUE]
     \/ PublishRaises(FirstToken(r, Generation(r))) /\ UNCHANGED hasFirst
  /\ UNCHANGED <<toolVars, pc, body, turn, result, abandoned>>

\* Mutant: the end is a first token, streamed or not.
EndWithFirstToken(r) ==
  /\ pc[r] = "generating"
  /\ hasFirst' = [hasFirst EXCEPT ![r] = FALSE]
  /\ \/ Publish(FirstToken(r, Generation(r))) /\ Move(r, "generated")
     \/ PublishRaises(FirstToken(r, Generation(r))) /\ Move(r, "decide")
  /\ UNCHANGED <<toolVars, body, turn, result, abandoned>>

\* on_llm_end forgets the generation; where nothing was streamed this is the first
\* token ...
EndGeneration(r) ==
  /\ pc[r] = "generating"
  /\ hasFirst' = [hasFirst EXCEPT ![r] = FALSE]
  /\ \/ hasFirst[r] /\ Move(r, "generated") /\ UNCHANGED instruments
     \/ /\ ~hasFirst[r]
        /\ \/ Publish(FirstToken(r, Generation(r))) /\ Move(r, "generated")
           \/ PublishRaises(FirstToken(r, Generation(r))) /\ Move(r, "decide")
  /\ UNCHANGED <<toolVars, body, turn, result, abandoned>>

\* ... and in any case a completed generation.
CompleteGeneration(r) ==
  /\ pc[r] = "generated"
  /\ Publish(Generated(r, Generation(r))) \/ PublishRaises(Generated(r, Generation(r)))
  /\ Move(r, "decide")
  /\ UNCHANGED <<toolVars, body, turn, hasFirst, result, abandoned>>

\* on_llm_error, or no model that could be resolved.
ModelFails(r) ==
  /\ pc[r] \in {"model", "generating"}
  /\ hasFirst' = [hasFirst EXCEPT ![r] = FALSE]
  /\ Move(r, "end") /\ result' = [result EXCEPT ![r] = "error"]
  /\ UNCHANGED <<instruments, toolVars, body, turn, abandoned>>

\* The model calls tools that it was offered, or answers.
Decide(r) ==
  /\ pc[r] = "decide"
  /\ \/ /\ \E n \in 1..MaxCalls :
             LET free == {c \in Call : RunOf(c) = r /\ callPc[c] = "free"}
                 next == {c \in free : c[2] < Cardinality(CallsOf(r)) + 1 + n}
             IN /\ Cardinality(next) = n
                /\ \E tools \in [next -> offered[r]] : Make(r, tools)
        /\ Move(r, "tools") /\ UNCHANGED result
     \/ /\ Move(r, "end") /\ result' = [result EXCEPT ![r] = "success"]
        /\ UNCHANGED <<callPc, tool>>
  /\ UNCHANGED <<instruments, callId, verdict, found, toolSeq, unlocked, effects, records,
                 offered, body, turn, hasFirst, abandoned>>

\* Mutant: the first exception of a call ends the turn.
LeaveToolsEarly(r) ==
  /\ pc[r] = "tools"
  /\ \/ \A c \in CallsOf(r) : callPc[c] = "done"
     \/ \E c \in CallsOf(r) : callPc[c] = "raised"
  /\ IF \E c \in CallsOf(r) : callPc[c] = "raised"
     THEN Move(r, "end") /\ result' = [result EXCEPT ![r] = "error"]
     ELSE IF body[r].node = "tool"
     THEN Move(r, "end") /\ result' = [result EXCEPT ![r] = "success"]
     ELSE Move(r, "model") /\ UNCHANGED result
  /\ UNCHANGED <<instruments, toolVars, body, turn, hasFirst, abandoned>>

\* The turn is over when all of its calls have ended, one of them by an exception
\* though it may be; then the exception is the run's.
LeaveTools(r) ==
  /\ pc[r] = "tools"
  /\ \A c \in CallsOf(r) : callPc[c] \in Ended
  /\ IF \E c \in CallsOf(r) : callPc[c] = "raised"
     THEN Move(r, "end") /\ result' = [result EXCEPT ![r] = "error"]
     ELSE IF body[r].node = "tool"
     THEN Move(r, "end") /\ result' = [result EXCEPT ![r] = "success"]
     ELSE Move(r, "model") /\ UNCHANGED result
  /\ UNCHANGED <<instruments, toolVars, body, turn, hasFirst, abandoned>>

-----------------------------------------------------------------------------
(* The end *)

\* Mutant: an exception leaves without the finally.
EndIfSuccessful(r) ==
  /\ pc[r] = "end"
  /\ IF result[r] = "success" THEN Publish(RunEnded(r)) ELSE UNCHANGED instruments
  /\ Move(r, "respond")
  /\ UNCHANGED <<toolVars, body, turn, hasFirst, result, abandoned>>

\* The finally of run_trigger_graph; finishing the session may raise in its turn.
End(r) ==
  /\ pc[r] = "end"
  /\ \/ Publish(RunEnded(r)) /\ UNCHANGED <<result, abandoned>>
     \/ /\ session[r] = "open" /\ PublishRaises(RunEnded(r))
        /\ result' = [result EXCEPT ![r] = "error"]
        /\ abandoned' = abandoned \cup {r}
  /\ Move(r, "respond")
  /\ UNCHANGED <<toolVars, body, turn, hasFirst>>

\* The response is published; where that raises after a success, run_guarded has a
\* bridge publish an error as well.
Respond(r) ==
  /\ pc[r] = "respond"
  /\ \/ Publish(Responded(r)) /\ Move(r, "over")
     \/ /\ PublishRaises(Responded(r))
        /\ Move(r, IF body[r].via = "bridge" /\ result[r] = "success" THEN "guard" ELSE "over")
  /\ UNCHANGED <<toolVars, body, turn, hasFirst, result, abandoned>>

\* on_error of run_guarded.
Guard(r) ==
  /\ pc[r] = "guard"
  /\ Publish(Responded(r)) \/ PublishRaises(Responded(r))
  /\ Move(r, "over")
  /\ UNCHANGED <<toolVars, body, turn, hasFirst, result, abandoned>>

\* The process ends, and with it what is in memory; W&B's sessions stay as they are,
\* and so do the records if they are in Postgres.
Crash ==
  /\ Fault
  /\ pc' = [r \in Run |-> IF pc[r] = "new" THEN "new" ELSE "gone"]
  /\ callPc' = [c \in Call |-> IF callPc[c] = "free" THEN "free" ELSE "gone"]
  /\ tool' = [c \in Call |-> NoTool] /\ callId' = [c \in Call |-> <<>>]
  /\ verdict' = [c \in Call |-> "none"] /\ found' = [c \in Call |-> 0]
  /\ toolSeq' = [r \in Run |-> 0] /\ turn' = [r \in Run |-> 0]
  /\ hasFirst' = [r \in Run |-> FALSE] /\ result' = [r \in Run |-> "none"]
  /\ body' = [r \in Run |-> NoBody] /\ offered' = [r \in Run |-> {}]
  /\ unlocked' = {} /\ counted' = EmptyBag /\ trace' = [r \in Run |-> 0]
  /\ checkpoints' = IF Durable THEN checkpoints ELSE {}
  /\ rows' = {} /\ steps' = {}
  /\ UNCHANGED <<traces, observed, session, effects, logged, abandoned>>

Next ==
  \/ \E r \in Run :
       \/ Begin(r) \/ Compile(r) \/ LoadSkill(r) \/ EnterNode(r)
       \/ StartGeneration(r) \/ NewToken(r) \/ EndGeneration(r) \/ CompleteGeneration(r)
       \/ ModelFails(r) \/ Decide(r) \/ LeaveTools(r)
       \/ End(r) \/ Respond(r) \/ Guard(r)
  \/ \E c \in Call : CallStep(c) /\ UNCHANGED <<pc, body, turn, hasFirst, result, abandoned>>
  \/ Crash

Spec == Init /\ [][Next]_vars

-----------------------------------------------------------------------------
(* Properties *)

\* A side effect is on record only if it happened, and one of a kind that is to be
\* recorded is on record if its call says that it went well: what is done and not
\* recorded ended in an exception, in an answer that is not ok, or with the process.
EffectsOnRecord ==
  /\ checkpoints \subseteq effects
  /\ \A c \in Call : callPc[c] = "done" /\ verdict[c] = "ok" /\ Recorded(c) => c \in checkpoints

\* No call is counted twice, whatever goes wrong after it was counted; one that came
\* to an outcome (an answer, a refusal or the failure of a subagent) was counted by
\* the time it is over, and so was what is in the trajectory.  Of a call whose handler
\* raised instead, this says only that it is not counted twice.
CallsCountedOnce ==
  \A c \in Call :
    LET n == Copies(Metric(EventOf(c).name), c) IN
    /\ callPc[c] \notin {"free", "gone"} => n <= 1
    /\ callPc[c] \in {"done", "raised"} /\ verdict[c] # "none" => n = 1
    /\ c \in steps => n = 1

\* A tool that a supervisor was offered is not refused to it, however long its
\* model takes and whatever other runs load meanwhile.
RefusedOnlyIfLocked ==
  \A c \in Call : verdict[c] = "forbidden" => body[RunOf(c)].node = "tool"

\* As long as no subscriber has raised, all observations of a run are on one trace,
\* though calls of tools look for it and make it side by side: what comes before
\* the calls has made it.
OneTracePerRun == faults = 0 => \A r \in Run : Cardinality(observed[r]) <= 1

\* A generation that was counted has had one first token, but for exceptions of
\* subscribers between the first token and the note of it.
OneFirstToken ==
  \A r \in Run : \A t \in 1..turn[r] :
    Copies("dalc_llm_*_total", <<r, t, "generation">>) > 0 =>
      Copies("dalc_llm_time_to_first_token_seconds", <<r, t, "generation">>) \in 1..(1 + faults)

\* A run that has been answered for has left no session open, but for one whose
\* graph could not be compiled or whose session could not be finished.
SessionsFinished ==
  \A r \in Run : pc[r] \in {"respond", "over"} /\ r \notin abandoned => session[r] # "open"

\* Ids of tool calls are unique.
ToolCallIdsUnique ==
  \A c, d \in Call : c # d /\ callId[c] # <<>> => callId[c] # callId[d]

\* The sessions behave as TraceSession says.
Sessions == INSTANCE TraceSession WITH
  state <- session,
  calls <- logged,
  pending <- {c \in Call : callPc[c] \notin Ended \cup {"free"}}

ImplementsSessions == Sessions!Spec

=============================================================================
