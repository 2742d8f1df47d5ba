---------------------------- MODULE TriggerGraph ----------------------------
(***************************************************************************)
(* agent/trigger_graph.py: one trigger request is one invocation of a      *)
(* compiled LangGraph, with or without a checkpointer, kept in two module  *)
(* globals (_compiled_graph, _compiled_graph_key) that no lock protects.   *)
(*                                                                         *)
(* POST /api/v1/trigger is a coroutine that never awaits while it runs the *)
(* graph, so those invocations follow one another; Slack and Jira triggers *)
(* and the operators' thread-state reads run on threads of their own, next *)
(* to it.  A step of an invocation is what runs between two accesses to    *)
(* the globals or to a checkpoint.                                         *)
(*                                                                         *)
(* Saver n is the n-th checkpointer a process builds; 0 is none.           *)
(***************************************************************************)
EXTENDS Naturals, FiniteSets

CONSTANTS
  Thread,         \* thread ids
  Skill,          \* skills of the catalog
  NoSkill,
  NoAnswer,
  NoRequest,
  Stores,         \* checkpoint stores the deployment may use, see store
  HasSubagents,   \* whether the deployment configures subagents
  Requests,       \* the requests clients send
  Mixing,         \* whether ephemeral and other requests are ever in flight together
  MaxRuns,        \* bound: requests
  MaxRestarts     \* bound: restarts of the process

Run == 1..MaxRuns
Saver == 1..(MaxRuns + 1)

\* via: "http" for POST /api/v1/trigger, "bridge" for a Slack or Jira event,
\* "read" for the thread-state routes.
Request ==
  [via : {"http", "bridge", "read"}, ephemeral : BOOLEAN, thread : Thread,
   skill : Skill \cup {NoSkill}, tool : BOOLEAN, message : BOOLEAN]

ASSUME TriggerAssumption ==
  /\ NoSkill \notin Skill /\ NoAnswer # NoSkill
  /\ {"tool", "supervisor", "reply", NoAnswer} \cap Skill = {}
  /\ Stores \subseteq {"none", "shared", "fresh", "postgres"}
  /\ HasSubagents \in BOOLEAN /\ Mixing \in BOOLEAN
  /\ Requests \subseteq Request /\ NoRequest \notin Request
  /\ \A q \in Requests : q.via # "http" =>
       ~q.ephemeral /\ q.skill = NoSkill /\ ~q.tool
  /\ MaxRuns \in Nat /\ MaxRestarts \in Nat

VARIABLES
  store,          \* "none": HOSTED_AGENT_CHECKPOINT_STORE=none
                  \* "shared": checkpoints not enabled, the module's MemorySaver
                  \* "fresh": enabled, backend memory: a MemorySaver per compile
                  \* "postgres": enabled, backend postgres
  graph,          \* _compiled_graph, by its saver
  graphKey,       \* _compiled_graph_key: "unset", "ephemeral" or "durable"
  savers,         \* MemorySavers built so far
  history,        \* per saver and thread: the skill_json channel and the runs
                  \* that left a checkpoint
  pc,             \* where each run is
  req,            \* its request
  mine,           \* the graph it was given
  channel,        \* its copy of the skill_json channel
  answer,         \* what it returned
  before,         \* history: runs that were done when it arrived
  restarts

globals == <<graph, graphKey, savers>>
vars == <<store, globals, history, pc, req, mine, channel, answer, before, restarts>>

Blank == [t \in Thread |-> [skill |-> NoSkill, runs |-> {}]]

TypeOK ==
  /\ store \in Stores
  /\ graph \in Saver \cup {0}
  /\ graphKey \in {"unset", "ephemeral", "durable"}
  /\ savers \in 0..MaxRuns
  /\ history \in [Saver -> [Thread -> [skill : Skill \cup {NoSkill}, runs : SUBSET Run]]]
  /\ pc \in [Run -> {"new", "check", "build", "key", "take", "load", "act", "done", "failed"}]
  /\ req \in [Run -> Requests \cup {NoRequest}]
  /\ mine \in [Run -> Saver \cup {0}]
  /\ channel \in [Run -> Skill \cup {NoSkill}]
  /\ answer \in [Run -> Skill \cup {"tool", "supervisor", "reply", NoAnswer}]
  /\ before \in [Run -> SUBSET Run]
  /\ restarts \in 0..MaxRestarts

Init ==
  /\ store \in Stores
  /\ graph = 0
  /\ graphKey = "unset"
  /\ savers = 0
  /\ history = [s \in Saver |-> Blank]
  /\ pc = [r \in Run |-> "new"]
  /\ req = [r \in Run |-> NoRequest]
  /\ mine = [r \in Run |-> 0]
  /\ channel = [r \in Run |-> NoSkill]
  /\ answer = [r \in Run |-> NoAnswer]
  /\ before = [r \in Run |-> {}]
  /\ restarts = 0

-----------------------------------------------------------------------------

Active == {r \in Run : pc[r] \notin {"new", "done", "failed"}}

Durable(r) == store # "none" /\ ~req[r].ephemeral

\* _graph_key: all but the ephemeral flag is the same throughout a process.
Key(r) == IF req[r].ephemeral THEN "ephemeral" ELSE "durable"

Goto(r, where) == pc' = [pc EXCEPT ![r] = where]

\* A request comes in.  Requests come in the order of their numbers.
Arrive(r) ==
  /\ pc[r] = "new" /\ \A q \in Run : q < r => pc[q] # "new"
  /\ \E q \in Requests :
       /\ q.via = "http" => \A a \in Active : req[a].via # "http"
       /\ q.via = "read" => store # "none"
       /\ Mixing \/ \A a \in Active : req[a].ephemeral = q.ephemeral
       /\ req' = [req EXCEPT ![r] = q]
  /\ before' = [before EXCEPT ![r] = {q \in Run : pc[q] = "done"}]
  /\ Goto(r, "check")
  /\ UNCHANGED <<store, globals, history, mine, channel, answer, restarts>>

\* compiled_trigger_graph compares the cached key with the request's.
Check(r) ==
  /\ pc[r] = "check"
  /\ Goto(r, IF graphKey = Key(r) THEN "take" ELSE "build")
  /\ UNCHANGED <<store, globals, history, req, mine, channel, answer, before, restarts>>

\* Mutant: an ephemeral run has a checkpointer like any other.
CheckpointerAlways(r) ==
  CASE store = "none"  -> 0
    [] store = "fresh" -> savers + 1
    [] OTHER           -> 1

\* _resolve_checkpointer.
Checkpointer(r) ==
  IF ~Durable(r) THEN 0
  ELSE IF store = "fresh" THEN savers + 1
  ELSE 1

\* It assigns the new graph to the global first ...
Build(r) ==
  /\ pc[r] = "build"
  /\ graph' = Checkpointer(r)
  /\ savers' = IF Checkpointer(r) > savers THEN savers + 1 ELSE savers
  /\ Goto(r, "key")
  /\ UNCHANGED <<store, graphKey, history, req, mine, channel, answer, before, restarts>>

\* ... then its key ...
SetKey(r) ==
  /\ pc[r] = "key"
  /\ graphKey' = Key(r)
  /\ Goto(r, "take")
  /\ UNCHANGED <<store, graph, savers, history, req, mine, channel, answer, before, restarts>>

\* ... and returns whatever the global holds by then.
Take(r) ==
  /\ pc[r] = "take"
  /\ mine' = [mine EXCEPT ![r] = graph]
  /\ Goto(r, IF req[r].via = "read" THEN "done" ELSE "load")
  /\ UNCHANGED <<store, globals, history, req, channel, answer, before, restarts>>

-----------------------------------------------------------------------------
(* The graph's nodes *)

\* A checkpoint of run r with skill s in the skill_json channel.
Save(r, s) ==
  IF mine[r] = 0
    THEN UNCHANGED history
    ELSE history' = [history EXCEPT ![mine[r]][req[r].thread] =
                       [skill |-> s, runs |-> @.runs \cup {r}]]

Stored(r) == IF mine[r] = 0 THEN NoSkill ELSE history[mine[r]][req[r].thread].skill

\* Mutant: the channel is that of no thread in particular.
LoadAnyThread(r) ==
  /\ pc[r] = "load"
  /\ \E s \in {NoSkill} \cup {history[v][t].skill : v \in Saver, t \in Thread} :
       LET now == IF req[r].skill # NoSkill THEN req[r].skill ELSE s
       IN channel' = [channel EXCEPT ![r] = now] /\ Save(r, now)
  /\ Goto(r, "act")
  /\ UNCHANGED <<store, globals, req, mine, answer, before, restarts>>

\* invoke restores the thread's channels; load_skill then overwrites
\* skill_json if the request names a skill.
Load(r) ==
  /\ pc[r] = "load"
  /\ LET now == IF req[r].skill # NoSkill THEN req[r].skill ELSE Stored(r)
     IN channel' = [channel EXCEPT ![r] = now] /\ Save(r, now)
  /\ Goto(r, "act")
  /\ UNCHANGED <<store, globals, req, mine, answer, before, restarts>>

\* Mutant: the route does not ask whether a skill is loaded.
RouteBlindly(q, skill) ==
  IF q.tool THEN "tool"
  ELSE IF ~HasSubagents \/ ~q.message THEN skill
  ELSE "supervisor"

\* _route_after_load, and _execute_trigger alike: which node answers.
Route(q, skill) ==
  IF q.tool THEN "tool"
  ELSE IF skill # NoSkill /\ (~HasSubagents \/ ~q.message) THEN skill
  ELSE IF HasSubagents THEN "supervisor"
  ELSE "reply"

\* Mutant: the last checkpoint has the skill of the request, not the channel's.
ActForgets(r) ==
  /\ pc[r] = "act"
  /\ answer' = [answer EXCEPT ![r] = Route(req[r], channel[r])]
  /\ Save(r, req[r].skill)
  /\ Goto(r, "done")
  /\ UNCHANGED <<store, globals, req, mine, channel, before, restarts>>

\* The chosen node runs and the last checkpoint is written.
Act(r) ==
  /\ pc[r] = "act"
  /\ answer' = [answer EXCEPT ![r] = Route(req[r], channel[r])]
  /\ Save(r, channel[r])
  /\ Goto(r, "done")
  /\ UNCHANGED <<store, globals, req, mine, channel, before, restarts>>

\* An exception: no checkpointer (Postgres is away), an unknown skill (the
\* checkpoint of the input is there already), a tool or model that fails.
Fail(r) ==
  /\ \/ pc[r] \in {"build", "act"} /\ UNCHANGED history
     \/ pc[r] = "load" /\ Save(r, Stored(r))
  /\ Goto(r, "failed")
  /\ UNCHANGED <<store, globals, req, mine, channel, answer, before, restarts>>

\* The process restarts: what was in memory is gone, in-flight runs with it.
Restart ==
  /\ restarts < MaxRestarts
  /\ restarts' = restarts + 1
  /\ graph' = 0 /\ graphKey' = "unset" /\ savers' = 0
  /\ history' = IF store = "postgres" THEN history ELSE [s \in Saver |-> Blank]
  /\ pc' = [r \in Run |-> IF r \in Active \/ (store # "postgres" /\ pc[r] = "done")
                            THEN "failed" ELSE pc[r]]
  /\ UNCHANGED <<store, req, mine, channel, answer, before>>

Next ==
  \/ \E r \in Run : \/ Arrive(r) \/ Check(r) \/ Build(r) \/ SetKey(r) \/ Take(r)
                    \/ Load(r) \/ Act(r) \/ Fail(r)
  \/ Restart

Spec == Init /\ [][Next]_vars

-----------------------------------------------------------------------------
(* Properties *)

\* An ephemeral request leaves no checkpoint in any thread.
EphemeralUnrecorded ==
  \A s \in Saver : \A t \in Thread : \A r \in history[s][t].runs : ~req[r].ephemeral

\* A request that is not ephemeral resumes a thread with the checkpoints of
\* every run of that thread that was done before the request came in.  Not so
\* where each compile makes a MemorySaver of its own ("fresh"): there a compile
\* that another mode's request has made necessary starts from an empty store.
ResumesThread ==
  \A r \in Run : pc[r] = "load" /\ Durable(r) /\ store # "fresh" =>
    \A q \in before[r] :
      pc[q] = "done" /\ Durable(q) /\ req[q].via # "read" /\ req[q].thread = req[r].thread =>
        mine[r] # 0 /\ q \in history[mine[r]][req[r].thread].runs

\* An answer is what the request asks for or a skill that another request of
\* the same thread loaded, never another thread's or an ephemeral request's.
SkillsComeFromTheThread ==
  \A r \in Run : pc[r] = "done" /\ req[r].via # "read" =>
    \/ answer[r] = Route(req[r], req[r].skill)
    \/ \E q \in Run \ {r} : /\ pc[q] # "new" /\ Durable(q) /\ Durable(r)
                            /\ req[q].thread = req[r].thread
                            /\ answer[r] = req[q].skill

\* The requests whose runs a thread is to remember, where one store serves all
\* graphs.
Kept(r) ==
  /\ store \in {"shared", "postgres"}
  /\ req[r] # NoRequest /\ ~req[r].ephemeral /\ req[r].via # "read"

Asked ==
  [r \in {q \in Run : Kept(q)} |-> [thread |-> req[r].thread, skill |-> req[r].skill]]

Threads == IF store \in {"shared", "postgres"} THEN history[1] ELSE Blank

Finished == {r \in Run : Kept(r) /\ pc[r] = "done"}

Held == [r \in Run |-> IF Kept(r) THEN channel[r] ELSE NoSkill]

Log == INSTANCE ThreadLog WITH
  lasting <- store = "postgres",
  asked <- Asked,
  log <- Threads,
  held <- Held,
  finished <- Finished

\* Which graph is in the globals, who compiled it and what was in between make no
\* difference to a thread: it is a log that runs resume, write back to and stay in.
ImplementsThreadLog == Log!Spec

=============================================================================
