--------------------------- MODULE MCRunLifecycle ---------------------------
(* Small instances of RunLifecycle for TLC. *)
EXTENDS RunLifecycle

CONSTANTS search, react, move, rag, triage, http, bridge

Kinds == [t \in Tool |-> CASE t = search -> "read" [] t = move -> "transition" [] t = react -> "amend"
                           [] t = rag -> "subagent"]

\* The one skill unlocks a tool of Jira and one that is not registered.
Extras == [s \in Skill |-> {move, search}]

Request(via, skill, node, t) == [via |-> via, skill |-> skill, node |-> node, tool |-> t]

\* A supervisor's message by a bridge, beside requests of all kinds over HTTP.
MCBodies == [r \in Run |->
  IF r = bridge THEN {Request("bridge", NoSkill, "supervisor", NoTool)}
  ELSE {Request("http", triage, "skill", NoTool),
        Request("http", triage, "tool", move),
        Request("http", triage, "tool", search),
        Request("http", NoSkill, "tool", move),
        Request("http", "unknown", "reply", NoTool)}]

=============================================================================
