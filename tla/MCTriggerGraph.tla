--------------------------- MODULE MCTriggerGraph ---------------------------
(* Small instances of TriggerGraph for TLC. *)
EXTENDS TriggerGraph, TLC

Http(ephemeral, t, skill, tool, message) ==
  [via |-> "http", ephemeral |-> ephemeral, thread |-> t, skill |-> skill,
   tool |-> tool, message |-> message]

Other(via, t) ==
  [via |-> via, ephemeral |-> FALSE, thread |-> t, skill |-> NoSkill,
   tool |-> FALSE, message |-> TRUE]

\* A skill and an ephemeral tool beside a skill over HTTP, an event and a read, each
\* for any thread.  A plain message over HTTP does what an event does, only never
\* beside another request over HTTP.
MCRequests ==
  UNION {{Http(FALSE, t, s, FALSE, FALSE), Http(TRUE, t, s, TRUE, FALSE),
          Other("bridge", t), Other("read", t)} : t \in Thread, s \in Skill}

\* Threads are interchangeable.
ThreadSymmetry == Permutations(Thread)

=============================================================================
