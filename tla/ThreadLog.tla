----------------------------- MODULE ThreadLog -----------------------------
(***************************************************************************)
(* What a conversation thread promises its runs, with no word about        *)
(* compiled graphs, their cache and its key, or checkpointers.             *)
(*                                                                         *)
(* A thread is a log of runs and the skill that is loaded in it.  A run    *)
(* resumes its thread once, with the log as it is then, and goes on with   *)
(* the skill it asks for or else the thread's.  It writes that skill back  *)
(* when it finishes, whatever other runs have done meanwhile.  A finished  *)
(* run stays in the log of its own thread, unless all logs are lost at     *)
(* once, which never happens to lasting ones.                              *)
(***************************************************************************)
CONSTANTS Thread, Run, Skill, NoSkill

VARIABLES
  lasting,        \* whether the logs outlive the process
  asked,          \* per run that has come: its thread and the skill it asks for
  log,            \* per thread: the skill that is loaded and the runs it has seen
  held,           \* per run: the skill it goes on with
  finished

vars == <<lasting, asked, log, held, finished>>

TypeOK ==
  /\ DOMAIN asked \subseteq Run
  /\ \A r \in DOMAIN asked : asked[r] \in [thread : Thread, skill : Skill \cup {NoSkill}]
  /\ log \in [Thread -> [skill : Skill \cup {NoSkill}, runs : SUBSET Run]]
  /\ held \in [Run -> Skill \cup {NoSkill}]
  /\ finished \subseteq Run

Empty == [t \in Thread |-> [skill |-> NoSkill, runs |-> {}]]

Init ==
  /\ lasting \in BOOLEAN
  /\ asked = [r \in {} |-> NoSkill]
  /\ log = Empty
  /\ held = [r \in Run |-> NoSkill]
  /\ finished = {}

Ask(r) ==
  /\ r \notin DOMAIN asked
  /\ \E t \in Thread : \E s \in Skill \cup {NoSkill} :
       asked' = [q \in DOMAIN asked \cup {r} |->
                   IF q = r THEN [thread |-> t, skill |-> s] ELSE asked[q]]
  /\ UNCHANGED <<lasting, log, held, finished>>

\* Run r leaves skill s in its thread.
Write(r, s) ==
  log' = [log EXCEPT ![asked[r].thread] = [skill |-> s, runs |-> @.runs \cup {r}]]

\* A run that no thread has seen yet.
Fresh(r) ==
  /\ r \in DOMAIN asked /\ r \notin finished
  /\ \A t \in Thread : r \notin log[t].runs

Loaded(r) == log[asked[r].thread].skill

Resume(r) ==
  /\ Fresh(r)
  /\ LET now == IF asked[r].skill # NoSkill THEN asked[r].skill ELSE Loaded(r)
     IN held' = [held EXCEPT ![r] = now] /\ Write(r, now)
  /\ UNCHANGED <<lasting, asked, finished>>

\* It gives up as it begins.
Abandon(r) ==
  /\ Fresh(r)
  /\ Write(r, Loaded(r))
  /\ UNCHANGED <<lasting, asked, held, finished>>

Finish(r) ==
  /\ r \in DOMAIN asked /\ r \notin finished
  /\ r \in log[asked[r].thread].runs
  /\ Write(r, held[r])
  /\ finished' = finished \cup {r}
  /\ UNCHANGED <<lasting, asked, held>>

Lose ==
  /\ ~lasting
  /\ log' = Empty
  /\ finished' = {}
  /\ UNCHANGED <<lasting, asked, held>>

Next ==
  \/ \E r \in Run : Ask(r) \/ Resume(r) \/ Abandon(r) \/ Finish(r)
  \/ Lose

Spec == Init /\ [][Next]_vars

\* A finished run is in the log of its thread, to be found by whoever resumes it, and
\* no run is in the log of a thread that is not its own.
KeepsItsRuns ==
  /\ \A r \in finished : r \in DOMAIN asked /\ r \in log[asked[r].thread].runs
  /\ \A t \in Thread : \A r \in log[t].runs : r \in DOMAIN asked /\ asked[r].thread = t

=============================================================================
