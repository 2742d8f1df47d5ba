-------------------------- MODULE TriggerGraph_proofs --------------------------
(***************************************************************************)
(* Proofs about TriggerGraph, for any threads, skills, requests, stores    *)
(* and numbers of runs and restarts.                                       *)
(*                                                                         *)
(* Types need no more than that a process builds no more savers than runs  *)
(* have come that far (BuiltInv).  What threads remember needs that        *)
(* ephemeral and other requests are not in flight together: then all that  *)
(* are active have one flag (AloneInv), the graph in the global fits every *)
(* run that has passed the check of its key (GraphInv), so each gets a     *)
(* checkpointer if and only if it is to have one (MineInv), and what a     *)
(* thread's checkpoints hold can be said run by run (PastInv, SkillInv).   *)
(*                                                                         *)
(* With whose checkpoints they are (LogInv), every step is one of          *)
(* ThreadLog: the cache of graphs does not show in the threads.            *)
(***************************************************************************)
EXTENDS TriggerGraph, FiniteSetTheorems, TLAPS

\* Runs that no longer have a graph to build.
Built == {r \in Run : pc[r] \in {"key", "take", "load", "act", "done", "failed"}}

BuiltInv ==
  /\ savers <= Cardinality(Built)
  /\ \A r \in Run : pc[r] # "new" => req[r] \in Requests

TypeInv == TypeOK /\ BuiltInv

\* Ephemeral and other requests are not in flight together: as over HTTP alone, where
\* the coroutine that runs the graph awaits nothing, or where clients send but one kind.
Apart ==
  \/ \A q \in Requests : q.via = "http"
  \/ \A p, q \in Requests : p.ephemeral = q.ephemeral
  \/ ~Mixing

AloneInv == \A a, b \in Active : req[a].ephemeral = req[b].ephemeral

\* The graph in the global has a checkpointer if and only if the run is to have one.
Fits(r) == graph = 0 <=> ~Durable(r)

GraphInv ==
  /\ store # "fresh" => graph \in {0, 1}
  /\ \A r \in Run : pc[r] \in {"key", "take"} => Fits(r)
  /\ (\A r \in Run : pc[r] # "key") =>
       /\ graphKey = "ephemeral" => graph = 0
       /\ graphKey = "durable" => (graph = 0 <=> store = "none")

MineInv ==
  \A r \in Run : pc[r] \in {"load", "act"} =>
    /\ mine[r] = 0 <=> ~Durable(r)
    /\ store # "fresh" => mine[r] \in {0, 1}

\* Whose runs a thread's checkpoints are: durable ones only, and, where there is one
\* store for all graphs, every one that is done.
PastInv ==
  /\ \A s \in Saver : \A t \in Thread : \A r \in history[s][t].runs :
       pc[r] # "new" /\ ~req[r].ephemeral
  /\ \A r \in Run :
       pc[r] = "done" /\ Durable(r) /\ store # "fresh" /\ req[r].via # "read" =>
         r \in history[1][req[r].thread].runs

\* A skill that a durable request of the thread has asked for.
Loaded(t, s) ==
  \E q \in Run : pc[q] # "new" /\ Durable(q) /\ req[q].thread = t /\ req[q].skill = s

\* The skills of the checkpoints.
CheckpointSkills ==
  \A v \in Saver : \A t \in Thread :
    history[v][t].skill # NoSkill => Loaded(t, history[v][t].skill)

\* The skill that a run has in its channel: what the request asks for, or what its
\* thread remembers.
Channelled(r) ==
  \/ channel[r] = req[r].skill
  \/ req[r].skill = NoSkill /\ Durable(r) /\ Loaded(req[r].thread, channel[r])

Comes(r) ==
  \/ answer[r] = Route(req[r], req[r].skill)
  \/ \E q \in Run \ {r} : /\ pc[q] # "new" /\ Durable(q) /\ Durable(r)
                          /\ req[q].thread = req[r].thread
                          /\ answer[r] = req[q].skill

SkillInv ==
  /\ CheckpointSkills
  /\ \A r \in Run : pc[r] = "act" => Channelled(r)
  /\ \A r \in Run : pc[r] = "done" /\ req[r].via # "read" => Comes(r)

ThreadInv == AloneInv /\ GraphInv /\ MineInv /\ PastInv /\ SkillInv
-----------------------------------------------------------------------------
(* Types *)

\* The requests of runs that have come in are what clients send.
LEMMA RequestShape ==
  ASSUME TypeInv, NEW r \in Run, pc[r] # "new"
  PROVE  /\ req[r] \in Request /\ req[r].thread \in Thread
         /\ req[r].skill \in Skill \cup {NoSkill}
BY TriggerAssumption DEF TypeInv, BuiltInv, Request

\* A checkpoint is added to one thread of one saver, or none is.
Saved(r, s) ==
  /\ history' \in [Saver -> [Thread -> [skill : Skill \cup {NoSkill}, runs : SUBSET Run]]]
  /\ \A v \in Saver : \A t \in Thread :
       IF v = mine[r] /\ t = req[r].thread
       THEN history'[v][t].skill = s /\ history'[v][t].runs = history[v][t].runs \cup {r}
       ELSE history'[v][t] = history[v][t]

\* Saved is what Save does.
LEMMA SaveSaves ==
  ASSUME TypeInv, NEW r \in Run, pc[r] # "new", NEW s \in Skill \cup {NoSkill}, Save(r, s)
  PROVE  Saved(r, s)
<1>1. CASE mine[r] = 0
  <2>1. 0 \notin Saver /\ history' = history
    BY <1>1 DEF Save, Saver
  <2> QED
    BY <1>1, <2>1 DEF Saved, TypeInv, TypeOK
<1>2. CASE mine[r] # 0
  <2> DEFINE v == mine[r]
             t == req[r].thread
             new == [skill |-> s, runs |-> history[v][t].runs \cup {r}]
  <2>1. v \in Saver /\ t \in Thread
    BY <1>2, RequestShape DEF TypeInv, TypeOK
  <2>2. history' = [history EXCEPT ![v][t] = new]
    BY <1>2 DEF Save
  <2>3. new \in [skill : Skill \cup {NoSkill}, runs : SUBSET Run]
    BY <2>1 DEF TypeInv, TypeOK
  <2>4. history \in [Saver -> [Thread -> [skill : Skill \cup {NoSkill}, runs : SUBSET Run]]]
    BY DEF TypeInv, TypeOK
  <2> HIDE DEF new, v, t
  <2>5. history' \in [Saver -> [Thread -> [skill : Skill \cup {NoSkill}, runs : SUBSET Run]]]
    BY <2>1, <2>2, <2>3, <2>4
  <2>6. \A w \in Saver : \A u \in Thread :
          history'[w][u] = IF w = v /\ u = t THEN new ELSE history[w][u]
    BY <2>1, <2>2, <2>4
  <2> QED
    BY <2>5, <2>6 DEF Saved, new, v, t
<1> QED
  BY <1>1, <1>2

\* What a run finds in its thread's checkpoint is a skill or none.
LEMMA StoredType ==
  ASSUME TypeInv, NEW r \in Run, pc[r] # "new"
  PROVE  Stored(r) \in Skill \cup {NoSkill}
<1>1. req[r].thread \in Thread /\ mine[r] \in Saver \cup {0}
  BY RequestShape DEF TypeInv, TypeOK
<1> QED
  BY <1>1 DEF Stored, TypeInv, TypeOK

\* A node that is reached answers with what it is there for.
LEMMA RouteType ==
  ASSUME NEW q, NEW s \in Skill \cup {NoSkill}
  PROVE  Route(q, s) \in Skill \cup {"tool", "supervisor", "reply", NoAnswer}
BY DEF Route

\* What a run has saved when it leaves its step.
LEMMA RunsSave ==
  ASSUME TypeInv, NEW r \in Run
  PROVE  /\ Load(r) => /\ channel'[r] \in Skill \cup {NoSkill} /\ Saved(r, channel'[r])
                       /\ channel'[r] = IF req[r].skill # NoSkill THEN req[r].skill ELSE Stored(r)
                       /\ channel' = [channel EXCEPT ![r] = channel'[r]]
         /\ Act(r) => Saved(r, channel[r])
         /\ Fail(r) => history' = history \/ Saved(r, Stored(r))
<1>1. ASSUME Load(r)
      PROVE  /\ channel'[r] \in Skill \cup {NoSkill} /\ Saved(r, channel'[r])
             /\ channel'[r] = IF req[r].skill # NoSkill THEN req[r].skill ELSE Stored(r)
             /\ channel' = [channel EXCEPT ![r] = channel'[r]]
  <2> DEFINE now == IF req[r].skill # NoSkill THEN req[r].skill ELSE Stored(r)
  <2>1. pc[r] # "new" /\ channel' = [channel EXCEPT ![r] = now] /\ Save(r, now)
    BY <1>1 DEF Load
  <2>2. now \in Skill \cup {NoSkill}
    BY <2>1, RequestShape, StoredType
  <2>3. channel'[r] = now
    BY <2>1 DEF TypeInv, TypeOK
  <2> QED
    BY <2>1, <2>2, <2>3, SaveSaves
<1>2. ASSUME Act(r) PROVE Saved(r, channel[r])
  <2>1. pc[r] # "new" /\ Save(r, channel[r]) /\ channel[r] \in Skill \cup {NoSkill}
    BY <1>2 DEF Act, TypeInv, TypeOK
  <2> QED
    BY <2>1, SaveSaves
<1>3. ASSUME Fail(r) PROVE history' = history \/ Saved(r, Stored(r))
  <2>1. pc[r] # "new" /\ (history' = history \/ Save(r, Stored(r)))
    BY <1>3 DEF Fail
  <2> QED
    BY <2>1, SaveSaves, StoredType
<1> QED
  BY <1>1, <1>2, <1>3

\* The checkpointer that a compile gets.
LEMMA Checkpointers ==
  ASSUME NEW r, savers \in Nat
  PROVE  /\ Checkpointer(r) \in {0, 1, savers + 1}
         /\ Checkpointer(r) = 0 <=> ~Durable(r)
         /\ store # "fresh" => Checkpointer(r) \in {0, 1}
<1>1. CASE ~Durable(r)
  <2>1. Checkpointer(r) = 0
    BY <1>1 DEF Checkpointer
  <2> QED
    BY <1>1, <2>1
<1>2. CASE Durable(r) /\ store = "fresh"
  BY <1>2 DEF Checkpointer
<1>3. CASE Durable(r) /\ store # "fresh"
  BY <1>3 DEF Checkpointer
<1> QED
  BY <1>1, <1>2, <1>3

\* Where no fewer runs have built, there is room for as many savers.
LEMMA BuiltGrows ==
  ASSUME TypeInv, Built \subseteq Built'
  PROVE  savers <= Cardinality(Built)' /\ Cardinality(Built) \in 0..MaxRuns
<1>1. IsFiniteSet(Run) /\ Cardinality(Run) = MaxRuns
  BY FS_Interval, TriggerAssumption DEF Run
<1>2. Built \in SUBSET Run /\ Built' \in SUBSET Run
  BY DEF Built
<1>3. IsFiniteSet(Built) /\ Cardinality(Built) <= MaxRuns /\ IsFiniteSet(Built')
  BY <1>1, <1>2, FS_Subset
<1>4. Built \in SUBSET Built'
  OBVIOUS
<1>5. Cardinality(Built) <= Cardinality(Built')
  BY <1>3, <1>4, FS_Subset
<1>6. Cardinality(Built) \in Nat /\ Cardinality(Built') \in Nat /\ savers \in Nat
  BY <1>3, FS_CardinalityType DEF TypeInv, TypeOK
<1> QED
  BY <1>3, <1>5, <1>6, TriggerAssumption DEF TypeInv, BuiltInv

\* The types hold initially, when no graph was built.
LEMMA TypeInit == Init => TypeInv
<1> SUFFICES ASSUME Init PROVE TypeInv
  OBVIOUS
<1>1. TypeOK
  BY TriggerAssumption DEF Init, TypeOK, Blank, Saver
<1>2. Built = {}
  BY DEF Init, Built
<1>3. BuiltInv
  BY <1>2, FS_EmptySet DEF Init, BuiltInv
<1> QED
  BY <1>1, <1>3 DEF TypeInv

\* All stay of their types; a process builds a saver at most once for a run.
LEMMA TypeNext == TypeInv /\ [Next]_vars => TypeInv'
<1> SUFFICES ASSUME TypeInv, [Next]_vars PROVE TypeInv'
  OBVIOUS
<1> USE DEF TypeInv, globals, Goto
<1>1. ASSUME NEW r \in Run, Arrive(r)
      PROVE  TypeInv'
  <2>1. Built \subseteq Built'
    BY <1>1 DEF Arrive, TypeOK, Built
  <2>2. BuiltInv'
    BY <1>1, <2>1, BuiltGrows DEF Arrive, TypeOK, BuiltInv
  <2>3. TypeOK'
    BY <1>1 DEF Arrive, TypeOK
  <2> QED
    BY <2>2, <2>3
<1>2. ASSUME NEW r \in Run, Check(r)
      PROVE  TypeInv'
  <2>1. Built \subseteq Built'
    BY <1>2 DEF Check, TypeOK, Built
  <2>2. BuiltInv'
    BY <1>2, <2>1, BuiltGrows DEF Check, TypeOK, BuiltInv
  <2>3. TypeOK'
    BY <1>2 DEF Check, TypeOK
  <2> QED
    BY <2>2, <2>3
<1>3. ASSUME NEW r \in Run, Build(r)
      PROVE  TypeInv'
  <2>1. pc[r] = "build" /\ pc' = [pc EXCEPT ![r] = "key"] /\ savers \in Nat
    BY <1>3 DEF Build, TypeOK
  <2>2. r \notin Built /\ Built' = Built \cup {r}
    BY <2>1 DEF Built, TypeOK
  <2>3. IsFiniteSet(Built)
    <3>1. IsFiniteSet(Run)
      BY FS_Interval, TriggerAssumption DEF Run
    <3> QED
      BY <3>1, FS_Subset DEF Built
  <2>4. Cardinality(Built') = Cardinality(Built) + 1 /\ Cardinality(Built) \in Nat
    BY <2>2, <2>3, FS_AddElement, FS_CardinalityType
  <2>5. Cardinality(Built') <= MaxRuns
    <3>1. Built' \in SUBSET Run /\ IsFiniteSet(Run) /\ Cardinality(Run) = MaxRuns
      BY FS_Interval, TriggerAssumption DEF Run, Built
    <3> QED
      BY <3>1, FS_Subset
  <2>6. savers' \in {savers, savers + 1} /\ savers <= Cardinality(Built)
    BY <1>3 DEF Build, BuiltInv
  <2>7. savers' <= Cardinality(Built') /\ savers' \in 0..MaxRuns /\ savers + 1 \in 1..MaxRuns
    BY <2>1, <2>4, <2>5, <2>6, TriggerAssumption
  <2>8. BuiltInv'
    BY <1>3, <2>1, <2>7 DEF Build, BuiltInv, TypeOK
  <2>9. graph' \in Saver \cup {0}
    BY <1>3, <2>1, <2>7, Checkpointers, TriggerAssumption DEF Build, Saver
  <2>10. TypeOK'
    BY <1>3, <2>7, <2>9 DEF Build, TypeOK
  <2> QED
    BY <2>8, <2>10
<1>4. ASSUME NEW r \in Run, SetKey(r)
      PROVE  TypeInv'
  <2>1. Built \subseteq Built'
    BY <1>4 DEF SetKey, TypeOK, Built
  <2>2. BuiltInv'
    BY <1>4, <2>1, BuiltGrows DEF SetKey, TypeOK, BuiltInv
  <2>3. TypeOK'
    BY <1>4 DEF SetKey, TypeOK, Key
  <2> QED
    BY <2>2, <2>3
<1>5. ASSUME NEW r \in Run, Take(r)
      PROVE  TypeInv'
  <2>1. Built \subseteq Built'
    BY <1>5 DEF Take, TypeOK, Built
  <2>2. BuiltInv'
    BY <1>5, <2>1, BuiltGrows DEF Take, TypeOK, BuiltInv
  <2>3. TypeOK'
    BY <1>5 DEF Take, TypeOK
  <2> QED
    BY <2>2, <2>3
<1>6. ASSUME NEW r \in Run, Load(r)
      PROVE  TypeInv'
  <2>1. Built \subseteq Built'
    BY <1>6 DEF Load, TypeOK, Built
  <2>2. BuiltInv'
    BY <1>6, <2>1, BuiltGrows DEF Load, TypeOK, BuiltInv
  <2>3. TypeOK'
    BY <1>6, RunsSave DEF Load, TypeOK, Saved
  <2> QED
    BY <2>2, <2>3
<1>7. ASSUME NEW r \in Run, Act(r)
      PROVE  TypeInv'
  <2>1. Built \subseteq Built'
    BY <1>7 DEF Act, TypeOK, Built
  <2>2. BuiltInv'
    BY <1>7, <2>1, BuiltGrows DEF Act, TypeOK, BuiltInv
  <2>3. TypeOK'
    BY <1>7, RunsSave, RouteType DEF Act, TypeOK, Saved
  <2> QED
    BY <2>2, <2>3
<1>8. ASSUME NEW r \in Run, Fail(r)
      PROVE  TypeInv'
  <2>1. Built \subseteq Built'
    BY <1>8 DEF Fail, TypeOK, Built
  <2>2. BuiltInv'
    BY <1>8, <2>1, BuiltGrows DEF Fail, TypeOK, BuiltInv
  <2>3. TypeOK'
    BY <1>8, RunsSave DEF Fail, TypeOK, Saved
  <2> QED
    BY <2>2, <2>3
<1>9. CASE Restart
  <2>1. Built \subseteq Built' /\ \A r \in Run : pc'[r] # "new" => pc[r] # "new"
    BY <1>9 DEF Restart, TypeOK, Built, Active
  <2>2. IsFiniteSet(Built') /\ savers' = 0
    <3>1. IsFiniteSet(Run) /\ Built' \in SUBSET Run
      BY FS_Interval, TriggerAssumption DEF Run, Built
    <3> QED
      BY <1>9, <3>1, FS_Subset DEF Restart
  <2>3. BuiltInv'
    BY <1>9, <2>1, <2>2, FS_CardinalityType DEF Restart, BuiltInv
  <2>4. TypeOK'
    BY <1>9, TriggerAssumption DEF Restart, TypeOK, Blank
  <2> QED
    BY <2>3, <2>4
<1>10. CASE UNCHANGED vars
  BY <1>10 DEF vars, TypeOK, BuiltInv, Built
<1> QED
  BY <1>1, <1>2, <1>3, <1>4, <1>5, <1>6, <1>7, <1>8, <1>9, <1>10 DEF Next

\* In every reachable state, mixed requests or not, the variables have their
\* types, and there are no more savers than compiles.
THEOREM TypeInvariant == Spec => []TypeInv
BY TypeInit, TypeNext, PTL DEF Spec

\* The globals, the checkpoints and the runs are always of their types, with or
\* without requests of both kinds in flight.
THEOREM TypeCorrect == Spec => []TypeOK
<1>1. TypeInv => TypeOK
  BY DEF TypeInv
<1> QED
  BY <1>1, TypeInvariant, PTL
-----------------------------------------------------------------------------
(* Threads *)

Abides ==
  /\ store' = store
  /\ \A q \in Run : pc[q] # "new" => req'[q] = req[q] /\ pc'[q] # "new"

\* What a run asks for, it goes on asking for, of the same store.
LEMMA Steady ==
  ASSUME TypeInv, [Next]_vars
  PROVE  Abides
<1> USE DEF TypeInv, TypeOK, Goto, Abides
<1>1. ASSUME NEW r \in Run, Arrive(r)
      PROVE  Abides
  BY <1>1 DEF Arrive, Active
<1>2. ASSUME NEW r \in Run, Check(r)
      PROVE  Abides
  BY <1>2 DEF Check, Active
<1>3. ASSUME NEW r \in Run, Build(r)
      PROVE  Abides
  BY <1>3 DEF Build, Active
<1>4. ASSUME NEW r \in Run, SetKey(r)
      PROVE  Abides
  BY <1>4 DEF SetKey, Active
<1>5. ASSUME NEW r \in Run, Take(r)
      PROVE  Abides
  BY <1>5 DEF Take, Active
<1>6. ASSUME NEW r \in Run, Load(r)
      PROVE  Abides
  BY <1>6 DEF Load, Active
<1>7. ASSUME NEW r \in Run, Act(r)
      PROVE  Abides
  BY <1>7 DEF Act, Active
<1>8. ASSUME NEW r \in Run, Fail(r)
      PROVE  Abides
  BY <1>8 DEF Fail, Active
<1>9. CASE Restart
  BY <1>9 DEF Restart, Active
<1>10. CASE UNCHANGED vars
  BY <1>10 DEF vars
<1> QED
  BY <1>1, <1>2, <1>3, <1>4, <1>5, <1>6, <1>7, <1>8, <1>9, <1>10 DEF Next

\* All that are active are ephemeral, or none is.
LEMMA AloneNext ==
  ASSUME TypeInv, ThreadInv, Apart, [Next]_vars
  PROVE  AloneInv'
<1> USE DEF TypeInv, TypeOK, Goto
<1>1. ASSUME NEW r \in Run, Arrive(r)
      PROVE  AloneInv'
  <2>1. \A a \in Active : req'[a].ephemeral = req'[r].ephemeral /\ req'[a] = req[a] /\ a # r
    <3>1. PICK q \in Requests :
            /\ req' = [req EXCEPT ![r] = q]
            /\ q.via = "http" => \A a \in Active : req[a].via # "http"
            /\ Mixing \/ \A a \in Active : req[a].ephemeral = q.ephemeral
      BY <1>1 DEF Arrive
    <3>2. req'[r] = q /\ \A a \in Active : req'[a] = req[a] /\ a # r
      BY <1>1, <3>1 DEF Arrive, Active
    <3>3. \A a \in Active : req[a] \in Requests
      BY DEF Active, BuiltInv
    <3>4. CASE \A p \in Requests : p.via = "http"
      BY <3>1, <3>2, <3>3, <3>4
    <3>5. CASE \A p, o \in Requests : p.ephemeral = o.ephemeral
      BY <3>1, <3>2, <3>3, <3>5
    <3>6. CASE ~Mixing
      BY <3>1, <3>2, <3>6
    <3> QED
      BY <3>4, <3>5, <3>6 DEF Apart
  <2>2. Active' \subseteq Active \cup {r}
    BY <1>1 DEF Arrive, Active
  <2> QED
    BY <2>1, <2>2 DEF ThreadInv, AloneInv
<1>2. ASSUME NEW r \in Run, Check(r)
      PROVE  AloneInv'
  BY <1>2 DEF Check, Active, ThreadInv, AloneInv
<1>3. ASSUME NEW r \in Run, Build(r)
      PROVE  AloneInv'
  BY <1>3 DEF Build, Active, ThreadInv, AloneInv
<1>4. ASSUME NEW r \in Run, SetKey(r)
      PROVE  AloneInv'
  BY <1>4 DEF SetKey, Active, ThreadInv, AloneInv
<1>5. ASSUME NEW r \in Run, Take(r)
      PROVE  AloneInv'
  BY <1>5 DEF Take, Active, ThreadInv, AloneInv
<1>6. ASSUME NEW r \in Run, Load(r)
      PROVE  AloneInv'
  BY <1>6 DEF Load, Active, ThreadInv, AloneInv
<1>7. ASSUME NEW r \in Run, Act(r)
      PROVE  AloneInv'
  BY <1>7 DEF Act, Active, ThreadInv, AloneInv
<1>8. ASSUME NEW r \in Run, Fail(r)
      PROVE  AloneInv'
  BY <1>8 DEF Fail, Active, ThreadInv, AloneInv
<1>9. CASE Restart
  BY <1>9 DEF Restart, Active, ThreadInv, AloneInv
<1>10. CASE UNCHANGED vars
  BY <1>10 DEF vars, Active, ThreadInv, AloneInv
<1> QED
  BY <1>1, <1>2, <1>3, <1>4, <1>5, <1>6, <1>7, <1>8, <1>9, <1>10 DEF Next

\* Whoever has passed the check of the key finds a graph that fits.
LEMMA GraphNext ==
  ASSUME TypeInv, ThreadInv, Apart, [Next]_vars
  PROVE  GraphInv'
<1> USE DEF Goto, globals
<1>a. Abides /\ GraphInv
  BY Steady DEF ThreadInv
<1>1. ASSUME NEW r \in Run, Arrive(r)
      PROVE  GraphInv'
  <2>1. UNCHANGED <<graph, graphKey, store>>
    BY <1>1 DEF Arrive
  <2>2. \A q \in Run : q # r => pc'[q] = pc[q]
    BY <1>1 DEF Arrive, TypeInv, TypeOK
  <2>3. pc[r] = "new" /\ pc'[r] = "check"
    BY <1>1 DEF Arrive, TypeInv, TypeOK
  <2> QED
    BY <1>a, <2>1, <2>2, <2>3 DEF GraphInv, Fits, Durable, Abides
<1>2. ASSUME NEW r \in Run, Check(r)
      PROVE  GraphInv'
  <2>1. UNCHANGED <<graph, graphKey, store, req>>
    BY <1>2 DEF Check
  <2>2. \A q \in Run : q # r => pc'[q] = pc[q]
    BY <1>2 DEF Check, TypeInv, TypeOK
  <2>3. pc[r] = "check" /\ pc'[r] = IF graphKey = Key(r) THEN "take" ELSE "build"
    BY <1>2 DEF Check, TypeInv, TypeOK
  <2>4. graphKey = Key(r) => Fits(r)
    <3>1. CASE \E q \in Run : pc[q] = "key"
      <4>1. PICK q \in Run : pc[q] = "key"
        BY <3>1
      <4>2. req[q].ephemeral = req[r].ephemeral
        BY <2>3, <4>1 DEF ThreadInv, AloneInv, Active
      <4>3. Fits(q)
        BY <1>a, <4>1 DEF GraphInv
      <4> QED
        BY <4>2, <4>3 DEF Fits, Durable
    <3>2. CASE \A q \in Run : pc[q] # "key"
      BY <1>a, <3>2 DEF GraphInv, Fits, Durable, Key, TypeInv, TypeOK
    <3> QED
      BY <3>1, <3>2
  <2> QED
    BY <1>a, <2>1, <2>2, <2>3, <2>4 DEF GraphInv, Fits, Durable
<1>3. ASSUME NEW r \in Run, Build(r)
      PROVE  GraphInv'
  <2>1. pc[r] = "build" /\ pc'[r] = "key" /\ UNCHANGED <<graphKey, store, req>>
    BY <1>3 DEF Build, TypeInv, TypeOK
  <2>2. \A q \in Run : q # r => pc'[q] = pc[q]
    BY <1>3 DEF Build, TypeInv, TypeOK
  <2>3. /\ graph' = 0 <=> ~Durable(r)
        /\ store # "fresh" => graph' \in {0, 1}
    BY <1>3, Checkpointers DEF Build, TypeInv, TypeOK
  <2>4. \A q \in Run : pc[q] \in {"key", "take"} => (Durable(q) <=> Durable(r))
    BY <2>1 DEF ThreadInv, AloneInv, Active, Durable
  <2>5. ASSUME NEW q \in Run, pc'[q] \in {"key", "take"} PROVE Fits(q)'
    <3>1. Durable(q)' <=> Durable(q)
      BY <2>1 DEF Durable
    <3>2. Durable(q) <=> Durable(r)
      BY <2>2, <2>4, <2>5
    <3> QED
      BY <2>3, <3>1, <3>2 DEF Fits
  <2> QED
    BY <2>1, <2>3, <2>5 DEF GraphInv
<1>4. ASSUME NEW r \in Run, SetKey(r)
      PROVE  GraphInv'
  <2>1. pc[r] = "key" /\ pc'[r] = "take" /\ graphKey' = Key(r) /\ UNCHANGED <<graph, store, req>>
    BY <1>4 DEF SetKey, TypeInv, TypeOK
  <2>2. \A q \in Run : q # r => pc'[q] = pc[q]
    BY <1>4 DEF SetKey, TypeInv, TypeOK
  <2>3. Fits(r)
    BY <1>a, <2>1 DEF GraphInv
  <2>4. graphKey' = "ephemeral" => graph' = 0
    BY <2>1, <2>3 DEF Fits, Durable, Key
  <2>5. graphKey' = "durable" => (graph' = 0 <=> store' = "none")
    BY <2>1, <2>3 DEF Fits, Durable, Key
  <2> QED
    BY <1>a, <2>1, <2>2, <2>3, <2>4, <2>5 DEF GraphInv, Fits, Durable
<1>5. ASSUME NEW r \in Run, Take(r)
      PROVE  GraphInv'
  <2>1. UNCHANGED <<graph, graphKey, store>>
    BY <1>5 DEF Take
  <2>2. \A q \in Run : q # r => pc'[q] = pc[q]
    BY <1>5 DEF Take, TypeInv, TypeOK
  <2>3. pc[r] \notin {"new", "key"} /\ pc'[r] \notin {"key", "take"}
    BY <1>5 DEF Take, TypeInv, TypeOK
  <2> QED
    BY <1>a, <2>1, <2>2, <2>3 DEF GraphInv, Fits, Durable, Abides
<1>6. ASSUME NEW r \in Run, Load(r)
      PROVE  GraphInv'
  <2>1. UNCHANGED <<graph, graphKey, store>>
    BY <1>6 DEF Load
  <2>2. \A q \in Run : q # r => pc'[q] = pc[q]
    BY <1>6 DEF Load, TypeInv, TypeOK
  <2>3. pc[r] \notin {"new", "key"} /\ pc'[r] \notin {"key", "take"}
    BY <1>6 DEF Load, TypeInv, TypeOK
  <2> QED
    BY <1>a, <2>1, <2>2, <2>3 DEF GraphInv, Fits, Durable, Abides
<1>7. ASSUME NEW r \in Run, Act(r)
      PROVE  GraphInv'
  <2>1. UNCHANGED <<graph, graphKey, store>>
    BY <1>7 DEF Act
  <2>2. \A q \in Run : q # r => pc'[q] = pc[q]
    BY <1>7 DEF Act, TypeInv, TypeOK
  <2>3. pc[r] \notin {"new", "key"} /\ pc'[r] \notin {"key", "take"}
    BY <1>7 DEF Act, TypeInv, TypeOK
  <2> QED
    BY <1>a, <2>1, <2>2, <2>3 DEF GraphInv, Fits, Durable, Abides
<1>8. ASSUME NEW r \in Run, Fail(r)
      PROVE  GraphInv'
  <2>1. UNCHANGED <<graph, graphKey, store>>
    BY <1>8 DEF Fail
  <2>2. \A q \in Run : q # r => pc'[q] = pc[q]
    BY <1>8 DEF Fail, TypeInv, TypeOK
  <2>3. pc[r] \notin {"new", "key"} /\ pc'[r] \notin {"key", "take"}
    BY <1>8 DEF Fail, TypeInv, TypeOK
  <2> QED
    BY <1>a, <2>1, <2>2, <2>3 DEF GraphInv, Fits, Durable, Abides
<1>9. CASE Restart
  BY <1>9 DEF Restart, GraphInv, Fits, Active
<1>10. CASE UNCHANGED vars
  BY <1>10, <1>a DEF vars, GraphInv, Fits, Durable
<1> QED
  BY <1>1, <1>2, <1>3, <1>4, <1>5, <1>6, <1>7, <1>8, <1>9, <1>10 DEF Next

\* So every run gets a checkpointer, or none, as it should.
LEMMA MineNext ==
  ASSUME TypeInv, ThreadInv, Apart, [Next]_vars
  PROVE  MineInv'
<1>a. Abides /\ MineInv
  BY Steady DEF ThreadInv
<1>1. ASSUME NEW r \in Run, Arrive(r)
      PROVE  MineInv'
  <2>1. UNCHANGED mine /\ \A q \in Run : q # r => pc'[q] = pc[q]
    BY <1>1 DEF Arrive, Goto, TypeInv, TypeOK
  <2>2. pc[r] # "new" \/ pc'[r] = "check"
    BY <1>1 DEF Arrive, Goto, TypeInv, TypeOK
  <2>3. pc'[r] \in {"load", "act"} => pc[r] \in {"load", "act"}
    BY <1>1 DEF Arrive, Goto, TypeInv, TypeOK
  <2> QED
    BY <1>a, <2>1, <2>2, <2>3 DEF MineInv, Durable, Abides
<1>2. ASSUME NEW r \in Run, Check(r)
      PROVE  MineInv'
  <2>1. UNCHANGED mine /\ \A q \in Run : q # r => pc'[q] = pc[q]
    BY <1>2 DEF Check, Goto, TypeInv, TypeOK
  <2>2. pc[r] # "new" \/ pc'[r] = "check"
    BY <1>2 DEF Check, Goto, TypeInv, TypeOK
  <2>3. pc'[r] \in {"load", "act"} => pc[r] \in {"load", "act"}
    BY <1>2 DEF Check, Goto, TypeInv, TypeOK
  <2> QED
    BY <1>a, <2>1, <2>2, <2>3 DEF MineInv, Durable, Abides
<1>3. ASSUME NEW r \in Run, Build(r)
      PROVE  MineInv'
  <2>1. UNCHANGED mine /\ \A q \in Run : q # r => pc'[q] = pc[q]
    BY <1>3 DEF Build, Goto, TypeInv, TypeOK
  <2>2. pc[r] # "new" \/ pc'[r] = "check"
    BY <1>3 DEF Build, Goto, TypeInv, TypeOK
  <2>3. pc'[r] \in {"load", "act"} => pc[r] \in {"load", "act"}
    BY <1>3 DEF Build, Goto, TypeInv, TypeOK
  <2> QED
    BY <1>a, <2>1, <2>2, <2>3 DEF MineInv, Durable, Abides
<1>4. ASSUME NEW r \in Run, SetKey(r)
      PROVE  MineInv'
  <2>1. UNCHANGED mine /\ \A q \in Run : q # r => pc'[q] = pc[q]
    BY <1>4 DEF SetKey, Goto, TypeInv, TypeOK
  <2>2. pc[r] # "new" \/ pc'[r] = "check"
    BY <1>4 DEF SetKey, Goto, TypeInv, TypeOK
  <2>3. pc'[r] \in {"load", "act"} => pc[r] \in {"load", "act"}
    BY <1>4 DEF SetKey, Goto, TypeInv, TypeOK
  <2> QED
    BY <1>a, <2>1, <2>2, <2>3 DEF MineInv, Durable, Abides
<1>5. ASSUME NEW r \in Run, Take(r)
      PROVE  MineInv'
  <2>1. /\ pc[r] = "take" /\ mine' = [mine EXCEPT ![r] = graph] /\ UNCHANGED <<req, store>>
        /\ \A q \in Run : q # r => pc'[q] = pc[q]
    BY <1>5 DEF Take, Goto, TypeInv, TypeOK
  <2>2. mine'[r] = graph /\ \A q \in Run : q # r => mine'[q] = mine[q]
    BY <2>1 DEF TypeInv, TypeOK
  <2>3. (graph = 0 <=> ~Durable(r)) /\ (store # "fresh" => graph \in {0, 1})
    BY <2>1 DEF ThreadInv, GraphInv, Fits
  <2> QED
    BY <1>a, <2>1, <2>2, <2>3 DEF MineInv, Durable
<1>6. ASSUME NEW r \in Run, Load(r)
      PROVE  MineInv'
  <2>1. UNCHANGED mine /\ \A q \in Run : q # r => pc'[q] = pc[q]
    BY <1>6 DEF Load, Goto, TypeInv, TypeOK
  <2>2. pc[r] # "new" \/ pc'[r] = "check"
    BY <1>6 DEF Load, Goto, TypeInv, TypeOK
  <2>3. pc'[r] \in {"load", "act"} => pc[r] \in {"load", "act"}
    BY <1>6 DEF Load, Goto, TypeInv, TypeOK
  <2> QED
    BY <1>a, <2>1, <2>2, <2>3 DEF MineInv, Durable, Abides
<1>7. ASSUME NEW r \in Run, Act(r)
      PROVE  MineInv'
  <2>1. UNCHANGED mine /\ \A q \in Run : q # r => pc'[q] = pc[q]
    BY <1>7 DEF Act, Goto, TypeInv, TypeOK
  <2>2. pc[r] # "new" \/ pc'[r] = "check"
    BY <1>7 DEF Act, Goto, TypeInv, TypeOK
  <2>3. pc'[r] \in {"load", "act"} => pc[r] \in {"load", "act"}
    BY <1>7 DEF Act, Goto, TypeInv, TypeOK
  <2> QED
    BY <1>a, <2>1, <2>2, <2>3 DEF MineInv, Durable, Abides
<1>8. ASSUME NEW r \in Run, Fail(r)
      PROVE  MineInv'
  <2>1. UNCHANGED mine /\ \A q \in Run : q # r => pc'[q] = pc[q]
    BY <1>8 DEF Fail, Goto, TypeInv, TypeOK
  <2>2. pc[r] # "new" \/ pc'[r] = "check"
    BY <1>8 DEF Fail, Goto, TypeInv, TypeOK
  <2>3. pc'[r] \in {"load", "act"} => pc[r] \in {"load", "act"}
    BY <1>8 DEF Fail, Goto, TypeInv, TypeOK
  <2> QED
    BY <1>a, <2>1, <2>2, <2>3 DEF MineInv, Durable, Abides
<1>9. CASE Restart
  <2>1. \A q \in Run : pc'[q] \notin {"load", "act"}
    BY <1>9 DEF Restart, Active, TypeInv, TypeOK
  <2> QED
    BY <2>1 DEF MineInv
<1>10. CASE UNCHANGED vars
  BY <1>10, <1>a DEF vars, MineInv, Durable
<1> QED
  BY <1>1, <1>2, <1>3, <1>4, <1>5, <1>6, <1>7, <1>8, <1>9, <1>10 DEF Next

\* Only a run that is to be remembered has anything to save.
LEMMA SavedByDurable ==
  ASSUME TypeInv, MineInv, NEW r \in Run, pc[r] \in {"load", "act"}
  PROVE  /\ mine[r] \in Saver <=> Durable(r)
         /\ mine[r] \in Saver /\ store # "fresh" => mine[r] = 1
<1>1. 0 \notin Saver /\ mine[r] \in Saver \cup {0}
  BY DEF Saver, TypeInv, TypeOK
<1> QED
  BY <1>1 DEF MineInv

\* There is a saver to share.
LEMMA FirstSaver == 1 \in Saver
BY TriggerAssumption DEF Saver

\* A run that saves adds itself to its thread's past, and ends no other run.
LEMMA PastSaved ==
  ASSUME TypeInv, PastInv, MineInv, Abides, NEW r \in Run, pc[r] \in {"load", "act"},
         NEW s, Saved(r, s),
         \A q \in Run : pc'[q] = "done" => pc[q] = "done" \/ q = r
  PROVE  PastInv'
<1>1. ASSUME NEW v \in Saver, NEW t \in Thread, NEW q \in history'[v][t].runs
      PROVE  pc'[q] # "new" /\ ~req'[q].ephemeral
  <2>1. CASE q \in history[v][t].runs
    <3>1. q \in Run /\ pc[q] # "new" /\ ~req[q].ephemeral
      BY <2>1 DEF PastInv, TypeInv, TypeOK
    <3> QED
      BY <3>1 DEF Abides
  <2>2. CASE q \notin history[v][t].runs
    <3>1. v = mine[r] /\ q = r
      BY <1>1, <2>2 DEF Saved
    <3>2. Durable(r)
      BY <3>1, SavedByDurable
    <3> QED
      BY <3>1, <3>2 DEF Durable, Abides
  <2> QED
    BY <2>1, <2>2
<1>2. \A v \in Saver : \A t \in Thread : history[v][t].runs \subseteq history'[v][t].runs
  BY DEF Saved
<1>3. ASSUME NEW q \in Run, pc'[q] = "done", Durable(q)', store' # "fresh",
             req'[q].via # "read"
      PROVE  q \in history'[1][req'[q].thread].runs
  <2>1. pc[q] # "new" /\ req'[q] = req[q] /\ store' = store
    BY <1>3 DEF Abides
  <2>2. req[q].thread \in Thread
    BY <2>1, RequestShape
  <2>3. Durable(q)
    BY <1>3, <2>1 DEF Durable
  <2>4. CASE pc[q] = "done"
    <3>1. q \in history[1][req[q].thread].runs
      BY <1>3, <2>1, <2>3, <2>4 DEF PastInv
    <3> QED
      BY <1>2, <2>1, <2>2, <3>1, FirstSaver
  <2>5. CASE q = r
    <3>1. mine[r] = 1
      BY <1>3, <2>1, <2>3, <2>5, SavedByDurable
    <3> QED
      BY <2>1, <2>2, <2>5, <3>1, FirstSaver DEF Saved
  <2> QED
    BY <1>3, <2>4, <2>5
<1> QED
  BY <1>1, <1>3 DEF PastInv

\* Where nothing is saved and nothing ends but a read, the past stays true.
LEMMA PastKept ==
  ASSUME TypeInv, PastInv, Abides, history' = history,
         \A q \in Run : pc'[q] = "done" => pc[q] = "done" \/ (req[q].via = "read" /\ pc[q] # "new")
  PROVE  PastInv'
<1>1. ASSUME NEW v \in Saver, NEW t \in Thread, NEW q \in history[v][t].runs
      PROVE  pc'[q] # "new" /\ ~req'[q].ephemeral
  <2>1. q \in Run /\ pc[q] # "new" /\ ~req[q].ephemeral
    BY DEF PastInv, TypeInv, TypeOK
  <2> QED
    BY <2>1 DEF Abides
<1>2. ASSUME NEW q \in Run, pc'[q] = "done", Durable(q)', store' # "fresh",
             req'[q].via # "read"
      PROVE  q \in history[1][req'[q].thread].runs
  <2>1. pc[q] # "new" /\ req'[q] = req[q] /\ store' = store
    BY <1>2 DEF Abides
  <2> QED
    BY <1>2, <2>1 DEF PastInv, Durable
<1> QED
  BY <1>1, <1>2 DEF PastInv

\* What is in the checkpoints is of durable runs, and of all that are done.
LEMMA PastNext ==
  ASSUME TypeInv, ThreadInv, Apart, [Next]_vars
  PROVE  PastInv'
<1>a. Abides /\ PastInv /\ MineInv
  BY Steady DEF ThreadInv
<1>1. ASSUME NEW r \in Run, Arrive(r)
      PROVE  PastInv'
  <2>1. /\ history' = history
        /\ \A q \in Run : pc'[q] = "done" =>
             pc[q] = "done" \/ (req[q].via = "read" /\ pc[q] # "new")
    BY <1>1 DEF Arrive, Goto, TypeInv, TypeOK
  <2> QED
    BY <1>a, <2>1, PastKept
<1>2. ASSUME NEW r \in Run, Check(r)
      PROVE  PastInv'
  <2>1. /\ history' = history
        /\ \A q \in Run : pc'[q] = "done" =>
             pc[q] = "done" \/ (req[q].via = "read" /\ pc[q] # "new")
    BY <1>2 DEF Check, Goto, TypeInv, TypeOK
  <2> QED
    BY <1>a, <2>1, PastKept
<1>3. ASSUME NEW r \in Run, Build(r)
      PROVE  PastInv'
  <2>1. /\ history' = history
        /\ \A q \in Run : pc'[q] = "done" =>
             pc[q] = "done" \/ (req[q].via = "read" /\ pc[q] # "new")
    BY <1>3 DEF Build, Goto, TypeInv, TypeOK
  <2> QED
    BY <1>a, <2>1, PastKept
<1>4. ASSUME NEW r \in Run, SetKey(r)
      PROVE  PastInv'
  <2>1. /\ history' = history
        /\ \A q \in Run : pc'[q] = "done" =>
             pc[q] = "done" \/ (req[q].via = "read" /\ pc[q] # "new")
    BY <1>4 DEF SetKey, Goto, TypeInv, TypeOK
  <2> QED
    BY <1>a, <2>1, PastKept
<1>5. ASSUME NEW r \in Run, Take(r)
      PROVE  PastInv'
  <2>1. /\ history' = history
        /\ \A q \in Run : pc'[q] = "done" =>
             pc[q] = "done" \/ (req[q].via = "read" /\ pc[q] # "new")
    BY <1>5 DEF Take, Goto, TypeInv, TypeOK
  <2> QED
    BY <1>a, <2>1, PastKept
<1>6. ASSUME NEW r \in Run, Load(r)
      PROVE  PastInv'
  <2>1. /\ pc[r] \in {"load", "act"} /\ Saved(r, channel'[r])
        /\ \A q \in Run : pc'[q] = "done" => pc[q] = "done" \/ q = r
    BY <1>6, RunsSave DEF Load, Goto, TypeInv, TypeOK
  <2> QED
    BY <1>a, <2>1, PastSaved
<1>7. ASSUME NEW r \in Run, Act(r)
      PROVE  PastInv'
  <2>1. /\ pc[r] \in {"load", "act"} /\ Saved(r, channel[r])
        /\ \A q \in Run : pc'[q] = "done" => pc[q] = "done" \/ q = r
    BY <1>7, RunsSave DEF Act, Goto, TypeInv, TypeOK
  <2> QED
    BY <1>a, <2>1, PastSaved
<1>8. ASSUME NEW r \in Run, Fail(r)
      PROVE  PastInv'
  <2>1. \A q \in Run : pc'[q] = "done" => pc[q] = "done"
    BY <1>8 DEF Fail, Goto, TypeInv, TypeOK
  <2>2. CASE history' = history
    BY <1>a, <2>1, <2>2, PastKept
  <2>3. CASE history' # history
    <3>1. pc[r] \in {"load", "act"} /\ Saved(r, Stored(r))
      BY <1>8, <2>3, RunsSave DEF Fail
    <3> QED
      BY <1>a, <2>1, <3>1, PastSaved
  <2> QED
    BY <2>2, <2>3
<1>9. CASE Restart
  <2>1. CASE store = "postgres"
    <3>1. history' = history /\ \A q \in Run : pc'[q] = "done" => pc[q] = "done"
      BY <1>9, <2>1 DEF Restart, TypeInv, TypeOK
    <3> QED
      BY <1>a, <3>1, PastKept
  <2>2. CASE store # "postgres"
    <3>1. /\ \A q \in Run : pc'[q] # "done"
          /\ \A s \in Saver : \A t \in Thread : history'[s][t].runs = {}
      BY <1>9, <2>2 DEF Restart, Active, Blank, TypeInv, TypeOK
    <3> QED
      BY <3>1 DEF PastInv
  <2> QED
    BY <2>1, <2>2
<1>10. CASE UNCHANGED vars
  BY <1>10, <1>a, PastKept DEF vars
<1> QED
  BY <1>1, <1>2, <1>3, <1>4, <1>5, <1>6, <1>7, <1>8, <1>9, <1>10 DEF Next

\* A skill that was loaded once stays one that was.
LEMMA LoadedOnce ==
  ASSUME Abides, NEW t, NEW s, Loaded(t, s)
  PROVE  Loaded(t, s)'
BY DEF Abides, Loaded, Durable

\* What a thread's channel holds is what the request has asked for or another has.
LEMMA RouteFollows ==
  ASSUME NEW q, NEW s, q.skill = NoSkill
  PROVE  Route(q, s) \in {Route(q, q.skill), s}
BY DEF Route

\* Where an answer's skill comes from does not change.
LEMMA ComesStill ==
  ASSUME Abides, NEW r \in Run, pc[r] # "new", Comes(r), answer'[r] = answer[r]
  PROVE  Comes(r)'
<1>1. req'[r] = req[r] /\ (Durable(r)' <=> Durable(r))
  BY DEF Abides, Durable
<1>2. CASE answer[r] = Route(req[r], req[r].skill)
  BY <1>1, <1>2 DEF Comes, Route
<1>3. CASE \E q \in Run \ {r} : /\ pc[q] # "new" /\ Durable(q) /\ Durable(r)
                                /\ req[q].thread = req[r].thread
                                /\ answer[r] = req[q].skill
  <2>1. PICK q \in Run \ {r} : /\ pc[q] # "new" /\ Durable(q) /\ Durable(r)
                               /\ req[q].thread = req[r].thread
                               /\ answer[r] = req[q].skill
    BY <1>3
  <2>2. pc'[q] # "new" /\ Durable(q)' /\ req'[q] = req[q]
    BY <2>1 DEF Abides, Durable
  <2> QED
    BY <1>1, <2>1, <2>2 DEF Comes
<1> QED
  BY <1>2, <1>3 DEF Comes

\* A run that saves a skill leaves every checkpoint with a skill that was
\* loaded in its thread.
LEMMA SkillsSaved ==
  ASSUME CheckpointSkills, Abides, NEW r \in Run, NEW s, Saved(r, s),
         \A t : t = req[r].thread /\ mine[r] \in Saver /\ s # NoSkill => Loaded(t, s)'
  PROVE  CheckpointSkills'
<1>1. ASSUME NEW v \in Saver, NEW t \in Thread, NEW k, k = history'[v][t].skill, k # NoSkill
      PROVE  Loaded(t, k)'
  <2>1. CASE v = mine[r] /\ t = req[r].thread
    <3>1. k = s
      BY <1>1, <2>1 DEF Saved
    <3> QED
      BY <1>1, <2>1, <3>1
  <2>2. CASE ~(v = mine[r] /\ t = req[r].thread)
    <3>1. k = history[v][t].skill
      BY <1>1, <2>2 DEF Saved
    <3>2. Loaded(t, k)
      BY <1>1, <3>1 DEF CheckpointSkills
    <3> QED
      BY <3>2, LoadedOnce
  <2> QED
    BY <2>1, <2>2
<1>2. \A v \in Saver : \A t \in Thread : \A k :
        k = history'[v][t].skill /\ k # NoSkill => Loaded(t, k)'
  BY <1>1
<1> QED
  BY <1>2 DEF CheckpointSkills, Loaded, Durable

\* Where nothing is saved, the checkpoints' skills stay loaded ones.
LEMMA SkillsKept ==
  ASSUME CheckpointSkills, Abides, history' = history
  PROVE  CheckpointSkills'
<1>1. ASSUME NEW v \in Saver, NEW t \in Thread, NEW k, k = history[v][t].skill, k # NoSkill
      PROVE  Loaded(t, k)'
  <2>1. Loaded(t, k)
    BY <1>1 DEF CheckpointSkills
  <2> QED
    BY <2>1, LoadedOnce
<1>2. \A v \in Saver : \A t \in Thread : \A k :
        k = history'[v][t].skill /\ k # NoSkill => Loaded(t, k)'
  BY <1>1
<1> QED
  BY <1>2 DEF CheckpointSkills, Loaded, Durable


\* Where the skill in a run's channel comes from does not change.
LEMMA ChannelledStill ==
  ASSUME Abides, NEW r \in Run, pc[r] # "new", Channelled(r), channel'[r] = channel[r]
  PROVE  Channelled(r)'
<1>1. req'[r] = req[r] /\ (Durable(r)' <=> Durable(r))
  BY DEF Abides, Durable
<1>2. CASE channel[r] = req[r].skill
  BY <1>1, <1>2 DEF Channelled
<1>3. CASE req[r].skill = NoSkill /\ Durable(r) /\ Loaded(req[r].thread, channel[r])
  <2>1. ASSUME NEW t, t = req[r].thread, NEW s, s = channel[r] PROVE Loaded(t, s)'
    BY <1>3, <2>1, LoadedOnce
  <2> QED
    BY <1>1, <1>3, <2>1 DEF Channelled, Loaded, Durable
<1> QED
  BY <1>2, <1>3 DEF Channelled

\* What the thread remembers for a run that has a checkpointer.
LEMMA StoredLoaded ==
  ASSUME TypeInv, CheckpointSkills, MineInv, NEW r \in Run, pc[r] \in {"load", "act"},
         Stored(r) # NoSkill
  PROVE  Durable(r) /\ \A t : t = req[r].thread => Loaded(t, Stored(r))
<1>1. mine[r] # 0 /\ Stored(r) = history[mine[r]][req[r].thread].skill
  BY DEF Stored
<1>2. mine[r] \in Saver /\ req[r].thread \in Thread /\ Durable(r)
  BY <1>1, RequestShape DEF TypeInv, TypeOK, MineInv
<1> QED
  BY <1>1, <1>2 DEF CheckpointSkills

\* What a run saves of a skill was asked for in its thread.
LEMMA SkillSaved ==
  ASSUME TypeInv, MineInv, CheckpointSkills, Abides, NEW r \in Run, pc[r] \in {"load", "act"},
         NEW s, Saved(r, s),
         \/ s \in {req[r].skill, Stored(r)}
         \/ pc[r] = "act" /\ Channelled(r) /\ s = channel[r]
  PROVE  CheckpointSkills'
<1>1. ASSUME NEW t, t = req[r].thread, mine[r] \in Saver, s # NoSkill PROVE Loaded(t, s)'
  <2>1. Durable(r)
    BY <1>1, SavedByDurable
  <2>2. s = req[r].skill => Loaded(t, s)
    BY <1>1, <2>1 DEF Loaded
  <2>3. s = Stored(r) => Loaded(t, s)
    BY <1>1, StoredLoaded
  <2>4. Channelled(r) /\ s = channel[r] => Loaded(t, s)
    BY <1>1, <2>2 DEF Channelled
  <2>5. Loaded(t, s)
    BY <2>2, <2>3, <2>4
  <2> QED
    BY <2>5, LoadedOnce
<1>2. \A t : t = req[r].thread /\ mine[r] \in Saver /\ s # NoSkill => Loaded(t, s)'
  BY <1>1
<1> QED
  BY <1>2, SkillsSaved

\* Where no run begins to act or is answered, and the checkpoints are right,
\* the runs' skills stay right.
LEMMA SkillsStay ==
  ASSUME Abides, SkillInv, CheckpointSkills', UNCHANGED <<channel, answer>>,
         \A q \in Run : pc'[q] = "act" => pc[q] = "act",
         \A q \in Run : pc'[q] = "done" => pc[q] = "done" \/ (req[q].via = "read" /\ pc[q] # "new")
  PROVE  SkillInv'
<1>1. ASSUME NEW q \in Run, pc'[q] = "act" PROVE Channelled(q)'
  <2>1. pc[q] # "new" /\ Channelled(q)
    BY <1>1 DEF SkillInv
  <2> QED
    BY <2>1, ChannelledStill
<1>2. ASSUME NEW q \in Run, pc'[q] = "done", req'[q].via # "read" PROVE Comes(q)'
  <2>1. pc[q] # "new" /\ req'[q] = req[q]
    BY <1>2 DEF Abides
  <2>2. Comes(q)
    BY <1>2, <2>1 DEF SkillInv
  <2> QED
    BY <2>1, <2>2, ComesStill
<1> QED
  BY <1>1, <1>2 DEF SkillInv

\* Skills come from requests of the same thread.
LEMMA SkillNext ==
  ASSUME TypeInv, ThreadInv, Apart, [Next]_vars
  PROVE  SkillInv'
<1>a. Abides /\ SkillInv /\ CheckpointSkills /\ MineInv
  BY Steady DEF ThreadInv, SkillInv
<1>1. ASSUME NEW r \in Run, Arrive(r)
      PROVE  SkillInv'
  <2>1. /\ history' = history /\ UNCHANGED <<channel, answer>>
        /\ \A q \in Run : pc'[q] = "act" => pc[q] = "act"
        /\ \A q \in Run : pc'[q] = "done" => pc[q] = "done" \/ (req[q].via = "read" /\ pc[q] # "new")
    BY <1>1 DEF Arrive, Goto, TypeInv, TypeOK
  <2> QED
    BY <1>a, <2>1, SkillsKept, SkillsStay
<1>2. ASSUME NEW r \in Run, Check(r)
      PROVE  SkillInv'
  <2>1. /\ history' = history /\ UNCHANGED <<channel, answer>>
        /\ \A q \in Run : pc'[q] = "act" => pc[q] = "act"
        /\ \A q \in Run : pc'[q] = "done" => pc[q] = "done" \/ (req[q].via = "read" /\ pc[q] # "new")
    BY <1>2 DEF Check, Goto, TypeInv, TypeOK
  <2> QED
    BY <1>a, <2>1, SkillsKept, SkillsStay
<1>3. ASSUME NEW r \in Run, Build(r)
      PROVE  SkillInv'
  <2>1. /\ history' = history /\ UNCHANGED <<channel, answer>>
        /\ \A q \in Run : pc'[q] = "act" => pc[q] = "act"
        /\ \A q \in Run : pc'[q] = "done" => pc[q] = "done" \/ (req[q].via = "read" /\ pc[q] # "new")
    BY <1>3 DEF Build, Goto, TypeInv, TypeOK
  <2> QED
    BY <1>a, <2>1, SkillsKept, SkillsStay
<1>4. ASSUME NEW r \in Run, SetKey(r)
      PROVE  SkillInv'
  <2>1. /\ history' = history /\ UNCHANGED <<channel, answer>>
        /\ \A q \in Run : pc'[q] = "act" => pc[q] = "act"
        /\ \A q \in Run : pc'[q] = "done" => pc[q] = "done" \/ (req[q].via = "read" /\ pc[q] # "new")
    BY <1>4 DEF SetKey, Goto, TypeInv, TypeOK
  <2> QED
    BY <1>a, <2>1, SkillsKept, SkillsStay
<1>5. ASSUME NEW r \in Run, Take(r)
      PROVE  SkillInv'
  <2>1. /\ history' = history /\ UNCHANGED <<channel, answer>>
        /\ \A q \in Run : pc'[q] = "act" => pc[q] = "act"
        /\ \A q \in Run : pc'[q] = "done" => pc[q] = "done" \/ (req[q].via = "read" /\ pc[q] # "new")
    BY <1>5 DEF Take, Goto, TypeInv, TypeOK
  <2> QED
    BY <1>a, <2>1, SkillsKept, SkillsStay
<1>6. ASSUME NEW r \in Run, Load(r)
      PROVE  SkillInv'
  <2>1. /\ pc[r] = "load" /\ Saved(r, channel'[r]) /\ answer' = answer
        /\ channel' = [channel EXCEPT ![r] = channel'[r]]
        /\ channel'[r] = IF req[r].skill # NoSkill THEN req[r].skill ELSE Stored(r)
        /\ \A q \in Run : q # r => pc'[q] = pc[q]
        /\ pc'[r] = "act"
    BY <1>6, RunsSave DEF Load, Goto, TypeInv, TypeOK
  <2>2. \A q \in Run : q # r => channel'[q] = channel[q]
    BY <2>1 DEF TypeInv, TypeOK
  <2>3. ASSUME NEW s, s = channel'[r] PROVE CheckpointSkills'
    <3>1. s \in {req[r].skill, Stored(r)} /\ Saved(r, s)
      BY <2>1, <2>3
    <3> QED
      BY <1>a, <2>1, <3>1, SkillSaved
  <2>4. Channelled(r)'
    <3>1. req'[r] = req[r] /\ (Durable(r)' <=> Durable(r))
      BY <1>a, <2>1 DEF Abides, Durable
    <3>2. CASE channel'[r] = req[r].skill
      BY <3>1, <3>2 DEF Channelled
    <3>3. CASE channel'[r] # req[r].skill
      <4>1. req[r].skill = NoSkill /\ channel'[r] = Stored(r) /\ Stored(r) # NoSkill
        BY <2>1, <3>3
      <4>2. Durable(r) /\ \A t : t = req[r].thread => Loaded(t, Stored(r))
        BY <1>a, <2>1, <4>1, StoredLoaded
      <4>3. ASSUME NEW t, t = req[r].thread, NEW s, s = Stored(r) PROVE Loaded(t, s)'
        BY <1>a, <4>2, <4>3, LoadedOnce
      <4>4. \A t, s : t = req'[r].thread /\ s = channel'[r] => Loaded(t, s)'
        BY <3>1, <4>1, <4>3
      <4>5. Loaded(req[r].thread, channel[r])'
        BY <4>4 DEF Loaded, Durable
      <4> QED
        BY <3>1, <4>1, <4>2, <4>5 DEF Channelled
    <3> QED
      BY <3>2, <3>3
  <2>5. ASSUME NEW q \in Run, q # r, pc'[q] = "act" PROVE Channelled(q)'
    BY <1>a, <2>1, <2>2, <2>5, ChannelledStill DEF SkillInv
  <2>6. ASSUME NEW q \in Run, pc'[q] = "done", req'[q].via # "read" PROVE Comes(q)'
    <3>1. pc[q] = "done" /\ req'[q] = req[q] /\ answer'[q] = answer[q]
      BY <1>a, <2>1, <2>6 DEF Abides
    <3>2. Comes(q)
      BY <1>a, <2>6, <3>1 DEF SkillInv
    <3> QED
      BY <1>a, <3>1, <3>2, ComesStill
  <2> QED
    BY <2>3, <2>4, <2>5, <2>6 DEF SkillInv
<1>7. ASSUME NEW r \in Run, Act(r)
      PROVE  SkillInv'
  <2>1. /\ pc[r] = "act" /\ Saved(r, channel[r]) /\ channel' = channel
        /\ answer'[r] = Route(req[r], channel[r])
        /\ \A q \in Run : q # r => pc'[q] = pc[q] /\ answer'[q] = answer[q]
        /\ pc'[r] = "done"
    BY <1>7, RunsSave DEF Act, Goto, TypeInv, TypeOK
  <2>2. Channelled(r)
    BY <1>a, <2>1 DEF SkillInv
  <2>3. ASSUME NEW s, s = channel[r] PROVE CheckpointSkills'
    <3>1. pc[r] = "act" /\ Channelled(r) /\ s = channel[r] /\ Saved(r, s)
      BY <2>1, <2>2, <2>3
    <3> QED
      BY <1>a, <3>1, SkillSaved
  <2>4. Comes(r)'
    <3>1. req'[r] = req[r] /\ (Durable(r)' <=> Durable(r))
      BY <1>a, <2>1 DEF Abides, Durable
    <3>2. CASE answer'[r] = Route(req[r], req[r].skill)
      BY <3>1, <3>2 DEF Comes, Route
    <3>3. CASE answer'[r] # Route(req[r], req[r].skill)
      <4>1. channel[r] # req[r].skill
        BY <2>1, <3>3
      <4>2. req[r].skill = NoSkill /\ Durable(r) /\ Loaded(req[r].thread, channel[r])
        BY <2>2, <4>1 DEF Channelled
      <4>3. answer'[r] = channel[r]
        BY <2>1, <3>3, <4>2, RouteFollows
      <4>4. PICK q \in Run : /\ pc[q] # "new" /\ Durable(q)
                             /\ req[q].thread = req[r].thread /\ req[q].skill = channel[r]
        BY <4>2 DEF Loaded
      <4>5. q # r
        BY <4>1, <4>4
      <4>6. pc'[q] # "new" /\ Durable(q)' /\ req'[q] = req[q]
        BY <1>a, <4>4 DEF Abides, Durable
      <4> QED
        BY <3>1, <4>2, <4>3, <4>4, <4>5, <4>6 DEF Comes
    <3> QED
      BY <3>2, <3>3
  <2>5. ASSUME NEW q \in Run, pc'[q] = "act" PROVE Channelled(q)'
    <3>1. pc[q] = "act" /\ channel'[q] = channel[q]
      BY <2>1, <2>5
    <3> QED
      BY <1>a, <3>1, ChannelledStill DEF SkillInv
  <2>6. ASSUME NEW q \in Run, q # r, pc'[q] = "done", req'[q].via # "read" PROVE Comes(q)'
    <3>1. pc[q] = "done" /\ req'[q] = req[q] /\ answer'[q] = answer[q]
      BY <1>a, <2>1, <2>6 DEF Abides
    <3>2. Comes(q)
      BY <1>a, <2>6, <3>1 DEF SkillInv
    <3> QED
      BY <1>a, <3>1, <3>2, ComesStill
  <2> QED
    BY <2>3, <2>4, <2>5, <2>6 DEF SkillInv
<1>8. ASSUME NEW r \in Run, Fail(r)
      PROVE  SkillInv'
  <2>1. /\ UNCHANGED <<channel, answer>>
        /\ \A q \in Run : pc'[q] = "act" => pc[q] = "act"
        /\ \A q \in Run : pc'[q] = "done" => pc[q] = "done"
    BY <1>8 DEF Fail, Goto, TypeInv, TypeOK
  <2>2. CheckpointSkills'
    <3>1. CASE history' = history
      BY <1>a, <3>1, SkillsKept
    <3>2. CASE history' # history
      <4>1. pc[r] \in {"load", "act"} /\ Saved(r, Stored(r))
        BY <1>8, <3>2, RunsSave DEF Fail
      <4> QED
        BY <1>a, <4>1, SkillSaved
    <3> QED
      BY <3>1, <3>2
  <2> QED
    BY <1>a, <2>1, <2>2, SkillsStay
<1>9. CASE Restart
  <2>1. /\ UNCHANGED <<channel, answer>>
        /\ \A q \in Run : pc'[q] = "act" => pc[q] = "act"
        /\ \A q \in Run : pc'[q] = "done" => pc[q] = "done"
    BY <1>9 DEF Restart, TypeInv, TypeOK, Active
  <2>2. CheckpointSkills'
    <3>1. CASE history' = history
      BY <1>a, <3>1, SkillsKept
    <3>2. CASE history' = [s \in Saver |-> Blank]
      BY <3>2 DEF Blank, CheckpointSkills
    <3> QED
      BY <1>9, <3>1, <3>2 DEF Restart
  <2> QED
    BY <1>a, <2>1, <2>2, SkillsStay
<1>10. CASE UNCHANGED vars
  BY <1>10, <1>a, SkillsKept, SkillsStay DEF vars
<1> QED
  BY <1>1, <1>2, <1>3, <1>4, <1>5, <1>6, <1>7, <1>8, <1>9, <1>10 DEF Next

\* The invariant about threads holds initially.
LEMMA ThreadInit == Init => ThreadInv
<1> SUFFICES ASSUME Init PROVE ThreadInv
  OBVIOUS
<1> USE DEF Init
<1>1. AloneInv
  BY DEF AloneInv, Active
<1>2. GraphInv
  BY DEF GraphInv
<1>3. MineInv
  BY DEF MineInv
<1>4. PastInv
  BY DEF PastInv, Blank
<1>5. SkillInv
  BY DEF SkillInv, CheckpointSkills, Blank
<1> QED
  BY <1>1, <1>2, <1>3, <1>4, <1>5 DEF ThreadInv

\* Where ephemeral and other requests are kept apart, every
\* reachable state satisfies the invariant about threads: each run has the
\* graph of its kind, and each checkpoint is of the finished runs of its thread.
THEOREM ThreadInvariant == Apart => (Spec => []ThreadInv)
<1> SUFFICES ASSUME Apart PROVE Spec => []ThreadInv
  OBVIOUS
<1>1. TypeInv /\ ThreadInv /\ [Next]_vars => ThreadInv'
  BY AloneNext, GraphNext, MineNext, PastNext, SkillNext DEF ThreadInv
<1> QED
  BY <1>1, ThreadInit, TypeInvariant, PTL DEF Spec

-----------------------------------------------------------------------------
(* The properties, where ephemeral and other requests are kept apart *)

\* An ephemeral request leaves no checkpoint in any thread, whoever has compiled the
\* graph that it gets: always if triggers come over HTTP alone, and next to Slack and
\* Jira triggers if none of those is in flight beside it.  (If one is, the request may
\* be given the other's graph, and the promise is broken.)
THEOREM NothingEphemeral == Apart => (Spec => []EphemeralUnrecorded)
<1>1. ThreadInv => EphemeralUnrecorded
  BY DEF ThreadInv, PastInv, EphemeralUnrecorded
<1> QED
  BY <1>1, ThreadInvariant, PTL

\* A request that is not ephemeral goes on where the finished runs of its thread have
\* left off, unless each compile makes a store of its own.
THEOREM Resumes == Apart => (Spec => []ResumesThread)
<1>1. TypeInv /\ ThreadInv => ResumesThread
  <2> SUFFICES ASSUME TypeInv, ThreadInv, NEW r \in Run, pc[r] = "load", Durable(r),
                      store # "fresh", NEW q \in before[r], pc[q] = "done", Durable(q),
                      req[q].via # "read", req[q].thread = req[r].thread
               PROVE  mine[r] # 0 /\ q \in history[mine[r]][req[r].thread].runs
    BY DEF ResumesThread
  <2>1. q \in Run
    BY DEF TypeInv, TypeOK
  <2>2. mine[r] = 1
    BY SavedByDurable DEF ThreadInv, MineInv
  <2>3. q \in history[1][req[q].thread].runs
    BY <2>1 DEF ThreadInv, PastInv
  <2> QED
    BY <2>2, <2>3
<1> QED
  BY <1>1, TypeInvariant, ThreadInvariant, PTL

\* No answer is from the skill of another thread or of an ephemeral request.
THEOREM OwnSkills == Apart => (Spec => []SkillsComeFromTheThread)
<1>1. ThreadInv => SkillsComeFromTheThread
  BY DEF ThreadInv, SkillInv, Comes, SkillsComeFromTheThread
<1> QED
  BY <1>1, ThreadInvariant, PTL
-----------------------------------------------------------------------------
(* Threads as logs of runs *)

\* Whose checkpoints a thread has, run by run; and that a run which has not come in
\* holds nothing, and a read gets no further than its graph.
LogInv ==
  /\ \A v \in Saver : \A t \in Thread : \A r \in history[v][t].runs :
       req[r].thread = t /\ pc[r] \in {"act", "done", "failed"}
  /\ \A r \in Run : pc[r] = "act" /\ Kept(r) => r \in history[1][req[r].thread].runs
  /\ \A r \in Run : pc[r] = "new" => req[r] = NoRequest /\ channel[r] = NoSkill
  /\ \A r \in Run : pc[r] \in {"load", "act"} => req[r].via # "read"

\* A run that a thread is to remember is a durable one.
LEMMA KeptDurable ==
  ASSUME TypeInv, NEW r \in Run
  PROVE  /\ Kept(r) => Durable(r) /\ store # "fresh"
         /\ pc[r] # "new" /\ req[r].via # "read" /\ Durable(r) /\ store # "fresh" => Kept(r)
BY TriggerAssumption DEF Kept, Durable, TypeInv, TypeOK, BuiltInv

\* Where nothing is saved and all that happens is that runs come in, move on or
\* end, what is known of the checkpoints stays true.
LEMMA LogStays ==
  ASSUME TypeInv, LogInv, Abides, history' = history,
         \A q \in Run : pc'[q] = "act" => pc[q] = "act",
         \A q \in Run : pc[q] \in {"act", "done", "failed"} =>
                          pc'[q] \in {"act", "done", "failed"},
         \A q \in Run : pc'[q] = "new" => pc[q] = "new" /\ req'[q] = req[q] /\ channel'[q] = channel[q],
         \A q \in Run : pc'[q] = "load" => pc[q] = "load" \/ (pc[q] # "new" /\ req[q].via # "read")
  PROVE  LogInv'
<1>1. ASSUME NEW v \in Saver, NEW t \in Thread, NEW q \in history[v][t].runs
      PROVE  req'[q].thread = t /\ pc'[q] \in {"act", "done", "failed"}
  <2>1. q \in Run /\ req[q].thread = t /\ pc[q] \in {"act", "done", "failed"}
    BY DEF LogInv, TypeInv, TypeOK
  <2> QED
    BY <2>1 DEF Abides
<1>2. ASSUME NEW q \in Run, pc'[q] = "act", Kept(q)'
      PROVE  q \in history[1][req'[q].thread].runs
  <2>1. pc[q] = "act" /\ req'[q] = req[q] /\ store' = store
    BY <1>2 DEF Abides
  <2>2. Kept(q)
    BY <1>2, <2>1 DEF Kept
  <2> QED
    BY <2>1, <2>2 DEF LogInv
<1>3. ASSUME NEW q \in Run, pc'[q] = "new" PROVE req'[q] = NoRequest /\ channel'[q] = NoSkill
  BY <1>3 DEF LogInv
<1>4. ASSUME NEW q \in Run, pc'[q] \in {"load", "act"} PROVE req'[q].via # "read"
  BY <1>4 DEF LogInv, Abides
<1> QED
  BY <1>1, <1>2, <1>3, <1>4 DEF LogInv

\* A run that saves adds itself to its own thread.
LEMMA LogSaved ==
  ASSUME TypeInv, MineInv, LogInv, Abides, NEW r \in Run, pc[r] \in {"load", "act"},
         NEW s, Saved(r, s), pc'[r] \in {"act", "done", "failed"},
         \A q \in Run : q # r => pc'[q] = pc[q] /\ req'[q] = req[q] /\ channel'[q] = channel[q]
  PROVE  LogInv'
<1>1. req'[r] = req[r] /\ store' = store /\ req[r].thread \in Thread /\ 1 \in Saver
  BY RequestShape, FirstSaver DEF Abides
<1>2. ASSUME NEW v \in Saver, NEW t \in Thread, NEW q \in history'[v][t].runs
      PROVE  req'[q].thread = t /\ pc'[q] \in {"act", "done", "failed"}
  <2>1. CASE q \in history[v][t].runs
    <3>1. q \in Run /\ req[q].thread = t /\ pc[q] \in {"act", "done", "failed"}
      BY <2>1 DEF LogInv, TypeInv, TypeOK
    <3> QED
      BY <1>1, <3>1
  <2>2. CASE q \notin history[v][t].runs
    <3>1. t = req[r].thread /\ q = r
      BY <1>2, <2>2 DEF Saved
    <3> QED
      BY <1>1, <3>1
  <2> QED
    BY <2>1, <2>2
<1>3. ASSUME NEW q \in Run, pc'[q] = "act", Kept(q)'
      PROVE  q \in history'[1][req'[q].thread].runs
  <2>1. CASE q = r
    <3>1. Durable(r) /\ store # "fresh"
      BY <1>1, <1>3, <2>1 DEF Kept, Durable
    <3>2. mine[r] = 1
      BY <3>1, SavedByDurable
    <3> QED
      BY <1>1, <2>1, <3>2 DEF Saved
  <2>2. CASE q # r
    <3>1. pc[q] = "act" /\ req'[q] = req[q]
      BY <1>3, <2>2
    <3>2. Kept(q)
      BY <1>1, <1>3, <3>1 DEF Kept
    <3>3. q \in history[1][req[q].thread].runs /\ req[q].thread \in Thread
      BY <3>1, <3>2, RequestShape DEF LogInv
    <3> QED
      BY <1>1, <3>1, <3>3 DEF Saved
  <2> QED
    BY <2>1, <2>2
<1>4. ASSUME NEW q \in Run, pc'[q] = "new" PROVE req'[q] = NoRequest /\ channel'[q] = NoSkill
  BY <1>4 DEF LogInv
<1>5. ASSUME NEW q \in Run, pc'[q] \in {"load", "act"} PROVE req'[q].via # "read"
  BY <1>1, <1>5 DEF LogInv
<1> QED
  BY <1>2, <1>3, <1>4, <1>5 DEF LogInv

\* It holds initially.
LEMMA LogInit == Init => LogInv
BY DEF Init, LogInv, Blank

\* A thread has the checkpoints of its own runs, and of each that acts.
LEMMA LogNext ==
  ASSUME TypeInv, ThreadInv, Apart, LogInv, [Next]_vars
  PROVE  LogInv'
<1>a. Abides /\ MineInv
  BY Steady DEF ThreadInv
<1> USE DEF Goto
<1>1. ASSUME NEW r \in Run, Arrive(r)
      PROVE  LogInv'
  <2>1. /\ pc[r] = "new" /\ pc'[r] = "check" /\ UNCHANGED <<history, channel>>
        /\ \A q \in Run : q # r => pc'[q] = pc[q] /\ req'[q] = req[q]
    BY <1>1 DEF Arrive, TypeInv, TypeOK
  <2> QED
    BY <1>a, <2>1, LogStays DEF LogInv
<1>2. ASSUME NEW r \in Run, Check(r)
      PROVE  LogInv'
  <2>1. /\ pc[r] = "check" /\ pc'[r] \in {"take", "build"} /\ UNCHANGED <<history, channel, req>>
        /\ \A q \in Run : q # r => pc'[q] = pc[q]
    BY <1>2 DEF Check, TypeInv, TypeOK
  <2> QED
    BY <1>a, <2>1, LogStays
<1>3. ASSUME NEW r \in Run, Build(r)
      PROVE  LogInv'
  <2>1. /\ pc[r] = "build" /\ pc'[r] = "key" /\ UNCHANGED <<history, channel, req>>
        /\ \A q \in Run : q # r => pc'[q] = pc[q]
    BY <1>3 DEF Build, TypeInv, TypeOK
  <2> QED
    BY <1>a, <2>1, LogStays
<1>4. ASSUME NEW r \in Run, SetKey(r)
      PROVE  LogInv'
  <2>1. /\ pc[r] = "key" /\ pc'[r] = "take" /\ UNCHANGED <<history, channel, req>>
        /\ \A q \in Run : q # r => pc'[q] = pc[q]
    BY <1>4 DEF SetKey, TypeInv, TypeOK
  <2> QED
    BY <1>a, <2>1, LogStays
<1>5. ASSUME NEW r \in Run, Take(r)
      PROVE  LogInv'
  <2>1. /\ pc[r] = "take" /\ UNCHANGED <<history, channel, req>>
        /\ pc'[r] = IF req[r].via = "read" THEN "done" ELSE "load"
        /\ \A q \in Run : q # r => pc'[q] = pc[q]
    BY <1>5 DEF Take, TypeInv, TypeOK
  <2> QED
    BY <1>a, <2>1, LogStays
<1>6. ASSUME NEW r \in Run, Load(r)
      PROVE  LogInv'
  <2>1. /\ pc[r] = "load" /\ pc'[r] = "act" /\ Saved(r, channel'[r]) /\ req' = req
        /\ \A q \in Run : q # r => pc'[q] = pc[q]
        /\ channel' = [channel EXCEPT ![r] = channel'[r]]
    BY <1>6, RunsSave DEF Load, TypeInv, TypeOK
  <2>2. \A q \in Run : q # r => channel'[q] = channel[q]
    BY <2>1 DEF TypeInv, TypeOK
  <2> QED
    BY <1>a, <2>1, <2>2, LogSaved
<1>7. ASSUME NEW r \in Run, Act(r)
      PROVE  LogInv'
  <2>1. /\ pc[r] = "act" /\ pc'[r] = "done" /\ Saved(r, channel[r]) /\ UNCHANGED <<channel, req>>
        /\ \A q \in Run : q # r => pc'[q] = pc[q]
    BY <1>7, RunsSave DEF Act, TypeInv, TypeOK
  <2> QED
    BY <1>a, <2>1, LogSaved
<1>8. ASSUME NEW r \in Run, Fail(r)
      PROVE  LogInv'
  <2>1. /\ pc[r] \in {"build", "load", "act"} /\ pc'[r] = "failed" /\ UNCHANGED <<channel, req>>
        /\ \A q \in Run : q # r => pc'[q] = pc[q]
    BY <1>8 DEF Fail, TypeInv, TypeOK
  <2>2. CASE history' = history
    BY <1>a, <2>1, <2>2, LogStays
  <2>3. CASE history' # history
    <3>1. pc[r] \in {"load", "act"} /\ Saved(r, Stored(r))
      BY <1>8, <2>3, RunsSave DEF Fail
    <3> QED
      BY <1>a, <2>1, <3>1, LogSaved
  <2> QED
    BY <2>2, <2>3
<1>9. CASE Restart
  <2>1. /\ UNCHANGED <<channel, req, store>>
        /\ \A q \in Run : pc'[q] \notin {"load", "act"}
        /\ \A q \in Run : pc[q] \in {"act", "done", "failed"} => pc'[q] \in {"done", "failed"}
        /\ \A q \in Run : pc'[q] = "new" => pc[q] = "new"
    BY <1>9 DEF Restart, Active, TypeInv, TypeOK
  <2>2. CASE history' = history
    BY <1>a, <2>1, <2>2, LogStays
  <2>3. CASE history' = [v \in Saver |-> Blank]
    BY <2>1, <2>3 DEF LogInv, Blank
  <2> QED
    BY <1>9, <2>2, <2>3 DEF Restart
<1>10. CASE UNCHANGED vars
  BY <1>10, <1>a, LogStays DEF vars, LogInv
<1> QED
  BY <1>1, <1>2, <1>3, <1>4, <1>5, <1>6, <1>7, <1>8, <1>9, <1>10 DEF Next

\* Where ephemeral and other requests are kept apart, what is known of
\* the checkpoints of single runs holds in every reachable state.
THEOREM LogInvariant == Apart => (Spec => []LogInv)
<1> SUFFICES ASSUME Apart PROVE Spec => []LogInv
  OBVIOUS
<1>1. TypeInv /\ ThreadInv /\ LogInv /\ [Next]_vars => LogInv'
  BY LogNext
<1> QED
  BY <1>1, LogInit, TypeInvariant, ThreadInvariant, PTL DEF Spec

\* A run that a thread is to remember and that saves skill s writes it to its thread.
LEMMA Writes ==
  ASSUME TypeInv, MineInv, NEW r \in Run, pc[r] \in {"load", "act"}, Kept(r),
         NEW s, Saved(r, s), store' = store
  PROVE  /\ Log!Write(r, s)
         /\ Stored(r) = Log!Loaded(r)
         /\ Asked[r] = [thread |-> req[r].thread, skill |-> req[r].skill]
<1>1. Durable(r) /\ store # "fresh" /\ req[r].thread \in Thread /\ 1 \in Saver
  BY RequestShape, FirstSaver DEF Kept, Durable
<1>2. mine[r] = 1
  BY <1>1, SavedByDurable
<1>3. Asked[r] = [thread |-> req[r].thread, skill |-> req[r].skill]
  BY DEF Asked
<1>4. Threads = history[1] /\ Threads' = history'[1]
  BY DEF Kept, Threads
<1> DEFINE R == [skill : Skill \cup {NoSkill}, runs : SUBSET Run]
           new == [skill |-> s, runs |-> Threads[req[r].thread].runs \cup {r}]
<1>5. Threads \in [Thread -> R] /\ Threads' \in [Thread -> R]
  BY <1>1, <1>4 DEF TypeInv, TypeOK, Saved
<1>6. \A t \in Thread : t # req[r].thread => Threads'[t] = Threads[t]
  BY <1>1, <1>2, <1>4 DEF Saved
<1>7. Threads'[req[r].thread] = new
  <2>1. /\ Threads'[req[r].thread].skill = s
        /\ Threads'[req[r].thread].runs = Threads[req[r].thread].runs \cup {r}
    BY <1>1, <1>2, <1>4 DEF Saved
  <2>2. Threads'[req[r].thread] \in R
    BY <1>1, <1>5
  <2> QED
    BY <2>1, <2>2
<1> HIDE DEF R, new
<1>8. Threads' = [Threads EXCEPT ![req[r].thread] = new]
  BY <1>1, <1>5, <1>6, <1>7
<1>9. Log!Write(r, s)
  BY <1>3, <1>8 DEF Log!Write, new
<1>10. Stored(r) = Log!Loaded(r)
  BY <1>2, <1>3, <1>4 DEF Stored, Log!Loaded
<1> QED
  BY <1>3, <1>9, <1>10

\* One that no thread is to remember leaves the threads alone.
LEMMA WritesNothing ==
  ASSUME TypeInv, MineInv, LogInv, NEW r \in Run, pc[r] \in {"load", "act"}, ~Kept(r),
         NEW s, Save(r, s), store' = store
  PROVE  Threads' = Threads
<1>1. CASE store \in {"shared", "postgres"}
  <2>1. ~Durable(r)
    BY <1>1, KeptDurable DEF LogInv
  <2>2. mine[r] = 0
    BY <2>1 DEF MineInv
  <2> QED
    BY <2>2 DEF Save, Threads
<1>2. CASE store \notin {"shared", "postgres"}
  BY <1>2 DEF Threads
<1> QED
  BY <1>1, <1>2

\* A run that loads or gives up is one its thread has not seen; one that acts is one
\* that it has.
LEMMA Seen ==
  ASSUME TypeInv, LogInv, NEW r \in Run, Kept(r)
  PROVE  /\ pc[r] = "load" => Log!Fresh(r)
         /\ pc[r] = "act" => /\ r \in DOMAIN Asked /\ r \notin Finished
                             /\ r \in Threads[Asked[r].thread].runs
<1>1. Threads = history[1] /\ 1 \in Saver
  BY FirstSaver DEF Threads, Kept
<1>2. Asked[r] = [thread |-> req[r].thread, skill |-> req[r].skill]
  BY DEF Asked
<1>3. r \in DOMAIN Asked
  BY DEF Asked
<1> QED
  BY <1>1, <1>2, <1>3 DEF LogInv, Finished, Log!Fresh

\* Every step of the program is a step of the threads' logs or leaves them as they are.
LEMMA LogRefines ==
  ASSUME TypeInv, ThreadInv, LogInv, [Next]_vars
  PROVE  [Log!Next]_(Log!vars)
<1>a. MineInv
  BY DEF ThreadInv
<1> USE DEF Goto
<1>b. ASSUME store' = store, req' = req
      PROVE  Asked' = Asked /\ \A q \in Run : Kept(q)' <=> Kept(q)
  BY <1>b DEF Asked, Kept
<1>c. ASSUME store' = store, req' = req, channel' = channel, Threads' = Threads,
             \A q \in Run : Kept(q) => (pc'[q] = "done" <=> pc[q] = "done")
      PROVE  UNCHANGED Log!vars
  <2>1. Held' = Held /\ Finished' = Finished
    BY <1>b, <1>c DEF Held, Finished
  <2> QED
    BY <1>b, <1>c, <2>1 DEF Log!vars
<1>1. ASSUME NEW r \in Run, Arrive(r)
      PROVE  [Log!Next]_(Log!vars)
  <2>1. /\ pc[r] = "new" /\ pc'[r] = "check" /\ UNCHANGED <<history, channel, store>>
        /\ req'[r] \in Requests
        /\ \A q \in Run : q # r => pc'[q] = pc[q] /\ req'[q] = req[q]
    BY <1>1 DEF Arrive, TypeInv, TypeOK
  <2>2. req[r] = NoRequest /\ channel[r] = NoSkill
    BY <2>1 DEF LogInv
  <2>3. \A q \in Run : q # r => (Kept(q)' <=> Kept(q))
    BY <2>1 DEF Kept
  <2>4. ~Kept(r)
    BY <2>2 DEF Kept
  <2>5. Held' = Held
    BY <2>1, <2>2, <2>3 DEF Held
  <2>6. Threads' = Threads
    BY <2>1 DEF Threads
  <2>7. Finished' = Finished
    BY <2>1, <2>3, <2>4 DEF Finished
  <2>8. CASE Kept(r)'
    <3> DEFINE now == [thread |-> req'[r].thread, skill |-> req'[r].skill]
    <3>1. req'[r].thread \in Thread /\ req'[r].skill \in Skill \cup {NoSkill}
      BY <2>1, TriggerAssumption DEF Request
    <3>2. /\ r \notin DOMAIN Asked
          /\ Asked' = [q \in DOMAIN Asked \cup {r} |-> IF q = r THEN now ELSE Asked[q]]
      <4>1. {q \in Run : Kept(q)}' = {q \in Run : Kept(q)} \cup {r}
        BY <2>3, <2>8
      <4> QED
        BY <2>1, <2>4, <4>1 DEF Asked
    <3>3. Log!Ask(r)
      BY <2>1, <2>5, <2>6, <2>7, <3>1, <3>2 DEF Log!Ask
    <3> QED
      BY <3>3 DEF Log!Next
  <2>9. CASE ~Kept(r)'
    <3>1. Asked' = Asked
      BY <2>1, <2>3, <2>4, <2>9 DEF Asked
    <3> QED
      BY <2>1, <2>5, <2>6, <2>7, <3>1 DEF Log!vars
  <2> QED
    BY <2>8, <2>9
<1>2. ASSUME NEW r \in Run, Check(r)
      PROVE  [Log!Next]_(Log!vars)
  <2>1. /\ pc[r] = "check" /\ pc'[r] \in {"take", "build"} /\ UNCHANGED <<store, history, channel, req>>
        /\ \A q \in Run : q # r => pc'[q] = pc[q]
    BY <1>2 DEF Check, TypeInv, TypeOK
  <2> QED
    BY <1>c, <2>1 DEF Threads
<1>3. ASSUME NEW r \in Run, Build(r)
      PROVE  [Log!Next]_(Log!vars)
  <2>1. /\ pc[r] = "build" /\ pc'[r] = "key" /\ UNCHANGED <<store, history, channel, req>>
        /\ \A q \in Run : q # r => pc'[q] = pc[q]
    BY <1>3 DEF Build, TypeInv, TypeOK
  <2> QED
    BY <1>c, <2>1 DEF Threads
<1>4. ASSUME NEW r \in Run, SetKey(r)
      PROVE  [Log!Next]_(Log!vars)
  <2>1. /\ pc[r] = "key" /\ pc'[r] = "take" /\ UNCHANGED <<store, history, channel, req>>
        /\ \A q \in Run : q # r => pc'[q] = pc[q]
    BY <1>4 DEF SetKey, TypeInv, TypeOK
  <2> QED
    BY <1>c, <2>1 DEF Threads
<1>5. ASSUME NEW r \in Run, Take(r)
      PROVE  [Log!Next]_(Log!vars)
  <2>1. /\ pc[r] = "take" /\ UNCHANGED <<store, history, channel, req>>
        /\ pc'[r] = IF req[r].via = "read" THEN "done" ELSE "load"
        /\ \A q \in Run : q # r => pc'[q] = pc[q]
    BY <1>5 DEF Take, TypeInv, TypeOK
  <2>2. Kept(r) => pc'[r] # "done"
    BY <2>1 DEF Kept
  <2> QED
    BY <1>c, <2>1, <2>2 DEF Threads
<1>6. ASSUME NEW r \in Run, Load(r)
      PROVE  [Log!Next]_(Log!vars)
  <2>1. /\ pc[r] = "load" /\ pc'[r] = "act" /\ UNCHANGED <<store, req>>
        /\ \A q \in Run : q # r => pc'[q] = pc[q]
    BY <1>6 DEF Load, TypeInv, TypeOK
  <2>2. /\ Saved(r, channel'[r]) /\ channel' = [channel EXCEPT ![r] = channel'[r]]
        /\ channel'[r] = IF req[r].skill # NoSkill THEN req[r].skill ELSE Stored(r)
    BY <1>6, RunsSave
  <2>3. Finished' = Finished
    BY <1>b, <2>1 DEF Finished
  <2>4. \A q \in Run : q # r => channel'[q] = channel[q]
    BY <2>2 DEF TypeInv, TypeOK
  <2>5. CASE Kept(r)
    <3> DEFINE now == IF Asked[r].skill # NoSkill THEN Asked[r].skill ELSE Log!Loaded(r)
    <3>1. /\ Log!Write(r, channel'[r]) /\ Stored(r) = Log!Loaded(r)
          /\ Asked[r] = [thread |-> req[r].thread, skill |-> req[r].skill]
      BY <1>a, <2>1, <2>2, <2>5, Writes
    <3>2. channel'[r] = now
      BY <2>2, <3>1
    <3>3. Held' = [Held EXCEPT ![r] = channel'[r]]
      BY <1>b, <2>1, <2>4, <2>5 DEF Held
    <3>4. Log!Fresh(r)
      BY <2>1, <2>5, Seen
    <3>5. Log!Resume(r)
      BY <1>b, <2>1, <2>3, <3>1, <3>2, <3>3, <3>4 DEF Log!Resume
    <3> QED
      BY <3>5 DEF Log!Next
  <2>6. CASE ~Kept(r)
    <3>1. Held' = Held
      BY <1>b, <2>1, <2>4, <2>6 DEF Held
    <3>2. PICK s : Save(r, s)
      BY <1>6 DEF Load
    <3>3. Threads' = Threads
      BY <1>a, <2>1, <2>6, <3>2, WritesNothing
    <3> QED
      BY <1>b, <2>1, <2>3, <3>1, <3>3 DEF Log!vars
  <2> QED
    BY <2>5, <2>6
<1>7. ASSUME NEW r \in Run, Act(r)
      PROVE  [Log!Next]_(Log!vars)
  <2>1. /\ pc[r] = "act" /\ pc'[r] = "done" /\ UNCHANGED <<store, req, channel>>
        /\ \A q \in Run : q # r => pc'[q] = pc[q]
        /\ Save(r, channel[r])
    BY <1>7 DEF Act, TypeInv, TypeOK
  <2>2. CASE Kept(r)
    <3>1. Log!Write(r, channel[r])
      BY <1>7, <1>a, <2>1, <2>2, RunsSave, Writes
    <3>2. Held[r] = channel[r] /\ Held' = Held
      BY <1>b, <2>1, <2>2 DEF Held
    <3>3. Finished' = Finished \cup {r}
      BY <1>b, <2>1, <2>2 DEF Finished
    <3>4. r \in DOMAIN Asked /\ r \notin Finished /\ r \in Threads[Asked[r].thread].runs
      BY <2>1, <2>2, Seen
    <3>5. Log!Finish(r)
      BY <1>b, <2>1, <3>1, <3>2, <3>3, <3>4 DEF Log!Finish
    <3> QED
      BY <3>5 DEF Log!Next
  <2>3. CASE ~Kept(r)
    <3>1. Threads' = Threads
      BY <1>a, <2>1, <2>3, WritesNothing
    <3> QED
      BY <1>c, <2>1, <2>3, <3>1
  <2> QED
    BY <2>2, <2>3
<1>8. ASSUME NEW r \in Run, Fail(r)
      PROVE  [Log!Next]_(Log!vars)
  <2>1. /\ pc[r] \in {"build", "load", "act"} /\ pc'[r] = "failed"
        /\ UNCHANGED <<store, req, channel>>
        /\ \A q \in Run : q # r => pc'[q] = pc[q]
    BY <1>8 DEF Fail, TypeInv, TypeOK
  <2>2. CASE pc[r] # "load" \/ ~Kept(r)
    <3>1. history' = history \/ (pc[r] = "load" /\ Save(r, Stored(r)))
      BY <1>8 DEF Fail
    <3>2. Threads' = Threads
      BY <1>a, <2>1, <2>2, <3>1, WritesNothing DEF Threads
    <3> QED
      BY <1>c, <2>1, <3>2
  <2>3. CASE pc[r] = "load" /\ Kept(r)
    <3>1. Saved(r, Stored(r))
      <4>1. Save(r, Stored(r))
        BY <1>8, <2>3 DEF Fail
      <4> QED
        BY <2>3, <4>1, SaveSaves, StoredType
    <3>2. Log!Write(r, Stored(r)) /\ Stored(r) = Log!Loaded(r)
      BY <1>a, <2>1, <2>3, <3>1, Writes
    <3>3. Held' = Held /\ Finished' = Finished
      BY <1>b, <2>1, <2>3 DEF Held, Finished
    <3>4. Log!Fresh(r)
      BY <2>3, Seen
    <3>5. Log!Abandon(r)
      BY <1>b, <2>1, <3>2, <3>3, <3>4 DEF Log!Abandon
    <3> QED
      BY <3>5 DEF Log!Next
  <2> QED
    BY <2>2, <2>3
<1>9. CASE Restart
  <2>1. UNCHANGED <<store, req, channel>>
    BY <1>9 DEF Restart
  <2>2. CASE store = "shared"
    <3>1. Threads' = Blank
      BY <1>9, <2>1, <2>2, FirstSaver DEF Restart, Threads, Blank
    <3>2. \A q \in Run : pc'[q] # "done"
      BY <1>9, <2>2 DEF Restart, Active, TypeInv, TypeOK
    <3>3. Finished' = {} /\ Held' = Held
      BY <1>b, <2>1, <3>2 DEF Finished, Held
    <3>4. Log!Lose
      BY <1>b, <2>1, <2>2, <3>1, <3>3 DEF Log!Lose, Log!Empty, Blank
    <3> QED
      BY <3>4 DEF Log!Next
  <2>3. CASE store # "shared"
    <3>1. Threads' = Threads
      BY <1>9, <2>1, <2>3 DEF Restart, Threads, Blank
    <3>2. \A q \in Run : Kept(q) => (pc'[q] = "done" <=> pc[q] = "done")
      BY <1>9, <2>3 DEF Restart, Active, Kept, TypeInv, TypeOK
    <3> QED
      BY <1>c, <2>1, <3>1, <3>2
  <2> QED
    BY <2>2, <2>3
<1>10. CASE UNCHANGED vars
  BY <1>10, <1>c DEF vars, Threads
<1> QED
  BY <1>1, <1>2, <1>3, <1>4, <1>5, <1>6, <1>7, <1>8, <1>9, <1>10 DEF Next

\* Where ephemeral and other requests are kept apart, the cache of
\* compiled graphs does not show: a thread behaves as a log that its runs resume,
\* write back to and, once finished, stay in.
THEOREM ThreadsAreLogs == Apart => (Spec => ImplementsThreadLog)
<1> SUFFICES ASSUME Apart PROVE Spec => ImplementsThreadLog
  OBVIOUS
<1>1. Init => Log!Init
  <2> SUFFICES ASSUME Init PROVE Log!Init
    OBVIOUS
  <2>1. \A r \in Run : ~Kept(r)
    BY DEF Init, Kept
  <2>2. Threads = Blank
    BY FirstSaver DEF Init, Threads
  <2> QED
    BY <2>1, <2>2 DEF Asked, Held, Finished, Log!Init, Log!Empty, Blank
<1>2. TypeInv /\ ThreadInv /\ LogInv /\ [Next]_vars => [Log!Next]_(Log!vars)
  BY LogRefines
<1> QED
  BY <1>1, <1>2, TypeInvariant, ThreadInvariant, LogInvariant, PTL
  DEF Spec, ImplementsThreadLog, Log!Spec

\* What is known of the logs.
LogsInv == Log!TypeOK /\ Log!KeepsItsRuns

\* A run that writes to the log of its thread adds itself to that one only.
LEMMA Written ==
  ASSUME LogsInv, NEW r \in Run, r \in DOMAIN Asked, NEW s \in Skill \cup {NoSkill},
         Log!Write(r, s), Asked' = Asked
  PROVE  /\ Threads' \in [Thread -> [skill : Skill \cup {NoSkill}, runs : SUBSET Run]]
         /\ \A t \in Thread : Threads'[t].runs =
              IF t = Asked[r].thread THEN Threads[t].runs \cup {r} ELSE Threads[t].runs
<1> DEFINE R == [skill : Skill \cup {NoSkill}, runs : SUBSET Run]
           here == Asked[r].thread
           new == [skill |-> s, runs |-> Threads[here].runs \cup {r}]
<1>1. here \in Thread /\ Threads \in [Thread -> R]
  BY DEF LogsInv, Log!TypeOK
<1>2. new \in R
  BY <1>1
<1>3. Threads' = [Threads EXCEPT ![here] = new]
  BY DEF Log!Write
<1> HIDE DEF R, here
<1>4. Threads' \in [Thread -> R] /\ Threads'[here] = new
  <2> HIDE DEF new
  <2> QED
    BY <1>1, <1>2, <1>3
<1>5. \A t \in Thread : t # here => Threads'[t] = Threads[t]
  BY <1>1, <1>3
<1>6. Threads'[here].runs = Threads[here].runs \cup {r}
  BY <1>4
<1>7. \A t \in Thread : Threads'[t].runs =
        IF t = here THEN Threads[t].runs \cup {r} ELSE Threads[t].runs
  <2> HIDE DEF new
  <2> QED
    BY <1>5, <1>6
<1> QED
  BY <1>4, <1>7 DEF R, here

\* It keeps what is known of whose runs are where, if no other run finishes.
LEMMA WrittenKeeps ==
  ASSUME LogsInv, NEW r \in Run, r \in DOMAIN Asked, NEW s \in Skill \cup {NoSkill},
         Log!Write(r, s), Asked' = Asked, Finished' \in {Finished, Finished \cup {r}},
         Held' \in [Run -> Skill \cup {NoSkill}]
  PROVE  LogsInv'
<1>1. \A t \in Thread : Threads'[t].runs =
        IF t = Asked[r].thread THEN Threads[t].runs \cup {r} ELSE Threads[t].runs
  BY Written
<1>2. ASSUME NEW q \in Finished' PROVE q \in DOMAIN Asked' /\ q \in Threads'[Asked'[q].thread].runs
  <2>1. CASE q = r
    <3>1. Asked[r].thread \in Thread
      BY DEF LogsInv, Log!TypeOK
    <3> QED
      BY <1>1, <2>1, <3>1
  <2>2. CASE q # r
    <3>1. q \in DOMAIN Asked /\ q \in Threads[Asked[q].thread].runs
      BY <1>2, <2>2 DEF LogsInv, Log!KeepsItsRuns
    <3>2. Asked[q].thread \in Thread
      BY <3>1 DEF LogsInv, Log!TypeOK
    <3> QED
      BY <1>1, <3>1, <3>2
  <2> QED
    BY <2>1, <2>2
<1>3. ASSUME NEW t \in Thread, NEW q \in Threads'[t].runs
      PROVE  q \in DOMAIN Asked' /\ Asked'[q].thread = t
  <2>1. q \in Threads[t].runs \/ (q = r /\ t = Asked[r].thread)
    BY <1>1, <1>3
  <2> QED
    BY <2>1 DEF LogsInv, Log!KeepsItsRuns
<1>4. Log!KeepsItsRuns'
  BY <1>2, <1>3 DEF Log!KeepsItsRuns
<1>5. Log!TypeOK'
  BY Written DEF LogsInv, Log!TypeOK
<1> QED
  BY <1>4, <1>5 DEF LogsInv

\* No step of a log loses a run but the one that loses all.
LEMMA LogsNext == LogsInv /\ [Log!Next]_(Log!vars) => LogsInv'
<1> SUFFICES ASSUME LogsInv, [Log!Next]_(Log!vars) PROVE LogsInv'
  OBVIOUS
<1> USE DEF LogsInv, Log!TypeOK
<1>1. ASSUME NEW r \in Run, Log!Ask(r) PROVE LogsInv'
  <2>1. PICK t \in Thread, s \in Skill \cup {NoSkill} :
          Asked' = [q \in DOMAIN Asked \cup {r} |->
                      IF q = r THEN [thread |-> t, skill |-> s] ELSE Asked[q]]
    BY <1>1 DEF Log!Ask
  <2>2. /\ r \notin DOMAIN Asked /\ DOMAIN Asked' = DOMAIN Asked \cup {r}
        /\ \A q \in DOMAIN Asked : Asked'[q] = Asked[q]
        /\ Asked'[r] = [thread |-> t, skill |-> s]
    BY <1>1, <2>1 DEF Log!Ask
  <2>3. UNCHANGED <<Threads, Held, Finished>>
    BY <1>1 DEF Log!Ask
  <2> QED
    BY <2>2, <2>3 DEF Log!KeepsItsRuns
<1>2. ASSUME NEW r \in Run, Log!Resume(r) PROVE LogsInv'
  <2> DEFINE now == IF Asked[r].skill # NoSkill THEN Asked[r].skill ELSE Log!Loaded(r)
  <2>1. /\ r \in DOMAIN Asked /\ Held' = [Held EXCEPT ![r] = now] /\ Log!Write(r, now)
        /\ UNCHANGED <<Asked, Finished>>
    BY <1>2 DEF Log!Resume, Log!Fresh
  <2>2. now \in Skill \cup {NoSkill}
    BY <2>1 DEF Log!Loaded
  <2> HIDE DEF now
  <2>3. Held' \in [Run -> Skill \cup {NoSkill}]
    BY <2>1, <2>2
  <2> QED
    BY <2>1, <2>2, <2>3, WrittenKeeps
<1>3. ASSUME NEW r \in Run, Log!Abandon(r) PROVE LogsInv'
  <2>1. /\ r \in DOMAIN Asked /\ Log!Write(r, Log!Loaded(r))
        /\ UNCHANGED <<Asked, Held, Finished>>
    BY <1>3 DEF Log!Abandon, Log!Fresh
  <2>2. Log!Loaded(r) \in Skill \cup {NoSkill}
    BY <2>1 DEF Log!Loaded
  <2> QED
    BY <2>1, <2>2, WrittenKeeps
<1>4. ASSUME NEW r \in Run, Log!Finish(r) PROVE LogsInv'
  <2>1. /\ r \in DOMAIN Asked /\ Log!Write(r, Held[r])
        /\ Finished' = Finished \cup {r} /\ UNCHANGED <<Asked, Held>>
    BY <1>4 DEF Log!Finish
  <2>2. Held[r] \in Skill \cup {NoSkill}
    OBVIOUS
  <2> QED
    BY <2>1, <2>2, WrittenKeeps
<1>5. CASE Log!Lose
  BY <1>5 DEF Log!Lose, Log!Empty, Log!KeepsItsRuns
<1>6. CASE UNCHANGED Log!vars
  BY <1>6 DEF Log!vars, Log!KeepsItsRuns
<1> QED
  BY <1>1, <1>2, <1>3, <1>4, <1>5, <1>6 DEF Log!Next

\* Any log of this kind has its finished runs, each in its own thread: what
\* ThreadLog promises, whatever implements it.
THEOREM LogsKeepTheirRuns == Log!Spec => []Log!KeepsItsRuns
<1>1. Log!Init => LogsInv
  BY DEF Log!Init, Log!Empty, LogsInv, Log!TypeOK, Log!KeepsItsRuns
<1>2. LogsInv => Log!KeepsItsRuns
  BY DEF LogsInv
<1> QED
  BY <1>1, <1>2, LogsNext, PTL DEF Log!Spec

=============================================================================
