------------------------- MODULE RunLifecycle_proofs -------------------------
(***************************************************************************)
(* Proofs about RunLifecycle, for any runs, tools, skills, requests and    *)
(* bounds, with or without each of the plugins and either store.           *)
(*                                                                         *)
(* What a call may do follows from where its run is: nothing before its    *)
(* node, and only there while its turn of tools lasts (FlowInv).  Whether  *)
(* a call is counted, booked and on record can be read off where it is     *)
(* (CallInv, CountInv), and likewise for a generation of a model           *)
(* (TokenInv), for the session of a run (SessionInv), and, as long as no   *)
(* subscriber has raised, for its trace (TraceInv).                        *)
(***************************************************************************)
EXTENDS RunLifecycle, FiniteSetTheorems, TLAPS

RunFlow(r) ==
  /\ pc[r] \notin {"new", "gone"} => body[r] \in Bodies[r]
  /\ pc[r] \in {"model", "generating", "generated", "decide"} => body[r].node = "supervisor"
  /\ pc[r] = "tools" => body[r].node \in {"tool", "supervisor"}
  /\ offered[r] \subseteq Specialists \cup Allowed

CallFlow(c) ==
  /\ pc[RunOf(c)] \in {"new", "compile", "load", "node"} => callPc[c] = "free"
  /\ callPc[c] \notin Ended \cup {"free"} => pc[RunOf(c)] = "tools"
  /\ callPc[c] \notin {"free", "gone"} =>
       /\ tool[c] \in Tool
       /\ IF body[RunOf(c)].node = "tool" THEN c = <<RunOf(c), 1>>
          ELSE tool[c] \in offered[RunOf(c)]

FlowInv ==
  /\ body \in [Run -> Body \cup {NoBody}]
  /\ \A r \in Run : RunFlow(r)
  /\ \A c \in Call : CallFlow(c)

CallRecord(c) ==
  /\ callPc[c] \in {"free", "called", "lookup", "request", "record"} => verdict[c] = "none"
  /\ callPc[c] \in {"count", "emit", "book", "done"} => verdict[c] # "none"
  /\ callPc[c] = "book" => Booked(c)
  /\ callPc[c] = "record" => c \in effects
  /\ verdict[c] = "ok" /\ Recorded(c) => c \in checkpoints
  /\ verdict[c] = "forbidden" => body[RunOf(c)].node = "tool"
  /\ c \in steps => callPc[c] \in {"done", "raised"} /\ verdict[c] # "none"
  /\ c \in logged => callPc[c] \in {"book", "done", "raised", "gone"}

CallInv ==
  /\ \A c \in Call : CallRecord(c)
  /\ checkpoints \subseteq effects

\* The metric that counts a call.
CallMetric(c) ==
  IF IsSubagent(c) THEN "dalc_subagent_invocations_total" ELSE "dalc_tool_calls_total"
CallMetrics == {"dalc_subagent_invocations_total", "dalc_tool_calls_total"}

Uncounted == {"free", "called", "lookup", "request", "record", "count"}
Counted == {"emit", "book", "done"}

CallCount(c) ==
  \A m \in CallMetrics :
    /\ callPc[c] \in Uncounted => Copies(m, c) = 0
    /\ callPc[c] \in Counted => Copies(m, c) = IF m = CallMetric(c) THEN 1 ELSE 0
    /\ callPc[c] = "raised" =>
         Copies(m, c) = IF m = CallMetric(c) /\ verdict[c] # "none" THEN 1 ELSE 0

CountInv == \A c \in Call : CallCount(c)

\* Where a run has put something on its trace.
HasTrace(r) ==
  \/ pc[r] \in {"generated", "decide", "tools"} /\ body[r].node # "tool"
  \/ pc[r] = "generating" /\ hasFirst[r]

RunTrace(r) ==
  /\ observed[r] \subseteq {trace[r]}
  /\ trace[r] = 0 => observed[r] = {}
  /\ Langfuse /\ HasTrace(r) => trace[r] # 0

TraceInv ==
  /\ \A c \in Call : found[c] <= traces[RunOf(c)]
  /\ faults = 0 =>
       /\ \A r \in Run : RunTrace(r)
       /\ \A c \in Call : callPc[c] = "emit" => found[c] = trace[RunOf(c)]

FirstTokens(r, t) == Copies("dalc_llm_time_to_first_token_seconds", <<r, t, "generation">>)
Generations(r, t) == Copies("dalc_llm_*_total", <<r, t, "generation">>)

TokensAt(r, t) ==
  /\ t > turn[r] => FirstTokens(r, t) = 0 /\ Generations(r, t) = 0
  /\ 1 <= t /\ t <= turn[r] /\ Generations(r, t) > 0 => FirstTokens(r, t) \in 1..(1 + faults)
  /\ t = turn[r] /\ pc[r] = "generating" =>
       /\ Generations(r, t) = 0
       /\ hasFirst[r] => FirstTokens(r, t) \in 1..(1 + faults)
       /\ ~hasFirst[r] => FirstTokens(r, t) <= faults
  /\ t = turn[r] /\ pc[r] = "generated" => FirstTokens(r, t) \in 1..(1 + faults)

TokenInv == \A r \in Run : \A t \in Nat : TokensAt(r, t)

RunSession(r) ==
  /\ pc[r] = "new" => session[r] = "none"
  /\ session[r] = "open" /\ pc[r] \in {"respond", "guard", "over"} => r \in abandoned
  /\ session[r] = "closed" => pc[r] \in {"respond", "guard", "over", "gone"}

SessionInv == \A r \in Run : RunSession(r)

IInv ==
  /\ TypeOK
  /\ FlowInv
  /\ CallInv /\ CountInv
  /\ TraceInv /\ TokenInv /\ SessionInv
-----------------------------------------------------------------------------
(* What publishing does to the instruments *)

\* An event is counted by its metric for its subject, but for run events.
LEMMA CountCopies ==
  ASSUME IsABag(counted), NEW e, Count(e), NEW m, NEW s
  PROVE  /\ IsABag(counted)'
         /\ Copies(m, s) \in Nat
         /\ Copies(m, s)' = Copies(m, s) +
              IF e.name \notin {"run.started", "run.ended"} /\ Metric(e.name) = m /\ e.of = s
              THEN 1 ELSE 0
<1> DEFINE x == <<Metric(e.name), e.of>>
           y == <<m, s>>
<1>1. Copies(m, s) \in Nat
  BY DEF Copies, BagIn, BagToSet, IsABag
<1>2. CASE e.name \in {"run.started", "run.ended"}
  <2>1. counted' = counted
    BY <1>2 DEF Count
  <2> QED
    BY <1>1, <1>2, <2>1 DEF Copies, IsABag
<1>3. CASE e.name \notin {"run.started", "run.ended"}
  <2>1. counted' = counted (+) SetToBag({x})
    BY <1>3 DEF Count
  <2> HIDE DEF x
  <2>2. counted' = [d \in DOMAIN counted \cup {x} |->
                      (IF d \in DOMAIN counted THEN counted[d] ELSE 0) +
                      (IF d = x THEN 1 ELSE 0)]
    BY <2>1 DEF SetToBag, (+)
  <2>3. \A d \in DOMAIN counted : counted[d] \in Nat /\ counted[d] > 0
    BY DEF IsABag
  <2>4. IsABag(counted')
    BY <2>2, <2>3 DEF IsABag
  <2>5. Copies(m, s)' = Copies(m, s) + IF y = x THEN 1 ELSE 0
    BY <2>2, <2>3 DEF Copies, BagIn, BagToSet
  <2>6. y = x <=> Metric(e.name) = m /\ e.of = s
    BY DEF x
  <2> QED
    BY <1>1, <1>3, <2>4, <2>5, <2>6
<1> QED
  BY <1>2, <1>3

\* The metrics that matter here, by the names of the events.
LEMMA Metrics ==
  /\ Metric("trigger.responded") = "dalc_trigger_requests_total"
  /\ Metric("tool.completed") = "dalc_tool_calls_total"
  /\ Metric("tool.failed") = "dalc_tool_calls_total"
  /\ Metric("subagent.completed") = "dalc_subagent_invocations_total"
  /\ Metric("subagent.failed") = "dalc_subagent_invocations_total"
  /\ Metric("skill.completed") = "dalc_skill_loads_total"
  /\ Metric("skill.failed") = "dalc_skill_loads_total"
  /\ Metric("llm.first_token") = "dalc_llm_time_to_first_token_seconds"
  /\ Metric("llm.completed") = "dalc_llm_*_total"
BY DEF Metric

\* Observations go to a trace of the run, the one that was found if there was one.
Observing(r, was) ==
  \/ UNCHANGED <<trace, traces, observed>>
  \/ \E t \in Nat, n \in Nat :
       /\ trace' = [trace EXCEPT ![r] = t]
       /\ traces' = [traces EXCEPT ![r] = n]
       /\ observed' = [observed EXCEPT ![r] = @ \cup {t}]
       /\ was # 0 => t = was
       /\ 1 <= t /\ t <= n /\ traces[r] <= n

\* Observing is what Observe does, and with Langfuse the run has a trace then.
LEMMA ObserveObserves ==
  ASSUME InstrumentsTypeOK, NEW r \in Run, NEW was \in Nat, was <= traces[r], Observe(r, was)
  PROVE  /\ Observing(r, was)
         /\ Langfuse => trace'[r] # 0
<1>1. traces[r] \in Nat /\ trace \in [Run -> Nat]
  BY DEF InstrumentsTypeOK
<1>2. CASE ~Langfuse
  BY <1>2 DEF Observe, Observing
<1>3. CASE Langfuse /\ was = 0
  <2> DEFINE t == traces[r] + 1
  <2>1. /\ trace' = [trace EXCEPT ![r] = t] /\ traces' = [traces EXCEPT ![r] = t]
        /\ observed' = [observed EXCEPT ![r] = @ \cup {t}]
    BY <1>3 DEF Observe
  <2>2. t \in Nat /\ 1 <= t /\ traces[r] <= t /\ t <= t
    BY <1>1
  <2> HIDE DEF t
  <2>3. trace'[r] = t /\ t # 0
    BY <1>1, <2>1, <2>2
  <2> QED
    BY <1>3, <2>1, <2>2, <2>3 DEF Observing
<1>4. CASE Langfuse /\ was # 0
  <2>1. /\ trace' = [trace EXCEPT ![r] = was] /\ traces' = [traces EXCEPT ![r] = traces[r]]
        /\ observed' = [observed EXCEPT ![r] = @ \cup {was}]
    BY <1>4 DEF Observe, InstrumentsTypeOK
  <2>2. 1 <= was /\ was <= traces[r] /\ traces[r] <= traces[r]
    BY <1>1, <1>4
  <2>3. trace'[r] = was
    BY <1>1, <2>1
  <2> QED
    BY <1>1, <1>4, <2>1, <2>2, <2>3 DEF Observing
<1> QED
  BY <1>2, <1>3, <1>4

\* What a publisher leaves behind, whether or not a subscriber has raised.
LEMMA PublishDoes ==
  ASSUME InstrumentsTypeOK, NEW e, e.run \in Run, Publish(e) \/ PublishRaises(e)
  PROVE  /\ Count(e)
         /\ Observing(e.run, trace[e.run])
         /\ Publish(e) => faults' = faults
         /\ PublishRaises(e) => faults' = faults + 1 /\ faults' \in 0..MaxFaults
                                /\ session' = session
         /\ Publish(e) /\ e.name \notin {"run.started", "run.ended"} =>
              session' = session /\ (Langfuse => trace'[e.run] # 0)
<1>1. trace[e.run] \in Nat /\ trace[e.run] <= traces[e.run]
  BY DEF InstrumentsTypeOK
<1>2. Mirror(e) => Observing(e.run, trace[e.run])
  BY <1>1, ObserveObserves DEF Mirror, Observing
<1>3. Observing(e.run, trace[e.run])
  BY <1>2 DEF Publish, PublishRaises, Observing
<1>4. Publish(e) /\ e.name \notin {"run.started", "run.ended"} =>
        session' = session /\ (Langfuse => trace'[e.run] # 0)
  <2> SUFFICES ASSUME Publish(e), e.name \notin {"run.started", "run.ended"}
               PROVE  session' = session /\ (Langfuse => trace'[e.run] # 0)
    OBVIOUS
  <2>1. SessionAfter(e) = session[e.run]
    BY DEF SessionAfter
  <2>2. session' = session
    BY <2>1 DEF Publish, Follow, InstrumentsTypeOK
  <2>3. Observe(e.run, trace[e.run])
    BY DEF Publish, Mirror
  <2> QED
    BY <1>1, <2>2, <2>3, ObserveObserves
<1> QED
  BY <1>3, <1>4, InstrumentsAssumption DEF Publish, PublishRaises, Fault, InstrumentsTypeOK

\* The session of a run that starts is opened, and of one that ends closed.
LEMMA SessionFollows ==
  ASSUME InstrumentsTypeOK, NEW r \in Run
  PROVE  /\ Publish(RunStarted(r)) =>
              session' = [session EXCEPT ![r] = IF Wandb THEN "open" ELSE session[r]]
         /\ Publish(RunEnded(r)) =>
              session' = [session EXCEPT ![r] = IF session[r] = "open" THEN "closed"
                                                ELSE session[r]]
<1>1. /\ RunStarted(r).name = "run.started" /\ RunStarted(r).run = r
      /\ RunEnded(r).name = "run.ended" /\ RunEnded(r).run = r
  BY DEF RunStarted, RunEnded, Event
<1>2. SessionAfter(RunStarted(r)) = IF Wandb THEN "open" ELSE session[r]
  BY <1>1 DEF SessionAfter
<1>3. SessionAfter(RunEnded(r)) = IF session[r] = "open" THEN "closed" ELSE session[r]
  BY <1>1 DEF SessionAfter
<1> QED
  BY <1>1, <1>2, <1>3 DEF Publish, Follow

\* Whose calls and generations an event does not count for, it leaves alone.
SameCallCounts == \A m \in CallMetrics : \A c \in Call : Copies(m, c)' = Copies(m, c)
SameTokens ==
  \A r \in Run : \A t \in Nat :
    FirstTokens(r, t)' = FirstTokens(r, t) /\ Generations(r, t)' = Generations(r, t)

\* The events of a run itself count for no call and no generation.
LEMMA RunEvents ==
  ASSUME IsABag(counted), NEW r \in Run, NEW e,
         e \in {RunStarted(r), RunEnded(r), Responded(r), SkillLoaded(r), SkillFailed(r)},
         Count(e)
  PROVE  IsABag(counted)' /\ SameCallCounts /\ SameTokens
<1>1. \/ e.name \in {"run.started", "run.ended"}
      \/ Metric(e.name) \in {"dalc_trigger_requests_total", "dalc_skill_loads_total"}
  BY Metrics DEF RunStarted, RunEnded, Responded, SkillLoaded, SkillFailed, Event
<1>2. \A m \in CallMetrics :
        m \notin {"dalc_trigger_requests_total", "dalc_skill_loads_total"}
  BY DEF CallMetrics
<1>3. \A m, s : m \notin {"dalc_trigger_requests_total", "dalc_skill_loads_total"} =>
        Copies(m, s)' = Copies(m, s)
  BY <1>1, CountCopies
<1>4. IsABag(counted)'
  BY CountCopies
<1>5. SameCallCounts
  BY <1>2, <1>3 DEF SameCallCounts
<1>6. SameTokens
  BY <1>3 DEF SameTokens, FirstTokens, Generations
<1> QED
  BY <1>4, <1>5, <1>6

\* A first token and a completed generation count for the generation ...
LEMMA TokenEvents ==
  ASSUME IsABag(counted), NEW r \in Run, turn[r] \in Nat, NEW e,
         e \in {FirstToken(r, Generation(r)), Generated(r, Generation(r))}, Count(e)
  PROVE  /\ IsABag(counted)' /\ SameCallCounts
         /\ \A q \in Run : \A t \in Nat :
              /\ FirstTokens(q, t) \in Nat /\ Generations(q, t) \in Nat
              /\ FirstTokens(q, t)' = FirstTokens(q, t) +
                   IF e = FirstToken(r, Generation(r)) /\ q = r /\ t = turn[r] THEN 1 ELSE 0
              /\ Generations(q, t)' = Generations(q, t) +
                   IF e = Generated(r, Generation(r)) /\ q = r /\ t = turn[r] THEN 1 ELSE 0
<1> DEFINE g == Generation(r)
           F == "dalc_llm_time_to_first_token_seconds"
           G == "dalc_llm_*_total"
<1>1. /\ e.of = g /\ e.name \notin {"run.started", "run.ended"}
      /\ e = FirstToken(r, g) <=> Metric(e.name) = F
      /\ e = Generated(r, g) <=> Metric(e.name) = G
      /\ Metric(e.name) \in {F, G}
  BY Metrics DEF FirstToken, Generated, Event
<1>2. \A q \in Run : \A t \in Nat : g = <<q, t, "generation">> <=> q = r /\ t = turn[r]
  BY DEF Generation
<1>3. \A m, s : /\ Copies(m, s) \in Nat
                /\ Copies(m, s)' = Copies(m, s) + IF Metric(e.name) = m /\ g = s THEN 1 ELSE 0
  BY <1>1, CountCopies
<1>4. IsABag(counted)'
  BY CountCopies
<1>5. SameCallCounts
  BY <1>1, <1>3 DEF SameCallCounts, CallMetrics
<1> HIDE DEF g
<1>6. \A q \in Run : \A t \in Nat :
        /\ FirstTokens(q, t) \in Nat /\ Generations(q, t) \in Nat
        /\ FirstTokens(q, t)' = FirstTokens(q, t) +
             IF e = FirstToken(r, g) /\ q = r /\ t = turn[r] THEN 1 ELSE 0
        /\ Generations(q, t)' = Generations(q, t) +
             IF e = Generated(r, g) /\ q = r /\ t = turn[r] THEN 1 ELSE 0
  BY <1>1, <1>2, <1>3 DEF FirstTokens, Generations
<1> QED
  BY <1>4, <1>5, <1>6 DEF g

\* ... and the event of a call for the call.
LEMMA EventMetric ==
  ASSUME NEW c
  PROVE  /\ Metric(EventOf(c).name) = CallMetric(c)
         /\ EventOf(c).of = c /\ EventOf(c).run = RunOf(c)
         /\ EventOf(c).name \notin {"run.started", "run.ended"}
<1> DEFINE r == RunOf(c)
<1>1. CASE IsSubagent(c) /\ verdict[c] = "ok"
  <2>1. EventOf(c) = SubagentCompleted(r, c)
    BY <1>1 DEF EventOf
  <2> QED
    BY <1>1, <2>1, Metrics DEF SubagentCompleted, Event, CallMetric
<1>2. CASE IsSubagent(c) /\ verdict[c] # "ok"
  <2>1. EventOf(c) = SubagentFailed(r, c)
    BY <1>2 DEF EventOf
  <2> QED
    BY <1>2, <2>1, Metrics DEF SubagentFailed, Event, CallMetric
<1>3. CASE ~IsSubagent(c) /\ verdict[c] \in {"ok", "not_ok"}
  <2>1. EventOf(c) = ToolCompleted(r, c)
    BY <1>3 DEF EventOf
  <2> QED
    BY <1>3, <2>1, Metrics DEF ToolCompleted, Event, CallMetric
<1>4. CASE ~IsSubagent(c) /\ verdict[c] \notin {"ok", "not_ok"}
  <2>1. EventOf(c) = ToolFailed(r, c)
    BY <1>4 DEF EventOf
  <2> QED
    BY <1>4, <2>1, Metrics DEF ToolFailed, Event, CallMetric
<1> QED
  BY <1>1, <1>2, <1>3, <1>4

\* A call's event counts once more for that call, and for nothing else.
LEMMA CallEvents ==
  ASSUME IsABag(counted), NEW c \in Call, Count(EventOf(c))
  PROVE  /\ IsABag(counted)' /\ SameTokens
         /\ \A m \in CallMetrics : \A d \in Call :
              Copies(m, d)' = Copies(m, d) + IF d = c /\ m = CallMetric(c) THEN 1 ELSE 0
<1>1. \A m, s : Copies(m, s)' = Copies(m, s) + IF m = CallMetric(c) /\ s = c THEN 1 ELSE 0
  BY EventMetric, CountCopies
<1>2. IsABag(counted)'
  BY CountCopies
<1>3. CallMetric(c) \notin {"dalc_llm_time_to_first_token_seconds", "dalc_llm_*_total"}
  BY DEF CallMetric
<1>4. \A m, s : Copies(m, s) \in Nat
  BY CountCopies
<1>5. SameTokens
  BY <1>1, <1>3, <1>4 DEF SameTokens, FirstTokens, Generations
<1> QED
  BY <1>1, <1>2, <1>5

\* The shape of a call.
LEMMA CallShape ==
  /\ \A c \in Call : RunOf(c) \in Run /\ c[2] \in 1..MaxCalls
  /\ \A r \in Run : \A c \in Call : c = <<r, 1>> => RunOf(c) = r
BY DEF Call, RunOf

\* A call that takes a step is under way, and goes on or ends.
Underway == {"called", "lookup", "request", "record", "count", "emit", "book"}
Moved(c) ==
  /\ callPc[c] \in Underway
  /\ callPc'[c] \notin {"free", "called", "gone"}
  /\ callPc' \in [Call -> {"free", "called", "lookup", "request", "record", "count",
                           "emit", "book", "done", "raised", "gone"}]
  /\ verdict' \in [Call -> {"none", "ok", "not_ok", "forbidden", "unknown", "failed"}]
  /\ \A d \in Call \ {c} : callPc'[d] = callPc[d] /\ verdict'[d] = verdict[d]
  /\ UNCHANGED <<tool, unlocked, offered, session>>

\* Every step of a call is a move of that call.
LEMMA CallMoves ==
  ASSUME ToolsTypeOK, NEW c \in Call, CallStep(c)
  PROVE  Moved(c)
<1> USE DEF Goto, Judge, calls, records, instruments, Underway, ToolsTypeOK, Moved
<1>1. CASE Invoke(c)
  <2>1. CASE IsSubagent(c)
    BY <1>1, <2>1 DEF Invoke
  <2>2. CASE ~IsSubagent(c)
    <3>1. /\ callPc[c] = "called" /\ UNCHANGED <<tool, unlocked, offered, session>>
          /\ \/ Judge(c, "forbidden") /\ Goto(c, "count")
             \/ Judge(c, "unknown") /\ Goto(c, "count")
             \/ UNCHANGED verdict /\ (Goto(c, "lookup") \/ Goto(c, "request"))
      BY <1>1, <2>2 DEF Invoke
    <3>2. CASE UNCHANGED verdict
      BY <3>1, <3>2
    <3>3. CASE Judge(c, "forbidden") \/ Judge(c, "unknown")
      BY <3>1, <3>3
    <3> QED
      BY <3>1, <3>2, <3>3
  <2> QED
    BY <2>1, <2>2
<1>2. CASE RejectArguments(c)
  BY <1>2 DEF RejectArguments
<1>3. CASE LookUpTransition(c)
  BY <1>3 DEF LookUpTransition
<1>4. CASE Refused(c)
  BY <1>4 DEF Refused
<1>5. CASE Performed(c)
  BY <1>5 DEF Performed
<1>6. CASE Lost(c)
  BY <1>6 DEF Lost
<1>7. CASE Read(c)
  BY <1>7 DEF Read
<1>8. CASE Record(c)
  BY <1>8 DEF Record
<1>9. CASE CountCall(c)
  BY <1>9 DEF CountCall
<1>10. CASE EmitCall(c)
  <2>1. AfterEvent(c) \in {"book", "done", "raised"}
    BY DEF AfterEvent
  <2> QED
    BY <1>10, <2>1 DEF EmitCall
<1>11. CASE Book(c)
  BY <1>11 DEF Book
<1>12. CASE CallFails(c)
  BY <1>12 DEF CallFails
<1> QED
  BY <1>1, <1>2, <1>3, <1>4, <1>5, <1>6, <1>7, <1>8, <1>9, <1>10, <1>11, <1>12 DEF CallStep
-----------------------------------------------------------------------------
(* The parts of the invariant *)

\* A turn of the supervisor makes calls of tools that it was offered.
Turn(r) ==
  \E n \in 1..MaxCalls :
    LET free == {c \in Call : RunOf(c) = r /\ callPc[c] = "free"}
        next == {c \in free : c[2] < Cardinality(CallsOf(r)) + 1 + n}
    IN /\ Cardinality(next) = n
       /\ \E tools \in [next -> offered[r]] : Make(r, tools)

MadeBy(r) ==
  \A c \in Call :
    \/ callPc'[c] = callPc[c] /\ tool'[c] = tool[c]
    \/ RunOf(c) = r /\ callPc[c] = "free" /\ callPc'[c] = "called" /\ tool'[c] \in offered[r]

\* A turn of the supervisor makes calls of tools it was offered.
LEMMA TurnMakes ==
  ASSUME NEW r \in Run, Turn(r)
  PROVE  MadeBy(r)
<1>1. PICK n \in 1..MaxCalls :
        LET next == {c \in {c \in Call : RunOf(c) = r /\ callPc[c] = "free"} :
                       c[2] < Cardinality(CallsOf(r)) + 1 + n}
        IN \E tools \in [next -> offered[r]] : Make(r, tools)
  BY DEF Turn
<1> DEFINE next == {c \in {c \in Call : RunOf(c) = r /\ callPc[c] = "free"} :
                       c[2] < Cardinality(CallsOf(r)) + 1 + n}
<1>2. PICK tools \in [next -> offered[r]] : Make(r, tools)
  BY <1>1
<1>3. \A c \in next : c \in Call /\ RunOf(c) = r /\ callPc[c] = "free"
  OBVIOUS
<1> HIDE DEF next
<1> QED
  BY <1>2, <1>3 DEF Make, MadeBy

\* Where a run is says what its calls may be at.
LEMMA FlowNext == IInv /\ [Next]_vars => FlowInv'
<1> SUFFICES ASSUME IInv, [Next]_vars PROVE FlowInv'
  OBVIOUS
<1> USE DEF calls, records, toolVars, instruments, Move, TypeOK, ToolsTypeOK, IInv
<1>1. ASSUME NEW r \in Run, Begin(r)
      PROVE  FlowInv'
  <2>1. /\ pc[r] = "new" /\ pc'[r] \in {"compile", "respond"} /\ body'[r] \in Bodies[r]
        /\ \A q \in Run \ {r} : pc'[q] = pc[q] /\ body'[q] = body[q]
    BY <1>1 DEF Begin, FlowInv
  <2>2. PICK b \in Bodies[r] : body' = [body EXCEPT ![r] = b]
    BY <1>1 DEF Begin
  <2>3. body' \in [Run -> Body \cup {NoBody}]
    BY <2>2, LifecycleAssumption DEF FlowInv
  <2>4. UNCHANGED <<callPc, tool, offered, unlocked>>
    BY <1>1 DEF Begin
  <2>5. \A q \in Run : RunFlow(q)'
    BY <2>1, <2>3, <2>4 DEF RunFlow, FlowInv, Allowed
  <2>6. \A c \in Call : CallFlow(c)'
    BY <2>1, <2>3, <2>4, CallShape DEF CallFlow, FlowInv, Ended
  <2> QED
    BY <2>1, <2>3, <2>4, <2>5, <2>6 DEF FlowInv
<1>2. ASSUME NEW r \in Run, Compile(r)
      PROVE  FlowInv'
  <2>1. pc[r] = "compile" /\ pc'[r] \in {"load", "respond"}
    BY <1>2 DEF Compile
  <2>2. /\ UNCHANGED <<callPc, tool, offered, unlocked, body>>
        /\ \A q \in Run \ {r} : pc'[q] = pc[q]
    BY <1>2 DEF Compile
  <2>3. \A q \in Run : RunFlow(q)'
    BY <2>1, <2>2 DEF RunFlow, FlowInv, Allowed
  <2>4. \A c \in Call : CallFlow(c)'
    BY <2>1, <2>2, CallShape DEF CallFlow, FlowInv, Ended
  <2> QED
    BY <2>1, <2>2, <2>3, <2>4 DEF FlowInv
<1>3. ASSUME NEW r \in Run, LoadSkill(r)
      PROVE  FlowInv'
  <2>1. pc[r] = "load" /\ pc'[r] \in {"node", "end"}
    BY <1>3 DEF LoadSkill
  <2>2. /\ UNCHANGED <<callPc, tool, offered, body>>
        /\ \A q \in Run \ {r} : pc'[q] = pc[q]
    BY <1>3 DEF LoadSkill
  <2>3. unlocked \subseteq unlocked'
    BY <1>3 DEF LoadSkill, Unlock
  <2>4. \A q \in Run : RunFlow(q)'
    BY <2>1, <2>2, <2>3 DEF RunFlow, FlowInv, Allowed
  <2>5. \A c \in Call : CallFlow(c)'
    BY <2>1, <2>2, <2>3, CallShape DEF CallFlow, FlowInv, Ended
  <2> QED
    BY <2>1, <2>2, <2>3, <2>4, <2>5 DEF FlowInv
<1>4. ASSUME NEW r \in Run, EnterNode(r)
      PROVE  FlowInv'
  <2>1. /\ pc[r] = "node" /\ UNCHANGED <<body, unlocked>>
        /\ \A q \in Run \ {r} : pc'[q] = pc[q] /\ offered'[q] = offered[q]
    BY <1>4 DEF EnterNode
  <2>2. body[r] \in Bodies[r] /\ \A c \in Call : RunOf(c) = r => callPc[c] = "free"
    BY <2>1 DEF FlowInv, RunFlow, CallFlow
  <2>3. CASE body[r].node \in {"skill", "reply"}
    <3>1. pc'[r] = "end" /\ UNCHANGED <<callPc, tool, offered>>
      BY <1>4, <2>3 DEF EnterNode
    <3>2. \A q \in Run : RunFlow(q)'
      BY <2>1, <2>2, <3>1 DEF RunFlow, FlowInv, Allowed
    <3>3. \A c \in Call : CallFlow(c)'
      BY <2>1, <2>2, <3>1, CallShape DEF CallFlow, FlowInv, Ended
    <3> QED
      BY <2>1, <2>2, <3>1, <3>2, <3>3 DEF FlowInv
  <2>4. CASE body[r].node = "tool"
    <3>1. pc'[r] = "tools" /\ UNCHANGED offered
      BY <1>4, <2>4 DEF EnterNode
    <3>2. Make(r, [c \in {<<r, 1>>} |-> body[r].tool])
      BY <1>4, <2>4 DEF EnterNode
    <3>3. \A c \in Call : IF c = <<r, 1>> THEN callPc'[c] = "called" /\ tool'[c] = body[r].tool
                         ELSE callPc'[c] = callPc[c] /\ tool'[c] = tool[c]
      BY <3>2 DEF Make
    <3>4. body[r].tool \in Tool
      BY <2>2, <2>4, LifecycleAssumption DEF Body
    <3>5. \A q \in Run : RunFlow(q)'
      BY <2>1, <2>2, <2>4, <3>1, <3>3, <3>4 DEF RunFlow, FlowInv, Allowed
    <3>6. ASSUME NEW c \in Call PROVE CallFlow(c)'
      <4>1. CASE c = <<r, 1>>
        <5>1. RunOf(c) = r /\ callPc'[c] = "called" /\ tool'[c] \in Tool /\ body'[r].node = "tool"
          BY <2>1, <2>4, <3>3, <3>4, <4>1, CallShape
        <5> QED
          BY <3>1, <4>1, <5>1 DEF CallFlow, Ended
      <4>2. CASE c # <<r, 1>> /\ RunOf(c) = r
        <5>1. callPc'[c] = "free" /\ pc'[RunOf(c)] = "tools"
          BY <2>2, <3>1, <3>3, <4>2
        <5> QED
          BY <5>1 DEF CallFlow, Ended
      <4>3. CASE RunOf(c) # r
        BY <2>1, <3>1, <3>3, <4>3, CallShape DEF CallFlow, FlowInv
      <4> QED
        BY <4>1, <4>2, <4>3
    <3> QED
      BY <2>1, <2>2, <2>4, <3>1, <3>3, <3>4, <3>5, <3>6 DEF FlowInv
  <2>5. CASE body[r].node = "supervisor"
    <3>1. pc'[r] = "model" /\ UNCHANGED <<callPc, tool>>
      BY <1>4, <2>5 DEF EnterNode
    <3>2. offered'[r] \subseteq Specialists \cup Allowed
      BY <1>4, <2>5 DEF EnterNode
    <3>3. \A q \in Run : RunFlow(q)'
      BY <2>1, <2>2, <2>5, <3>1, <3>2 DEF RunFlow, FlowInv, Allowed
    <3>4. \A c \in Call : CallFlow(c)'
      BY <2>1, <2>2, <2>5, <3>1, <3>2, CallShape DEF CallFlow, FlowInv, Ended
    <3> QED
      BY <2>1, <2>2, <2>5, <3>1, <3>2, <3>3, <3>4 DEF FlowInv
  <2> QED
    BY <1>4, <2>3, <2>4, <2>5 DEF EnterNode
<1>5. ASSUME NEW r \in Run, StartGeneration(r)
      PROVE  FlowInv'
  <2>1. pc[r] = "model" /\ pc'[r] = "generating"
    BY <1>5 DEF StartGeneration
  <2>2. /\ UNCHANGED <<callPc, tool, offered, unlocked, body>>
        /\ \A q \in Run \ {r} : pc'[q] = pc[q]
    BY <1>5 DEF StartGeneration
  <2>3. \A q \in Run : RunFlow(q)'
    BY <2>1, <2>2 DEF RunFlow, FlowInv, Allowed
  <2>4. \A c \in Call : CallFlow(c)'
    BY <2>1, <2>2, CallShape DEF CallFlow, FlowInv, Ended
  <2> QED
    BY <2>1, <2>2, <2>3, <2>4 DEF FlowInv
<1>6. ASSUME NEW r \in Run, NewToken(r)
      PROVE  FlowInv'
  <2>1. pc[r] = "generating" /\ pc'[r] = "generating"
    BY <1>6 DEF NewToken
  <2>2. /\ UNCHANGED <<callPc, tool, offered, unlocked, body>>
        /\ \A q \in Run \ {r} : pc'[q] = pc[q]
    BY <1>6 DEF NewToken
  <2>3. \A q \in Run : RunFlow(q)'
    BY <2>1, <2>2 DEF RunFlow, FlowInv, Allowed
  <2>4. \A c \in Call : CallFlow(c)'
    BY <2>1, <2>2, CallShape DEF CallFlow, FlowInv, Ended
  <2> QED
    BY <2>1, <2>2, <2>3, <2>4 DEF FlowInv
<1>7. ASSUME NEW r \in Run, EndGeneration(r)
      PROVE  FlowInv'
  <2>1. pc[r] = "generating" /\ pc'[r] \in {"generated", "decide"}
    BY <1>7 DEF EndGeneration
  <2>2. /\ UNCHANGED <<callPc, tool, offered, unlocked, body>>
        /\ \A q \in Run \ {r} : pc'[q] = pc[q]
    BY <1>7 DEF EndGeneration
  <2>3. \A q \in Run : RunFlow(q)'
    BY <2>1, <2>2 DEF RunFlow, FlowInv, Allowed
  <2>4. \A c \in Call : CallFlow(c)'
    BY <2>1, <2>2, CallShape DEF CallFlow, FlowInv, Ended
  <2> QED
    BY <2>1, <2>2, <2>3, <2>4 DEF FlowInv
<1>8. ASSUME NEW r \in Run, CompleteGeneration(r)
      PROVE  FlowInv'
  <2>1. pc[r] = "generated" /\ pc'[r] = "decide"
    BY <1>8 DEF CompleteGeneration
  <2>2. /\ UNCHANGED <<callPc, tool, offered, unlocked, body>>
        /\ \A q \in Run \ {r} : pc'[q] = pc[q]
    BY <1>8 DEF CompleteGeneration
  <2>3. \A q \in Run : RunFlow(q)'
    BY <2>1, <2>2 DEF RunFlow, FlowInv, Allowed
  <2>4. \A c \in Call : CallFlow(c)'
    BY <2>1, <2>2, CallShape DEF CallFlow, FlowInv, Ended
  <2> QED
    BY <2>1, <2>2, <2>3, <2>4 DEF FlowInv
<1>9. ASSUME NEW r \in Run, ModelFails(r)
      PROVE  FlowInv'
  <2>1. pc[r] \in {"model", "generating"} /\ pc'[r] = "end"
    BY <1>9 DEF ModelFails
  <2>2. /\ UNCHANGED <<callPc, tool, offered, unlocked, body>>
        /\ \A q \in Run \ {r} : pc'[q] = pc[q]
    BY <1>9 DEF ModelFails
  <2>3. \A q \in Run : RunFlow(q)'
    BY <2>1, <2>2 DEF RunFlow, FlowInv, Allowed
  <2>4. \A c \in Call : CallFlow(c)'
    BY <2>1, <2>2, CallShape DEF CallFlow, FlowInv, Ended
  <2> QED
    BY <2>1, <2>2, <2>3, <2>4 DEF FlowInv
<1>10. ASSUME NEW r \in Run, Decide(r)
      PROVE  FlowInv'
  <2>1. /\ pc[r] = "decide" /\ UNCHANGED <<body, unlocked, offered>>
        /\ \A q \in Run \ {r} : pc'[q] = pc[q]
    BY <1>10 DEF Decide
  <2>2. body[r].node = "supervisor"
    BY <2>1 DEF FlowInv, RunFlow
  <2>3. CASE pc'[r] = "end" /\ UNCHANGED <<callPc, tool>>
    <3>1. \A q \in Run : RunFlow(q)'
      BY <2>1, <2>3 DEF RunFlow, FlowInv, Allowed
    <3>2. \A c \in Call : CallFlow(c)'
      BY <2>1, <2>3, CallShape DEF CallFlow, FlowInv, Ended
    <3> QED
      BY <2>1, <2>3, <3>1, <3>2 DEF FlowInv
  <2>4. CASE pc'[r] = "tools" /\ Turn(r)
    <3>1. \A c \in Call :
            \/ callPc'[c] = callPc[c] /\ tool'[c] = tool[c]
            \/ RunOf(c) = r /\ callPc'[c] = "called" /\ tool'[c] \in offered[r]
      BY <2>4, TurnMakes DEF MadeBy
    <3>2. \A q \in Run : RunFlow(q)'
      BY <2>1, <2>2, <2>4, <3>1 DEF RunFlow, FlowInv, Allowed
    <3>3. ASSUME NEW c \in Call PROVE CallFlow(c)'
      <4>1. CallFlow(c) /\ RunOf(c) \in Run
        BY CallShape DEF FlowInv
      <4>2. CASE RunOf(c) # r
        BY <2>1, <3>1, <4>1, <4>2 DEF CallFlow, Ended
      <4>3. CASE RunOf(c) = r /\ callPc'[c] = callPc[c] /\ tool'[c] = tool[c]
        BY <2>1, <2>4, <4>1, <4>3 DEF CallFlow, Ended
      <4>4. CASE RunOf(c) = r /\ callPc'[c] = "called" /\ tool'[c] \in offered[r]
        <5>1. offered[r] \subseteq Tool
          BY <2>1 DEF FlowInv, RunFlow, Allowed
        <5> QED
          BY <2>1, <2>2, <2>4, <4>4, <5>1 DEF CallFlow, Ended
      <4> QED
        BY <3>1, <4>2, <4>3, <4>4
    <3> QED
      BY <2>1, <2>2, <2>4, <3>1, <3>2, <3>3 DEF FlowInv
  <2>5. \/ pc'[r] = "end" /\ UNCHANGED <<callPc, tool>>
        \/ pc'[r] = "tools" /\ Turn(r)
    BY <1>10 DEF Decide, Turn
  <2> QED
    BY <2>3, <2>4, <2>5
<1>11. ASSUME NEW r \in Run, LeaveTools(r)
      PROVE  FlowInv'
  <2>1. pc[r] = "tools" /\ pc'[r] \in {"end", "model"} /\ (body[r].node = "tool" => pc'[r] = "end")
    BY <1>11 DEF LeaveTools
  <2>2. /\ UNCHANGED <<callPc, tool, offered, unlocked, body>>
        /\ \A q \in Run \ {r} : pc'[q] = pc[q]
    BY <1>11 DEF LeaveTools
  <2>3. \A c \in Call : RunOf(c) = r => callPc[c] \in Ended \cup {"free"}
    BY <1>11 DEF LeaveTools, CallsOf
  <2>4. \A q \in Run : RunFlow(q)'
    BY <2>1, <2>2, <2>3 DEF RunFlow, FlowInv, Allowed
  <2>5. \A c \in Call : CallFlow(c)'
    BY <2>1, <2>2, <2>3, CallShape DEF CallFlow, FlowInv, Ended
  <2> QED
    BY <2>1, <2>2, <2>3, <2>4, <2>5 DEF FlowInv
<1>12. ASSUME NEW r \in Run, End(r)
      PROVE  FlowInv'
  <2>1. pc[r] = "end" /\ pc'[r] = "respond"
    BY <1>12 DEF End
  <2>2. /\ UNCHANGED <<callPc, tool, offered, unlocked, body>>
        /\ \A q \in Run \ {r} : pc'[q] = pc[q]
    BY <1>12 DEF End
  <2>3. \A q \in Run : RunFlow(q)'
    BY <2>1, <2>2 DEF RunFlow, FlowInv, Allowed
  <2>4. \A c \in Call : CallFlow(c)'
    BY <2>1, <2>2, CallShape DEF CallFlow, FlowInv, Ended
  <2> QED
    BY <2>1, <2>2, <2>3, <2>4 DEF FlowInv
<1>13. ASSUME NEW r \in Run, Respond(r)
      PROVE  FlowInv'
  <2>1. pc[r] = "respond" /\ pc'[r] \in {"guard", "over"}
    BY <1>13 DEF Respond
  <2>2. /\ UNCHANGED <<callPc, tool, offered, unlocked, body>>
        /\ \A q \in Run \ {r} : pc'[q] = pc[q]
    BY <1>13 DEF Respond
  <2>3. \A q \in Run : RunFlow(q)'
    BY <2>1, <2>2 DEF RunFlow, FlowInv, Allowed
  <2>4. \A c \in Call : CallFlow(c)'
    BY <2>1, <2>2, CallShape DEF CallFlow, FlowInv, Ended
  <2> QED
    BY <2>1, <2>2, <2>3, <2>4 DEF FlowInv
<1>14. ASSUME NEW r \in Run, Guard(r)
      PROVE  FlowInv'
  <2>1. pc[r] = "guard" /\ pc'[r] = "over"
    BY <1>14 DEF Guard
  <2>2. /\ UNCHANGED <<callPc, tool, offered, unlocked, body>>
        /\ \A q \in Run \ {r} : pc'[q] = pc[q]
    BY <1>14 DEF Guard
  <2>3. \A q \in Run : RunFlow(q)'
    BY <2>1, <2>2 DEF RunFlow, FlowInv, Allowed
  <2>4. \A c \in Call : CallFlow(c)'
    BY <2>1, <2>2, CallShape DEF CallFlow, FlowInv, Ended
  <2> QED
    BY <2>1, <2>2, <2>3, <2>4 DEF FlowInv
<1>15. ASSUME NEW c \in Call, CallStep(c), UNCHANGED <<pc, body, turn, hasFirst, result, abandoned>>
      PROVE  FlowInv'
  <2>1. Moved(c)
    BY <1>15, CallMoves
  <2>2. \A q \in Run : RunFlow(q)'
    BY <1>15, <2>1 DEF Moved, Underway, RunFlow, FlowInv, Allowed
  <2>3. \A d \in Call : CallFlow(d)'
    BY <1>15, <2>1, CallShape DEF Moved, Underway, CallFlow, FlowInv, Ended
  <2> QED
    BY <1>15, <2>1, <2>2, <2>3 DEF Moved, FlowInv
<1>16. ASSUME Crash
      PROVE  FlowInv'
  <2>1. \A q \in Run : RunFlow(q)'
    BY <1>16 DEF Crash, RunFlow, FlowInv, Allowed
  <2>2. \A c \in Call : CallFlow(c)'
    BY <1>16, CallShape DEF Crash, CallFlow, FlowInv, Ended
  <2> QED
    BY <1>16, <2>1, <2>2 DEF Crash, FlowInv
<1>17. CASE UNCHANGED vars
  BY <1>17 DEF vars, instruments, toolVars, calls, records, FlowInv, RunFlow, CallFlow,
     Allowed
<1> QED
  BY <1>1, <1>2, <1>3, <1>4, <1>5, <1>6, <1>7, <1>8, <1>9, <1>10, <1>11, <1>12, <1>13,
      <1>14, <1>15, <1>16, <1>17
  DEF Next

\* What publishers and observations leave behind is of its type.
LEMMA ObservingTypes ==
  ASSUME InstrumentsTypeOK, NEW r \in Run, NEW was, Observing(r, was)
  PROVE  /\ trace' \in [Run -> Nat] /\ traces' \in [Run -> Nat]
         /\ observed' \in [Run -> SUBSET Nat]
         /\ \A q \in Run : trace'[q] <= traces'[q] /\ traces[q] <= traces'[q]
<1>1. CASE UNCHANGED <<trace, traces, observed>>
  BY <1>1 DEF InstrumentsTypeOK
<1>2. CASE ~UNCHANGED <<trace, traces, observed>>
  <2>1. PICK t \in Nat, n \in Nat :
          /\ trace' = [trace EXCEPT ![r] = t]
          /\ traces' = [traces EXCEPT ![r] = n]
          /\ observed' = [observed EXCEPT ![r] = @ \cup {t}]
          /\ t <= n /\ traces[r] <= n
    BY <1>2 DEF Observing
  <2>2. trace' \in [Run -> Nat] /\ traces' \in [Run -> Nat] /\ observed' \in [Run -> SUBSET Nat]
    BY <2>1 DEF InstrumentsTypeOK
  <2>3. ASSUME NEW q \in Run PROVE trace'[q] <= traces'[q] /\ traces[q] <= traces'[q]
    BY <2>1 DEF InstrumentsTypeOK
  <2> QED
    BY <2>2, <2>3
<1> QED
  BY <1>1, <1>2

\* An event keeps the instruments' types, and no run loses a trace by it.
LEMMA PublishTypes ==
  ASSUME InstrumentsTypeOK, NEW e, e.run \in Run, Publish(e) \/ PublishRaises(e)
  PROVE  InstrumentsTypeOK' /\ \A q \in Run : traces[q] <= traces'[q]
<1>1. /\ trace' \in [Run -> Nat] /\ traces' \in [Run -> Nat] /\ observed' \in [Run -> SUBSET Nat]
      /\ \A q \in Run : trace'[q] <= traces'[q] /\ traces[q] <= traces'[q]
  BY PublishDoes, ObservingTypes
<1>2. IsABag(counted)'
  BY PublishDoes, CountCopies DEF InstrumentsTypeOK
<1>3. faults' \in 0..MaxFaults
  BY PublishDoes DEF InstrumentsTypeOK
<1>4. SessionAfter(e) \in {"none", "open", "closed"}
  <2>1. session[e.run] \in {"none", "open", "closed"}
    BY DEF InstrumentsTypeOK
  <2>2. CASE e.name = "run.started" /\ Wandb
    BY <2>2 DEF SessionAfter
  <2>3. CASE e.name # "run.started" /\ e.name = "run.ended" /\ session[e.run] = "open"
    BY <2>3 DEF SessionAfter
  <2>4. CASE ~(e.name = "run.started" /\ Wandb) /\ ~(e.name = "run.ended" /\ session[e.run] = "open")
    BY <2>1, <2>4 DEF SessionAfter
  <2> QED
    BY <2>2, <2>3, <2>4
<1>5. session' \in [Run -> {"none", "open", "closed"}]
  BY <1>4, PublishDoes DEF InstrumentsTypeOK, Publish, Follow
<1> QED
  BY <1>1, <1>2, <1>3, <1>5 DEF InstrumentsTypeOK

\* The subjects of the events of a run are about the run.
LEMMA EventRuns ==
  ASSUME NEW r \in Run
  PROVE  /\ RunStarted(r).run = r /\ RunEnded(r).run = r /\ Responded(r).run = r
         /\ SkillLoaded(r).run = r /\ SkillFailed(r).run = r
         /\ \A g : FirstToken(r, g).run = r /\ Generated(r, g).run = r
         /\ RunStarted(r).name = "run.started" /\ RunEnded(r).name = "run.ended"
         /\ {Responded(r).name, SkillLoaded(r).name, SkillFailed(r).name} \cap
              {"run.started", "run.ended"} = {}
         /\ \A g : {FirstToken(r, g).name, Generated(r, g).name} \cap
              {"run.started", "run.ended"} = {}
BY DEF RunStarted, RunEnded, Responded, SkillLoaded, SkillFailed, FirstToken, Generated,
    Event

\* So are the steps of calls.
LEMMA CallTypes ==
  ASSUME InstrumentsTypeOK, ToolsTypeOK, NEW c \in Call, CallStep(c),
         found[c] <= traces[RunOf(c)]
  PROVE  /\ InstrumentsTypeOK' /\ ToolsTypeOK'
         /\ \A q \in Run : traces[q] <= traces'[q]
<1> DEFINE Rest == /\ callId' \in [Call -> (Run \X Nat) \cup {<<>>}] /\ found' \in [Call -> Nat]
                   /\ toolSeq' \in [Run -> Nat]
                   /\ effects' \subseteq Call /\ checkpoints' \subseteq Call
                   /\ steps' \subseteq Call /\ rows' \subseteq steps' /\ logged' \subseteq Call
           Grow == \A q \in Run : traces[q] <= traces'[q]
<1> SUFFICES Rest /\ InstrumentsTypeOK' /\ Grow
  BY CallMoves DEF Moved, ToolsTypeOK
<1>a. RunOf(c) \in Run
  BY CallShape
<1>b. UNCHANGED instruments => InstrumentsTypeOK' /\ Grow
  BY DEF InstrumentsTypeOK, instruments
<1>c. UNCHANGED <<callId, found, toolSeq, effects, checkpoints, steps, rows, logged>> => Rest
  BY DEF ToolsTypeOK
<1>d. Observe(RunOf(c), found[c]) => Observing(RunOf(c), found[c])
  BY <1>a, ObserveObserves DEF ToolsTypeOK
<1>e. ASSUME Observing(RunOf(c), found[c]) \/ UNCHANGED <<trace, traces, observed>>,
             UNCHANGED <<counted, session>>, faults' \in 0..MaxFaults
      PROVE  InstrumentsTypeOK' /\ Grow
  <2>1. \/ UNCHANGED <<trace, traces, observed>>
        \/ Observing(RunOf(c), found[c])
    BY <1>e
  <2> QED
    BY <1>a, <1>e, <2>1, ObservingTypes DEF InstrumentsTypeOK
<1>1. CASE Invoke(c)
  <2>1. UNCHANGED instruments
    BY <1>1 DEF Invoke
  <2>2. UNCHANGED <<found, effects, checkpoints, steps, rows, logged, toolSeq>>
    BY <1>1 DEF Invoke, TakeId, records
  <2>3. callId' = callId \/ callId' = [callId EXCEPT ![c] = <<RunOf(c), toolSeq[RunOf(c)] + 1>>]
    BY <1>1 DEF Invoke, TakeId
  <2>4. callId' \in [Call -> (Run \X Nat) \cup {<<>>}]
    BY <1>a, <2>3 DEF ToolsTypeOK
  <2> QED
    BY <1>b, <2>1, <2>2, <2>4 DEF ToolsTypeOK
<1>2. CASE RejectArguments(c)
  BY <1>2, <1>b, <1>c DEF RejectArguments, calls, records
<1>3. CASE LookUpTransition(c)
  BY <1>3, <1>b, <1>c DEF LookUpTransition, calls, records
<1>4. CASE Refused(c)
  BY <1>4, <1>b, <1>c DEF Refused, calls, records
<1>5. CASE Performed(c)
  <2>1. UNCHANGED instruments
    BY <1>5 DEF Performed
  <2>2. Rest
    BY <1>5 DEF Performed, calls, records, ToolsTypeOK
  <2> QED
    BY <1>b, <2>1, <2>2
<1>6. CASE Lost(c)
  <2>1. UNCHANGED instruments
    BY <1>6 DEF Lost
  <2>2. Rest
    BY <1>6 DEF Lost, calls, records, ToolsTypeOK
  <2> QED
    BY <1>b, <2>1, <2>2
<1>7. CASE Read(c)
  BY <1>7, <1>b, <1>c DEF Read, calls, records
<1>8. CASE Record(c)
  <2>1. UNCHANGED instruments
    BY <1>8 DEF Record
  <2>2. Rest
    BY <1>8 DEF Record, calls, records, ToolsTypeOK
  <2> QED
    BY <1>b, <2>1, <2>2
<1>9. CASE CountCall(c)
  <2>1. IsABag(counted)'
    BY <1>9, CountCopies DEF CountCall, InstrumentsTypeOK
  <2>2. InstrumentsTypeOK' /\ Grow
    BY <1>9, <2>1 DEF CountCall, InstrumentsTypeOK
  <2>3. Rest
    BY <1>9, <1>a DEF CountCall, records, ToolsTypeOK, InstrumentsTypeOK
  <2> QED
    BY <2>2, <2>3
<1>10. CASE EmitCall(c)
  <2>1. faults' \in 0..MaxFaults /\ UNCHANGED <<counted, session>>
    BY <1>10 DEF EmitCall, InstrumentsTypeOK
  <2>2. InstrumentsTypeOK' /\ Grow
    BY <1>10, <1>d, <1>e, <2>1 DEF EmitCall
  <2>3. Rest
    BY <1>10 DEF EmitCall, ToolsTypeOK
  <2> QED
    BY <2>2, <2>3
<1>11. CASE Book(c)
  <2>1. UNCHANGED instruments
    BY <1>11 DEF Book
  <2>2. Rest
    BY <1>11 DEF Book, calls, records, ToolsTypeOK
  <2> QED
    BY <1>b, <2>1, <2>2
<1>12. CASE CallFails(c)
  <2>1. faults' \in 0..MaxFaults /\ UNCHANGED <<counted, session>>
    BY <1>12, InstrumentsAssumption DEF CallFails, InstrumentsTypeOK, Fault
  <2>2. InstrumentsTypeOK' /\ Grow
    BY <1>12, <1>d, <1>e, <2>1 DEF CallFails
  <2>3. Rest
    BY <1>12 DEF CallFails, ToolsTypeOK
  <2> QED
    BY <2>2, <2>3
<1> QED
  BY <1>1, <1>2, <1>3, <1>4, <1>5, <1>6, <1>7, <1>8, <1>9, <1>10, <1>11, <1>12 DEF CallStep

\* All stay of their types.
LEMMA TypeNext == IInv /\ [Next]_vars => TypeOK'
<1> SUFFICES ASSUME IInv, [Next]_vars PROVE TypeOK'
  OBVIOUS
<1> USE DEF IInv
<1>1. ASSUME NEW r \in Run, Begin(r)
      PROVE  TypeOK'
  <2>1. InstrumentsTypeOK'
    BY <1>1, PublishTypes, EventRuns DEF Begin, TypeOK, InstrumentsTypeOK, instruments
  <2>2. ToolsTypeOK'
    BY <1>1, ToolsAssumption
       DEF Begin, TypeOK, ToolsTypeOK, toolVars, calls, records, Unlock
  <2> QED
    BY <1>1, <2>1, <2>2, LifecycleAssumption DEF Begin, TypeOK, Move
<1>2. ASSUME NEW r \in Run, Compile(r)
      PROVE  TypeOK'
  <2>1. InstrumentsTypeOK'
    BY <1>2, InstrumentsAssumption
       DEF Compile, TypeOK, InstrumentsTypeOK, instruments, Fault
  <2>2. ToolsTypeOK'
    BY <1>2 DEF Compile, TypeOK, ToolsTypeOK, toolVars, calls, records
  <2> QED
    BY <1>2, <2>1, <2>2, LifecycleAssumption DEF Compile, TypeOK, Move
<1>3. ASSUME NEW r \in Run, LoadSkill(r)
      PROVE  TypeOK'
  <2>1. InstrumentsTypeOK'
    BY <1>3, PublishTypes, EventRuns DEF LoadSkill, TypeOK, InstrumentsTypeOK, instruments
  <2>2. ToolsTypeOK'
    BY <1>3, ToolsAssumption
       DEF LoadSkill, TypeOK, ToolsTypeOK, toolVars, calls, records, Unlock
  <2> QED
    BY <1>3, <2>1, <2>2, LifecycleAssumption DEF LoadSkill, TypeOK, Move
<1>4. ASSUME NEW r \in Run, EnterNode(r)
      PROVE  TypeOK'
  <2>1. /\ callPc' \in [Call -> {"free", "called", "lookup", "request", "record", "count",
                                "emit", "book", "done", "raised", "gone"}]
        /\ tool' \in [Call -> Tool \cup {NoTool}]
    <3>1. CASE UNCHANGED <<callPc, tool>>
      BY <3>1 DEF TypeOK, ToolsTypeOK
    <3>2. CASE body[r].node = "tool" /\ Make(r, [c \in {<<r, 1>>} |-> body[r].tool])
      <4>1. body[r] \in Bodies[r]
        BY <1>4 DEF EnterNode, FlowInv, RunFlow
      <4>2. body[r].tool \in Tool
        BY <3>2, <4>1, LifecycleAssumption DEF Body
      <4> QED
        BY <3>2, <4>2 DEF Make, TypeOK, ToolsTypeOK
    <3> QED
      BY <1>4, <3>1, <3>2 DEF EnterNode
  <2>2. offered' \in [Run -> SUBSET Tool]
    BY <1>4, ToolsAssumption DEF EnterNode, TypeOK, ToolsTypeOK, Specialists, Allowed
  <2>3. ToolsTypeOK'
    BY <1>4, <2>1, <2>2 DEF EnterNode, TypeOK, ToolsTypeOK, records
  <2>4. InstrumentsTypeOK'
    BY <1>4 DEF EnterNode, TypeOK, InstrumentsTypeOK, instruments
  <2> QED
    BY <1>4, <2>3, <2>4 DEF EnterNode, TypeOK, Move
<1>5. ASSUME NEW r \in Run, StartGeneration(r)
      PROVE  TypeOK'
  <2>1. InstrumentsTypeOK'
    BY <1>5, InstrumentsAssumption
       DEF StartGeneration, TypeOK, InstrumentsTypeOK, instruments, Fault
  <2>2. ToolsTypeOK'
    BY <1>5 DEF StartGeneration, TypeOK, ToolsTypeOK, toolVars, calls, records
  <2> QED
    BY <1>5, <2>1, <2>2, LifecycleAssumption DEF StartGeneration, TypeOK, Move
<1>6. ASSUME NEW r \in Run, NewToken(r)
      PROVE  TypeOK'
  <2>1. PICK e : e.run = r /\ (Publish(e) \/ PublishRaises(e))
    BY <1>6, EventRuns DEF NewToken
  <2>2. InstrumentsTypeOK'
    BY <2>1, PublishTypes DEF TypeOK
  <2>3. ToolsTypeOK'
    BY <1>6, ToolsAssumption
       DEF NewToken, TypeOK, ToolsTypeOK, toolVars, calls, records, Unlock
  <2> QED
    BY <1>6, <2>2, <2>3, LifecycleAssumption DEF NewToken, TypeOK, Move
<1>7. ASSUME NEW r \in Run, EndGeneration(r)
      PROVE  TypeOK'
  <2>1. InstrumentsTypeOK'
    BY <1>7, PublishTypes, EventRuns
       DEF EndGeneration, TypeOK, InstrumentsTypeOK, instruments
  <2>2. ToolsTypeOK'
    BY <1>7, ToolsAssumption
       DEF EndGeneration, TypeOK, ToolsTypeOK, toolVars, calls, records, Unlock
  <2> QED
    BY <1>7, <2>1, <2>2, LifecycleAssumption DEF EndGeneration, TypeOK, Move
<1>8. ASSUME NEW r \in Run, CompleteGeneration(r)
      PROVE  TypeOK'
  <2>1. InstrumentsTypeOK'
    BY <1>8, PublishTypes, EventRuns
       DEF CompleteGeneration, TypeOK, InstrumentsTypeOK, instruments
  <2>2. ToolsTypeOK'
    BY <1>8, ToolsAssumption
       DEF CompleteGeneration, TypeOK, ToolsTypeOK, toolVars, calls, records, Unlock
  <2> QED
    BY <1>8, <2>1, <2>2, LifecycleAssumption DEF CompleteGeneration, TypeOK, Move
<1>9. ASSUME NEW r \in Run, ModelFails(r)
      PROVE  TypeOK'
  <2>1. InstrumentsTypeOK'
    BY <1>9, InstrumentsAssumption
       DEF ModelFails, TypeOK, InstrumentsTypeOK, instruments, Fault
  <2>2. ToolsTypeOK'
    BY <1>9 DEF ModelFails, TypeOK, ToolsTypeOK, toolVars, calls, records
  <2> QED
    BY <1>9, <2>1, <2>2, LifecycleAssumption DEF ModelFails, TypeOK, Move
<1>10. ASSUME NEW r \in Run, Decide(r)
      PROVE  TypeOK'
  <2>1. Turn(r) \/ UNCHANGED <<callPc, tool>>
    BY <1>10 DEF Decide, Turn
  <2>2. /\ callPc' \in [Call -> {"free", "called", "lookup", "request", "record", "count",
                                "emit", "book", "done", "raised", "gone"}]
        /\ tool' \in [Call -> Tool \cup {NoTool}]
    <3>1. CASE UNCHANGED <<callPc, tool>>
      BY <3>1 DEF TypeOK, ToolsTypeOK
    <3>2. CASE Turn(r)
      <4>1. /\ callPc' = [c \in Call |-> callPc'[c]] /\ tool' = [c \in Call |-> tool'[c]]
            /\ MadeBy(r)
        BY <3>2, TurnMakes DEF Turn, Make
      <4>2. offered[r] \subseteq Tool
        BY DEF TypeOK, ToolsTypeOK
      <4> HIDE DEF IInv
      <4> QED
        BY <4>1, <4>2 DEF MadeBy, IInv, TypeOK, ToolsTypeOK
    <3> QED
      BY <2>1, <3>1, <3>2
  <2>3. ToolsTypeOK'
    BY <1>10, <2>2 DEF Decide, TypeOK, ToolsTypeOK, records
  <2>4. InstrumentsTypeOK'
    BY <1>10 DEF Decide, TypeOK, InstrumentsTypeOK, instruments
  <2> QED
    BY <1>10, <2>3, <2>4 DEF Decide, TypeOK, Move
<1>11. ASSUME NEW r \in Run, LeaveTools(r)
      PROVE  TypeOK'
  <2>1. InstrumentsTypeOK'
    BY <1>11, InstrumentsAssumption
       DEF LeaveTools, TypeOK, InstrumentsTypeOK, instruments, Fault
  <2>2. ToolsTypeOK'
    BY <1>11 DEF LeaveTools, TypeOK, ToolsTypeOK, toolVars, calls, records
  <2> QED
    BY <1>11, <2>1, <2>2, LifecycleAssumption DEF LeaveTools, TypeOK, Move
<1>12. ASSUME NEW r \in Run, End(r)
      PROVE  TypeOK'
  <2>1. InstrumentsTypeOK'
    BY <1>12, PublishTypes, EventRuns, SMTT(40) DEF End, TypeOK, InstrumentsTypeOK, instruments
  <2>2. ToolsTypeOK'
    BY <1>12, ToolsAssumption DEF End, TypeOK, ToolsTypeOK, toolVars, calls, records, Unlock
  <2> QED
    BY <1>12, <2>1, <2>2, LifecycleAssumption DEF End, TypeOK, Move
<1>13. ASSUME NEW r \in Run, Respond(r)
      PROVE  TypeOK'
  <2>1. InstrumentsTypeOK'
    BY <1>13, PublishTypes, EventRuns, SMTT(40) DEF Respond, TypeOK, InstrumentsTypeOK, instruments
  <2>2. ToolsTypeOK'
    BY <1>13, ToolsAssumption
       DEF Respond, TypeOK, ToolsTypeOK, toolVars, calls, records, Unlock
  <2> QED
    BY <1>13, <2>1, <2>2, LifecycleAssumption DEF Respond, TypeOK, Move
<1>14. ASSUME NEW r \in Run, Guard(r)
      PROVE  TypeOK'
  <2>1. InstrumentsTypeOK'
    BY <1>14, PublishTypes, EventRuns DEF Guard, TypeOK, InstrumentsTypeOK, instruments
  <2>2. ToolsTypeOK'
    BY <1>14, ToolsAssumption
       DEF Guard, TypeOK, ToolsTypeOK, toolVars, calls, records, Unlock
  <2> QED
    BY <1>14, <2>1, <2>2, LifecycleAssumption DEF Guard, TypeOK, Move
<1>15. ASSUME NEW c \in Call, CallStep(c), UNCHANGED <<pc, body, turn, hasFirst, result, abandoned>>
      PROVE  TypeOK'
  <2>1. InstrumentsTypeOK' /\ ToolsTypeOK'
    BY <1>15, CallTypes DEF TypeOK, TraceInv
  <2> QED
    BY <1>15, <2>1 DEF TypeOK
<1>16. ASSUME Crash
      PROVE  TypeOK'
  <2>1. IsABag(counted)' /\ faults' \in 0..MaxFaults
    BY <1>16, InstrumentsAssumption DEF Crash, EmptyBag, SetToBag, IsABag, Fault, TypeOK,
       InstrumentsTypeOK
  <2>2. InstrumentsTypeOK'
    BY <1>16, <2>1 DEF Crash, TypeOK, InstrumentsTypeOK
  <2>3. ToolsTypeOK'
    BY <1>16 DEF Crash, TypeOK, ToolsTypeOK
  <2> QED
    BY <1>16, <2>2, <2>3, LifecycleAssumption DEF Crash, TypeOK
<1>17. CASE UNCHANGED vars
  BY <1>17 DEF vars, instruments, toolVars, calls, records, TypeOK, InstrumentsTypeOK,
     ToolsTypeOK
<1> QED
  BY <1>1, <1>2, <1>3, <1>4, <1>5, <1>6, <1>7, <1>8, <1>9, <1>10, <1>11, <1>12, <1>13,
      <1>14, <1>15, <1>16, <1>17
  DEF Next

\* A call's step is on no other call's record.
Booking(c) ==
  /\ effects' \in {effects, effects \cup {c}}
  /\ checkpoints' \in {checkpoints, checkpoints \cup {c}}
  /\ steps' \in {steps, steps \cup {c}}
  /\ logged' \in {logged, logged \cup {c}}

\* Every step of a call books its effects as Booking says.
LEMMA CallBooks ==
  ASSUME NEW c \in Call, CallStep(c)
  PROVE  Booking(c)
<1> USE DEF records, Booking
<1>1. CASE Invoke(c)
  BY <1>1 DEF Invoke
<1>2. CASE RejectArguments(c)
  BY <1>2 DEF RejectArguments
<1>3. CASE LookUpTransition(c)
  BY <1>3 DEF LookUpTransition
<1>4. CASE Refused(c)
  BY <1>4 DEF Refused
<1>5. CASE Performed(c)
  BY <1>5 DEF Performed
<1>6. CASE Lost(c)
  BY <1>6 DEF Lost
<1>7. CASE Read(c)
  BY <1>7 DEF Read
<1>8. CASE Record(c)
  BY <1>8 DEF Record
<1>9. CASE CountCall(c)
  BY <1>9 DEF CountCall
<1>10. CASE EmitCall(c)
  BY <1>10 DEF EmitCall
<1>11. CASE Book(c)
  BY <1>11 DEF Book
<1>12. CASE CallFails(c)
  BY <1>12 DEF CallFails
<1> QED
  BY <1>1, <1>2, <1>3, <1>4, <1>5, <1>6, <1>7, <1>8, <1>9, <1>10, <1>11, <1>12 DEF CallStep

\* What is on record of a call that takes a step.
LEMMA CallsRecord ==
  ASSUME TypeOK, FlowInv, CallInv, NEW c \in Call, CallStep(c), UNCHANGED body
  PROVE  CallRecord(c)' /\ (c \in checkpoints' => c \in effects')
<1> USE DEF ToolsTypeOK, TypeOK, CallInv, CallRecord, Goto, Judge, Recorded, Changes,
           calls, records
<1>1. CASE Invoke(c)
  <2>1. CASE IsSubagent(c)
    <3>1. callPc'[c] = "request" /\ verdict'[c] = verdict[c] /\ callPc[c] = "called"
      BY <1>1, <2>1 DEF Invoke
    <3>2. UNCHANGED <<tool, effects, checkpoints, steps, logged>>
      BY <1>1 DEF Invoke
    <3> QED
      BY <3>1, <3>2
  <2>2. CASE ~IsSubagent(c)
    <3>1. \/ callPc'[c] \in {"lookup", "request"} /\ verdict'[c] = verdict[c]
          \/ callPc'[c] = "count" /\ verdict'[c] \in {"forbidden", "unknown"}
      BY <1>1, <2>2 DEF Invoke
    <3>2. callPc[c] = "called" /\ UNCHANGED <<tool, effects, checkpoints, steps, logged>>
      BY <1>1 DEF Invoke
    <3>3. verdict'[c] = "forbidden" => tool[c] \notin Allowed
      BY <1>1, <2>2, <3>2 DEF Invoke
    <3>4. tool[c] \notin Allowed /\ body[RunOf(c)].node # "tool" => FALSE
      <4>1. /\ tool[c] \in Tool
            /\ body[RunOf(c)].node # "tool" => tool[c] \in offered[RunOf(c)]
        BY <3>2 DEF FlowInv, CallFlow
      <4>2. offered[RunOf(c)] \subseteq Specialists \cup Allowed
        BY CallShape DEF FlowInv, RunFlow
      <4> QED
        BY <2>2, <4>1, <4>2 DEF Specialists, IsSubagent
    <3> QED
      BY <3>1, <3>2, <3>3, <3>4
  <2> QED
    BY <2>1, <2>2
<1>2. CASE RejectArguments(c)
  <2>1. /\ callPc[c] \in {"lookup", "request"}
        /\ \/ callPc'[c] = "count" /\ verdict'[c] = "failed"
           \/ callPc'[c] = "raised" /\ verdict'[c] = verdict[c]
        /\ UNCHANGED <<tool, effects, checkpoints, steps, logged>>
    BY <1>2 DEF RejectArguments
  <2> QED
    BY <2>1
<1>3. CASE LookUpTransition(c)
  BY <1>3 DEF LookUpTransition
<1>4. CASE Refused(c)
  <2>1. /\ callPc[c] = "request" /\ callPc'[c] = "count" /\ verdict'[c] = "not_ok"
        /\ UNCHANGED <<tool, effects, checkpoints, steps, logged>>
    BY <1>4 DEF Refused
  <2> QED
    BY <2>1
<1>5. CASE Performed(c)
  <2>1. /\ callPc[c] = "request" /\ effects' = effects \cup {c}
        /\ \/ callPc'[c] = "record" /\ verdict'[c] = verdict[c]
           \/ callPc'[c] = "count" /\ verdict'[c] = "ok" /\ ~Recorded(c)
        /\ UNCHANGED <<tool, checkpoints, steps, logged>>
    BY <1>5 DEF Performed
  <2> QED
    BY <2>1
<1>6. CASE Lost(c)
  <2>1. /\ callPc[c] = "request" /\ effects \subseteq effects'
        /\ \/ callPc'[c] = "count" /\ verdict'[c] = "not_ok"
           \/ callPc'[c] = "raised" /\ verdict'[c] = verdict[c]
        /\ UNCHANGED <<tool, checkpoints, steps, logged>>
    BY <1>6 DEF Lost
  <2> QED
    BY <2>1
<1>7. CASE Read(c)
  <2>1. /\ callPc[c] = "request" /\ ~Recorded(c)
        /\ callPc'[c] = "count" /\ verdict'[c] \in {"ok", "not_ok", "failed"}
        /\ UNCHANGED <<tool, effects, checkpoints, steps, logged>>
    BY <1>7 DEF Read
  <2> QED
    BY <2>1
<1>8. CASE Record(c)
  BY <1>8 DEF Record
<1>9. CASE CountCall(c)
  BY <1>9 DEF CountCall
<1>10. CASE EmitCall(c)
  <2>1. /\ callPc'[c] = AfterEvent(c) /\ callPc[c] = "emit"
        /\ UNCHANGED <<tool, verdict, effects, checkpoints, steps>>
        /\ c \in logged' => c \in logged \/ Booked(c)
    BY <1>10 DEF EmitCall
  <2>2. CASE Booked(c)
    <3>1. AfterEvent(c) = "book"
      BY <2>2 DEF AfterEvent, Booked
    <3> QED
      BY <2>1, <2>2, <3>1 DEF Booked, IsSubagent
  <2>3. CASE ~Booked(c)
    <3>1. AfterEvent(c) \in {"done", "raised"}
      BY <2>3 DEF AfterEvent
    <3> QED
      BY <2>1, <2>3, <3>1 DEF Booked, IsSubagent
  <2> QED
    BY <2>2, <2>3
<1>11. CASE Book(c)
  BY <1>11 DEF Book
<1>12. CASE CallFails(c)
  BY <1>12 DEF CallFails
<1> QED
  BY <1>1, <1>2, <1>3, <1>4, <1>5, <1>6, <1>7, <1>8, <1>9, <1>10, <1>11, <1>12 DEF CallStep

\* And where no call is made or takes a step.
LEMMA NoCall ==
  ASSUME FlowInv, CallInv, UNCHANGED <<callPc, tool, verdict, effects, checkpoints, steps,
  logged>>,
         \A c \in Call : body'[RunOf(c)] = body[RunOf(c)] \/ callPc[c] = "free"
  PROVE  CallInv'
<1>1. ASSUME NEW c \in Call PROVE CallRecord(c)'
  BY <1>1 DEF CallInv, CallRecord, Booked, IsSubagent, Recorded
<1> QED
  BY <1>1 DEF CallInv

\* Making calls disturbs no record: a call that is made has none yet.
LEMMA CallsMade ==
  ASSUME CallInv, NEW r \in Run,
         UNCHANGED <<verdict, effects, checkpoints, steps, logged, body>>,
         \A c \in Call : \/ callPc'[c] = callPc[c] /\ tool'[c] = tool[c]
                         \/ callPc[c] = "free" /\ callPc'[c] = "called"
  PROVE  CallInv'
<1>1. ASSUME NEW c \in Call PROVE CallRecord(c)'
  <2>1. CASE callPc'[c] = callPc[c] /\ tool'[c] = tool[c]
    BY <2>1 DEF CallInv, CallRecord, Booked, IsSubagent, Recorded
  <2>2. CASE callPc[c] = "free" /\ callPc'[c] = "called"
    BY <2>2 DEF CallInv, CallRecord
  <2> QED
    BY <2>1, <2>2
<1> QED
  BY <1>1 DEF CallInv

\* A call is on record as far as it has come.
LEMMA CallNext == IInv /\ [Next]_vars => CallInv'
<1> SUFFICES ASSUME IInv, [Next]_vars PROVE CallInv'
  OBVIOUS
<1> USE DEF IInv
<1>1. ASSUME NEW r \in Run, Begin(r)
      PROVE  CallInv'
  <2>1. /\ UNCHANGED <<callPc, tool, verdict, effects, checkpoints, steps, logged>>
        /\ pc[r] = "new" /\ \A q \in Run \ {r} : body'[q] = body[q]
    BY <1>1 DEF Begin, calls, records, FlowInv
  <2>2. \A c \in Call : body'[RunOf(c)] = body[RunOf(c)] \/ callPc[c] = "free"
    BY <2>1, CallShape DEF FlowInv, CallFlow
  <2> QED
    BY <2>1, <2>2, NoCall
<1>2. ASSUME NEW r \in Run, Compile(r)
      PROVE  CallInv'
  BY <1>2, NoCall DEF Compile, toolVars, calls, records
<1>3. ASSUME NEW r \in Run, LoadSkill(r)
      PROVE  CallInv'
  BY <1>3, NoCall DEF LoadSkill, toolVars, calls, records
<1>4. ASSUME NEW r \in Run, EnterNode(r)
      PROVE  CallInv'
  <2>1. \A c \in Call : RunOf(c) = r => callPc[c] = "free"
    BY <1>4 DEF EnterNode, FlowInv, CallFlow
  <2>2. \/ UNCHANGED <<callPc, tool>>
        \/ Make(r, [c \in {<<r, 1>>} |-> body[r].tool])
    BY <1>4 DEF EnterNode
  <2>3. \A c \in Call : \/ callPc'[c] = callPc[c] /\ tool'[c] = tool[c]
                        \/ callPc[c] = "free" /\ callPc'[c] = "called"
    BY <2>1, <2>2, CallShape DEF Make
  <2> QED
    BY <1>4, <2>3, CallsMade DEF EnterNode, records
<1>5. ASSUME NEW r \in Run, StartGeneration(r)
      PROVE  CallInv'
  BY <1>5, NoCall DEF StartGeneration, toolVars, calls, records
<1>6. ASSUME NEW r \in Run, NewToken(r)
      PROVE  CallInv'
  BY <1>6, NoCall DEF NewToken, toolVars, calls, records
<1>7. ASSUME NEW r \in Run, EndGeneration(r)
      PROVE  CallInv'
  BY <1>7, NoCall DEF EndGeneration, toolVars, calls, records
<1>8. ASSUME NEW r \in Run, CompleteGeneration(r)
      PROVE  CallInv'
  BY <1>8, NoCall DEF CompleteGeneration, toolVars, calls, records
<1>9. ASSUME NEW r \in Run, ModelFails(r)
      PROVE  CallInv'
  BY <1>9, NoCall DEF ModelFails, toolVars, calls, records
<1>10. ASSUME NEW r \in Run, Decide(r)
      PROVE  CallInv'
  <2>1. Turn(r) \/ UNCHANGED <<callPc, tool>>
    BY <1>10 DEF Decide, Turn
  <2>2. \A c \in Call : \/ callPc'[c] = callPc[c] /\ tool'[c] = tool[c]
                        \/ callPc[c] = "free" /\ callPc'[c] = "called"
    BY <2>1, TurnMakes DEF MadeBy
  <2> QED
    BY <1>10, <2>2, CallsMade DEF Decide, records
<1>11. ASSUME NEW r \in Run, LeaveTools(r)
      PROVE  CallInv'
  BY <1>11, NoCall DEF LeaveTools, toolVars, calls, records
<1>12. ASSUME NEW r \in Run, End(r)
      PROVE  CallInv'
  BY <1>12, NoCall DEF End, toolVars, calls, records
<1>13. ASSUME NEW r \in Run, Respond(r)
      PROVE  CallInv'
  BY <1>13, NoCall DEF Respond, toolVars, calls, records
<1>14. ASSUME NEW r \in Run, Guard(r)
      PROVE  CallInv'
  BY <1>14, NoCall DEF Guard, toolVars, calls, records
<1>15. ASSUME NEW c \in Call, CallStep(c), UNCHANGED <<pc, body, turn, hasFirst, result, abandoned>>
      PROVE  CallInv'
  <2>1. Moved(c) /\ Booking(c)
    BY <1>15, CallMoves, CallBooks DEF TypeOK
  <2>2. CallRecord(c)' /\ (c \in checkpoints' => c \in effects')
    BY <1>15, CallsRecord
  <2>3. ASSUME NEW d \in Call, d # c PROVE CallRecord(d)'
    BY <1>15, <2>1, <2>3
       DEF Moved, Booking, CallInv, CallRecord, Booked, IsSubagent, Recorded
  <2> QED
    BY <2>1, <2>2, <2>3 DEF CallInv, Booking
<1>16. ASSUME Crash
      PROVE  CallInv'
  <2>1. ASSUME NEW c \in Call PROVE CallRecord(c)'
    BY <1>16, <2>1 DEF Crash, CallInv, CallRecord
  <2> QED
    BY <1>16, <2>1 DEF Crash, CallInv
<1>17. CASE UNCHANGED vars
  BY <1>17, NoCall DEF vars, instruments, toolVars, calls, records
<1> QED
  BY <1>1, <1>2, <1>3, <1>4, <1>5, <1>6, <1>7, <1>8, <1>9, <1>10, <1>11, <1>12, <1>13,
      <1>14, <1>15, <1>16, <1>17
  DEF Next

\* Only where it is counted does a call pass from the uncounted to the counted.
Passing(c) ==
  /\ tool'[c] = tool[c]
  /\ \/ callPc[c] \in Uncounted /\ callPc'[c] \in Uncounted
     \/ callPc[c] \in Uncounted /\ callPc'[c] = "raised" /\ verdict'[c] = "none"
     \/ callPc[c] \in Counted /\ callPc'[c] \in Counted
     \/ callPc[c] \in Counted /\ callPc'[c] = "raised" /\ verdict'[c] # "none"

\* A call's step that counts nothing passes no stage that is counted.
LEMMA CallsPass ==
  ASSUME TypeOK, CallInv, NEW c \in Call, CallStep(c), ~CountCall(c)
  PROVE  Passing(c) /\ counted' = counted
<1>1. CallRecord(c)
  BY DEF CallInv
<1>2. counted' = counted
  <2>1. CASE Invoke(c)
    BY <2>1 DEF Invoke, instruments
  <2>2. CASE RejectArguments(c)
    BY <2>2 DEF RejectArguments, instruments
  <2>3. CASE LookUpTransition(c)
    BY <2>3 DEF LookUpTransition, instruments
  <2>4. CASE Refused(c)
    BY <2>4 DEF Refused, instruments
  <2>5. CASE Performed(c)
    BY <2>5 DEF Performed, instruments
  <2>6. CASE Lost(c)
    BY <2>6 DEF Lost, instruments
  <2>7. CASE Read(c)
    BY <2>7 DEF Read, instruments
  <2>8. CASE Record(c)
    BY <2>8 DEF Record, instruments
  <2>10. CASE EmitCall(c)
    BY <2>10 DEF EmitCall, instruments
  <2>11. CASE Book(c)
    BY <2>11 DEF Book, instruments
  <2>12. CASE CallFails(c)
    BY <2>12 DEF CallFails, instruments
  <2> QED
    BY <2>1, <2>2, <2>3, <2>4, <2>5, <2>6, <2>7, <2>8, <2>10, <2>11, <2>12 DEF CallStep
<1> USE DEF TypeOK, ToolsTypeOK, CallRecord, Goto, Judge, calls, records, Uncounted,
           Counted, Passing
<1>3. Passing(c)
  <2>1. CASE Invoke(c)
    <3>1. /\ callPc[c] = "called" /\ tool'[c] = tool[c]
          /\ callPc'[c] \in {"count", "lookup", "request"}
      BY <2>1 DEF Invoke
    <3> QED
      BY <3>1
  <2>2. CASE RejectArguments(c)
    <3>1. /\ callPc[c] \in {"lookup", "request"} /\ tool'[c] = tool[c]
          /\ \/ callPc'[c] = "count"
             \/ callPc'[c] = "raised" /\ verdict'[c] = verdict[c]
      BY <2>2 DEF RejectArguments
    <3> QED
      BY <1>1, <3>1
  <2>3. CASE LookUpTransition(c)
    BY <1>1, <2>3 DEF LookUpTransition
  <2>4. CASE Refused(c)
    BY <1>1, <2>4 DEF Refused
  <2>5. CASE Performed(c)
    BY <1>1, <2>5 DEF Performed
  <2>6. CASE Lost(c)
    <3>1. /\ callPc[c] = "request" /\ tool'[c] = tool[c]
          /\ \/ callPc'[c] = "count"
             \/ callPc'[c] = "raised" /\ verdict'[c] = verdict[c]
      BY <2>6 DEF Lost
    <3> QED
      BY <1>1, <3>1
  <2>7. CASE Read(c)
    BY <1>1, <2>7 DEF Read
  <2>8. CASE Record(c)
    BY <1>1, <2>8 DEF Record
  <2>10. CASE EmitCall(c)
    <3>1. AfterEvent(c) \in {"book", "done", "raised"}
      BY DEF AfterEvent
    <3>2. callPc[c] = "emit" /\ callPc'[c] = AfterEvent(c) /\ UNCHANGED <<tool, verdict>>
      BY <2>10 DEF EmitCall
    <3> QED
      BY <1>1, <3>1, <3>2
  <2>11. CASE Book(c)
    BY <1>1, <2>11 DEF Book
  <2>12. CASE CallFails(c)
    <3>1. /\ callPc[c] \in {"record", "emit", "book"} /\ callPc'[c] = "raised"
          /\ UNCHANGED <<tool, verdict>>
      BY <2>12 DEF CallFails
    <3> QED
      BY <1>1, <3>1
  <2> QED
    BY <2>1, <2>2, <2>3, <2>4, <2>5, <2>6, <2>7, <2>8, <2>10, <2>11, <2>12 DEF CallStep
<1> QED
  BY <1>2, <1>3

\* A call keeps its counts where neither moves.
LEMMA CountsKept ==
  ASSUME NEW c \in Call, CallCount(c), SameCallCounts,
         \/ callPc'[c] = callPc[c] /\ verdict'[c] = verdict[c] /\ tool'[c] = tool[c]
         \/ callPc[c] = "free" /\ callPc'[c] = "called"
         \/ callPc'[c] = "gone"
         \/ Passing(c)
  PROVE  CallCount(c)'
<1>1. tool'[c] = tool[c] => CallMetric(c)' = CallMetric(c)
  BY DEF CallMetric, IsSubagent
<1>2. \A m \in CallMetrics : Copies(m, c)' = Copies(m, c)
  BY DEF SameCallCounts
<1>3. CASE callPc'[c] = callPc[c] /\ verdict'[c] = verdict[c] /\ tool'[c] = tool[c]
  BY <1>1, <1>2, <1>3 DEF CallCount
<1>4. CASE callPc[c] = "free" /\ callPc'[c] = "called"
  BY <1>2, <1>4 DEF CallCount, Uncounted, Counted
<1>5. CASE callPc'[c] = "gone"
  BY <1>5 DEF CallCount, Uncounted, Counted
<1>6. CASE Passing(c)
  <2>1. CASE callPc[c] \in Uncounted
    BY <1>1, <1>2, <1>6, <2>1 DEF Passing, CallCount, Uncounted, Counted
  <2>2. CASE callPc[c] \in Counted
    BY <1>1, <1>2, <1>6, <2>2 DEF Passing, CallCount, Uncounted, Counted
  <2> QED
    BY <1>6, <2>1, <2>2 DEF Passing
<1> QED
  BY <1>3, <1>4, <1>5, <1>6

\* Where nothing is counted, no count changes.
LEMMA NothingCounted ==
  ASSUME counted' = counted
  PROVE  SameCallCounts /\ SameTokens
BY DEF SameCallCounts, SameTokens, FirstTokens, Generations, Copies

\* What happens to the counts when a run, not a call, takes a step.
LEMMA RunCounts ==
  ASSUME TypeOK, NEW r \in Run,
         \/ Begin(r) \/ LoadSkill(r) \/ End(r) \/ Respond(r) \/ Guard(r)
  PROVE  SameCallCounts /\ SameTokens
<1> DEFINE E == {RunStarted(r), RunEnded(r), Responded(r), SkillLoaded(r), SkillFailed(r)}
<1>1. IsABag(counted)
  BY DEF TypeOK, InstrumentsTypeOK
<1>2. \/ counted' = counted
      \/ \E e \in E : Publish(e) \/ PublishRaises(e)
  BY DEF Begin, LoadSkill, End, Respond, Guard, instruments
<1>3. \/ counted' = counted
      \/ \E e \in E : Count(e)
  BY <1>2 DEF Publish, PublishRaises
<1> QED
  BY <1>1, <1>3, NothingCounted, RunEvents

\* The model's callbacks count for no call.
LEMMA ModelCounts ==
  ASSUME TypeOK, NEW r \in Run, NewToken(r) \/ EndGeneration(r) \/ CompleteGeneration(r)
  PROVE  SameCallCounts
<1> DEFINE E == {FirstToken(r, Generation(r)), Generated(r, Generation(r))}
<1>1. IsABag(counted) /\ turn[r] \in Nat
  BY DEF TypeOK, InstrumentsTypeOK
<1>2. \/ counted' = counted
      \/ \E e \in E : Publish(e) \/ PublishRaises(e)
  BY DEF NewToken, EndGeneration, CompleteGeneration, instruments
<1>3. \/ counted' = counted
      \/ \E e \in E : Count(e)
  BY <1>2 DEF Publish, PublishRaises
<1> QED
  BY <1>1, <1>3, NothingCounted, TokenEvents

\* A call is counted once, when it has come that far.
LEMMA CountNext == IInv /\ [Next]_vars => CountInv'
<1> SUFFICES ASSUME IInv, [Next]_vars PROVE CountInv'
  OBVIOUS
<1> USE DEF IInv
<1>1. ASSUME NEW r \in Run, Begin(r)
      PROVE  CountInv'
  <2>1. SameCallCounts
    BY <1>1, RunCounts
  <2>2. UNCHANGED <<callPc, verdict, tool>>
    BY <1>1 DEF Begin, toolVars, calls
  <2> QED
    BY <2>1, <2>2, CountsKept DEF CountInv
<1>2. ASSUME NEW r \in Run, Compile(r)
      PROVE  CountInv'
  <2>1. counted' = counted /\ UNCHANGED <<callPc, verdict, tool>>
    BY <1>2 DEF Compile, instruments, toolVars, calls
  <2> QED
    BY <2>1, NothingCounted, CountsKept DEF CountInv
<1>3. ASSUME NEW r \in Run, LoadSkill(r)
      PROVE  CountInv'
  <2>1. SameCallCounts
    BY <1>3, RunCounts
  <2>2. UNCHANGED <<callPc, verdict, tool>>
    BY <1>3 DEF LoadSkill, toolVars, calls
  <2> QED
    BY <2>1, <2>2, CountsKept DEF CountInv
<1>4. ASSUME NEW r \in Run, EnterNode(r)
      PROVE  CountInv'
  <2>1. counted' = counted /\ UNCHANGED verdict
    BY <1>4 DEF EnterNode, instruments
  <2>2. \A c \in Call : RunOf(c) = r => callPc[c] = "free"
    BY <1>4 DEF EnterNode, FlowInv, CallFlow
  <2>3. \/ UNCHANGED <<callPc, tool>>
        \/ Make(r, [c \in {<<r, 1>>} |-> body[r].tool])
    BY <1>4 DEF EnterNode
  <2>4. \A c \in Call : \/ callPc'[c] = callPc[c] /\ tool'[c] = tool[c]
                        \/ callPc[c] = "free" /\ callPc'[c] = "called"
    BY <2>2, <2>3, CallShape DEF Make
  <2> QED
    BY <2>1, <2>4, NothingCounted, CountsKept DEF CountInv
<1>5. ASSUME NEW r \in Run, StartGeneration(r)
      PROVE  CountInv'
  <2>1. counted' = counted /\ UNCHANGED <<callPc, verdict, tool>>
    BY <1>5 DEF StartGeneration, instruments, toolVars, calls
  <2> QED
    BY <2>1, NothingCounted, CountsKept DEF CountInv
<1>6. ASSUME NEW r \in Run, NewToken(r)
      PROVE  CountInv'
  <2>1. SameCallCounts
    BY <1>6, ModelCounts
  <2>2. UNCHANGED <<callPc, verdict, tool>>
    BY <1>6 DEF NewToken, toolVars, calls
  <2> QED
    BY <2>1, <2>2, CountsKept DEF CountInv
<1>7. ASSUME NEW r \in Run, EndGeneration(r)
      PROVE  CountInv'
  <2>1. SameCallCounts
    BY <1>7, ModelCounts
  <2>2. UNCHANGED <<callPc, verdict, tool>>
    BY <1>7 DEF EndGeneration, toolVars, calls
  <2> QED
    BY <2>1, <2>2, CountsKept DEF CountInv
<1>8. ASSUME NEW r \in Run, CompleteGeneration(r)
      PROVE  CountInv'
  <2>1. SameCallCounts
    BY <1>8, ModelCounts
  <2>2. UNCHANGED <<callPc, verdict, tool>>
    BY <1>8 DEF CompleteGeneration, toolVars, calls
  <2> QED
    BY <2>1, <2>2, CountsKept DEF CountInv
<1>9. ASSUME NEW r \in Run, ModelFails(r)
      PROVE  CountInv'
  <2>1. counted' = counted /\ UNCHANGED <<callPc, verdict, tool>>
    BY <1>9 DEF ModelFails, instruments, toolVars, calls
  <2> QED
    BY <2>1, NothingCounted, CountsKept DEF CountInv
<1>10. ASSUME NEW r \in Run, Decide(r)
      PROVE  CountInv'
  <2>1. Turn(r) \/ UNCHANGED <<callPc, tool>>
    BY <1>10 DEF Decide, Turn
  <2>2. \A c \in Call : \/ callPc'[c] = callPc[c] /\ tool'[c] = tool[c]
                        \/ callPc[c] = "free" /\ callPc'[c] = "called"
    BY <2>1, TurnMakes DEF MadeBy
  <2>3. counted' = counted /\ UNCHANGED verdict
    BY <1>10 DEF Decide, instruments
  <2> QED
    BY <2>2, <2>3, NothingCounted, CountsKept DEF CountInv
<1>11. ASSUME NEW r \in Run, LeaveTools(r)
      PROVE  CountInv'
  <2>1. counted' = counted /\ UNCHANGED <<callPc, verdict, tool>>
    BY <1>11 DEF LeaveTools, instruments, toolVars, calls
  <2> QED
    BY <2>1, NothingCounted, CountsKept DEF CountInv
<1>12. ASSUME NEW r \in Run, End(r)
      PROVE  CountInv'
  <2>1. SameCallCounts
    BY <1>12, RunCounts
  <2>2. UNCHANGED <<callPc, verdict, tool>>
    BY <1>12 DEF End, toolVars, calls
  <2> QED
    BY <2>1, <2>2, CountsKept DEF CountInv
<1>13. ASSUME NEW r \in Run, Respond(r)
      PROVE  CountInv'
  <2>1. SameCallCounts
    BY <1>13, RunCounts
  <2>2. UNCHANGED <<callPc, verdict, tool>>
    BY <1>13 DEF Respond, toolVars, calls
  <2> QED
    BY <2>1, <2>2, CountsKept DEF CountInv
<1>14. ASSUME NEW r \in Run, Guard(r)
      PROVE  CountInv'
  <2>1. SameCallCounts
    BY <1>14, RunCounts
  <2>2. UNCHANGED <<callPc, verdict, tool>>
    BY <1>14 DEF Guard, toolVars, calls
  <2> QED
    BY <2>1, <2>2, CountsKept DEF CountInv
<1>15. ASSUME NEW c \in Call, CallStep(c), UNCHANGED <<pc, body, turn, hasFirst, result, abandoned>>
      PROVE  CountInv'
  <2>1. Moved(c) /\ CallRecord(c) /\ IsABag(counted)
    BY <1>15, CallMoves DEF TypeOK, CallInv, InstrumentsTypeOK
  <2>2. ASSUME NEW d \in Call PROVE CallCount(d)'
    <3>1. CASE ~CountCall(c)
      <4>1. Passing(c) /\ SameCallCounts
        BY <1>15, <3>1, CallsPass, NothingCounted
      <4>2. d # c => callPc'[d] = callPc[d] /\ verdict'[d] = verdict[d] /\ tool'[d] = tool[d]
        BY <2>1 DEF Moved
      <4>3. CallCount(d)
        BY DEF CountInv
      <4> QED
        BY <4>1, <4>2, <4>3, CountsKept
    <3>2. CASE CountCall(c)
      <4>1. \A m \in CallMetrics :
              Copies(m, d)' = Copies(m, d) + IF d = c /\ m = CallMetric(c) THEN 1 ELSE 0
        BY <2>1, <3>2, CallEvents DEF CountCall
      <4>2. callPc[c] = "count" /\ callPc'[c] = "emit" /\ UNCHANGED <<tool, verdict>>
        BY <3>2 DEF CountCall, Goto, TypeOK, ToolsTypeOK
      <4>3. CallCount(d) /\ CallMetric(d)' = CallMetric(d)
        BY <4>2 DEF CountInv, CallMetric, IsSubagent
      <4>4. CASE d = c
        BY <4>1, <4>2, <4>3, <4>4 DEF CallCount, Uncounted, Counted
      <4>5. CASE d # c
        <5>1. callPc'[d] = callPc[d] /\ verdict'[d] = verdict[d]
          BY <2>1, <4>5 DEF Moved
        <5>2. \A m, s : Copies(m, s) \in Nat
          BY <2>1, <3>2, CountCopies DEF CountCall
        <5>3. \A m \in CallMetrics : Copies(m, d)' = Copies(m, d)
          BY <4>1, <4>5, <5>2
        <5> QED
          BY <4>3, <5>1, <5>3 DEF CallCount
      <4> QED
        BY <4>4, <4>5
    <3> QED
      BY <3>1, <3>2
  <2> QED
    BY <2>2 DEF CountInv
<1>16. ASSUME Crash
      PROVE  CountInv'
  <2>1. \A m, s : Copies(m, s)' = 0
    BY <1>16 DEF Crash, EmptyBag, SetToBag, Copies, BagIn, BagToSet
  <2>2. ASSUME NEW c \in Call PROVE CallCount(c)'
    BY <1>16, <2>1 DEF Crash, CallCount, Uncounted, Counted
  <2> QED
    BY <2>2 DEF CountInv
<1>17. CASE UNCHANGED vars
  BY <1>17, NothingCounted, CountsKept DEF vars, instruments, toolVars, calls, CountInv
<1> QED
  BY <1>1, <1>2, <1>3, <1>4, <1>5, <1>6, <1>7, <1>8, <1>9, <1>10, <1>11, <1>12, <1>13,
      <1>14, <1>15, <1>16, <1>17
  DEF Next

\* Where no generation is counted, a run keeps its tokens, as the faults never
\* become fewer.
LEMMA CopiesAreNumbers ==
  ASSUME TypeOK, NEW r, NEW t
  PROVE  FirstTokens(r, t) \in Nat /\ Generations(r, t) \in Nat
BY DEF TypeOK, InstrumentsTypeOK, FirstTokens, Generations, Copies, BagIn, BagToSet, IsABag

\* What was said of a generation's tokens stays said, as long as it does not
\* get on and its counts stay.
LEMMA TokensKept ==
  ASSUME TypeOK, faults' \in Nat, faults <= faults', NEW q \in Run, NEW t \in Nat, TokensAt(q, t),
         FirstTokens(q, t)' = FirstTokens(q, t), Generations(q, t)' = Generations(q, t),
         turn'[q] = turn[q],
         \/ pc'[q] = pc[q] /\ hasFirst'[q] = hasFirst[q]
         \/ pc'[q] \notin {"generating", "generated"}
         \/ turn[q] # t
  PROVE  TokensAt(q, t)'
<1>1. /\ FirstTokens(q, t) \in Nat /\ Generations(q, t) \in Nat
      /\ turn[q] \in Nat /\ faults \in Nat
  BY CopiesAreNumbers DEF TypeOK, InstrumentsTypeOK
<1> QED
  BY <1>1 DEF TokensAt

\* Exceptions only add to the faults.
LEMMA FaultsGrow == TypeOK /\ TypeOK' /\ [Next]_vars => faults' \in Nat /\ faults <= faults'
<1> SUFFICES ASSUME TypeOK, TypeOK', [Next]_vars PROVE faults' \in Nat /\ faults <= faults'
  OBVIOUS
<1>1. faults \in Nat /\ faults' \in Nat
  BY DEF TypeOK, InstrumentsTypeOK
<1>2. \/ faults' = faults
      \/ faults' = faults + 1
  <2>1. ASSUME NEW r \in Run, Begin(r)
        PROVE  faults' = faults \/ faults' = faults + 1
    BY <2>1 DEF Begin, Publish, PublishRaises, Fault, instruments
  <2>2. ASSUME NEW r \in Run, Compile(r)
        PROVE  faults' = faults \/ faults' = faults + 1
    BY <2>2 DEF Compile, Publish, PublishRaises, Fault, instruments
  <2>3. ASSUME NEW r \in Run, LoadSkill(r)
        PROVE  faults' = faults \/ faults' = faults + 1
    BY <2>3 DEF LoadSkill, Publish, PublishRaises, Fault, instruments
  <2>4. ASSUME NEW r \in Run, EnterNode(r)
        PROVE  faults' = faults \/ faults' = faults + 1
    BY <2>4 DEF EnterNode, Publish, PublishRaises, Fault, instruments
  <2>5. ASSUME NEW r \in Run, StartGeneration(r)
        PROVE  faults' = faults \/ faults' = faults + 1
    BY <2>5 DEF StartGeneration, Publish, PublishRaises, Fault, instruments
  <2>6. ASSUME NEW r \in Run, NewToken(r)
        PROVE  faults' = faults \/ faults' = faults + 1
    BY <2>6 DEF NewToken, Publish, PublishRaises, Fault, instruments
  <2>7. ASSUME NEW r \in Run, EndGeneration(r)
        PROVE  faults' = faults \/ faults' = faults + 1
    BY <2>7 DEF EndGeneration, Publish, PublishRaises, Fault, instruments
  <2>8. ASSUME NEW r \in Run, CompleteGeneration(r)
        PROVE  faults' = faults \/ faults' = faults + 1
    BY <2>8 DEF CompleteGeneration, Publish, PublishRaises, Fault, instruments
  <2>9. ASSUME NEW r \in Run, ModelFails(r)
        PROVE  faults' = faults \/ faults' = faults + 1
    BY <2>9 DEF ModelFails, Publish, PublishRaises, Fault, instruments
  <2>10. ASSUME NEW r \in Run, Decide(r)
        PROVE  faults' = faults \/ faults' = faults + 1
    BY <2>10 DEF Decide, Publish, PublishRaises, Fault, instruments
  <2>11. ASSUME NEW r \in Run, LeaveTools(r)
        PROVE  faults' = faults \/ faults' = faults + 1
    BY <2>11 DEF LeaveTools, Publish, PublishRaises, Fault, instruments
  <2>12. ASSUME NEW r \in Run, End(r)
        PROVE  faults' = faults \/ faults' = faults + 1
    BY <2>12 DEF End, Publish, PublishRaises, Fault, instruments
  <2>13. ASSUME NEW r \in Run, Respond(r)
        PROVE  faults' = faults \/ faults' = faults + 1
    BY <2>13 DEF Respond, Publish, PublishRaises, Fault, instruments
  <2>14. ASSUME NEW r \in Run, Guard(r)
        PROVE  faults' = faults \/ faults' = faults + 1
    BY <2>14 DEF Guard, Publish, PublishRaises, Fault, instruments
  <2>15. ASSUME NEW c \in Call, Invoke(c)
        PROVE  faults' = faults \/ faults' = faults + 1
    BY <2>15 DEF Invoke, Publish, PublishRaises, Fault, instruments
  <2>16. ASSUME NEW c \in Call, RejectArguments(c)
        PROVE  faults' = faults \/ faults' = faults + 1
    BY <2>16 DEF RejectArguments, Publish, PublishRaises, Fault, instruments
  <2>17. ASSUME NEW c \in Call, LookUpTransition(c)
        PROVE  faults' = faults \/ faults' = faults + 1
    BY <2>17 DEF LookUpTransition, Publish, PublishRaises, Fault, instruments
  <2>18. ASSUME NEW c \in Call, Refused(c)
        PROVE  faults' = faults \/ faults' = faults + 1
    BY <2>18 DEF Refused, Publish, PublishRaises, Fault, instruments
  <2>19. ASSUME NEW c \in Call, Performed(c)
        PROVE  faults' = faults \/ faults' = faults + 1
    BY <2>19 DEF Performed, Publish, PublishRaises, Fault, instruments
  <2>20. ASSUME NEW c \in Call, Lost(c)
        PROVE  faults' = faults \/ faults' = faults + 1
    BY <2>20 DEF Lost, Publish, PublishRaises, Fault, instruments
  <2>21. ASSUME NEW c \in Call, Read(c)
        PROVE  faults' = faults \/ faults' = faults + 1
    BY <2>21 DEF Read, Publish, PublishRaises, Fault, instruments
  <2>22. ASSUME NEW c \in Call, Record(c)
        PROVE  faults' = faults \/ faults' = faults + 1
    BY <2>22 DEF Record, Publish, PublishRaises, Fault, instruments
  <2>23. ASSUME NEW c \in Call, CountCall(c)
        PROVE  faults' = faults \/ faults' = faults + 1
    BY <2>23 DEF CountCall, Publish, PublishRaises, Fault, instruments
  <2>24. ASSUME NEW c \in Call, EmitCall(c)
        PROVE  faults' = faults \/ faults' = faults + 1
    BY <2>24 DEF EmitCall, Publish, PublishRaises, Fault, instruments
  <2>25. ASSUME NEW c \in Call, Book(c)
        PROVE  faults' = faults \/ faults' = faults + 1
    BY <2>25 DEF Book, Publish, PublishRaises, Fault, instruments
  <2>26. ASSUME NEW c \in Call, CallFails(c)
        PROVE  faults' = faults \/ faults' = faults + 1
    BY <2>26 DEF CallFails, Publish, PublishRaises, Fault, instruments
  <2>27. ASSUME Crash
        PROVE  faults' = faults \/ faults' = faults + 1
    BY <2>27 DEF Crash, Publish, PublishRaises, Fault, instruments
  <2>28. CASE UNCHANGED vars
    BY <2>28 DEF vars, instruments
  <2> QED
    BY <2>1, <2>2, <2>3, <2>4, <2>5, <2>6, <2>7, <2>8, <2>9, <2>10, <2>11, <2>12, <2>13,
       <2>14, <2>15, <2>16, <2>17, <2>18, <2>19, <2>20, <2>21, <2>22, <2>23, <2>24, <2>25,
       <2>26, <2>27, <2>28
       DEF Next, CallStep
<1> QED
  BY <1>1, <1>2

\* Calls count no tokens.
LEMMA CallTokens ==
  ASSUME TypeOK, CallInv, NEW c \in Call, CallStep(c)
  PROVE  SameTokens
<1>1. CASE CountCall(c)
  BY <1>1, CallEvents DEF CountCall, TypeOK, InstrumentsTypeOK
<1>2. CASE ~CountCall(c)
  BY <1>2, CallsPass, NothingCounted
<1> QED
  BY <1>1, <1>2

\* A generation that is counted has had its first token.
LEMMA TokenNext == IInv /\ [Next]_vars => TokenInv'
<1> SUFFICES ASSUME IInv, [Next]_vars PROVE TokenInv'
  OBVIOUS
<1>a. faults' \in Nat /\ faults <= faults'
  BY TypeNext, FaultsGrow DEF IInv
<1> USE DEF IInv
<1>1. ASSUME NEW r \in Run, Begin(r)
      PROVE  TokenInv'
  <2>1. SameTokens /\ UNCHANGED turn
    <3>1. UNCHANGED turn
      BY <1>1 DEF Begin
    <3> QED
      BY <1>1, <3>1, RunCounts
  <2>2. \A q \in Run : \/ pc'[q] = pc[q] /\ hasFirst'[q] = hasFirst[q]
                      \/ pc'[q] \notin {"generating", "generated"}
    BY <1>1 DEF Begin, Move, TypeOK
  <2> QED
    BY <1>a, <2>1, <2>2, TokensKept DEF SameTokens, TokenInv
<1>2. ASSUME NEW r \in Run, Compile(r)
      PROVE  TokenInv'
  <2>1. SameTokens /\ UNCHANGED turn
    <3>1. UNCHANGED turn
      BY <1>2 DEF Compile
    <3> QED
      BY <1>2, <3>1, NothingCounted DEF Compile, instruments
  <2>2. \A q \in Run : \/ pc'[q] = pc[q] /\ hasFirst'[q] = hasFirst[q]
                      \/ pc'[q] \notin {"generating", "generated"}
    BY <1>2 DEF Compile, Move, TypeOK
  <2> QED
    BY <1>a, <2>1, <2>2, TokensKept DEF SameTokens, TokenInv
<1>3. ASSUME NEW r \in Run, LoadSkill(r)
      PROVE  TokenInv'
  <2>1. SameTokens /\ UNCHANGED turn
    <3>1. UNCHANGED turn
      BY <1>3 DEF LoadSkill
    <3> QED
      BY <1>3, <3>1, RunCounts
  <2>2. \A q \in Run : \/ pc'[q] = pc[q] /\ hasFirst'[q] = hasFirst[q]
                      \/ pc'[q] \notin {"generating", "generated"}
    BY <1>3 DEF LoadSkill, Move, TypeOK
  <2> QED
    BY <1>a, <2>1, <2>2, TokensKept DEF SameTokens, TokenInv
<1>4. ASSUME NEW r \in Run, EnterNode(r)
      PROVE  TokenInv'
  <2>1. SameTokens /\ UNCHANGED turn
    <3>1. UNCHANGED turn
      BY <1>4 DEF EnterNode
    <3> QED
      BY <1>4, <3>1, NothingCounted DEF EnterNode, instruments
  <2>2. \A q \in Run : \/ pc'[q] = pc[q] /\ hasFirst'[q] = hasFirst[q]
                      \/ pc'[q] \notin {"generating", "generated"}
    BY <1>4 DEF EnterNode, Move, TypeOK
  <2> QED
    BY <1>a, <2>1, <2>2, TokensKept DEF SameTokens, TokenInv
<1>5. ASSUME NEW r \in Run, StartGeneration(r)
      PROVE  TokenInv'
  <2>1. /\ pc'[r] = "generating" /\ ~hasFirst'[r] /\ turn'[r] = turn[r] + 1
        /\ \A q \in Run \ {r} :
             pc'[q] = pc[q] /\ hasFirst'[q] = hasFirst[q] /\ turn'[q] = turn[q]
    BY <1>5 DEF StartGeneration, Move, TypeOK
  <2>2. SameTokens /\ faults' = faults
    BY <1>5, NothingCounted DEF StartGeneration, instruments
  <2>3. turn[r] \in Nat /\ faults \in Nat
    BY DEF TypeOK, InstrumentsTypeOK
  <2>4. ASSUME NEW t \in Nat PROVE TokensAt(r, t)'
    <3>1. TokensAt(r, t) /\ FirstTokens(r, t) \in Nat /\ Generations(r, t) \in Nat
      BY CopiesAreNumbers DEF TokenInv
    <3>2. FirstTokens(r, t)' = FirstTokens(r, t) /\ Generations(r, t)' = Generations(r, t)
      BY <2>2 DEF SameTokens
    <3> QED
      BY <2>1, <2>2, <2>3, <3>1, <3>2 DEF TokensAt
  <2>5. ASSUME NEW q \in Run, NEW t \in Nat, q # r PROVE TokensAt(q, t)'
    BY <1>a, <2>1, <2>2, <2>5, TokensKept DEF SameTokens, TokenInv
  <2> QED
    BY <2>4, <2>5 DEF TokenInv
<1>6. ASSUME NEW r \in Run, NewToken(r)
      PROVE  TokenInv'
  <2>1. \A q \in Run : q # r => pc'[q] = pc[q] /\ hasFirst'[q] = hasFirst[q]
    BY <1>6 DEF NewToken, Move, TypeOK
  <2>2. ASSUME NEW t \in Nat
        PROVE  TokensAt(r, t) /\ FirstTokens(r, t) \in Nat /\ Generations(r, t) \in Nat
    BY CopiesAreNumbers DEF TokenInv
  <2>3. turn[r] \in Nat /\ faults \in Nat /\ turn' = turn
    BY <1>6 DEF NewToken, TypeOK, InstrumentsTypeOK
  <2>4. Count(FirstToken(r, Generation(r)))
    BY <1>6 DEF NewToken, Publish, PublishRaises
  <2>5. FirstToken(r, Generation(r)) # Generated(r, Generation(r))
    BY DEF FirstToken, Generated, Event
  <2>6. \A q \in Run : \A t \in Nat :
          /\ FirstTokens(q, t)' = FirstTokens(q, t) + IF q = r /\ t = turn[r] THEN 1 ELSE 0
          /\ Generations(q, t)' = Generations(q, t) + 0
    BY <2>3, <2>4, <2>5, TokenEvents DEF TypeOK, InstrumentsTypeOK
  <2>7. ASSUME NEW t \in Nat, t = turn[r] PROVE TokensAt(r, t)'
    <3>1. pc[r] = "generating" /\ ~hasFirst[r] /\ UNCHANGED pc
      BY <1>6 DEF NewToken
    <3>2. \/ hasFirst'[r] /\ faults' = faults
          \/ ~hasFirst'[r] /\ faults' = faults + 1
      BY <1>6 DEF NewToken, Publish, PublishRaises, Fault, TypeOK
    <3> QED
      BY <2>6, <2>2, <2>3, <2>7, <3>1, <3>2 DEF TokensAt
  <2>8. ASSUME NEW q \in Run, NEW t \in Nat, q # r \/ t # turn[q] PROVE TokensAt(q, t)'
    <3>1. FirstTokens(q, t)' = FirstTokens(q, t) /\ Generations(q, t)' = Generations(q, t)
      BY <2>6, <2>8, CopiesAreNumbers
    <3> QED
      BY <1>a, <2>1, <2>3, <2>8, <3>1, TokensKept DEF TokenInv
  <2> QED
    BY <2>7, <2>8 DEF TokenInv
<1>7. ASSUME NEW r \in Run, EndGeneration(r)
      PROVE  TokenInv'
  <2>1. \A q \in Run : q # r => pc'[q] = pc[q] /\ hasFirst'[q] = hasFirst[q]
    BY <1>7 DEF EndGeneration, Move, TypeOK
  <2>2. ASSUME NEW t \in Nat
        PROVE  TokensAt(r, t) /\ FirstTokens(r, t) \in Nat /\ Generations(r, t) \in Nat
    BY CopiesAreNumbers DEF TokenInv
  <2>3. turn[r] \in Nat /\ faults \in Nat /\ turn' = turn
    BY <1>7 DEF EndGeneration, TypeOK, InstrumentsTypeOK
  <2>4. CASE hasFirst[r]
    <3>1. counted' = counted /\ pc[r] = "generating" /\ pc'[r] = "generated" /\ faults' = faults
      BY <1>7, <2>4 DEF EndGeneration, Move, TypeOK, instruments
    <3>2. \A q \in Run : \A t \in Nat :
            FirstTokens(q, t)' = FirstTokens(q, t) /\ Generations(q, t)' = Generations(q, t)
      BY <3>1, NothingCounted DEF SameTokens
    <3>3. ASSUME NEW t \in Nat, t = turn[r] PROVE TokensAt(r, t)'
      BY <2>2, <2>3, <2>4, <3>1, <3>2, <3>3 DEF TokensAt
    <3>4. ASSUME NEW q \in Run, NEW t \in Nat, q # r \/ t # turn[q] PROVE TokensAt(q, t)'
      BY <1>a, <2>1, <2>3, <3>2, <3>4, TokensKept DEF TokenInv
    <3> QED
      BY <3>3, <3>4 DEF TokenInv
  <2>5. CASE ~hasFirst[r]
    <3>1. /\ Count(FirstToken(r, Generation(r))) /\ pc[r] = "generating"
          /\ \/ pc'[r] = "generated" /\ faults' = faults
             \/ pc'[r] = "decide"
      BY <1>7, <2>5 DEF EndGeneration, Publish, PublishRaises, Move, TypeOK
    <3>2. FirstToken(r, Generation(r)) # Generated(r, Generation(r))
      BY DEF FirstToken, Generated, Event
    <3>3. \A q \in Run : \A t \in Nat :
            /\ FirstTokens(q, t)' = FirstTokens(q, t) + IF q = r /\ t = turn[r] THEN 1 ELSE 0
            /\ Generations(q, t)' = Generations(q, t) + 0
      BY <2>3, <3>1, <3>2, TokenEvents DEF TypeOK, InstrumentsTypeOK
    <3>4. ASSUME NEW t \in Nat, t = turn[r] PROVE TokensAt(r, t)'
      BY <2>2, <2>3, <2>5, <3>1, <3>3, <3>4 DEF TokensAt
    <3>5. ASSUME NEW q \in Run, NEW t \in Nat, q # r \/ t # turn[q] PROVE TokensAt(q, t)'
      <4>1. FirstTokens(q, t)' = FirstTokens(q, t) /\ Generations(q, t)' = Generations(q, t)
        BY <3>3, <3>5, CopiesAreNumbers
      <4> QED
        BY <1>a, <2>1, <2>3, <3>5, <4>1, TokensKept DEF TokenInv
    <3> QED
      BY <3>4, <3>5 DEF TokenInv
  <2> QED
    BY <2>4, <2>5
<1>8. ASSUME NEW r \in Run, CompleteGeneration(r)
      PROVE  TokenInv'
  <2>1. \A q \in Run : q # r => pc'[q] = pc[q] /\ hasFirst'[q] = hasFirst[q]
    BY <1>8 DEF CompleteGeneration, Move, TypeOK
  <2>2. ASSUME NEW t \in Nat
        PROVE  TokensAt(r, t) /\ FirstTokens(r, t) \in Nat /\ Generations(r, t) \in Nat
    BY CopiesAreNumbers DEF TokenInv
  <2>3. turn[r] \in Nat /\ faults \in Nat /\ turn' = turn
    BY <1>8 DEF CompleteGeneration, TypeOK, InstrumentsTypeOK
  <2>4. Count(Generated(r, Generation(r))) /\ pc[r] = "generated" /\ pc'[r] = "decide"
    BY <1>8 DEF CompleteGeneration, Publish, PublishRaises, Move, TypeOK
  <2>5. FirstToken(r, Generation(r)) # Generated(r, Generation(r))
    BY DEF FirstToken, Generated, Event
  <2>6. \A q \in Run : \A t \in Nat :
          /\ FirstTokens(q, t)' = FirstTokens(q, t) + 0
          /\ Generations(q, t)' = Generations(q, t) + IF q = r /\ t = turn[r] THEN 1 ELSE 0
    BY <2>3, <2>4, <2>5, TokenEvents DEF TypeOK, InstrumentsTypeOK
  <2>7. ASSUME NEW t \in Nat, t = turn[r] PROVE TokensAt(r, t)'
    BY <1>a, <2>6, <2>2, <2>3, <2>4, <2>7 DEF TokensAt
  <2>8. ASSUME NEW q \in Run, NEW t \in Nat, q # r \/ t # turn[q] PROVE TokensAt(q, t)'
    <3>1. FirstTokens(q, t)' = FirstTokens(q, t) /\ Generations(q, t)' = Generations(q, t)
      BY <2>6, <2>8, CopiesAreNumbers
    <3> QED
      BY <1>a, <2>1, <2>3, <2>8, <3>1, TokensKept DEF TokenInv
  <2> QED
    BY <2>7, <2>8 DEF TokenInv
<1>9. ASSUME NEW r \in Run, ModelFails(r)
      PROVE  TokenInv'
  <2>1. SameTokens /\ UNCHANGED turn
    <3>1. UNCHANGED turn
      BY <1>9 DEF ModelFails
    <3> QED
      BY <1>9, <3>1, NothingCounted DEF ModelFails, instruments
  <2>2. \A q \in Run : \/ pc'[q] = pc[q] /\ hasFirst'[q] = hasFirst[q]
                      \/ pc'[q] \notin {"generating", "generated"}
    BY <1>9 DEF ModelFails, Move, TypeOK
  <2> QED
    BY <1>a, <2>1, <2>2, TokensKept DEF SameTokens, TokenInv
<1>10. ASSUME NEW r \in Run, Decide(r)
      PROVE  TokenInv'
  <2>1. SameTokens /\ UNCHANGED turn
    <3>1. UNCHANGED turn
      BY <1>10 DEF Decide
    <3> QED
      BY <1>10, <3>1, NothingCounted DEF Decide, instruments
  <2>2. \A q \in Run : \/ pc'[q] = pc[q] /\ hasFirst'[q] = hasFirst[q]
                      \/ pc'[q] \notin {"generating", "generated"}
    BY <1>10 DEF Decide, Move, TypeOK
  <2> QED
    BY <1>a, <2>1, <2>2, TokensKept DEF SameTokens, TokenInv
<1>11. ASSUME NEW r \in Run, LeaveTools(r)
      PROVE  TokenInv'
  <2>1. SameTokens /\ UNCHANGED turn
    <3>1. UNCHANGED turn
      BY <1>11 DEF LeaveTools
    <3> QED
      BY <1>11, <3>1, NothingCounted DEF LeaveTools, instruments
  <2>2. \A q \in Run : \/ pc'[q] = pc[q] /\ hasFirst'[q] = hasFirst[q]
                      \/ pc'[q] \notin {"generating", "generated"}
    BY <1>11 DEF LeaveTools, Move, TypeOK
  <2> QED
    BY <1>a, <2>1, <2>2, TokensKept DEF SameTokens, TokenInv
<1>12. ASSUME NEW r \in Run, End(r)
      PROVE  TokenInv'
  <2>1. SameTokens /\ UNCHANGED turn
    <3>1. UNCHANGED turn
      BY <1>12 DEF End
    <3> QED
      BY <1>12, <3>1, RunCounts
  <2>2. \A q \in Run : \/ pc'[q] = pc[q] /\ hasFirst'[q] = hasFirst[q]
                      \/ pc'[q] \notin {"generating", "generated"}
    BY <1>12 DEF End, Move, TypeOK
  <2> QED
    BY <1>a, <2>1, <2>2, TokensKept DEF SameTokens, TokenInv
<1>13. ASSUME NEW r \in Run, Respond(r)
      PROVE  TokenInv'
  <2>1. SameTokens /\ UNCHANGED turn
    <3>1. UNCHANGED turn
      BY <1>13 DEF Respond
    <3> QED
      BY <1>13, <3>1, RunCounts
  <2>2. \A q \in Run : \/ pc'[q] = pc[q] /\ hasFirst'[q] = hasFirst[q]
                      \/ pc'[q] \notin {"generating", "generated"}
    BY <1>13 DEF Respond, Move, TypeOK
  <2> QED
    BY <1>a, <2>1, <2>2, TokensKept DEF SameTokens, TokenInv
<1>14. ASSUME NEW r \in Run, Guard(r)
      PROVE  TokenInv'
  <2>1. SameTokens /\ UNCHANGED turn
    <3>1. UNCHANGED turn
      BY <1>14 DEF Guard
    <3> QED
      BY <1>14, <3>1, RunCounts
  <2>2. \A q \in Run : \/ pc'[q] = pc[q] /\ hasFirst'[q] = hasFirst[q]
                      \/ pc'[q] \notin {"generating", "generated"}
    BY <1>14 DEF Guard, Move, TypeOK
  <2> QED
    BY <1>a, <2>1, <2>2, TokensKept DEF SameTokens, TokenInv
<1>15. ASSUME NEW c \in Call, CallStep(c), UNCHANGED <<pc, body, turn, hasFirst, result, abandoned>>
      PROVE  TokenInv'
  <2>1. SameTokens
    BY <1>15, CallTokens
  <2> QED
    BY <1>a, <1>15, <2>1, TokensKept DEF SameTokens, TokenInv
<1>16. ASSUME Crash
      PROVE  TokenInv'
  <2>1. \A r, t : FirstTokens(r, t)' = 0 /\ Generations(r, t)' = 0
    BY <1>16
       DEF Crash, EmptyBag, SetToBag, FirstTokens, Generations, Copies, BagIn, BagToSet
  <2>2. ASSUME NEW r \in Run, NEW t \in Nat PROVE TokensAt(r, t)'
    <3>1. pc'[r] \in {"new", "gone"}
      BY <1>16 DEF Crash
    <3> QED
      BY <2>1, <3>1 DEF TokensAt
  <2> QED
    BY <2>2 DEF TokenInv
<1>17. CASE UNCHANGED vars
  BY <1>a, <1>17, NothingCounted, TokensKept DEF vars, instruments, SameTokens, TokenInv
<1> QED
  BY <1>1, <1>2, <1>3, <1>4, <1>5, <1>6, <1>7, <1>8, <1>9, <1>10, <1>11, <1>12, <1>13,
      <1>14, <1>15, <1>16, <1>17
  DEF Next

\* An observation goes to the one trace that a run has.
OnOneTrace(r) ==
  /\ observed'[r] \subseteq {trace'[r]} /\ (trace'[r] = 0 => observed'[r] = {})
  /\ trace[r] # 0 => trace'[r] = trace[r]
  /\ \A q \in Run \ {r} : trace'[q] = trace[q] /\ observed'[q] = observed[q]

\* A run that has one trace and looks it up before it observes has one still.
LEMMA ObservedOnOne ==
  ASSUME TypeOK, NEW r \in Run, RunTrace(r),
         UNCHANGED <<trace, traces, observed>> \/ Observing(r, trace[r])
  PROVE  OnOneTrace(r)
<1>1. CASE UNCHANGED <<trace, traces, observed>>
  BY <1>1 DEF RunTrace, OnOneTrace
<1>2. CASE Observing(r, trace[r]) /\ ~UNCHANGED <<trace, traces, observed>>
  <2>1. PICK t \in Nat :
          /\ trace' = [trace EXCEPT ![r] = t]
          /\ observed' = [observed EXCEPT ![r] = @ \cup {t}]
          /\ trace[r] # 0 => t = trace[r]
          /\ 1 <= t
    BY <1>2 DEF Observing
  <2>2. trace'[r] = t /\ observed'[r] = observed[r] \cup {t}
    BY <2>1 DEF TypeOK, InstrumentsTypeOK
  <2>3. \A q \in Run \ {r} : trace'[q] = trace[q] /\ observed'[q] = observed[q]
    BY <2>1 DEF TypeOK, InstrumentsTypeOK
  <2>4. observed[r] \subseteq {t}
    BY <2>1 DEF RunTrace
  <2>5. t # 0
    BY <2>1
  <2> QED
    BY <2>1, <2>2, <2>3, <2>4, <2>5 DEF OnOneTrace
<1> QED
  BY <1>1, <1>2

\* What is published of a generation is observed.
LEMMA TokenObserved ==
  ASSUME InstrumentsTypeOK, NEW r \in Run, NEW g, Langfuse,
         Publish(FirstToken(r, g)) \/ Publish(Generated(r, g))
  PROVE  trace'[r] # 0
<1>1. PICK e \in {FirstToken(r, g), Generated(r, g)} : Publish(e)
  OBVIOUS
<1>2. e.run = r /\ e.name \notin {"run.started", "run.ended"}
  BY DEF FirstToken, Generated, Event
<1> QED
  BY <1>1, <1>2, PublishDoes

\* Only a run whose turn of tools lasts has a call that emits.
LEMMA EmitsAmongTools ==
  ASSUME FlowInv, NEW r \in Run, pc[r] # "tools"
  PROVE  \A c \in Call : RunOf(c) = r => callPc[c] # "emit"
BY DEF FlowInv, CallFlow, Ended

Traced ==
  /\ \A r \in Run : RunTrace(r)
  /\ \A c \in Call : callPc[c] = "emit" => found[c] = trace[RunOf(c)]

\* A step of one run that leaves it on one trace leaves every run so, and
\* every call with the trace it found.
LEMMA TracesKept ==
  ASSUME Traced, NEW r \in Run, OnOneTrace(r), Langfuse /\ HasTrace(r)' => trace'[r] # 0,
         \A q \in Run \ {r} : pc'[q] = pc[q] /\ body'[q] = body[q] /\ hasFirst'[q] = hasFirst[q],
         \A c \in Call : callPc'[c] = "emit" => callPc[c] = "emit" /\ found'[c] = found[c],
         trace'[r] = trace[r] \/ \A c \in Call : RunOf(c) = r => callPc'[c] # "emit"
  PROVE  Traced'
<1>1. RunTrace(r)'
  BY DEF OnOneTrace, RunTrace
<1>2. ASSUME NEW q \in Run, q # r PROVE RunTrace(q)'
  <2>1. HasTrace(q)' => HasTrace(q)
    BY <1>2 DEF HasTrace
  <2>2. trace'[q] = trace[q] /\ observed'[q] = observed[q]
    BY <1>2 DEF OnOneTrace
  <2> QED
    BY <2>1, <2>2 DEF Traced, RunTrace
<1>3. ASSUME NEW c \in Call, callPc'[c] = "emit" PROVE found'[c] = trace'[RunOf(c)]
  <2>1. found'[c] = trace[RunOf(c)] /\ RunOf(c) \in Run
    BY <1>3, CallShape DEF Traced
  <2> QED
    BY <1>3, <2>1 DEF OnOneTrace
<1> QED
  BY <1>1, <1>2, <1>3 DEF Traced

\* What a call that takes a step has found, and on what trace it is put.
LEMMA CallTraced ==
  ASSUME TypeOK, FlowInv, Traced, NEW c \in Call, CallStep(c), faults' = faults,
         UNCHANGED <<pc, body, hasFirst>>
  PROVE  Traced'
<1> DEFINE r == RunOf(c)
<1>1. r \in Run /\ RunTrace(r)
  BY CallShape DEF Traced
<1>2. CASE UNCHANGED <<trace, traces, observed, found>> /\ callPc'[c] # "emit"
  <2>1. OnOneTrace(r)
    BY <1>1, <1>2, ObservedOnOne
  <2>2. HasTrace(r)' => HasTrace(r)
    BY DEF HasTrace
  <2>3. \A d \in Call : d # c => callPc'[d] = callPc[d]
    BY CallMoves DEF Moved, TypeOK
  <2> QED
    BY <1>1, <1>2, <2>1, <2>2, <2>3, TracesKept DEF RunTrace
<1>3. CASE CountCall(c)
  <2>1. /\ UNCHANGED <<trace, observed>> /\ found' = [found EXCEPT ![c] = trace[r]]
        /\ \A d \in Call : d # c => callPc'[d] = callPc[d]
    BY <1>3, CallMoves DEF CountCall, Moved, TypeOK
  <2>2. \A q \in Run : RunTrace(q)'
    BY <2>1 DEF Traced, RunTrace, HasTrace
  <2>3. \A d \in Call : callPc'[d] = "emit" => found'[d] = trace[RunOf(d)]
    BY <2>1 DEF Traced, TypeOK, ToolsTypeOK
  <2> QED
    BY <2>1, <2>2, <2>3 DEF Traced
<1>4. CASE EmitCall(c)
  <2>1. /\ Observe(r, found[c]) /\ callPc[c] = "emit" /\ callPc'[c] # "emit" /\ found' = found
        /\ \A d \in Call : d # c => callPc'[d] = callPc[d]
    <3>1. AfterEvent(c) # "emit"
      BY DEF AfterEvent
    <3> QED
      BY <1>4, <3>1, CallMoves DEF EmitCall, Moved, Goto, TypeOK, ToolsTypeOK
  <2>2. found[c] = trace[r] /\ trace[r] \in Nat /\ trace[r] <= traces[r]
    BY <1>1, <2>1 DEF Traced, TypeOK, InstrumentsTypeOK
  <2>3. Observing(r, trace[r]) /\ (Langfuse => trace'[r] # 0)
    BY <1>1, <2>1, <2>2, ObserveObserves DEF TypeOK
  <2>4. OnOneTrace(r)
    BY <1>1, <2>3, ObservedOnOne
  <2>5. trace'[r] = trace[r] \/ \A d \in Call : RunOf(d) = r => callPc'[d] # "emit"
    <3>1. CASE ~Langfuse
      BY <2>1, <3>1 DEF Observe
    <3>2. CASE Langfuse /\ body[r].node # "tool"
      <4>1. pc[r] = "tools"
        BY <2>1 DEF FlowInv, CallFlow, Ended
      <4>2. trace[r] # 0
        BY <1>1, <3>2, <4>1 DEF RunTrace, HasTrace
      <4> QED
        BY <2>4, <4>2 DEF OnOneTrace
    <3>3. CASE body[r].node = "tool"
      <4>1. ASSUME NEW d \in Call, RunOf(d) = r, callPc[d] = "emit" PROVE d = c
        BY <2>1, <3>3, <4>1 DEF FlowInv, CallFlow
      <4> QED
        BY <2>1, <4>1
    <3> QED
      BY <3>1, <3>2, <3>3
  <2> QED
    BY <1>1, <2>1, <2>3, <2>4, <2>5, TracesKept
<1>5. CASE ~CountCall(c) /\ ~EmitCall(c)
  <2> USE <1>5 DEF TypeOK, ToolsTypeOK, Goto, instruments
  <2> SUFFICES UNCHANGED <<trace, traces, observed, found>> /\ callPc'[c] # "emit"
    BY <1>2
  <2>1. CASE Invoke(c)
    BY <2>1 DEF Invoke
  <2>2. CASE RejectArguments(c)
    BY <2>2 DEF RejectArguments
  <2>3. CASE LookUpTransition(c)
    BY <2>3 DEF LookUpTransition
  <2>4. CASE Refused(c)
    BY <2>4 DEF Refused
  <2>5. CASE Performed(c)
    BY <2>5 DEF Performed
  <2>6. CASE Lost(c)
    BY <2>6 DEF Lost
  <2>7. CASE Read(c)
    BY <2>7 DEF Read
  <2>8. CASE Record(c)
    BY <2>8 DEF Record
  <2>9. CASE Book(c)
    BY <2>9 DEF Book
  <2>10. ~CallFails(c)
    BY DEF CallFails, Fault, InstrumentsTypeOK
  <2> QED
    BY <2>1, <2>2, <2>3, <2>4, <2>5, <2>6, <2>7, <2>8, <2>9, <2>10 DEF CallStep
<1> QED
  BY <1>3, <1>4, <1>5

\* What a call has found is not above what was made.
FoundInv == \A c \in Call : found[c] <= traces[RunOf(c)]

\* A trace that a call found stays a trace of its run.
LEMMA TracesGrow ==
  ASSUME TypeOK, FoundInv, [Next]_vars, TypeOK'
  PROVE  FoundInv'
<1> USE DEF FoundInv
<1>a. \A c \in Call : /\ RunOf(c) \in Run /\ found[c] \in Nat
                     /\ trace[RunOf(c)] <= traces[RunOf(c)]
                     /\ traces[RunOf(c)] \in Nat /\ traces'[RunOf(c)] \in Nat
  BY CallShape DEF TypeOK, InstrumentsTypeOK, ToolsTypeOK
<1>b. ASSUME found' = found, \A q \in Run : traces[q] <= traces'[q]
      PROVE  FoundInv'
  BY <1>a, <1>b
<1>1. ASSUME NEW r \in Run, Begin(r)
      PROVE  FoundInv'
  <2>1. found' = found
    BY <1>1 DEF Begin, toolVars, calls
  <2>2. \/ UNCHANGED instruments
        \/ \E e : e.run = r /\ (Publish(e) \/ PublishRaises(e))
    BY <1>1, EventRuns DEF Begin
  <2>3. \A q \in Run : traces[q] <= traces'[q]
    BY <2>2, PublishTypes DEF TypeOK, InstrumentsTypeOK, instruments
  <2> QED
    BY <1>b, <2>1, <2>3
<1>2. ASSUME NEW r \in Run, Compile(r)
      PROVE  FoundInv'
  BY <1>2 DEF Compile, instruments, toolVars, calls
<1>3. ASSUME NEW r \in Run, LoadSkill(r)
      PROVE  FoundInv'
  <2>1. found' = found
    BY <1>3 DEF LoadSkill, toolVars, calls
  <2>2. \/ UNCHANGED instruments
        \/ \E e : e.run = r /\ (Publish(e) \/ PublishRaises(e))
    BY <1>3, EventRuns DEF LoadSkill
  <2>3. \A q \in Run : traces[q] <= traces'[q]
    BY <2>2, PublishTypes DEF TypeOK, InstrumentsTypeOK, instruments
  <2> QED
    BY <1>b, <2>1, <2>3
<1>4. ASSUME NEW r \in Run, EnterNode(r)
      PROVE  FoundInv'
  BY <1>4 DEF EnterNode, instruments, toolVars, calls
<1>5. ASSUME NEW r \in Run, StartGeneration(r)
      PROVE  FoundInv'
  BY <1>5 DEF StartGeneration, instruments, toolVars, calls
<1>6. ASSUME NEW r \in Run, NewToken(r)
      PROVE  FoundInv'
  <2>1. found' = found
    BY <1>6 DEF NewToken, toolVars, calls
  <2>2. \/ UNCHANGED instruments
        \/ \E e : e.run = r /\ (Publish(e) \/ PublishRaises(e))
    BY <1>6, EventRuns DEF NewToken
  <2>3. \A q \in Run : traces[q] <= traces'[q]
    BY <2>2, PublishTypes DEF TypeOK, InstrumentsTypeOK, instruments
  <2> QED
    BY <1>b, <2>1, <2>3
<1>7. ASSUME NEW r \in Run, EndGeneration(r)
      PROVE  FoundInv'
  <2>1. found' = found
    BY <1>7 DEF EndGeneration, toolVars, calls
  <2>2. \/ UNCHANGED instruments
        \/ \E e : e.run = r /\ (Publish(e) \/ PublishRaises(e))
    BY <1>7, EventRuns DEF EndGeneration
  <2>3. \A q \in Run : traces[q] <= traces'[q]
    BY <2>2, PublishTypes DEF TypeOK, InstrumentsTypeOK, instruments
  <2> QED
    BY <1>b, <2>1, <2>3
<1>8. ASSUME NEW r \in Run, CompleteGeneration(r)
      PROVE  FoundInv'
  <2>1. found' = found
    BY <1>8 DEF CompleteGeneration, toolVars, calls
  <2>2. \/ UNCHANGED instruments
        \/ \E e : e.run = r /\ (Publish(e) \/ PublishRaises(e))
    BY <1>8, EventRuns DEF CompleteGeneration
  <2>3. \A q \in Run : traces[q] <= traces'[q]
    BY <2>2, PublishTypes DEF TypeOK, InstrumentsTypeOK, instruments
  <2> QED
    BY <1>b, <2>1, <2>3
<1>9. ASSUME NEW r \in Run, ModelFails(r)
      PROVE  FoundInv'
  BY <1>9 DEF ModelFails, instruments, toolVars, calls
<1>10. ASSUME NEW r \in Run, Decide(r)
      PROVE  FoundInv'
  BY <1>10 DEF Decide, instruments, toolVars, calls
<1>11. ASSUME NEW r \in Run, LeaveTools(r)
      PROVE  FoundInv'
  BY <1>11 DEF LeaveTools, instruments, toolVars, calls
<1>12. ASSUME NEW r \in Run, End(r)
      PROVE  FoundInv'
  <2>1. found' = found
    BY <1>12 DEF End, toolVars, calls
  <2>2. \/ UNCHANGED instruments
        \/ \E e : e.run = r /\ (Publish(e) \/ PublishRaises(e))
    BY <1>12, EventRuns DEF End
  <2>3. \A q \in Run : traces[q] <= traces'[q]
    BY <2>2, PublishTypes DEF TypeOK, InstrumentsTypeOK, instruments
  <2> QED
    BY <1>b, <2>1, <2>3
<1>13. ASSUME NEW r \in Run, Respond(r)
      PROVE  FoundInv'
  <2>1. found' = found
    BY <1>13 DEF Respond, toolVars, calls
  <2>2. \/ UNCHANGED instruments
        \/ \E e : e.run = r /\ (Publish(e) \/ PublishRaises(e))
    BY <1>13, EventRuns DEF Respond
  <2>3. \A q \in Run : traces[q] <= traces'[q]
    BY <2>2, PublishTypes DEF TypeOK, InstrumentsTypeOK, instruments
  <2> QED
    BY <1>b, <2>1, <2>3
<1>14. ASSUME NEW r \in Run, Guard(r)
      PROVE  FoundInv'
  <2>1. found' = found
    BY <1>14 DEF Guard, toolVars, calls
  <2>2. \/ UNCHANGED instruments
        \/ \E e : e.run = r /\ (Publish(e) \/ PublishRaises(e))
    BY <1>14, EventRuns DEF Guard
  <2>3. \A q \in Run : traces[q] <= traces'[q]
    BY <2>2, PublishTypes DEF TypeOK, InstrumentsTypeOK, instruments
  <2> QED
    BY <1>b, <2>1, <2>3
<1>15. ASSUME NEW c \in Call, CallStep(c)
      PROVE  FoundInv'
  <2>1. \A q \in Run : traces[q] <= traces'[q]
    BY <1>15, CallTypes DEF TypeOK
  <2>2. CASE CountCall(c)
    <3>1. found' = [found EXCEPT ![c] = trace[RunOf(c)]] /\ traces' = traces
      BY <2>2 DEF CountCall
    <3> QED
      BY <1>a, <3>1 DEF TypeOK, ToolsTypeOK
  <2>3. CASE ~CountCall(c)
    <3>1. found' = found
      BY <1>15, <2>3
         DEF CallStep, Invoke, RejectArguments, LookUpTransition, Refused, Performed, Lost,
             Read, Record, EmitCall, Book, CallFails
    <3> QED
      BY <1>b, <2>1, <3>1
  <2> QED
    BY <2>2, <2>3
<1>16. ASSUME Crash
      PROVE  FoundInv'
  BY <1>16, <1>a DEF Crash
<1>17. CASE UNCHANGED vars
  BY <1>17 DEF vars, instruments, toolVars, calls
<1> QED
  BY <1>1, <1>2, <1>3, <1>4, <1>5, <1>6, <1>7, <1>8, <1>9, <1>10, <1>11, <1>12, <1>13,
     <1>14, <1>15, <1>16, <1>17
     DEF Next

\* As long as no subscriber has raised, all observations are on the trace of the
\* run, and calls of tools that run side by side have found the same one.
LEMMA TraceNext == IInv /\ [Next]_vars => TraceInv'
<1> SUFFICES ASSUME IInv, [Next]_vars PROVE TraceInv'
  OBVIOUS
<1>a. FoundInv' /\ TypeOK' /\ faults \in Nat /\ faults <= faults' /\ faults' \in Nat
  BY TypeNext, TracesGrow, FaultsGrow
     DEF IInv, TraceInv, FoundInv, TypeOK, InstrumentsTypeOK
<1> SUFFICES ASSUME faults' = 0 PROVE Traced'
  BY <1>a DEF TraceInv, Traced, FoundInv
<1>b. TypeOK /\ FlowInv /\ Traced /\ faults = 0
  BY <1>a DEF IInv, TraceInv, Traced
<1> USE <1>b DEF Move, TypeOK, ToolsTypeOK
<1>1. ASSUME NEW r \in Run, Begin(r)
      PROVE  Traced'
  <2>1. /\ \A q \in Run \ {r} : pc'[q] = pc[q] /\ body'[q] = body[q] /\ hasFirst'[q] = hasFirst[q]
        /\ \A c \in Call : callPc'[c] = "emit" => callPc[c] = "emit" /\ found'[c] = found[c]
    BY <1>1 DEF Begin, calls, toolVars, FlowInv
  <2>2. \/ UNCHANGED instruments
        \/ \E e : e.run = r /\ (Publish(e) \/ PublishRaises(e))
    BY <1>1, EventRuns DEF Begin
  <2>3. UNCHANGED <<trace, traces, observed>> \/ Observing(r, trace[r])
    BY <2>2, PublishDoes DEF TypeOK, instruments
  <2>4. RunTrace(r)
    BY DEF Traced
  <2>5. OnOneTrace(r)
    BY <2>3, <2>4, ObservedOnOne
  <2>6. trace'[r] = trace[r] \/ \A c \in Call : RunOf(c) = r => callPc'[c] # "emit"
    <3>1. pc[r] # "tools"
      BY <1>1 DEF Begin
    <3> QED
      BY <2>1, <3>1, EmitsAmongTools
  <2>7. Langfuse /\ HasTrace(r)' => trace'[r] # 0
    <3>1. pc'[r] \in {"compile", "respond"}
      BY <1>1 DEF Begin, Move
    <3> QED
      BY <3>1 DEF HasTrace
  <2> QED
    BY <2>1, <2>5, <2>6, <2>7, TracesKept
<1>2. ASSUME NEW r \in Run, Compile(r)
      PROVE  Traced'
  <2>1. /\ \A q \in Run \ {r} : pc'[q] = pc[q] /\ body'[q] = body[q] /\ hasFirst'[q] = hasFirst[q]
        /\ \A c \in Call : callPc'[c] = "emit" => callPc[c] = "emit" /\ found'[c] = found[c]
    BY <1>2 DEF Compile, calls, toolVars
  <2>2. UNCHANGED <<trace, traces, observed>>
    BY <1>2 DEF Compile, instruments
  <2>3. RunTrace(r)
    BY DEF Traced
  <2>4. OnOneTrace(r)
    BY <2>2, <2>3, ObservedOnOne
  <2>5. trace'[r] = trace[r] \/ \A c \in Call : RunOf(c) = r => callPc'[c] # "emit"
    BY <2>2
  <2>6. Langfuse /\ HasTrace(r)' => trace'[r] # 0
    <3>1. pc'[r] \in {"load", "respond"}
      BY <1>2 DEF Compile, Move
    <3> QED
      BY <3>1 DEF HasTrace
  <2> QED
    BY <2>1, <2>4, <2>5, <2>6, TracesKept
<1>3. ASSUME NEW r \in Run, LoadSkill(r)
      PROVE  Traced'
  <2>1. /\ \A q \in Run \ {r} : pc'[q] = pc[q] /\ body'[q] = body[q] /\ hasFirst'[q] = hasFirst[q]
        /\ \A c \in Call : callPc'[c] = "emit" => callPc[c] = "emit" /\ found'[c] = found[c]
    BY <1>3 DEF LoadSkill, calls, toolVars
  <2>2. \/ UNCHANGED instruments
        \/ \E e : e.run = r /\ (Publish(e) \/ PublishRaises(e))
    BY <1>3, EventRuns DEF LoadSkill
  <2>3. UNCHANGED <<trace, traces, observed>> \/ Observing(r, trace[r])
    BY <2>2, PublishDoes DEF TypeOK, instruments
  <2>4. RunTrace(r)
    BY DEF Traced
  <2>5. OnOneTrace(r)
    BY <2>3, <2>4, ObservedOnOne
  <2>6. trace'[r] = trace[r] \/ \A c \in Call : RunOf(c) = r => callPc'[c] # "emit"
    <3>1. pc[r] # "tools"
      BY <1>3 DEF LoadSkill
    <3> QED
      BY <2>1, <3>1, EmitsAmongTools
  <2>7. Langfuse /\ HasTrace(r)' => trace'[r] # 0
    <3>1. pc'[r] \in {"node", "end"}
      BY <1>3 DEF LoadSkill, Move
    <3> QED
      BY <3>1 DEF HasTrace
  <2> QED
    BY <2>1, <2>5, <2>6, <2>7, TracesKept
<1>4. ASSUME NEW r \in Run, EnterNode(r)
      PROVE  Traced'
  <2>1. /\ \A q \in Run \ {r} : pc'[q] = pc[q] /\ body'[q] = body[q] /\ hasFirst'[q] = hasFirst[q]
        /\ \A c \in Call : callPc'[c] = "emit" => callPc[c] = "emit" /\ found'[c] = found[c]
    BY <1>4 DEF EnterNode, Make
  <2>2. UNCHANGED <<trace, traces, observed>>
    BY <1>4 DEF EnterNode, instruments
  <2>3. RunTrace(r)
    BY DEF Traced
  <2>4. OnOneTrace(r)
    BY <2>2, <2>3, ObservedOnOne
  <2>5. trace'[r] = trace[r] \/ \A c \in Call : RunOf(c) = r => callPc'[c] # "emit"
    BY <2>2
  <2>6. Langfuse /\ HasTrace(r)' => trace'[r] # 0
    <3>1. \/ pc'[r] \in {"end", "model"}
          \/ pc'[r] = "tools" /\ body'[r].node = "tool"
      BY <1>4 DEF EnterNode, Move
    <3> QED
      BY <3>1 DEF HasTrace
  <2> QED
    BY <2>1, <2>4, <2>5, <2>6, TracesKept
<1>5. ASSUME NEW r \in Run, StartGeneration(r)
      PROVE  Traced'
  <2>1. /\ \A q \in Run \ {r} : pc'[q] = pc[q] /\ body'[q] = body[q] /\ hasFirst'[q] = hasFirst[q]
        /\ \A c \in Call : callPc'[c] = "emit" => callPc[c] = "emit" /\ found'[c] = found[c]
    BY <1>5 DEF StartGeneration, calls, toolVars
  <2>2. UNCHANGED <<trace, traces, observed>>
    BY <1>5 DEF StartGeneration, instruments
  <2>3. RunTrace(r)
    BY DEF Traced
  <2>4. OnOneTrace(r)
    BY <2>2, <2>3, ObservedOnOne
  <2>5. trace'[r] = trace[r] \/ \A c \in Call : RunOf(c) = r => callPc'[c] # "emit"
    BY <2>2
  <2>6. Langfuse /\ HasTrace(r)' => trace'[r] # 0
    <3>1. ~hasFirst'[r] /\ pc'[r] = "generating"
      BY <1>5 DEF StartGeneration, Move
    <3> QED
      BY <3>1 DEF HasTrace
  <2> QED
    BY <2>1, <2>4, <2>5, <2>6, TracesKept
<1>6. ASSUME NEW r \in Run, NewToken(r)
      PROVE  Traced'
  <2>1. /\ \A q \in Run \ {r} : pc'[q] = pc[q] /\ body'[q] = body[q] /\ hasFirst'[q] = hasFirst[q]
        /\ \A c \in Call : callPc'[c] = "emit" => callPc[c] = "emit" /\ found'[c] = found[c]
    BY <1>6 DEF NewToken, calls, toolVars
  <2>2. \/ UNCHANGED instruments
        \/ \E e : e.run = r /\ (Publish(e) \/ PublishRaises(e))
    BY <1>6, EventRuns DEF NewToken
  <2>3. UNCHANGED <<trace, traces, observed>> \/ Observing(r, trace[r])
    BY <2>2, PublishDoes DEF TypeOK, instruments
  <2>4. RunTrace(r)
    BY DEF Traced
  <2>5. OnOneTrace(r)
    BY <2>3, <2>4, ObservedOnOne
  <2>6. trace'[r] = trace[r] \/ \A c \in Call : RunOf(c) = r => callPc'[c] # "emit"
    <3>1. pc[r] # "tools"
      BY <1>6 DEF NewToken
    <3> QED
      BY <2>1, <3>1, EmitsAmongTools
  <2>7. Langfuse /\ HasTrace(r)' => trace'[r] # 0
    <3>1. pc'[r] = "generating" /\ (hasFirst'[r] => Publish(FirstToken(r, Generation(r))))
      BY <1>6 DEF NewToken
    <3>2. hasFirst'[r] /\ Langfuse => trace'[r] # 0
      BY <3>1, TokenObserved
    <3> QED
      BY <3>1, <3>2 DEF HasTrace
  <2> QED
    BY <2>1, <2>5, <2>6, <2>7, TracesKept
<1>7. ASSUME NEW r \in Run, EndGeneration(r)
      PROVE  Traced'
  <2>1. /\ \A q \in Run \ {r} : pc'[q] = pc[q] /\ body'[q] = body[q] /\ hasFirst'[q] = hasFirst[q]
        /\ \A c \in Call : callPc'[c] = "emit" => callPc[c] = "emit" /\ found'[c] = found[c]
    BY <1>7 DEF EndGeneration, calls, toolVars
  <2>2. \/ UNCHANGED instruments
        \/ \E e : e.run = r /\ (Publish(e) \/ PublishRaises(e))
    BY <1>7, EventRuns DEF EndGeneration
  <2>3. UNCHANGED <<trace, traces, observed>> \/ Observing(r, trace[r])
    BY <2>2, PublishDoes DEF TypeOK, instruments
  <2>4. RunTrace(r)
    BY DEF Traced
  <2>5. OnOneTrace(r)
    BY <2>3, <2>4, ObservedOnOne
  <2>6. trace'[r] = trace[r] \/ \A c \in Call : RunOf(c) = r => callPc'[c] # "emit"
    <3>1. pc[r] # "tools"
      BY <1>7 DEF EndGeneration
    <3> QED
      BY <2>1, <3>1, EmitsAmongTools
  <2>7. Langfuse /\ HasTrace(r)' => trace'[r] # 0
    <3>1. CASE hasFirst[r]
      <4>1. pc[r] = "generating" /\ trace' = trace
        BY <1>7, <3>1 DEF EndGeneration, instruments
      <4> QED
        BY <2>4, <3>1, <4>1 DEF RunTrace, HasTrace
    <3>2. CASE ~hasFirst[r]
      <4>1. Publish(FirstToken(r, Generation(r)))
        BY <1>7, <3>2 DEF EndGeneration, PublishRaises, Fault
      <4> QED
        BY <4>1, TokenObserved
    <3> QED
      BY <3>1, <3>2
  <2> QED
    BY <2>1, <2>5, <2>6, <2>7, TracesKept
<1>8. ASSUME NEW r \in Run, CompleteGeneration(r)
      PROVE  Traced'
  <2>1. /\ \A q \in Run \ {r} : pc'[q] = pc[q] /\ body'[q] = body[q] /\ hasFirst'[q] = hasFirst[q]
        /\ \A c \in Call : callPc'[c] = "emit" => callPc[c] = "emit" /\ found'[c] = found[c]
    BY <1>8 DEF CompleteGeneration, calls, toolVars
  <2>2. \/ UNCHANGED instruments
        \/ \E e : e.run = r /\ (Publish(e) \/ PublishRaises(e))
    BY <1>8, EventRuns DEF CompleteGeneration
  <2>3. UNCHANGED <<trace, traces, observed>> \/ Observing(r, trace[r])
    BY <2>2, PublishDoes DEF TypeOK, instruments
  <2>4. RunTrace(r)
    BY DEF Traced
  <2>5. OnOneTrace(r)
    BY <2>3, <2>4, ObservedOnOne
  <2>6. trace'[r] = trace[r] \/ \A c \in Call : RunOf(c) = r => callPc'[c] # "emit"
    <3>1. pc[r] # "tools"
      BY <1>8 DEF CompleteGeneration
    <3> QED
      BY <2>1, <3>1, EmitsAmongTools
  <2>7. Langfuse /\ HasTrace(r)' => trace'[r] # 0
    <3>1. Publish(Generated(r, Generation(r)))
      BY <1>8 DEF CompleteGeneration, PublishRaises, Fault
    <3> QED
      BY <3>1, TokenObserved
  <2> QED
    BY <2>1, <2>5, <2>6, <2>7, TracesKept
<1>9. ASSUME NEW r \in Run, ModelFails(r)
      PROVE  Traced'
  <2>1. /\ \A q \in Run \ {r} : pc'[q] = pc[q] /\ body'[q] = body[q] /\ hasFirst'[q] = hasFirst[q]
        /\ \A c \in Call : callPc'[c] = "emit" => callPc[c] = "emit" /\ found'[c] = found[c]
    BY <1>9 DEF ModelFails, calls, toolVars
  <2>2. UNCHANGED <<trace, traces, observed>>
    BY <1>9 DEF ModelFails, instruments
  <2>3. RunTrace(r)
    BY DEF Traced
  <2>4. OnOneTrace(r)
    BY <2>2, <2>3, ObservedOnOne
  <2>5. trace'[r] = trace[r] \/ \A c \in Call : RunOf(c) = r => callPc'[c] # "emit"
    BY <2>2
  <2>6. Langfuse /\ HasTrace(r)' => trace'[r] # 0
    <3>1. pc'[r] = "end"
      BY <1>9 DEF ModelFails, Move
    <3> QED
      BY <3>1 DEF HasTrace
  <2> QED
    BY <2>1, <2>4, <2>5, <2>6, TracesKept
<1>10. ASSUME NEW r \in Run, Decide(r)
      PROVE  Traced'
  <2>1. /\ \A q \in Run \ {r} : pc'[q] = pc[q] /\ body'[q] = body[q] /\ hasFirst'[q] = hasFirst[q]
        /\ \A c \in Call : callPc'[c] = "emit" => callPc[c] = "emit" /\ found'[c] = found[c]
    <3>1. Turn(r) \/ UNCHANGED <<callPc, tool>>
      BY <1>10 DEF Decide, Turn
    <3> QED
      BY <1>10, <3>1, TurnMakes DEF Decide, MadeBy
  <2>2. UNCHANGED <<trace, traces, observed>>
    BY <1>10 DEF Decide, instruments
  <2>3. RunTrace(r)
    BY DEF Traced
  <2>4. OnOneTrace(r)
    BY <2>2, <2>3, ObservedOnOne
  <2>5. trace'[r] = trace[r] \/ \A c \in Call : RunOf(c) = r => callPc'[c] # "emit"
    BY <2>2
  <2>6. Langfuse /\ HasTrace(r)' => trace'[r] # 0
    <3>1. HasTrace(r)' => HasTrace(r)
      BY <1>10 DEF Decide, HasTrace
    <3> QED
      BY <2>2, <2>3, <3>1 DEF RunTrace
  <2> QED
    BY <2>1, <2>4, <2>5, <2>6, TracesKept
<1>11. ASSUME NEW r \in Run, LeaveTools(r)
      PROVE  Traced'
  <2>1. /\ \A q \in Run \ {r} : pc'[q] = pc[q] /\ body'[q] = body[q] /\ hasFirst'[q] = hasFirst[q]
        /\ \A c \in Call : callPc'[c] = "emit" => callPc[c] = "emit" /\ found'[c] = found[c]
    BY <1>11 DEF LeaveTools, calls, toolVars
  <2>2. UNCHANGED <<trace, traces, observed>>
    BY <1>11 DEF LeaveTools, instruments
  <2>3. RunTrace(r)
    BY DEF Traced
  <2>4. OnOneTrace(r)
    BY <2>2, <2>3, ObservedOnOne
  <2>5. trace'[r] = trace[r] \/ \A c \in Call : RunOf(c) = r => callPc'[c] # "emit"
    BY <2>2
  <2>6. Langfuse /\ HasTrace(r)' => trace'[r] # 0
    <3>1. pc'[r] \in {"end", "model"}
      BY <1>11 DEF LeaveTools, Move
    <3> QED
      BY <3>1 DEF HasTrace
  <2> QED
    BY <2>1, <2>4, <2>5, <2>6, TracesKept
<1>12. ASSUME NEW r \in Run, End(r)
      PROVE  Traced'
  <2>1. /\ \A q \in Run \ {r} : pc'[q] = pc[q] /\ body'[q] = body[q] /\ hasFirst'[q] = hasFirst[q]
        /\ \A c \in Call : callPc'[c] = "emit" => callPc[c] = "emit" /\ found'[c] = found[c]
    BY <1>12 DEF End, calls, toolVars
  <2>2. \/ UNCHANGED instruments
        \/ \E e : e.run = r /\ (Publish(e) \/ PublishRaises(e))
    BY <1>12, EventRuns DEF End
  <2>3. UNCHANGED <<trace, traces, observed>> \/ Observing(r, trace[r])
    BY <2>2, PublishDoes DEF TypeOK, instruments
  <2>4. RunTrace(r)
    BY DEF Traced
  <2>5. OnOneTrace(r)
    BY <2>3, <2>4, ObservedOnOne
  <2>6. trace'[r] = trace[r] \/ \A c \in Call : RunOf(c) = r => callPc'[c] # "emit"
    <3>1. pc[r] # "tools"
      BY <1>12 DEF End
    <3> QED
      BY <2>1, <3>1, EmitsAmongTools
  <2>7. Langfuse /\ HasTrace(r)' => trace'[r] # 0
    <3>1. pc'[r] = "respond"
      BY <1>12 DEF End, Move
    <3> QED
      BY <3>1 DEF HasTrace
  <2> QED
    BY <2>1, <2>5, <2>6, <2>7, TracesKept
<1>13. ASSUME NEW r \in Run, Respond(r)
      PROVE  Traced'
  <2>1. /\ \A q \in Run \ {r} : pc'[q] = pc[q] /\ body'[q] = body[q] /\ hasFirst'[q] = hasFirst[q]
        /\ \A c \in Call : callPc'[c] = "emit" => callPc[c] = "emit" /\ found'[c] = found[c]
    BY <1>13 DEF Respond, calls, toolVars
  <2>2. \/ UNCHANGED instruments
        \/ \E e : e.run = r /\ (Publish(e) \/ PublishRaises(e))
    BY <1>13, EventRuns DEF Respond
  <2>3. UNCHANGED <<trace, traces, observed>> \/ Observing(r, trace[r])
    BY <2>2, PublishDoes DEF TypeOK, instruments
  <2>4. RunTrace(r)
    BY DEF Traced
  <2>5. OnOneTrace(r)
    BY <2>3, <2>4, ObservedOnOne
  <2>6. trace'[r] = trace[r] \/ \A c \in Call : RunOf(c) = r => callPc'[c] # "emit"
    <3>1. pc[r] # "tools"
      BY <1>13 DEF Respond
    <3> QED
      BY <2>1, <3>1, EmitsAmongTools
  <2>7. Langfuse /\ HasTrace(r)' => trace'[r] # 0
    <3>1. pc'[r] \in {"guard", "over"}
      BY <1>13 DEF Respond, Move
    <3> QED
      BY <3>1 DEF HasTrace
  <2> QED
    BY <2>1, <2>5, <2>6, <2>7, TracesKept
<1>14. ASSUME NEW r \in Run, Guard(r)
      PROVE  Traced'
  <2>1. /\ \A q \in Run \ {r} : pc'[q] = pc[q] /\ body'[q] = body[q] /\ hasFirst'[q] = hasFirst[q]
        /\ \A c \in Call : callPc'[c] = "emit" => callPc[c] = "emit" /\ found'[c] = found[c]
    BY <1>14 DEF Guard, calls, toolVars
  <2>2. \/ UNCHANGED instruments
        \/ \E e : e.run = r /\ (Publish(e) \/ PublishRaises(e))
    BY <1>14, EventRuns DEF Guard
  <2>3. UNCHANGED <<trace, traces, observed>> \/ Observing(r, trace[r])
    BY <2>2, PublishDoes DEF TypeOK, instruments
  <2>4. RunTrace(r)
    BY DEF Traced
  <2>5. OnOneTrace(r)
    BY <2>3, <2>4, ObservedOnOne
  <2>6. trace'[r] = trace[r] \/ \A c \in Call : RunOf(c) = r => callPc'[c] # "emit"
    <3>1. pc[r] # "tools"
      BY <1>14 DEF Guard
    <3> QED
      BY <2>1, <3>1, EmitsAmongTools
  <2>7. Langfuse /\ HasTrace(r)' => trace'[r] # 0
    <3>1. pc'[r] = "over"
      BY <1>14 DEF Guard, Move
    <3> QED
      BY <3>1 DEF HasTrace
  <2> QED
    BY <2>1, <2>5, <2>6, <2>7, TracesKept
<1>15. ASSUME NEW c \in Call, CallStep(c), UNCHANGED <<pc, body, turn, hasFirst, result, abandoned>>
      PROVE  Traced'
  BY <1>15, CallTraced
<1>16. ASSUME Crash
      PROVE  Traced'
  BY <1>16, <1>a DEF Crash, Fault
<1>17. CASE UNCHANGED vars
  BY <1>17 DEF vars, instruments, toolVars, calls, Traced, RunTrace, HasTrace
<1> QED
  BY <1>1, <1>2, <1>3, <1>4, <1>5, <1>6, <1>7, <1>8, <1>9, <1>10, <1>11, <1>12, <1>13,
     <1>14, <1>15, <1>16, <1>17
     DEF Next

\* Only its start and its end do something to the session of a run.
LEMMA SessionsStay ==
  ASSUME InstrumentsTypeOK, NEW r \in Run,
         \/ LoadSkill(r) \/ NewToken(r) \/ EndGeneration(r) \/ CompleteGeneration(r)
         \/ Respond(r) \/ Guard(r)
  PROVE  session' = session
<1> DEFINE E == {Responded(r), SkillLoaded(r), SkillFailed(r), FirstToken(r, Generation(r)),
                 Generated(r, Generation(r))}
<1>1. \/ session' = session
      \/ \E e \in E : Publish(e) \/ PublishRaises(e)
  BY DEF LoadSkill, NewToken, EndGeneration, CompleteGeneration, Respond, Guard, instruments
<1>2. \A e \in E : e.run = r /\ e.name \notin {"run.started", "run.ended"}
  BY DEF Responded, SkillLoaded, SkillFailed, FirstToken, Generated, Event
<1> QED
  BY <1>1, <1>2, PublishDoes

\* A run's session is open until the run has been answered for.
LEMMA SessionNext == IInv /\ [Next]_vars => SessionInv'
<1> SUFFICES ASSUME IInv, [Next]_vars PROVE SessionInv'
  OBVIOUS
<1> USE DEF IInv
<1>1. ASSUME NEW r \in Run, Begin(r)
      PROVE  SessionInv'
  <2>1. /\ pc[r] = "new" /\ abandoned' = abandoned
        /\ \A q \in Run \ {r} : pc'[q] = pc[q]
    BY <1>1 DEF Begin, Move, TypeOK
  <2>2. CASE Publish(RunStarted(r)) /\ pc'[r] = "compile"
    <3>1. session' = [session EXCEPT ![r] = IF Wandb THEN "open" ELSE session[r]]
      BY <2>2, SessionFollows DEF TypeOK
    <3>2. /\ session[r] = "none" /\ session'[r] \in {"open", "none"}
          /\ \A q \in Run \ {r} : session'[q] = session[q]
      BY <2>1, <3>1 DEF SessionInv, RunSession, TypeOK, InstrumentsTypeOK
    <3> QED
      BY <2>1, <2>2, <3>2 DEF SessionInv, RunSession
  <2>3. CASE PublishRaises(RunStarted(r)) /\ pc'[r] = "respond"
    <3>1. session' = session
      BY <2>3 DEF PublishRaises
    <3> QED
      BY <2>1, <2>3, <3>1 DEF SessionInv, RunSession
  <2> QED
    BY <1>1, <2>2, <2>3 DEF Begin, Move, TypeOK
<1>2. ASSUME NEW r \in Run, Compile(r)
      PROVE  SessionInv'
  <2>1. /\ pc[r] = "compile" /\ session' = session
        /\ \/ pc'[r] = "load" /\ abandoned' = abandoned
           \/ pc'[r] = "respond" /\ abandoned' = abandoned \cup {r}
        /\ \A q \in Run \ {r} : pc'[q] = pc[q]
    BY <1>2 DEF Compile, Move, TypeOK
  <2> QED
    BY <2>1 DEF SessionInv, RunSession
<1>3. ASSUME NEW r \in Run, LoadSkill(r)
      PROVE  SessionInv'
  <2>1. /\ pc[r] = "load" /\ pc'[r] \in {"node", "end"} /\ abandoned' = abandoned
        /\ \A q \in Run \ {r} : pc'[q] = pc[q]
    BY <1>3 DEF LoadSkill, Move, TypeOK
  <2>2. session' = session
    BY <1>3, SessionsStay DEF TypeOK
  <2> QED
    BY <2>1, <2>2 DEF SessionInv, RunSession
<1>4. ASSUME NEW r \in Run, EnterNode(r)
      PROVE  SessionInv'
  <2>1. /\ pc[r] = "node" /\ pc'[r] \in {"end", "tools", "model"} /\ abandoned' = abandoned
        /\ \A q \in Run \ {r} : pc'[q] = pc[q]
    BY <1>4 DEF EnterNode, Move, TypeOK
  <2>2. session' = session
    BY <1>4 DEF TypeOK, instruments, EnterNode
  <2> QED
    BY <2>1, <2>2 DEF SessionInv, RunSession
<1>5. ASSUME NEW r \in Run, StartGeneration(r)
      PROVE  SessionInv'
  <2>1. /\ pc[r] = "model" /\ pc'[r] = "generating" /\ abandoned' = abandoned
        /\ \A q \in Run \ {r} : pc'[q] = pc[q]
    BY <1>5 DEF StartGeneration, Move, TypeOK
  <2>2. session' = session
    BY <1>5 DEF TypeOK, instruments, StartGeneration
  <2> QED
    BY <2>1, <2>2 DEF SessionInv, RunSession
<1>6. ASSUME NEW r \in Run, NewToken(r)
      PROVE  SessionInv'
  <2>1. /\ pc[r] = "generating" /\ pc'[r] = "generating" /\ abandoned' = abandoned
        /\ \A q \in Run \ {r} : pc'[q] = pc[q]
    BY <1>6 DEF NewToken, Move, TypeOK
  <2>2. session' = session
    BY <1>6, SessionsStay DEF TypeOK
  <2> QED
    BY <2>1, <2>2 DEF SessionInv, RunSession
<1>7. ASSUME NEW r \in Run, EndGeneration(r)
      PROVE  SessionInv'
  <2>1. /\ pc[r] = "generating" /\ pc'[r] \in {"generated", "decide"} /\ abandoned' = abandoned
        /\ \A q \in Run \ {r} : pc'[q] = pc[q]
    BY <1>7 DEF EndGeneration, Move, TypeOK
  <2>2. session' = session
    BY <1>7, SessionsStay DEF TypeOK
  <2> QED
    BY <2>1, <2>2 DEF SessionInv, RunSession
<1>8. ASSUME NEW r \in Run, CompleteGeneration(r)
      PROVE  SessionInv'
  <2>1. /\ pc[r] = "generated" /\ pc'[r] = "decide" /\ abandoned' = abandoned
        /\ \A q \in Run \ {r} : pc'[q] = pc[q]
    BY <1>8 DEF CompleteGeneration, Move, TypeOK
  <2>2. session' = session
    BY <1>8, SessionsStay DEF TypeOK
  <2> QED
    BY <2>1, <2>2 DEF SessionInv, RunSession
<1>9. ASSUME NEW r \in Run, ModelFails(r)
      PROVE  SessionInv'
  <2>1. /\ pc[r] \in {"model", "generating"} /\ pc'[r] = "end" /\ abandoned' = abandoned
        /\ \A q \in Run \ {r} : pc'[q] = pc[q]
    BY <1>9 DEF ModelFails, Move, TypeOK
  <2>2. session' = session
    BY <1>9 DEF TypeOK, instruments, ModelFails
  <2> QED
    BY <2>1, <2>2 DEF SessionInv, RunSession
<1>10. ASSUME NEW r \in Run, Decide(r)
      PROVE  SessionInv'
  <2>1. /\ pc[r] = "decide" /\ pc'[r] \in {"end", "tools"} /\ abandoned' = abandoned
        /\ \A q \in Run \ {r} : pc'[q] = pc[q]
    BY <1>10 DEF Decide, Move, TypeOK
  <2>2. session' = session
    BY <1>10 DEF TypeOK, instruments, Decide
  <2> QED
    BY <2>1, <2>2 DEF SessionInv, RunSession
<1>11. ASSUME NEW r \in Run, LeaveTools(r)
      PROVE  SessionInv'
  <2>1. /\ pc[r] = "tools" /\ pc'[r] \in {"end", "model"} /\ abandoned' = abandoned
        /\ \A q \in Run \ {r} : pc'[q] = pc[q]
    BY <1>11 DEF LeaveTools, Move, TypeOK
  <2>2. session' = session
    BY <1>11 DEF TypeOK, instruments, LeaveTools
  <2> QED
    BY <2>1, <2>2 DEF SessionInv, RunSession
<1>12. ASSUME NEW r \in Run, End(r)
      PROVE  SessionInv'
  <2>1. /\ pc[r] = "end" /\ pc'[r] = "respond"
        /\ \A q \in Run \ {r} : pc'[q] = pc[q]
    BY <1>12 DEF End, Move, TypeOK
  <2>2. CASE Publish(RunEnded(r)) /\ abandoned' = abandoned
    <3>1. session' = [session EXCEPT ![r] = IF session[r] = "open" THEN "closed" ELSE session[r]]
      BY <2>2, SessionFollows DEF TypeOK
    <3>2. /\ session'[r] # "open"
          /\ \A q \in Run \ {r} : session'[q] = session[q]
      BY <3>1 DEF TypeOK, InstrumentsTypeOK
    <3> QED
      BY <2>1, <2>2, <3>2 DEF SessionInv, RunSession
  <2>3. CASE PublishRaises(RunEnded(r)) /\ abandoned' = abandoned \cup {r}
    <3>1. session' = session
      BY <2>3 DEF PublishRaises
    <3> QED
      BY <2>1, <2>3, <3>1 DEF SessionInv, RunSession
  <2> QED
    BY <1>12, <2>2, <2>3 DEF End
<1>13. ASSUME NEW r \in Run, Respond(r)
      PROVE  SessionInv'
  <2>1. /\ pc[r] = "respond" /\ pc'[r] \in {"guard", "over"} /\ abandoned' = abandoned
        /\ \A q \in Run \ {r} : pc'[q] = pc[q]
    BY <1>13 DEF Respond, Move, TypeOK
  <2>2. session' = session
    BY <1>13, SessionsStay DEF TypeOK
  <2> QED
    BY <2>1, <2>2 DEF SessionInv, RunSession
<1>14. ASSUME NEW r \in Run, Guard(r)
      PROVE  SessionInv'
  <2>1. /\ pc[r] = "guard" /\ pc'[r] = "over" /\ abandoned' = abandoned
        /\ \A q \in Run \ {r} : pc'[q] = pc[q]
    BY <1>14 DEF Guard, Move, TypeOK
  <2>2. session' = session
    BY <1>14, SessionsStay DEF TypeOK
  <2> QED
    BY <2>1, <2>2 DEF SessionInv, RunSession
<1>15. ASSUME NEW c \in Call, CallStep(c), UNCHANGED <<pc, body, turn, hasFirst, result, abandoned>>
      PROVE  SessionInv'
  <2>1. session' = session
    BY <1>15, CallMoves DEF Moved, TypeOK
  <2> QED
    BY <1>15, <2>1 DEF SessionInv, RunSession
<1>16. ASSUME Crash
      PROVE  SessionInv'
  <2>1. session' = session /\ abandoned' = abandoned
    BY <1>16 DEF Crash
  <2>2. \A q \in Run : pc'[q] = IF pc[q] = "new" THEN "new" ELSE "gone"
    BY <1>16 DEF Crash
  <2> QED
    BY <2>1, <2>2 DEF SessionInv, RunSession
<1>17. CASE UNCHANGED vars
  BY <1>17 DEF vars, instruments, SessionInv, RunSession
<1> QED
  BY <1>1, <1>2, <1>3, <1>4, <1>5, <1>6, <1>7, <1>8, <1>9, <1>10, <1>11, <1>12, <1>13,
      <1>14, <1>15, <1>16, <1>17
  DEF Next
-----------------------------------------------------------------------------
\* The invariant holds at the start ...
LEMMA InvInit == Init => IInv
<1> SUFFICES ASSUME Init PROVE IInv
  OBVIOUS
<1> USE DEF Init, InstrumentsInit, ToolsInit
<1>1. IsABag(counted) /\ \A m, s : Copies(m, s) = 0
  BY DEF EmptyBag, SetToBag, IsABag, Copies, BagIn, BagToSet
<1>2. TypeOK
  <2>1. InstrumentsTypeOK
    BY <1>1, InstrumentsAssumption DEF InstrumentsTypeOK
  <2>2. ToolsTypeOK
    BY DEF ToolsTypeOK
  <2> QED
    BY <2>1, <2>2, LifecycleAssumption DEF TypeOK
<1>3. FlowInv
  BY CallShape DEF FlowInv, RunFlow, CallFlow, Ended
<1>4. CallInv
  BY DEF CallInv, CallRecord
<1>5. CountInv
  BY <1>1 DEF CountInv, CallCount, Uncounted, Counted
<1>6. TraceInv
  BY CallShape DEF TraceInv, RunTrace, HasTrace
<1>7. TokenInv
  BY <1>1 DEF TokenInv, TokensAt, FirstTokens, Generations
<1>8. SessionInv
  BY DEF SessionInv, RunSession
<1> QED
  BY <1>2, <1>3, <1>4, <1>5, <1>6, <1>7, <1>8 DEF IInv

\* ... and every step keeps it.
LEMMA InvNext == IInv /\ [Next]_vars => IInv'
BY TypeNext, FlowNext, CallNext, CountNext, TraceNext, TokenNext, SessionNext DEF IInv

\* Every reachable state satisfies the inductive invariant.
THEOREM InvCorrect == Spec => []IInv
BY InvInit, InvNext, PTL DEF Spec

-----------------------------------------------------------------------------
(* The properties *)

\* The instruments, the calls and the runs are always of their types.
THEOREM TypeCorrect == Spec => []TypeOK
<1>1. IInv => TypeOK
  BY DEF IInv
<1> QED
  BY <1>1, InvCorrect, PTL

\* Nothing is on record as a side effect that did not happen; and a post, a new issue
\* or comment or a transition whose call is over and was answered with success is on
\* record.  It says nothing of a change whose answer was lost or whose call raised.
THEOREM OnRecord == Spec => []EffectsOnRecord
<1>1. IInv => EffectsOnRecord
  BY DEF IInv, CallInv, CallRecord, EffectsOnRecord
<1> QED
  BY <1>1, InvCorrect, PTL

\* The metric of its kind never counts a call twice, and has counted each that came to
\* an outcome by the time it is over, as what the trajectory shows.  Nothing is said
\* to be counted where the handler raised before there was an outcome.
THEOREM CountedOnce == Spec => []CallsCountedOnce
<1>1. IInv => CallsCountedOnce
  <2> SUFFICES ASSUME IInv, NEW c \in Call
               PROVE  LET n == Copies(Metric(EventOf(c).name), c) IN
                      /\ callPc[c] \notin {"free", "gone"} => n <= 1
                      /\ callPc[c] \in {"done", "raised"} /\ verdict[c] # "none" => n = 1
                      /\ c \in steps => n = 1
    BY DEF CallsCountedOnce
  <2>1. Metric(EventOf(c).name) = CallMetric(c) /\ CallMetric(c) \in CallMetrics
    BY EventMetric DEF CallMetric, CallMetrics
  <2>2. CallRecord(c) /\ CallCount(c)
    BY DEF IInv, CallInv, CountInv
  <2>3. callPc[c] \in {"done", "raised"} /\ verdict[c] # "none" => Copies(CallMetric(c), c) = 1
    BY <2>1, <2>2 DEF CallCount, Counted
  <2>5. callPc[c] # "gone" => Copies(CallMetric(c), c) \in {0, 1}
    <3>1. callPc[c] \in Uncounted \cup Counted \cup {"raised", "gone"}
      BY DEF IInv, TypeOK, ToolsTypeOK, Uncounted, Counted
    <3> QED
      BY <2>1, <2>2, <3>1 DEF CallCount
  <2>4. c \in steps => callPc[c] \in {"done", "raised"} /\ verdict[c] # "none"
    BY <2>2 DEF CallRecord
  <2> QED
    BY <2>1, <2>3, <2>5, <2>4
<1> QED
  BY <1>1, InvCorrect, PTL

\* A tool that its supervisor was offered is never refused to a call, as what is
\* unlocked stays unlocked while the process lives, whichever runs load skills.
THEOREM OfferedIsAllowed == Spec => []RefusedOnlyIfLocked
<1>1. IInv => RefusedOnlyIfLocked
  BY DEF IInv, CallInv, CallRecord, RefusedOnlyIfLocked
<1> QED
  BY <1>1, InvCorrect, PTL

\* Unless a subscriber has raised, all that is observed of a run is on one trace,
\* though calls that run side by side look for it and make it without a lock.
THEOREM OneTrace == Spec => []OneTracePerRun
<1>1. IInv => OneTracePerRun
  <2> SUFFICES ASSUME IInv, faults = 0, NEW r \in Run PROVE Cardinality(observed[r]) <= 1
    BY DEF OneTracePerRun
  <2>1. observed[r] \subseteq {trace[r]}
    BY DEF IInv, TraceInv, RunTrace
  <2>2. observed[r] = {} \/ observed[r] = {trace[r]}
    BY <2>1
  <2>3. Cardinality({}) = 0 /\ Cardinality({trace[r]}) = 1
    BY FS_EmptySet, FS_Singleton
  <2> QED
    BY <2>2, <2>3
<1> QED
  BY <1>1, InvCorrect, PTL

\* A generation that was counted has had a first token, and only as many more as
\* subscribers have raised between a first token and the note of it.
THEOREM FirstTokenOnce == Spec => []OneFirstToken
<1>1. IInv => OneFirstToken
  <2> SUFFICES ASSUME IInv, NEW r \in Run, NEW t \in 1..turn[r], Generations(r, t) > 0
               PROVE  FirstTokens(r, t) \in 1..(1 + faults)
    BY DEF OneFirstToken, FirstTokens, Generations
  <2>1. turn[r] \in Nat
    BY DEF IInv, TypeOK
  <2>2. t \in Nat /\ 1 <= t /\ t <= turn[r]
    BY <2>1
  <2> QED
    BY <2>2 DEF IInv, TokenInv, TokensAt
<1> QED
  BY <1>1, InvCorrect, PTL

\* A run that has been answered for has left no session open, unless its graph could
\* not be compiled or its session not be finished.
THEOREM SessionsEnd == Spec => []SessionsFinished
<1>1. IInv => SessionsFinished
  BY DEF IInv, SessionInv, RunSession, SessionsFinished
<1> QED
  BY <1>1, InvCorrect, PTL
-----------------------------------------------------------------------------
(* The sessions *)

Pending == {c \in Call : callPc[c] \notin Ended \cup {"free"}}

\* A step of the sessions, or none, by what it does to them.
LEMMA SessionSteps ==
  /\ UNCHANGED <<session, logged, Pending>> => UNCHANGED Sessions!vars
  /\ \A r \in Run :
       /\ session[r] = "none" /\ session' = [session EXCEPT ![r] = "open"]
            /\ UNCHANGED <<logged, Pending>> => Sessions!Next
       /\ session[r] = "open" /\ session' = [session EXCEPT ![r] = "closed"]
            /\ (\A c \in Pending : RunOf(c) # r) /\ UNCHANGED <<logged, Pending>> => Sessions!Next
  /\ \A some \in SUBSET Call :
       /\ (\A c \in some : session[RunOf(c)] # "closed") /\ Pending' = Pending \cup some
            /\ UNCHANGED <<session, logged>> => Sessions!Next
       /\ Pending' = Pending \ some /\ UNCHANGED <<session, logged>> => Sessions!Next
  /\ \A c \in Pending \ logged :
       session[RunOf(c)] = "open" /\ logged' = logged \cup {c} /\ UNCHANGED <<session, Pending>>
         => Sessions!Next
<1>1. UNCHANGED <<session, logged, Pending>> => UNCHANGED Sessions!vars
  BY DEF Sessions!vars, Pending
<1>2. ASSUME NEW r \in Run, session[r] = "none", session' = [session EXCEPT ![r] = "open"],
             UNCHANGED <<logged, Pending>>
      PROVE  Sessions!Next
  BY <1>2 DEF Sessions!Next, Sessions!Open, Pending
<1>3. ASSUME NEW r \in Run, session[r] = "open", session' = [session EXCEPT ![r] = "closed"],
             \A c \in Pending : RunOf(c) # r, UNCHANGED <<logged, Pending>>
      PROVE  Sessions!Next
  BY <1>3 DEF Sessions!Next, Sessions!Close, Pending
<1>4. ASSUME NEW some \in SUBSET Call, \A c \in some : session[RunOf(c)] # "closed",
             Pending' = Pending \cup some, UNCHANGED <<session, logged>>
      PROVE  Sessions!Next
  BY <1>4 DEF Sessions!Next, Sessions!Make, Pending
<1>5. ASSUME NEW some \in SUBSET Call, Pending' = Pending \ some, UNCHANGED <<session, logged>>
      PROVE  Sessions!Next
  BY <1>5 DEF Sessions!Next, Sessions!End, Pending
<1>6. ASSUME NEW c \in Pending \ logged, session[RunOf(c)] = "open", logged' = logged \cup {c},
             UNCHANGED <<session, Pending>>
      PROVE  Sessions!Next
  <2>1. c \in Call
    BY DEF Pending
  <2> QED
    BY <1>6, <2>1 DEF Sessions!Next, Sessions!Take, Pending
<1> QED
  BY <1>1, <1>2, <1>3, <1>4, <1>5, <1>6

\* Every step is one of the sessions or does nothing to them.
LEMMA SessionRefines == IInv /\ [Next]_vars => [Sessions!Next]_(Sessions!vars)
<1> SUFFICES ASSUME IInv, [Next]_vars PROVE Sessions!Next \/ UNCHANGED Sessions!vars
  OBVIOUS
<1> USE DEF IInv
<1>1. ASSUME NEW r \in Run, Begin(r)
      PROVE  Sessions!Next \/ UNCHANGED Sessions!vars
  <2>1. UNCHANGED <<Pending, logged>> /\ session[r] = "none"
    BY <1>1 DEF Begin, calls, records, Pending, SessionInv, RunSession
  <2>2. CASE Publish(RunStarted(r))
    <3>1. session' = [session EXCEPT ![r] = IF Wandb THEN "open" ELSE session[r]]
      BY <2>2, SessionFollows DEF TypeOK
    <3>2. session' = [session EXCEPT ![r] = "open"] \/ session' = session
      BY <3>1 DEF TypeOK, InstrumentsTypeOK
    <3> QED
      BY <2>1, <3>2, SessionSteps
  <2>3. CASE PublishRaises(RunStarted(r))
    BY <2>1, <2>3, SessionSteps DEF PublishRaises
  <2> QED
    BY <1>1, <2>2, <2>3 DEF Begin
<1>2. ASSUME NEW r \in Run, Compile(r)
      PROVE  Sessions!Next \/ UNCHANGED Sessions!vars
  <2>1. session' = session
    BY <1>2 DEF TypeOK, instruments, Compile
  <2>2. UNCHANGED <<callPc, logged>>
    BY <1>2 DEF Compile, toolVars, calls, records
  <2> QED
    BY <2>1, <2>2, SessionSteps DEF Pending
<1>3. ASSUME NEW r \in Run, LoadSkill(r)
      PROVE  Sessions!Next \/ UNCHANGED Sessions!vars
  <2>1. session' = session
    BY <1>3, SessionsStay DEF TypeOK
  <2>2. UNCHANGED <<callPc, logged>>
    BY <1>3 DEF LoadSkill, toolVars, calls, records
  <2> QED
    BY <2>1, <2>2, SessionSteps DEF Pending
<1>4. ASSUME NEW r \in Run, EnterNode(r)
      PROVE  Sessions!Next \/ UNCHANGED Sessions!vars
  <2>1. \A c \in Call : RunOf(c) = r => callPc[c] = "free"
    BY <1>4 DEF EnterNode, FlowInv, CallFlow
  <2>2. \/ UNCHANGED <<callPc, tool>>
        \/ Make(r, [c \in {<<r, 1>>} |-> body[r].tool])
    BY <1>4 DEF EnterNode
  <2>3. \A c \in Call : \/ callPc'[c] = callPc[c]
                        \/ RunOf(c) = r /\ callPc[c] = "free" /\ callPc'[c] = "called"
    BY <2>1, <2>2, CallShape DEF Make
  <2>4. PICK some \in SUBSET Call : /\ \A c \in some : RunOf(c) = r
                                    /\ Pending' = Pending \cup some
    <3> DEFINE these == {c \in Call : callPc[c] = "free" /\ callPc'[c] = "called"}
    <3>1. \A c \in these : c \in Call /\ RunOf(c) = r
      BY <2>3
    <3>2. Pending' = Pending \cup these
      BY <2>3 DEF Pending, Ended
    <3> HIDE DEF these
    <3> QED
      BY <3>1, <3>2
  <2>5. session[r] # "closed" /\ UNCHANGED <<session, logged>>
    BY <1>4 DEF EnterNode, instruments, records, SessionInv, RunSession
  <2> QED
    BY <2>4, <2>5, SessionSteps
<1>5. ASSUME NEW r \in Run, StartGeneration(r)
      PROVE  Sessions!Next \/ UNCHANGED Sessions!vars
  <2>1. session' = session
    BY <1>5 DEF TypeOK, instruments, StartGeneration
  <2>2. UNCHANGED <<callPc, logged>>
    BY <1>5 DEF StartGeneration, toolVars, calls, records
  <2> QED
    BY <2>1, <2>2, SessionSteps DEF Pending
<1>6. ASSUME NEW r \in Run, NewToken(r)
      PROVE  Sessions!Next \/ UNCHANGED Sessions!vars
  <2>1. session' = session
    BY <1>6, SessionsStay DEF TypeOK
  <2>2. UNCHANGED <<callPc, logged>>
    BY <1>6 DEF NewToken, toolVars, calls, records
  <2> QED
    BY <2>1, <2>2, SessionSteps DEF Pending
<1>7. ASSUME NEW r \in Run, EndGeneration(r)
      PROVE  Sessions!Next \/ UNCHANGED Sessions!vars
  <2>1. session' = session
    BY <1>7, SessionsStay DEF TypeOK
  <2>2. UNCHANGED <<callPc, logged>>
    BY <1>7 DEF EndGeneration, toolVars, calls, records
  <2> QED
    BY <2>1, <2>2, SessionSteps DEF Pending
<1>8. ASSUME NEW r \in Run, CompleteGeneration(r)
      PROVE  Sessions!Next \/ UNCHANGED Sessions!vars
  <2>1. session' = session
    BY <1>8, SessionsStay DEF TypeOK
  <2>2. UNCHANGED <<callPc, logged>>
    BY <1>8 DEF CompleteGeneration, toolVars, calls, records
  <2> QED
    BY <2>1, <2>2, SessionSteps DEF Pending
<1>9. ASSUME NEW r \in Run, ModelFails(r)
      PROVE  Sessions!Next \/ UNCHANGED Sessions!vars
  <2>1. session' = session
    BY <1>9 DEF TypeOK, instruments, ModelFails
  <2>2. UNCHANGED <<callPc, logged>>
    BY <1>9 DEF ModelFails, toolVars, calls, records
  <2> QED
    BY <2>1, <2>2, SessionSteps DEF Pending
<1>10. ASSUME NEW r \in Run, Decide(r)
      PROVE  Sessions!Next \/ UNCHANGED Sessions!vars
  <2>1. Turn(r) \/ UNCHANGED <<callPc, tool>>
    BY <1>10 DEF Decide, Turn
  <2>2. \A c \in Call : \/ callPc'[c] = callPc[c]
                        \/ RunOf(c) = r /\ callPc[c] = "free" /\ callPc'[c] = "called"
    BY <2>1, TurnMakes DEF MadeBy
  <2>3. PICK some \in SUBSET Call : /\ \A c \in some : RunOf(c) = r
                                    /\ Pending' = Pending \cup some
    <3> DEFINE these == {c \in Call : callPc[c] = "free" /\ callPc'[c] = "called"}
    <3>1. \A c \in these : c \in Call /\ RunOf(c) = r
      BY <2>2
    <3>2. Pending' = Pending \cup these
      BY <2>2 DEF Pending, Ended
    <3> HIDE DEF these
    <3> QED
      BY <3>1, <3>2
  <2>4. session[r] # "closed" /\ UNCHANGED <<session, logged>>
    BY <1>10 DEF Decide, instruments, records, SessionInv, RunSession
  <2> QED
    BY <2>3, <2>4, SessionSteps
<1>11. ASSUME NEW r \in Run, LeaveTools(r)
      PROVE  Sessions!Next \/ UNCHANGED Sessions!vars
  <2>1. session' = session
    BY <1>11 DEF TypeOK, instruments, LeaveTools
  <2>2. UNCHANGED <<callPc, logged>>
    BY <1>11 DEF LeaveTools, toolVars, calls, records
  <2> QED
    BY <2>1, <2>2, SessionSteps DEF Pending
<1>12. ASSUME NEW r \in Run, End(r)
      PROVE  Sessions!Next \/ UNCHANGED Sessions!vars
  <2>1. UNCHANGED <<Pending, logged>> /\ \A c \in Pending : RunOf(c) # r
    BY <1>12 DEF End, toolVars, calls, records, Pending, FlowInv, CallFlow
  <2>2. CASE Publish(RunEnded(r))
    <3>1. session' = [session EXCEPT ![r] = IF session[r] = "open" THEN "closed" ELSE session[r]]
      BY <2>2, SessionFollows DEF TypeOK
    <3>2. \/ session[r] = "open" /\ session' = [session EXCEPT ![r] = "closed"]
          \/ session' = session
      BY <3>1 DEF TypeOK, InstrumentsTypeOK
    <3> QED
      BY <2>1, <3>2, SessionSteps
  <2>3. CASE PublishRaises(RunEnded(r))
    BY <2>1, <2>3, SessionSteps DEF PublishRaises
  <2> QED
    BY <1>12, <2>2, <2>3 DEF End
<1>13. ASSUME NEW r \in Run, Respond(r)
      PROVE  Sessions!Next \/ UNCHANGED Sessions!vars
  <2>1. session' = session
    BY <1>13, SessionsStay DEF TypeOK
  <2>2. UNCHANGED <<callPc, logged>>
    BY <1>13 DEF Respond, toolVars, calls, records
  <2> QED
    BY <2>1, <2>2, SessionSteps DEF Pending
<1>14. ASSUME NEW r \in Run, Guard(r)
      PROVE  Sessions!Next \/ UNCHANGED Sessions!vars
  <2>1. session' = session
    BY <1>14, SessionsStay DEF TypeOK
  <2>2. UNCHANGED <<callPc, logged>>
    BY <1>14 DEF Guard, toolVars, calls, records
  <2> QED
    BY <2>1, <2>2, SessionSteps DEF Pending
<1>15. ASSUME NEW c \in Call, CallStep(c), UNCHANGED <<pc, body, turn, hasFirst, result, abandoned>>
      PROVE  Sessions!Next \/ UNCHANGED Sessions!vars
  <2>1. Moved(c)
    BY <1>15, CallMoves DEF TypeOK
  <2>2. c \in Pending /\ Pending' \in {Pending, Pending \ {c}}
    BY <2>1 DEF Moved, Underway, Pending, Ended
  <2>3. session' = session
    BY <2>1 DEF Moved
  <2>4. CASE logged' = logged
    <3>1. {c} \in SUBSET Call
      OBVIOUS
    <3> QED
      BY <2>2, <2>3, <2>4, <3>1, SessionSteps
  <2>5. CASE logged' # logged
    <3>1. EmitCall(c)
      BY <1>15, <2>5
         DEF CallStep, records, Invoke, RejectArguments, LookUpTransition, Refused,
             Performed, Lost, Read, Record, CountCall, Book, CallFails
    <3>2. Booked(c) /\ session[RunOf(c)] = "open" /\ logged' = logged \cup {c}
      BY <2>5, <3>1 DEF EmitCall
    <3>3. callPc'[c] = "book" /\ callPc[c] = "emit"
      <4>1. AfterEvent(c) = "book"
        BY <3>2 DEF AfterEvent, Booked
      <4> QED
        BY <3>1, <4>1 DEF EmitCall, Goto, TypeOK, ToolsTypeOK
    <3>4. c \notin logged
      BY <3>3 DEF CallInv, CallRecord
    <3>5. Pending' = Pending
      BY <2>1, <3>3 DEF Moved, Pending, Ended
    <3> QED
      BY <2>2, <2>3, <3>2, <3>4, <3>5, SessionSteps
  <2> QED
    BY <2>4, <2>5
<1>16. ASSUME Crash
      PROVE  Sessions!Next \/ UNCHANGED Sessions!vars
  <2>1. UNCHANGED <<session, logged>>
    BY <1>16 DEF Crash
  <2>2. Pending' = Pending \ Call
    BY <1>16 DEF Crash, Pending, Ended
  <2> QED
    BY <2>1, <2>2, SessionSteps
<1>17. CASE UNCHANGED vars
  BY <1>17, SessionSteps DEF vars, instruments, toolVars, calls, records, Pending
<1> QED
  BY <1>1, <1>2, <1>3, <1>4, <1>5, <1>6, <1>7, <1>8, <1>9, <1>10, <1>11, <1>12, <1>13,
      <1>14, <1>15, <1>16, <1>17
  DEF Next

\* The sessions behave as TraceSession says: opened once, closed for good after the
\* calls of their run, each of which they take at most once.
THEOREM SessionsBehave == Spec => ImplementsSessions
<1>1. Init => Sessions!Init
  BY DEF Init, InstrumentsInit, ToolsInit, Sessions!Init
<1> QED
  BY <1>1, SessionRefines, InvCorrect, PTL DEF Spec, ImplementsSessions, Sessions!Spec

=============================================================================
