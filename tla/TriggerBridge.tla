--------------------------- MODULE TriggerBridge ---------------------------
(***************************************************************************)
(* agent/triggers: Slack mentions and Jira webhooks become trigger runs.   *)
(* The route answers 200 and leaves the event to a background task on a    *)
(* thread of its own (Socket Mode acknowledges and goes on in Bolt's       *)
(* thread), so deliveries of one event may be handled side by side.        *)
(* EventDeduper, when enabled, remembers ids in the memory of the process; *)
(* no lock covers its look-up and its insertion.                           *)
(*                                                                         *)
(* A sender that gets no answer, or gets it late, delivers an event again. *)
(***************************************************************************)
EXTENDS Naturals, Sequences, SequencesExt, FiniteSets

CONSTANTS
  Event,          \* events Slack or Jira may send
  NoId,           \* events that come without an id: all of Socket Mode's, and
                  \* Jira webhooks without X-Atlassian-Webhook-Identifier
  Unusable,       \* a bot's own message, no mention, no channel, no issue key
  EmptyId,        \* the id of those of NoId
  NoEvent,
  Dedupe,         \* EVENT_DEDUPE
  MaxEntries,     \* ids the deduper keeps (10000)
  MaxDeliveries,  \* bound: deliveries
  MaxRestarts     \* bound: restarts of the process

Delivery == 1..MaxDeliveries

ASSUME BridgeAssumption ==
  /\ NoId \subseteq Event /\ Unusable \subseteq Event
  /\ EmptyId \notin Event /\ NoEvent \notin Event
  /\ Dedupe \in BOOLEAN
  /\ MaxEntries \in Nat \ {0}
  /\ MaxDeliveries \in Nat /\ MaxRestarts \in Nat

VARIABLES
  pc,             \* where each delivery is
  event,          \* what it delivers
  seen,           \* EventDeduper._seen, least recently used first
  others,         \* history: per id, the other ids the deduper has been asked
                  \* about since it was last asked about this one
  excused,        \* history: ids asked about by two threads at once, or when
                  \* MaxEntries other ids had come since
  restarts

history == <<others, excused>>
vars == <<pc, event, seen, history, restarts>>

TypeOK ==
  /\ pc \in [Delivery -> {"unsent", "queued", "insert", "run", "over", "deduped",
                          "ignored", "gone"}]
  /\ event \in [Delivery -> Event \cup {NoEvent}]
  /\ seen \in Seq(Event \ NoId) /\ IsInjective(seen) /\ Len(seen) <= MaxEntries
  /\ others \in [Event -> SUBSET Event]
  /\ excused \in SUBSET Event
  /\ restarts \in 0..MaxRestarts

Init ==
  /\ pc = [d \in Delivery |-> "unsent"]
  /\ event = [d \in Delivery |-> NoEvent]
  /\ seen = <<>>
  /\ excused = {}
  /\ others = [e \in Event |-> {}]
  /\ restarts = 0

Goto(d, where) == pc' = [pc EXCEPT ![d] = where]

-----------------------------------------------------------------------------
(* Delivery *)

\* A request arrives, the first for its event or a further one.  The route
\* verifies it, adds a background task and answers.
Deliver(d) ==
  /\ pc[d] = "unsent" /\ \A c \in Delivery : c < d => pc[c] # "unsent"
  /\ \E e \in Event : event' = [event EXCEPT ![d] = e]
  /\ Goto(d, "queued")
  /\ UNCHANGED <<seen, history, restarts>>

-----------------------------------------------------------------------------
(* The deduper *)

Id(d) == IF event[d] \in NoId THEN EmptyId ELSE event[d]

\* Mutant: an empty id is looked up like any other.
HasIdAlways(d) == Dedupe

\* Whether is_duplicate is asked, and asked about an id.
HasId(d) == Dedupe /\ Id(d) # EmptyId

\* What is no mention or names no issue is ignored, but its id is remembered.
LetPass(d) == Goto(d, IF event[d] \in Unusable THEN "ignored" ELSE "run")

NoteAsked(d) ==
  others' = [e \in Event |-> IF e = event[d] THEN {} ELSE others[e] \cup {event[d]}]

Excuse(d) ==
  excused' = excused \cup
    {e \in {event[d]} :
       \/ \E c \in Delivery : pc[c] = "insert" /\ event[c] = e
       \/ Cardinality(others[e]) >= MaxEntries}

\* s with k as its most recently used id.
Touch(s, k) == Append(RemoveFirst(s, k), k)

SkipDeduper(d) ==
  /\ pc[d] = "queued" /\ ~HasId(d)
  /\ LetPass(d)
  /\ UNCHANGED <<event, seen, others, excused, restarts>>

\* Mutant: a duplicate does not renew its id.
DropFifo(d) ==
  /\ pc[d] = "queued" /\ HasId(d) /\ Contains(seen, Id(d))
  /\ Goto(d, "deduped")
  /\ NoteAsked(d)
  /\ UNCHANGED <<event, seen, excused, restarts>>

\* is_duplicate: key in self._seen, move_to_end, True.
DropDuplicate(d) ==
  /\ pc[d] = "queued" /\ HasId(d) /\ Contains(seen, Id(d))
  /\ seen' = Touch(seen, Id(d))
  /\ Goto(d, "deduped")
  /\ NoteAsked(d)
  /\ UNCHANGED <<event, excused, restarts>>

\* The id is not there ...
LookUp(d) ==
  /\ pc[d] = "queued" /\ HasId(d) /\ ~Contains(seen, Id(d))
  /\ Goto(d, "insert")
  /\ Excuse(d)
  /\ UNCHANGED <<event, seen, others, restarts>>

\* popitem(last=False) until max_entries are left.
Bounded(s) == IF Len(s) > MaxEntries THEN Tail(s) ELSE s

\* ... and is put there, which another thread may have done meanwhile.
Insert(d) ==
  /\ pc[d] = "insert"
  /\ seen' = Bounded(Touch(seen, Id(d)))
  /\ LetPass(d)
  /\ NoteAsked(d)
  /\ UNCHANGED <<event, excused, restarts>>

-----------------------------------------------------------------------------
(* The run *)

\* run_trigger_graph and the reply to Slack.  An exception of the run is logged
\* and dropped, and so is one of the reply: the id stays remembered.
RunGraph(d) ==
  /\ pc[d] = "run"
  /\ Goto(d, "over")
  /\ UNCHANGED <<event, seen, history, restarts>>

\* Mutant: the ids are kept in a store that outlives the process.
RestartKeepsIds ==
  /\ restarts < MaxRestarts
  /\ restarts' = restarts + 1
  /\ pc' = [d \in Delivery |-> IF pc[d] = "unsent" THEN "unsent" ELSE "gone"]
  /\ excused' = {}
  /\ others' = [e \in Event |-> {}]
  /\ UNCHANGED <<event, seen>>

\* The tasks of the process and the ids it remembers are gone.
Restart ==
  /\ restarts < MaxRestarts
  /\ restarts' = restarts + 1
  /\ pc' = [d \in Delivery |-> IF pc[d] = "unsent" THEN "unsent" ELSE "gone"]
  /\ seen' = <<>>
  /\ excused' = {}
  /\ others' = [e \in Event |-> {}]
  /\ UNCHANGED event

Next ==
  \/ \E d \in Delivery :
       \/ Deliver(d)
       \/ SkipDeduper(d) \/ DropDuplicate(d) \/ LookUp(d) \/ Insert(d)
       \/ RunGraph(d)
  \/ Restart

Spec == Init /\ [][Next]_vars

-----------------------------------------------------------------------------
(* Properties *)

\* The deliveries this process ran the pipeline for, and those its deduper let
\* through.
Ran == {d \in Delivery : pc[d] = "over"}
Passed == {d \in Delivery : pc[d] \in {"run", "over", "ignored"}}

\* A process runs the pipeline twice for an id only if two threads asked for
\* the id at once, or MaxEntries other ids had come since it was last asked for.
RunsOnceUnlessExcused ==
  \A c, d \in Ran : event[c] = event[d] /\ HasId(c) => c = d \/ event[c] \in excused

\* An event is dropped as a duplicate only if the same process has let another
\* delivery of that very event through: neither a new event nor one that an
\* earlier process lost is swallowed.
DropsOnlyTwins ==
  [][\A d \in Delivery : pc[d] # "deduped" /\ pc'[d] = "deduped" =>
       \E c \in Passed : event[c] = event[d]]_vars

=============================================================================
