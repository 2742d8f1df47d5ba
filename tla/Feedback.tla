------------------------------ MODULE Feedback ------------------------------
(***************************************************************************)
(* Reactions of Slack users to messages the agent posted, kept as human    *)
(* feedback: tools/slack/post.py records a side effect and a correlation   *)
(* for each message, observability/slack_ingest.py looks the correlation   *)
(* up, retracts the feedback that opposes the new one and records it.      *)
(*                                                                         *)
(* The stores are lists behind a lock in each replica's memory, or tables  *)
(* that all replicas share and where each statement commits by itself.     *)
(* The reactions route is a coroutine that does not await while it handles *)
(* an event: a replica handles one at a time, next to posts on threads.    *)
(*                                                                         *)
(* Nobody promises the order of deliveries, nor that there is just one of  *)
(* each.                                                                   *)
(***************************************************************************)
EXTENDS Integers, Sequences, FiniteSets

CONSTANTS
  Replica,        \* processes of the agent
  Stores,         \* HOSTED_AGENT_OBSERVABILITY_STORE: "memory" or "postgres"
  Database,       \* the home of all replicas' records under "postgres"
  Message, User, Emoji, Label,
  NoLabel,        \* an emoji of no label of the registry
  LabelOf,        \* slack_emoji_map and LabelRegistry.resolve
  Scalar,         \* LabelEntry.scalar, by its sign; 0 for none as well
  MaxEvents,      \* bound: reactions added and removed
  MaxAgain,       \* bound: further deliveries of an event
  MaxFaults       \* bound: ends of replicas and failing statements

ASSUME FeedbackAssumption ==
  /\ Stores \subseteq {"memory", "postgres"} /\ Database \notin Replica
  /\ NoLabel \notin Label
  /\ LabelOf \in [Emoji -> Label \cup {NoLabel}]
  /\ Scalar \in [Label \cup {NoLabel} -> -1..1] /\ Scalar[NoLabel] = 0
  /\ MaxEvents \in Nat /\ MaxAgain \in Nat /\ MaxFaults \in Nat

VARIABLES
  kind,           \* the store
  post,           \* where each message is on its way
  poster,         \* the replica that posts it
  effects,        \* side effect checkpoints: messages, by home
  corr,           \* correlations: messages, by home
  log,            \* reactions added and removed, in Slack's order
  pc,             \* where the handler of each event is
  at,             \* and the replica it runs on
  todo,           \* opposing labels it has still to retract
  stored,         \* human feedback, by home: dedupe keys
  orphans,        \* events that were recorded as orphans for want of a correlation
  expected,       \* history: events whose message was answered for when they came
  raced,          \* history: whose reactions were handled side by side
  spoiled,        \* history: whose reactions did not all come, once and in order,
                  \* to a home that knew the message, and were handled to the end
  again, faults

posts == <<post, poster, effects, corr>>
handlers == <<pc, at, todo, stored, orphans>>
history == <<expected, raced, spoiled>>
vars == <<kind, posts, log, handlers, history, again, faults>>

Key == User \X Message \X Label
Home == Replica \cup {Database}
HomeOf(a) == IF kind = "postgres" THEN Database ELSE a
Event == [type : {"reaction_added", "reaction_removed"}, user : User,
          message : Message, emoji : Emoji]

TypeOK ==
  /\ kind \in Stores
  /\ post \in [Message -> {"unsent", "sent", "effect", "answered", "lost"}]
  /\ poster \in [Message -> Replica]
  /\ effects \in [Home -> SUBSET Message] /\ corr \in [Home -> SUBSET Message]
  /\ log \in Seq(Event) /\ Len(log) <= MaxEvents
  /\ pc \in [1..MaxEvents -> {"none", "waiting", "lookup", "retract", "oppose",
                              "insert", "publish", "done", "orphan", "failed"}]
  /\ at \in [1..MaxEvents -> Replica]
  /\ todo \in [1..MaxEvents -> SUBSET Label]
  /\ stored \in [Home -> SUBSET Key]
  /\ orphans \subseteq 1..MaxEvents /\ expected \subseteq 1..MaxEvents
  /\ raced \subseteq User \X Message /\ spoiled \subseteq User \X Message
  /\ again \in 0..MaxAgain /\ faults \in 0..MaxFaults

Init ==
  /\ kind \in Stores
  /\ post = [m \in Message |-> "unsent"]
  /\ poster \in [Message -> Replica]
  /\ effects = [h \in Home |-> {}] /\ corr = [h \in Home |-> {}]
  /\ log = <<>>
  /\ pc = [n \in 1..MaxEvents |-> "none"]
  /\ at \in {[n \in 1..MaxEvents |-> a] : a \in Replica}
  /\ todo = [n \in 1..MaxEvents |-> {}]
  /\ stored = [h \in Home |-> {}]
  /\ orphans = {} /\ expected = {} /\ raced = {} /\ spoiled = {}
  /\ again = 0 /\ faults = 0

-----------------------------------------------------------------------------
(* slack.post_message *)

PostAt(m, where) == post' = [post EXCEPT ![m] = where]

\* chat.postMessage succeeds: the message can be seen, and reacted to.
Send(m) ==
  /\ post[m] = "unsent"
  /\ PostAt(m, "sent")
  /\ UNCHANGED <<kind, poster, effects, corr, log, handlers, history, again, faults>>

\* Mutant: the correlation is recorded first.
CorrelateFirst(m) ==
  /\ post[m] = "sent"
  /\ corr' = [corr EXCEPT ![HomeOf(poster[m])] = @ \cup {m}]
  /\ PostAt(m, "effect")
  /\ UNCHANGED <<kind, poster, effects, log, handlers, history, again, faults>>

\* record_side_effect_checkpoint ...
RecordEffect(m) ==
  /\ post[m] = "sent"
  /\ effects' = [effects EXCEPT ![HomeOf(poster[m])] = @ \cup {m}]
  /\ PostAt(m, "effect")
  /\ UNCHANGED <<kind, poster, corr, log, handlers, history, again, faults>>

\* Mutant: the correlation is not for the store of the replica.
CorrelateElsewhere(m) ==
  /\ post[m] = "effect"
  /\ \E a \in Replica : corr' = [corr EXCEPT ![a] = @ \cup {m}]
  /\ PostAt(m, "answered")
  /\ UNCHANGED <<kind, poster, effects, log, handlers, history, again, faults>>

\* ... and put_slack_message, after which the tool answers.
Correlate(m) ==
  /\ post[m] = "effect"
  /\ corr' = [corr EXCEPT ![HomeOf(poster[m])] = @ \cup {m}]
  /\ PostAt(m, "answered")
  /\ UNCHANGED <<kind, poster, effects, log, handlers, history, again, faults>>

\* The answer of Slack is lost, or a statement fails: the tool raises, and the
\* message stays as it is.
PostFails(m) ==
  /\ post[m] \in {"sent", "effect"} /\ faults < MaxFaults
  /\ faults' = faults + 1
  /\ PostAt(m, "lost")
  /\ UNCHANGED <<kind, poster, effects, corr, log, handlers, history, again>>

-----------------------------------------------------------------------------
(* Slack *)

Shown ==
  {<<log[i].user, log[i].message, log[i].emoji>> : i \in
     {i \in DOMAIN log :
        /\ log[i].type = "reaction_added"
        /\ \A j \in DOMAIN log : j > i =>
             <<log[i].user, log[i].message, log[i].emoji>> #
             <<log[j].user, log[j].message, log[j].emoji>>}}

\* A user adds a reaction or takes it away.
React(u, m, e) ==
  /\ post[m] # "unsent" /\ Len(log) < MaxEvents
  /\ log' = Append(log, [type |-> IF <<u, m, e>> \in Shown
                                  THEN "reaction_removed" ELSE "reaction_added",
                         user |-> u, message |-> m, emoji |-> e])
  /\ pc' = [pc EXCEPT ![Len(log) + 1] = "waiting"]
  /\ UNCHANGED <<kind, posts, at, todo, stored, orphans, history, again, faults>>

-----------------------------------------------------------------------------
(* handle_slack_reaction_event *)

Whose(n) == <<log[n].user, log[n].message>>
LabelFor(n) == LabelOf[log[n].emoji]
KeyOf(n, l) == <<log[n].user, log[n].message, l>>
Over == {"waiting", "done", "orphan", "failed"}
Handled == {n \in DOMAIN log : pc[n] \notin Over}

Goto(n, where) == pc' = [pc EXCEPT ![n] = where]

InTurn(n) ==
  /\ pc[n] = "waiting"
  /\ \A k \in DOMAIN log : Whose(k) = Whose(n) =>
       /\ k < n => pc[k] = "done"
       /\ k > n => pc[k] = "waiting"

\* An event is delivered to a replica that is not handling another, out of
\* turn or again though it may be.
Receive(n, a) ==
  /\ n \in DOMAIN log /\ pc[n] \in Over
  /\ \A k \in Handled : at[k] # a
  /\ pc[n] # "waiting" => again < MaxAgain
  /\ again' = IF pc[n] = "waiting" THEN again ELSE again + 1
  /\ Goto(n, "lookup")
  /\ at' = [at EXCEPT ![n] = a]
  /\ expected' = IF post[log[n].message] = "answered" /\
                    HomeOf(poster[log[n].message]) = HomeOf(a)
                 THEN expected \cup {n} ELSE expected \ {n}
  /\ raced' = raced \cup {Whose(k) : k \in {k \in Handled : Whose(k) = Whose(n)}}
  /\ spoiled' = IF InTurn(n) THEN spoiled ELSE spoiled \cup {Whose(n)}
  /\ UNCHANGED <<kind, posts, log, todo, stored, orphans, faults>>

\* Mutant: whatever the event is, it is taken for an addition.
TypeOfAddition(n) == "reaction_added"

\* _normalize_event_type.
Type(n) == log[n].type

\* Mutant: a label that the registry does not have is taken as it is.
TakenAsLabel(n) == TRUE

Resolved(n) == LabelFor(n) # NoLabel

\* Mutant: what is negative has no opposite.
OpposingBelowZero(l) == {k \in Label : Scalar[l] > 0 /\ Scalar[k] < 0}

\* LabelRegistry.opposing_scalar_label_ids.
Opposing(l) == {k \in Label : Scalar[l] * Scalar[k] < 0}

\* A message without correlation makes the event an orphan, and so does an
\* emoji without label, which no later delivery would change.
LookUp(n) ==
  /\ pc[n] = "lookup"
  /\ LET known == log[n].message \in corr[HomeOf(at[n])]
     IN /\ Goto(n, CASE ~known -> "orphan"
                     [] known /\ ~Resolved(n) -> "done"
                     [] known /\ Resolved(n) /\ Type(n) = "reaction_removed" -> "retract"
                     [] known /\ Resolved(n) /\ Type(n) = "reaction_added" -> "oppose")
        /\ orphans' = IF known THEN orphans ELSE orphans \cup {n}
        /\ todo' = [todo EXCEPT ![n] = IF known /\ Resolved(n) /\ Type(n) = "reaction_added"
                                       THEN Opposing(LabelFor(n)) ELSE {}]
  /\ UNCHANGED <<kind, posts, log, at, stored, history, again, faults>>

Forget(n, l) == stored' = [stored EXCEPT ![HomeOf(at[n])] = @ \ {KeyOf(n, l)}]

\* retract_human for a reaction that is taken away.
Retract(n) ==
  /\ pc[n] = "retract"
  /\ Forget(n, LabelFor(n))
  /\ Goto(n, "done")
  /\ UNCHANGED <<kind, posts, log, at, todo, orphans, history, again, faults>>

\* retract_human for one of the opposing labels.
Oppose(n) ==
  /\ pc[n] = "oppose"
  /\ \E l \in todo[n] : /\ Forget(n, l)
                        /\ todo' = [todo EXCEPT ![n] = @ \ {l}]
  /\ UNCHANGED <<kind, posts, log, pc, at, orphans, history, again, faults>>

\* PostgresFeedbackStore.record_human deletes first, in a statement of its own.
Delete(n) ==
  /\ kind = "postgres" /\ pc[n] = "oppose" /\ todo[n] = {}
  /\ Forget(n, LabelFor(n))
  /\ Goto(n, "insert")
  /\ UNCHANGED <<kind, posts, log, at, todo, orphans, history, again, faults>>

\* The insertion, which the unique index refuses if another handler was faster.
\* In memory, record_human is one critical section.
Insert(n) ==
  /\ \/ kind = "postgres" /\ pc[n] = "insert"
     \/ kind = "memory" /\ pc[n] = "oppose" /\ todo[n] = {}
  /\ LET h == HomeOf(at[n])
         k == KeyOf(n, LabelFor(n))
     IN /\ Goto(n, IF kind = "postgres" /\ k \in stored[h] THEN "failed" ELSE "publish")
        /\ stored' = [stored EXCEPT ![h] = @ \cup {k}]
  /\ UNCHANGED <<kind, posts, log, at, todo, orphans, history, again, faults>>

\* The trajectory and the subscribers of feedback_recorded, then the answer.
Publish(n) ==
  /\ pc[n] = "publish"
  /\ Goto(n, "done")
  /\ UNCHANGED <<kind, posts, log, at, todo, stored, orphans, history, again, faults>>

\* A statement fails, or a subscriber raises.
Fail(n) ==
  /\ pc[n] \notin Over \cup {"none"} /\ faults < MaxFaults
  /\ kind = "memory" => pc[n] = "publish"
  /\ faults' = faults + 1
  /\ Goto(n, "failed")
  /\ UNCHANGED <<kind, posts, log, at, todo, stored, orphans, history, again>>

-----------------------------------------------------------------------------

\* A replica ends, and another takes its place.
Restart(a) ==
  /\ faults < MaxFaults
  /\ faults' = faults + 1
  /\ post' = [m \in Message |-> IF poster[m] = a /\ post[m] \in
                                     {"sent", "effect"} \cup
                                     (IF kind = "memory" THEN {"answered"} ELSE {})
                                THEN "lost" ELSE post[m]]
  /\ pc' = [n \in 1..MaxEvents |-> IF n \in Handled /\ at[n] = a THEN "failed" ELSE pc[n]]
  /\ expected' = {n \in expected : ~(n \in Handled /\ at[n] = a)}
  /\ IF kind = "memory"
     THEN /\ effects' = [effects EXCEPT ![a] = {}] /\ corr' = [corr EXCEPT ![a] = {}]
          /\ stored' = [stored EXCEPT ![a] = {}]
          /\ spoiled' = User \X Message
     ELSE UNCHANGED <<effects, corr, stored, spoiled>>
  /\ UNCHANGED <<kind, poster, log, at, todo, orphans, raced, again>>

Next ==
  \/ \E m \in Message : Send(m) \/ RecordEffect(m) \/ Correlate(m) \/ PostFails(m)
  \/ \E u \in User, m \in Message, e \in Emoji : React(u, m, e)
  \/ \E n \in 1..MaxEvents :
       \/ \E a \in Replica : Receive(n, a)
       \/ LookUp(n) \/ Retract(n) \/ Oppose(n) \/ Delete(n) \/ Insert(n) \/ Publish(n)
       \/ Fail(n)
  \/ \E a \in Replica : Restart(a)

Spec == Init /\ [][Next]_vars

-----------------------------------------------------------------------------
(* Properties *)

LabelsOf(u, m) == {l \in Label : \E h \in Home : <<u, m, l>> \in stored[h]}

\* The feedback of a user on a message does not take both sides, unless two
\* replicas handled reactions of that user to it side by side: the opposing
\* labels are retracted and the new one recorded in steps of their own.
OneSideUnlessRaced ==
  \A u \in User, m \in Message : <<u, m>> \notin raced =>
    \A h \in Home : \A k, l \in {l \in Label : <<u, m, l>> \in stored[h]} :
      Scalar[k] * Scalar[l] >= 0

\* What the reactions of a user to a message say in the end: an addition counts
\* until an emoji of its label is taken away or one of an opposing label added.
SaidInTheEnd(u, m) ==
  LET mine == {n \in DOMAIN log : Whose(n) = <<u, m>> /\ LabelFor(n) # NoLabel}
  IN {LabelFor(n) : n \in
        {n \in mine :
           /\ log[n].type = "reaction_added"
           /\ \A k \in mine : k > n =>
                IF log[k].type = "reaction_removed" THEN LabelFor(k) # LabelFor(n)
                ELSE Scalar[LabelFor(k)] * Scalar[LabelFor(n)] >= 0}}

\* If all reactions of a user to a message were handled, once each and in order,
\* the feedback is what they say in the end.
MirrorsTheLog ==
  \A u \in User, m \in Message :
    /\ <<u, m>> \notin spoiled
    /\ \A n \in DOMAIN log : Whose(n) = <<u, m>> => pc[n] = "done"
    => LabelsOf(u, m) = SaidInTheEnd(u, m)

\* A reaction that comes after the tool has answered for the message, to a
\* replica of the same home that has been up since, is not an orphan.
AnsweredForIsNoOrphan ==
  \A n \in DOMAIN log : n \in expected => pc[n] # "orphan"

\* No feedback without a record of the side effect that it is about, though it
\* is two records that a post makes.
FeedbackHasItsSideEffect ==
  \A h \in Home : \A k \in stored[h] : k[2] \in effects[h]

=============================================================================
