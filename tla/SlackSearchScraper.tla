-------------------------- MODULE SlackSearchScraper --------------------------
(***************************************************************************)
(* agent/scrapers/slack_job.py, source slack_search: ask Slack's search    *)
(* for hits, take the thread and the neighbourhood of each within one      *)
(* budget, and post what was collected as one payload.  There is no        *)
(* watermark: every run starts over.                                       *)
(*                                                                         *)
(* A message is its timestamp, 1, 2, ..., in one channel; a thread is      *)
(* named by its first message.  The pages of an answer are not told apart, *)
(* since the last one is trimmed so that the answer is as long as it may.  *)
(***************************************************************************)
EXTENDS ScraperRuntime

CONSTANTS
  MaxMessages,    \* bound: messages ever posted
  Root,           \* the first message of each message's thread
  NoChannel,      \* messages that an answer carries without a channel
  Ranking,        \* what the search finds, best first
  RtsLimit,       \* rtsLimit
  Radius,         \* contextBeforeMinutes and contextAfterMinutes
  Cap             \* maxMessagesPerRun

Message == 1..MaxMessages

ASSUME SearchAssumption ==
  /\ MaxMessages \in Nat /\ Document = Message
  /\ Root \in [Message -> Message] /\ \A m \in Message : Root[m] <= m /\ Root[Root[m]] = Root[m]
  /\ NoChannel \subseteq Message /\ Ranking \in Seq(Message)
  /\ RtsLimit \in Nat /\ Radius \in Nat /\ Cap \in Nat \ {0}

VARIABLES
  latest,         \* messages 1..latest have been posted
  hits,           \* hits each job has yet to expand
  half,           \* whether a job has the thread of the hit at hand already
  collected,      \* what each job has collected
  near            \* history: what the answers to a job were cut from

searchVars == <<latest, hits, half, collected, near>>
vars == <<runtimeVars, searchVars>>

Posted == 1..latest
Remaining(j) == Cap - Cardinality(collected[j])

TypeOK ==
  /\ RuntimeTypeOK
  /\ latest \in 0..MaxMessages
  /\ hits \in [Job -> Seq(Message)]
  /\ half \in [Job -> BOOLEAN]
  /\ collected \in [Job -> SUBSET (Message \ NoChannel)]
  /\ near \in [Job -> SUBSET (SUBSET Message)]
  /\ \A j \in Job : Remaining(j) >= 0
  /\ cursor = NoCursor

Init ==
  /\ RuntimeInit(NoCursor)
  /\ latest = 0
  /\ hits = [j \in Job |-> <<>>]
  /\ half = [j \in Job |-> FALSE]
  /\ collected = [j \in Job |-> {}]
  /\ near = [j \in Job |-> {}]

Forget(j) ==
  /\ hits' = [hits EXCEPT ![j] = <<>>]
  /\ half' = [half EXCEPT ![j] = FALSE]
  /\ collected' = [collected EXCEPT ![j] = {}]
  /\ near' = [near EXCEPT ![j] = {}]

PostMessage ==
  /\ latest < MaxMessages
  /\ latest' = latest + 1
  /\ UNCHANGED <<runtimeVars, hits, half, collected, near>>

\* assistant.search.context: the first rtsLimit hits among what there is.
Hits ==
  LET found[n \in 0..Len(Ranking)] ==
        IF n = 0 THEN <<>>
        ELSE IF Ranking[n] \in Posted /\ Len(found[n - 1]) < RtsLimit
             THEN Append(found[n - 1], Ranking[n])
             ELSE found[n - 1]
  IN found[Len(Ranking)]

Search(j) ==
  /\ pc[j] = "idle"
  /\ pc' = [pc EXCEPT ![j] = "fetch"]
  /\ hits' = [hits EXCEPT ![j] = Hits]
  /\ UNCHANGED <<cursor, floor, batch, next, ragVars, faults, latest, half, collected, near>>

\* conversations.replies, which begins with the first message.
Replies(m) == {x \in Posted : Root[x] = Root[m]}

\* conversations.history between the bounds, from the newest message; answers in
\* threads are not in it.
Window(m) == {x \in Posted : Root[x] = x /\ x + Radius >= m /\ x <= m + Radius}

\* The first n messages of an answer: max_messages counts all of them, those
\* that were collected before and those that will be skipped as well.
Leading(S, n, oldestFirst) ==
  {m \in S : Cardinality({x \in S : IF oldestFirst THEN x < m ELSE x > m}) < n}

\* Mutant: the budget is not looked at before a message is added.
AddUnchecked(j, S, oldestFirst) ==
  /\ collected' = [collected EXCEPT ![j] = @ \cup (S \ NoChannel)]
  /\ near' = [near EXCEPT ![j] = @ \cup {S}]

\* Mutant: a message that was collected before uses up budget again.
AddDuplicates(j, S, oldestFirst) ==
  LET room == Remaining(j) - Cardinality(collected[j] \cap S) IN
  /\ collected' = [collected EXCEPT ![j] =
                     @ \cup (Leading(S, IF room > 0 THEN room ELSE 0, oldestFirst) \ NoChannel)]
  /\ near' = [near EXCEPT ![j] = @ \cup {S}]

\* add_msg for each message of an answer: those without a channel and those seen
\* before are passed over, and the answer is no longer than the budget.
Add(j, S, oldestFirst) ==
  /\ collected' = [collected EXCEPT ![j] =
                     @ \cup (Leading(S, Remaining(j), oldestFirst) \ NoChannel)]
  /\ near' = [near EXCEPT ![j] = @ \cup {S}]

\* _slack_search_expand_hit: the thread of the hit ...
ExpandThread(j) ==
  /\ pc[j] = "fetch" /\ hits[j] # <<>> /\ ~half[j] /\ Remaining(j) > 0
  /\ Add(j, Replies(Head(hits[j])), TRUE)
  /\ half' = [half EXCEPT ![j] = TRUE]
  /\ UNCHANGED <<runtimeVars, latest, hits>>

\* ... and what was said around it, with what is left of the budget.
ExpandWindow(j) ==
  /\ pc[j] = "fetch" /\ half[j]
  /\ Add(j, Window(Head(hits[j])), FALSE)
  /\ half' = [half EXCEPT ![j] = FALSE]
  /\ hits' = [hits EXCEPT ![j] = Tail(@)]
  /\ UNCHANGED <<runtimeVars, latest>>

\* Nothing is left of the hits or of the budget: one payload, and no commit.
BuildBatch(j) ==
  /\ pc[j] = "fetch" /\ ~half[j] /\ (hits[j] = <<>> \/ Remaining(j) = 0)
  /\ IF collected[j] = {} THEN Exit(j) ELSE Hand(j, <<collected[j]>>, NoCursor)
  /\ Forget(j)
  /\ UNCHANGED <<cursor, ragVars, faults, latest>>

\* The payload is posted, and with it the run is over.
Finish(j) ==
  /\ pc[j] = "embed" /\ batch[j] = <<>>
  /\ Exit(j)
  /\ UNCHANGED <<cursor, ragVars, faults, searchVars>>

\* The pod dies, or one of Slack's answers makes it die.
Die(j) == Crash(j) /\ Forget(j) /\ UNCHANGED latest

Post(j) == PostAccepted(j) \/ PostRefused(j)

Progress(j) ==
  \/ Search(j) \/ ExpandThread(j) \/ ExpandWindow(j) \/ BuildBatch(j) \/ Finish(j)
  \/ Post(j) /\ UNCHANGED searchVars

Next ==
  \/ PostMessage
  \/ \E j \in Job :
       \/ Search(j) \/ ExpandThread(j) \/ ExpandWindow(j) \/ BuildBatch(j) \/ Finish(j)
       \/ Die(j)
       \/ (Post(j) \/ PostFails(j)) /\ UNCHANGED searchVars
  \/ RestartRag /\ UNCHANGED searchVars

Spec == Init /\ [][Next]_vars

\* The CronJob's schedule starts a pod again and again.
FairSpec == Spec /\ \A j \in Job : WF_vars(Progress(j))

-----------------------------------------------------------------------------
(* Properties *)

\* A run whose budget has room for all that its hits lead to, and for the longest
\* answer once more but for one message, collects all of it: answers are cut to
\* the budget before what was seen is taken out, so a budget of as many messages
\* as there are does not do.
CompleteIfRoom ==
  \A j \in Job :
    (\A S \in near[j] : Cardinality(UNION near[j]) + Cardinality(S) <= Cap + 1) =>
      (UNION near[j]) \ NoChannel \subseteq collected[j]

\* What the best hit's thread holds within the budget is indexed at some time, as
\* long as a payload of the whole budget is one that POST /v1/embed takes.
BestThreadIndexed ==
  \A m \in Message \ NoChannel :
    (/\ Ranking # <<>> /\ m \in Posted /\ Ranking[1] \in Posted
     /\ Root[m] = Root[Ranking[1]]
     /\ Cardinality({x \in Message : Root[x] = Root[m] /\ x < m}) < Cap) ~> m \in accepted

=============================================================================
