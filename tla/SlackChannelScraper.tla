------------------------ MODULE SlackChannelScraper ------------------------
(***************************************************************************)
(* agent/scrapers/slack_job.py, source slack_channel: drain                *)
(* conversations.history past the stored watermark, page by page, into one *)
(* embed payload, and commit the greatest timestamp seen.                  *)
(*                                                                         *)
(* A message is its timestamp, 1, 2, ..., unique in the channel.           *)
(***************************************************************************)
EXTENDS ScraperRuntime

CONSTANTS
  MaxMessages,    \* bound: messages ever posted to the channel
  NoChannel,      \* messages without a channel id: _build_items skips them
  PageSize,       \* historyLimit
  Cap             \* maxMessagesPerRun

Message == 1..MaxMessages

ASSUME SlackAssumption ==
  /\ MaxMessages \in Nat
  /\ Document = Message
  /\ NoChannel \subseteq Message
  /\ PageSize \in Nat \ {0}
  /\ Cap \in Nat \ {0}

VARIABLES
  latest,         \* messages 1..latest have been posted
  collected,      \* what each job has drained so far
  cut             \* history: what drains that ended at the cap left behind them

slackVars == <<latest, collected, cut>>
vars == <<runtimeVars, slackVars>>

TypeOK ==
  /\ RuntimeTypeOK
  /\ latest \in 0..MaxMessages
  /\ collected \in [Job -> SUBSET Message]
  /\ \A j \in Job : Cardinality(collected[j]) <= Cap
  /\ cut \in SUBSET Message

Init ==
  /\ RuntimeInit(NoCursor)
  /\ latest = 0
  /\ collected = [j \in Job |-> {}]
  /\ cut = {}

\* Somebody writes in the channel.
PostMessage ==
  /\ latest < MaxMessages
  /\ latest' = latest + 1
  /\ UNCHANGED <<runtimeVars, collected, cut>>

Start(j) ==
  /\ ReadCursor(j)
  /\ collected' = [collected EXCEPT ![j] = {}]
  /\ UNCHANGED <<latest, cut>>

\* The order of conversations.history: x comes in an earlier place than m, from
\* the newest message on.
Before(x, m) == x > m

\* Mutant: oldest is inclusive.
AheadInclusive(j) ==
  {m \in 1..latest :
     /\ m >= floor[j]
     /\ \A r \in collected[j] : Before(r, m)}

\* What conversations.history still has for job j: newer than its oldest
\* (exclusive) and beyond the page cursor.  Messages posted while it pages
\* backwards lie before the first page.
Ahead(j) ==
  {m \in 1..latest :
     /\ m > floor[j]
     /\ \A r \in collected[j] : Before(r, m)}

\* The first n of S in page order.
Leading(S, n) ==
  {m \in S : Cardinality({x \in S : Before(x, m)}) < n}

\* Mutant: the last page is not trimmed to the room that is left.
PageUntrimmed(j) == Leading(Ahead(j), PageSize)

\* msgs[:room] of the next page.
Page(j) == Leading(Leading(Ahead(j), PageSize), Cap - Cardinality(collected[j]))

Full(S) == Cardinality(S) >= Cap

\* Mutant: the drain stops after its first page.
FetchOnePage(j) ==
  /\ pc[j] = "fetch"
  /\ collected' = [collected EXCEPT ![j] = Page(j)]
  /\ pc' = [pc EXCEPT ![j] = "build"]
  /\ UNCHANGED <<cursor, floor, batch, next, ragVars, faults, latest, cut>>

\* One round of the drain, which ends at the cap, or when Slack returns no
\* next_cursor or an empty page.
FetchPage(j) ==
  /\ pc[j] = "fetch"
  /\ collected' = [collected EXCEPT ![j] = @ \cup Page(j)]
  /\ IF Full(collected[j] \cup Page(j)) \/ Ahead(j) \subseteq Page(j)
       THEN pc' = [pc EXCEPT ![j] = "build"]
       ELSE pc' = pc
  /\ UNCHANGED <<cursor, floor, batch, next, ragVars, faults, latest, cut>>

Items(S) == S \ NoChannel

\* What a drain that ended at the cap did not come to: the older messages past
\* its job's watermark, which no later run asks for once the payload is
\* accepted and the greatest timestamp committed.
LeftBehind(j) ==
  {m \in Message : /\ Full(collected[j]) /\ Fits(Items(collected[j]))
                   /\ m > floor[j] /\ \A r \in collected[j] : m < r}

\* One payload with every item, and commit_cursor for the greatest timestamp
\* of everything collected, the skipped messages included.
BuildBatch(j) ==
  /\ pc[j] = "build"
  /\ \/ Items(collected[j]) = {} /\ Exit(j) /\ cut' = cut
     \/ /\ Items(collected[j]) # {}
        /\ cut' = cut \cup LeftBehind(j)
        /\ \E newest \in collected[j] :
             /\ \A m \in collected[j] : m <= newest
             /\ Hand(j, <<Items(collected[j])>>, newest)
  /\ collected' = [collected EXCEPT ![j] = {}]
  /\ UNCHANGED <<cursor, ragVars, faults, latest>>

Progress(j) ==
  \/ Start(j)
  \/ FetchPage(j)
  \/ BuildBatch(j)
  \/ RuntimeProgress(j) /\ UNCHANGED slackVars

Next ==
  \/ PostMessage
  \/ \E j \in Job : Start(j) \/ FetchPage(j) \/ BuildBatch(j)
  \/ RuntimeNext /\ UNCHANGED slackVars

Spec == Init /\ [][Next]_vars

\* The CronJob's schedule starts a pod again and again, and a running one is
\* not suspended.
FairSpec == Spec /\ \A j \in Job : WF_vars(Progress(j))

-----------------------------------------------------------------------------
(* Properties *)

\* The configurations in which a drain that stops at the cap cannot lose what
\* it left: a payload of a whole cap of messages is more than POST /v1/embed
\* accepts, so that the run fails (_run_slack_channel puts all of them in one
\* payload).
SafeDrain == \A S \in SUBSET Message : Full(S) => ~Fits(Items(S))

\* No message at or before the stored watermark is one that no embed request
\* carried (but for those the mapping skips and those a drain left behind at
\* the cap): conversations.history will not return it again, so it would be
\* missing from the index for good.  Over any number of overlapping jobs,
\* crashes and lost answers.
NeverSkips == \A m \in 1..cursor : m \in accepted \cup NoChannel \cup cut

\* A watermark lower than the stored one is only ever written by a job that
\* read another watermark than the one it replaces, so by overlapping jobs:
\* a job on its own never turns the channel's clock back.
RetreatsOnlyWhenOvertaken ==
  [][\/ cursor' >= cursor
     \/ Backend = "directory" /\ cursor' = NoCursor
     \/ \E j \in Job : cursor' = next[j] /\ floor[j] # cursor]_vars

\* With one pod at a time (Forbid) and a store that outlives the pod, no payload
\* on its way holds a message that has a chunk in the index, and would get
\* another, unless a crash, a lost answer or a RAG restart happened: the
\* exclusive oldest keeps successive runs disjoint.  With the file store as the
\* chart deploys it ("container") every run repeats the last.
EmbeddedOnceIfFaultFree ==
  faults = 0 =>
    \A j \in Job : \A i \in DOMAIN batch[j] : batch[j][i] \cap indexed = {}

\* Where the cap is within what one request may carry, every message with a
\* channel id gets into the index at some time, unless so many newer ones had
\* been posted that a drain from the newest backwards stopped at the cap before
\* it.
EventuallyIndexed ==
  \A m \in Message \ NoChannel : latest >= m ~> m \in accepted \cup cut

\* The scraper keeps the promise of an incremental feed.
Feed ==
  INSTANCE IncrementalFeed WITH
    Document <- Message,
    settled <- (1..cursor) \ (NoChannel \cup cut),
    accepted <- accepted

ImplementsFeed == Feed!Spec

=============================================================================
