---------------------------- MODULE JiraScraper ----------------------------
(***************************************************************************)
(* agent/scrapers/jira_job.py: search the issues updated since the stored  *)
(* watermark less an overlap, embed one payload per issue, and commit the  *)
(* greatest update time seen.                                              *)
(*                                                                         *)
(* Time is counted in ticks; an issue is updated at most once a tick, so   *)
(* <<issue, tick>> is one version of its text.  Jira's search index        *)
(* follows the issues with a lag.                                          *)
(***************************************************************************)
EXTENDS ScraperRuntime

CONSTANTS
  Issue,          \* issues the job's JQL may match
  MaxTime,        \* bound: ticks
  Minute,         \* ticks in a minute, the precision of a JQL time
  Overlap,        \* overlapMinutes, in ticks
  PageSize,       \* issues per search page (50)
  MaxIssues,      \* maxIssuesPerRun
  Lag,            \* an update is searchable after this many ticks at most
  SearchTime,     \* ticks from reading the watermark to the last page at most
  OwnOrders       \* whether the job's query ends in ORDER BY updated ASC: which of
                  \* TRUE and FALSE the deployment may have configured

ASSUME JiraAssumption ==
  /\ MaxTime \in Nat \ {0}
  /\ Document = Issue \X (1..MaxTime)
  /\ Minute \in Nat \ {0}
  /\ Overlap \in Nat
  /\ PageSize \in Nat \ {0}
  /\ MaxIssues \in Nat \ {0}
  /\ Lag \in Nat
  /\ SearchTime \in Nat
  /\ OwnOrders \subseteq BOOLEAN

VARIABLES
  ownOrder,       \* whether the job's query has an ORDER BY of its own
  clock,
  updated,        \* the issues' update times, 0 for one not created yet
  searchable,     \* the update times the search index has
  fetched,        \* what each job's search has returned, in order
  since,          \* when each job read the watermark
  cutShort        \* history: a search without a watermark stopped at the cap

jiraVars == <<ownOrder, clock, updated, searchable, fetched, since, cutShort>>
vars == <<runtimeVars, jiraVars>>

Version(k) == <<k, updated[k]>>
UpdatedAt(d) == d[2]

TypeOK ==
  /\ RuntimeTypeOK
  /\ ownOrder \in OwnOrders
  /\ clock \in 1..MaxTime
  /\ updated \in [Issue -> 0..clock]
  /\ searchable \in [Issue -> 0..clock]
  /\ fetched \in [Job -> Seq(Document)]
  /\ \A j \in Job :
       /\ Len(fetched[j]) <= MaxIssues
       /\ \A i \in DOMAIN fetched[j] : UpdatedAt(fetched[j][i]) <= clock
       /\ next[j] <= clock
  /\ cursor <= clock
  /\ since \in [Job -> 0..clock]
  /\ cutShort \in BOOLEAN

Init ==
  /\ RuntimeInit(NoCursor)
  /\ ownOrder \in OwnOrders
  /\ clock = 1
  /\ updated = [k \in Issue |-> 0]
  /\ searchable = [k \in Issue |-> 0]
  /\ fetched = [j \in Job |-> <<>>]
  /\ since = [j \in Job |-> 0]
  /\ cutShort = FALSE

-----------------------------------------------------------------------------
(* Jira *)

\* Somebody creates or changes an issue.
UpdateIssue(k) ==
  /\ updated[k] < clock
  /\ updated' = [updated EXCEPT ![k] = clock]
  /\ UNCHANGED <<runtimeVars, ownOrder, clock, searchable, fetched, since, cutShort>>

\* The search index catches up with it.
IndexIssue(k) ==
  /\ searchable[k] # updated[k]
  /\ searchable' = [searchable EXCEPT ![k] = updated[k]]
  /\ UNCHANGED <<runtimeVars, ownOrder, clock, updated, fetched, since, cutShort>>

\* Time passes, but not past what Lag and SearchTime allow.
Tick ==
  /\ clock < MaxTime
  /\ \A k \in Issue : searchable[k] # updated[k] => clock < updated[k] + Lag
  /\ \A j \in Job : pc[j] = "fetch" => clock < since[j] + SearchTime
  /\ clock' = clock + 1
  /\ UNCHANGED <<runtimeVars, ownOrder, updated, searchable, fetched, since, cutShort>>

-----------------------------------------------------------------------------
(* The job *)

Start(j) ==
  /\ ReadCursor(j)
  /\ since' = [since EXCEPT ![j] = clock]
  /\ UNCHANGED <<ownOrder, clock, updated, searchable, fetched, cutShort>>

\* Mutant: the watermark is used as it is.
WatermarkItself(c) == c

\* _jql_watermark_after_overlap: the JQL bound, truncated to the minute.
Bound(c) == IF c <= Overlap THEN 0 ELSE (c - Overlap) - ((c - Overlap) % Minute)

\* _build_jql: the query alone, or "(query) AND updated >= bound ORDER BY
\* updated ASC".
Ordered(j) == ownOrder \/ floor[j] # NoCursor

\* Jira's JQL takes an ORDER BY at its end only, not in the parentheses.
BadQuery(j) == ownOrder /\ floor[j] # NoCursor

\* The versions the search index has.
Found == {<<k, searchable[k]>> : k \in {i \in Issue : searchable[i] # 0}}

Returned(j) == {fetched[j][i] : i \in 1..Len(fetched[j])}

\* Mutant: updated > bound.
AheadStrictly(j) ==
  IF Ordered(j)
    THEN {d \in Found \ Returned(j) :
            /\ UpdatedAt(d) > Bound(floor[j])
            /\ \A r \in Returned(j) : UpdatedAt(r) <= UpdatedAt(d)}
    ELSE {d \in Found : \A r \in Returned(j) : r[1] # d[1]}

\* What the search has not returned yet: past the last page in update order,
\* or, without ORDER BY, any issue that was on no page.
Ahead(j) ==
  IF Ordered(j)
    THEN {d \in Found \ Returned(j) :
            /\ UpdatedAt(d) >= Bound(floor[j])
            /\ \A r \in Returned(j) : UpdatedAt(r) <= UpdatedAt(d)}
    ELSE {d \in Found : \A r \in Returned(j) : r[1] # d[1]}

\* How many issues of the next page are taken: maxResults is the page size or
\* what is left of the cap.
Room(j) ==
  LET free == MaxIssues - Len(fetched[j])
  IN IF free < PageSize THEN free ELSE PageSize

\* s lists the first issues of S, as many as fit, in the order of the search.
IsPage(s, S, room, ordered) ==
  /\ \A i, l \in DOMAIN s : s[i] = s[l] => i = l
  /\ Len(s) = room \/ \A d \in S : \E i \in DOMAIN s : s[i] = d
  /\ ordered =>
       /\ \A i, l \in DOMAIN s : i < l => UpdatedAt(s[i]) <= UpdatedAt(s[l])
       /\ \A d \in S : (\A i \in DOMAIN s : s[i] # d) =>
            \A i \in DOMAIN s : UpdatedAt(s[i]) <= UpdatedAt(d)

\* One page of search_issues, which ends at the cap, or when Jira returns no
\* issues or no further token.
FetchPage(j) ==
  /\ pc[j] = "fetch" /\ ~BadQuery(j)
  /\ \E n \in 0..Room(j) : \E s \in [1..n -> Ahead(j)] :
       LET left == {d \in Ahead(j) : \A i \in 1..n : s[i] # d}
           done == Len(fetched[j]) + n = MaxIssues \/ left = {}
       IN /\ IsPage(s, Ahead(j), Room(j), Ordered(j))
          /\ fetched' = [fetched EXCEPT ![j] = @ \o s]
          /\ pc' = [pc EXCEPT ![j] = IF done THEN "build" ELSE "fetch"]
          /\ cutShort' = (cutShort \/ (~Ordered(j) /\ done /\ left # {}))
  /\ UNCHANGED <<cursor, floor, batch, next, ragVars, faults, ownOrder, clock, updated,
                 searchable, since>>

\* Jira answers 400, raise_for_status raises, the run is over.
SearchRejected(j) ==
  /\ pc[j] = "fetch" /\ BadQuery(j)
  /\ Exit(j)
  /\ since' = [since EXCEPT ![j] = 0]
  /\ UNCHANGED <<cursor, ragVars, faults, ownOrder, clock, updated, searchable,
                 fetched, cutShort>>

\* Mutant: the watermark is the time of the run, not of an issue.
BuildBatchUpToNow(j) ==
  /\ pc[j] = "build"
  /\ Hand(j, [i \in 1..Len(fetched[j]) |-> {fetched[j][i]}], clock)
  /\ fetched' = [fetched EXCEPT ![j] = <<>>]
  /\ since' = [since EXCEPT ![j] = 0]
  /\ UNCHANGED <<cursor, ragVars, faults, ownOrder, clock, updated, searchable, cutShort>>

\* Mutant: the watermark is just past the latest update, not to read it again.
BuildBatchPastLatest(j) ==
  /\ pc[j] = "build"
  /\ \/ fetched[j] = <<>> /\ Exit(j)
     \/ \E d \in Returned(j) :
          /\ \A r \in Returned(j) : UpdatedAt(r) <= UpdatedAt(d)
          /\ Hand(j, [i \in 1..Len(fetched[j]) |-> {fetched[j][i]}], UpdatedAt(d) + 1)
  /\ fetched' = [fetched EXCEPT ![j] = <<>>]
  /\ since' = [since EXCEPT ![j] = 0]
  /\ UNCHANGED <<cursor, ragVars, faults, ownOrder, clock, updated, searchable, cutShort>>

\* One payload per issue; commit_watermark for the latest update among them.
BuildBatch(j) ==
  /\ pc[j] = "build"
  /\ \/ fetched[j] = <<>> /\ Exit(j)
     \/ \E d \in Returned(j) :
          /\ \A r \in Returned(j) : UpdatedAt(r) <= UpdatedAt(d)
          /\ Hand(j, [i \in 1..Len(fetched[j]) |-> {fetched[j][i]}], UpdatedAt(d))
  /\ fetched' = [fetched EXCEPT ![j] = <<>>]
  /\ since' = [since EXCEPT ![j] = 0]
  /\ UNCHANGED <<cursor, ragVars, faults, ownOrder, clock, updated, searchable, cutShort>>

\* The runtime's steps; a process that ends takes what it fetched with it.
RuntimeStep ==
  /\ RuntimeNext
  /\ fetched' = [j \in Job |-> IF pc'[j] = "idle" THEN <<>> ELSE fetched[j]]
  /\ since' = [j \in Job |-> IF pc'[j] = "idle" THEN 0 ELSE since[j]]
  /\ UNCHANGED <<ownOrder, clock, updated, searchable, cutShort>>

Next ==
  \/ Tick
  \/ \E k \in Issue : UpdateIssue(k) \/ IndexIssue(k)
  \/ \E j \in Job : Start(j) \/ FetchPage(j) \/ SearchRejected(j) \/ BuildBatch(j)
  \/ RuntimeStep

Spec == Init /\ [][Next]_vars

Progress(j) ==
  \/ Start(j)
  \/ FetchPage(j)
  \/ SearchRejected(j)
  \/ BuildBatch(j)
  \/ RuntimeProgress(j) /\ UNCHANGED jiraVars

\* The schedule starts a pod again and again, a running one is not suspended,
\* and the search index catches up.
FairSpec ==
  /\ Spec
  /\ \A j \in Job : WF_vars(Progress(j))
  /\ \A k \in Issue : WF_vars(IndexIssue(k))

-----------------------------------------------------------------------------
(* Properties *)

\* The overlap makes up for the index's lag and the duration of a search.
SafeOverlap == Lag + SearchTime <= Overlap

\* The versions that no later search returns unless their issue changes again.
OutOfReach ==
  {Version(k) : k \in {i \in Issue : updated[i] # 0 /\ updated[i] < Bound(cursor)}}

\* Every version the stored watermark puts out of reach was accepted, over any
\* number of overlapping jobs, crashes, lost answers and changes that race the
\* search.
NothingLost == OutOfReach \subseteq accepted

\* The same, but for a first run without ORDER BY that stops at maxIssuesPerRun.
NothingLostAfterFullSync == cutShort \/ NothingLost

\* The scraper keeps the promise of an incremental feed once a full first
\* search is behind it.
Feed ==
  INSTANCE IncrementalFeed WITH
    settled <- IF cutShort THEN {} ELSE OutOfReach,
    accepted <- accepted

ImplementsFeed == Feed!Spec

\* With a query that has no ORDER BY, every version of an issue is accepted or
\* superseded at some time.
EventuallyIndexed ==
  \A k \in Issue : \A t \in 1..MaxTime :
    ~ownOrder /\ updated[k] = t ~> <<k, t>> \in accepted \/ updated[k] # t

=============================================================================
