------------------------- MODULE JiraScraper_proofs -------------------------
(***************************************************************************)
(* Proofs about JiraScraper, for every number of jobs, issues, ticks and   *)
(* faults, every page size and cap, and all three cursor stores.           *)
(*                                                                         *)
(* What the stored watermark puts out of reach was accepted since each job *)
(* owes less and less of it: what was out of reach of the watermark it     *)
(* read is accepted; what it searches for is on one of its pages, on a     *)
(* page to come, or younger than anything it may commit.  The last is      *)
(* where the overlap enters: a version the search index may not have had   *)
(* when the job began is at most Lag + SearchTime older than anything the  *)
(* job is shown.                                                           *)
(***************************************************************************)
EXTENDS JiraScraper, SequenceTheorems, FiniteSetTheorems, TLAPS

\* What TypeOK says but for its bounds on the pages and the watermarks.
Typed ==
  /\ RuntimeTypeOK
  /\ ownOrder \in OwnOrders
  /\ clock \in 1..MaxTime
  /\ updated \in [Issue -> 0..clock]
  /\ searchable \in [Issue -> 0..clock]
  /\ fetched \in [Job -> Seq(Document)]
  /\ since \in [Job -> 0..clock]
  /\ cutShort \in BOOLEAN

\* What job j was shown is not of the future.
Seen(j) == \A d \in Returned(j) : UpdatedAt(d) <= clock

PagesInv == \A j \in Job : Len(fetched[j]) <= MaxIssues /\ Seen(j)

\* An update that is not searchable is not older than Lag.
LagInv == \A k \in Issue : searchable[k] # updated[k] => clock <= updated[k] + Lag

\* No watermark is in the future.
TimeInv ==
  /\ cursor <= clock
  /\ \A j \in Job : floor[j] <= clock /\ next[j] <= clock

\* What the watermark a job read puts out of reach is accepted.
FloorInv(j) ==
  cutShort \/ \A k \in Issue :
    updated[k] # 0 /\ updated[k] < Bound(floor[j]) => Version(k) \in accepted

\* The search index had it when the job began.
Ripe(j, k) == updated[k] # 0 /\ updated[k] + Lag < since[j]

\* While a job searches: a page shows an issue as it was when the job began,
\* or as it became since; in update order, what was on no page is yet to come.
FetchInv(j) ==
  /\ clock <= since[j] + SearchTime
  /\ BadQuery(j) => fetched[j] = <<>>
  /\ \A d \in Returned(j) : Ripe(j, d[1]) => updated[d[1]] = d[2]
  /\ Ordered(j) => \A k \in Issue :
       Ripe(j, k) /\ updated[k] >= Bound(floor[j]) =>
         \/ Version(k) \in Returned(j)
         \/ \A d \in Returned(j) : UpdatedAt(d) <= updated[k]
  /\ FloorInv(j)

\* After the search: each version is accepted, or among its results, or within
\* the overlap of all of them.
BuildInv(j) ==
  cutShort \/ \A k \in Issue : updated[k] # 0 =>
    \/ Version(k) \in accepted
    \/ Version(k) \in Returned(j)
    \/ \A d \in Returned(j) : UpdatedAt(d) <= updated[k] + Overlap

\* While a job posts: each version is accepted, or still to be posted, or
\* within reach of the watermark to be committed.
EmbedInv(j) ==
  cutShort \/ \A k \in Issue : updated[k] # 0 =>
    \/ Version(k) \in accepted
    \/ \E i \in 1..Len(batch[j]) : Version(k) \in batch[j][i]
    \/ updated[k] >= Bound(next[j])

JobInv(j) ==
  /\ \A d \in Returned(j) : UpdatedAt(d) <= clock
  /\ pc[j] \notin {"fetch", "build"} => fetched[j] = <<>>
  /\ pc[j] = "fetch" => FetchInv(j)
  /\ pc[j] = "build" => BuildInv(j)
  /\ pc[j] \in {"embed", "write"} => EmbedInv(j)
  /\ pc[j] = "write" => batch[j] = <<>>

IInv ==
  /\ Typed
  /\ LagInv
  /\ TimeInv
  /\ NothingLostAfterFullSync
  /\ \A j \in Job : JobInv(j)

-----------------------------------------------------------------------------
(* Type correctness *)

\* A document is an issue and a time.
LEMMA DocumentType ==
  ASSUME NEW d \in Document
  PROVE  d[1] \in Issue /\ d[2] \in 1..MaxTime /\ d[2] \in Nat /\ d = <<d[1], d[2]>>
BY JiraAssumption

\* What the search index has are documents.
LEMMA FoundType ==
  ASSUME Typed
  PROVE  Found \subseteq Document
<1>1. \A k \in Issue : searchable[k] \in 0..clock /\ clock \in 1..MaxTime
  BY DEF Typed
<1> QED
  BY <1>1, JiraAssumption DEF Found

\* A page is a sequence of documents.
LEMMA PageType ==
  ASSUME Typed, NEW j \in Job, NEW n \in Nat, NEW s \in [1..n -> Ahead(j)]
  PROVE  /\ s \in Seq(Document)
         /\ Len(s) = n
         /\ \A i \in 1..n : s[i] \in Found
<1>1. Ahead(j) \subseteq Found
  BY DEF Ahead
<1>2. s \in [1..n -> Document]
  BY <1>1, FoundType
<1>3. s \in Seq(Document)
  BY <1>2
<1>4. \A i \in 1..n : s[i] \in Found
  BY <1>1
<1>5. Len(s) = n
  BY <1>2
<1> QED
  BY <1>3, <1>4, <1>5

\* What a search returned are documents.
LEMMA ReturnedType ==
  ASSUME Typed, NEW j \in Job
  PROVE  /\ Returned(j) \subseteq Document
         /\ fetched[j] \in Seq(Document)
         /\ Len(fetched[j]) \in Nat
         /\ \A i \in 1..Len(fetched[j]) : fetched[j][i] \in Document
<1>1. fetched[j] \in Seq(Document)
  BY DEF Typed
<1>2. Len(fetched[j]) \in Nat /\ \A i \in 1..Len(fetched[j]) : fetched[j][i] \in Document
  BY <1>1, ElementOfSeq, LenProperties
<1> QED
  BY <1>1, <1>2 DEF Returned

\* One payload per issue is a batch.
LEMMA PayloadsType ==
  ASSUME Typed, NEW j \in Job
  PROVE  [i \in 1..Len(fetched[j]) |-> {fetched[j][i]}] \in Seq(SUBSET Document)
<1>1. /\ Len(fetched[j]) \in Nat
      /\ \A i \in 1..Len(fetched[j]) : fetched[j][i] \in Document
  BY ReturnedType
<1>2. [i \in 1..Len(fetched[j]) |-> {fetched[j][i]}]
        \in [1..Len(fetched[j]) -> SUBSET Document]
  BY <1>1
<1> QED
  BY <1>1, <1>2

\* Every step of the runtime keeps it well typed.
LEMMA RuntimeTypeStep ==
  ASSUME RuntimeTypeOK, RuntimeNext
  PROVE  RuntimeTypeOK'
<1> USE RuntimeAssumption
    DEF RuntimeTypeOK, jobVars, ragVars, Exit, Fault, AddChunks, NoCursor
<1>1. ASSUME NEW j \in Job, PostAccepted(j)
      PROVE  RuntimeTypeOK'
  BY <1>1, HeadTailProperties DEF PostAccepted
<1>2. ASSUME NEW j \in Job, PostRefused(j)
      PROVE  RuntimeTypeOK'
  BY <1>2 DEF PostRefused
<1>3. ASSUME NEW j \in Job, PostFails(j)
      PROVE  RuntimeTypeOK'
  <2>1. Head(batch[j]) \in SUBSET Document
    BY <1>3, HeadTailProperties DEF PostFails
  <2>2. PICK D \in SUBSET Head(batch[j]) : AddChunks(D)
    BY <1>3 DEF PostFails
  <2> QED
    BY <1>3, <2>1, <2>2 DEF PostFails
<1>4. ASSUME NEW j \in Job, Commit(j)
      PROVE  RuntimeTypeOK'
  <2>1. UNCHANGED <<indexed, accepted, faults>> /\ next[j] \in Nat
    BY <1>4 DEF Commit
  <2>2. CASE cursor' \in {cursor, next[j]} /\ Exit(j)
    BY <2>1, <2>2
  <2>3. CASE /\ cursor' = NoCursor /\ UNCHANGED <<floor, batch, next>>
             /\ pc' = [pc EXCEPT ![j] = "write"]
    BY <2>1, <2>3
  <2> QED
    BY <1>4, <2>2, <2>3, Zenon DEF Commit
<1>5. ASSUME NEW j \in Job, WriteFile(j)
      PROVE  RuntimeTypeOK'
  BY <1>5 DEF WriteFile
<1>6. ASSUME NEW j \in Job, Crash(j)
      PROVE  RuntimeTypeOK'
  BY <1>6 DEF Crash
<1>7. CASE RestartRag
  BY <1>7 DEF RestartRag
<1> QED
  BY <1>1, <1>2, <1>3, <1>4, <1>5, <1>6, <1>7 DEF RuntimeNext, RuntimeProgress

\* The types hold initially.
LEMMA TypeInit ==
  ASSUME Init
  PROVE  Typed
<1>1. RuntimeTypeOK
  BY RuntimeAssumption DEF Init, RuntimeInit, RuntimeTypeOK, NoCursor
<1>2. [j \in Job |-> <<>>] \in [Job -> Seq(Document)]
  BY EmptySeq
<1>3. 1 \in 1..MaxTime
  BY JiraAssumption
<1>4. fetched \in [Job -> Seq(Document)]
  BY <1>2 DEF Init
<1>5. clock \in 1..MaxTime /\ ownOrder \in OwnOrders /\ cutShort \in BOOLEAN
  BY <1>3 DEF Init
<1>6. 0 \in 0..clock
  BY DEF Init
<1>7. /\ updated \in [Issue -> 0..clock]
      /\ searchable \in [Issue -> 0..clock]
      /\ since \in [Job -> 0..clock]
  BY <1>6 DEF Init
<1> QED
  BY <1>1, <1>4, <1>5, <1>7 DEF Typed

\* What is about Jira's variables only leaves the runtime's types.
LEMMA RuntimeTypeStays ==
  ASSUME RuntimeTypeOK, UNCHANGED runtimeVars
  PROVE  RuntimeTypeOK'
BY DEF RuntimeTypeOK, runtimeVars, jobVars, ragVars

\* A page keeps the types.
LEMMA PageKeepsTypes ==
  ASSUME Typed, NEW j \in Job, FetchPage(j)
  PROVE  Typed'
<1>1. PICK n \in 0..Room(j) : \E s \in [1..n -> Ahead(j)] :
        /\ fetched' = [fetched EXCEPT ![j] = @ \o s]
        /\ \E p \in {"build", "fetch"} : pc' = [pc EXCEPT ![j] = p]
        /\ cutShort' \in BOOLEAN
  <2>1. cutShort \in BOOLEAN
    BY DEF Typed
  <2> QED
    BY <2>1 DEF FetchPage
<1>2. PICK s \in [1..n -> Ahead(j)] :
        /\ fetched' = [fetched EXCEPT ![j] = @ \o s]
        /\ \E p \in {"build", "fetch"} : pc' = [pc EXCEPT ![j] = p]
        /\ cutShort' \in BOOLEAN
  BY <1>1
<1>3. fetched[j] \o s \in Seq(Document)
  <2>1. n \in Nat
    OBVIOUS
  <2>2. fetched[j] \in Seq(Document) /\ s \in Seq(Document)
    BY <2>1, PageType, ReturnedType
  <2> QED
    BY <2>2, ConcatProperties
<1>4. fetched' \in [Job -> Seq(Document)]
  BY <1>2, <1>3 DEF Typed
<1>5. UNCHANGED <<cursor, floor, batch, next, indexed, accepted, faults, ownOrder,
                  clock, updated, searchable, since>>
  BY DEF FetchPage, ragVars
<1>6. RuntimeTypeOK'
  BY <1>2, <1>5 DEF Typed, RuntimeTypeOK
<1> QED
  BY <1>2, <1>4, <1>5, <1>6 DEF Typed

\* Building the batch keeps the types.
LEMMA BuildKeepsTypes ==
  ASSUME Typed, NEW j \in Job, BuildBatch(j)
  PROVE  Typed'
<1>1. /\ fetched' = [fetched EXCEPT ![j] = <<>>]
      /\ since' = [since EXCEPT ![j] = 0]
      /\ UNCHANGED <<cursor, indexed, accepted, faults, ownOrder, clock, updated,
                     searchable, cutShort>>
  BY DEF BuildBatch, ragVars
<1>2. /\ pc' \in [Job -> {"idle", "fetch", "build", "embed", "write"}]
      /\ floor' \in [Job -> Nat]
      /\ batch' \in [Job -> Seq(SUBSET Document)]
      /\ next' \in [Job -> Nat]
  <2>1. CASE Exit(j)
    BY <2>1 DEF Exit, Typed, RuntimeTypeOK, NoCursor
  <2>2. CASE ~Exit(j)
    <3>1. PICK d \in Returned(j) :
            Hand(j, [i \in 1..Len(fetched[j]) |-> {fetched[j][i]}], UpdatedAt(d))
      BY <2>2 DEF BuildBatch
    <3>2. UpdatedAt(d) \in Nat
      BY ReturnedType, DocumentType DEF UpdatedAt
    <3>3. RuntimeTypeOK
      BY DEF Typed
    <3> QED
      <4>1. /\ pc' = [pc EXCEPT ![j] = "embed"] /\ floor' = floor
            /\ batch' = [batch EXCEPT ![j] =
                            [i \in 1..Len(fetched[j]) |-> {fetched[j][i]}]]
            /\ next' = [next EXCEPT ![j] = UpdatedAt(d)]
        BY <2>2, <3>1 DEF Hand
      <4> QED
        BY <3>2, <3>3, <4>1, PayloadsType DEF RuntimeTypeOK
  <2> QED
    BY <2>1, <2>2
<1>3. RuntimeTypeOK'
  BY <1>1, <1>2 DEF Typed, RuntimeTypeOK
<1>4. <<>> \in Seq(Document)
  BY EmptySeq
<1> QED
  BY <1>1, <1>3, <1>4 DEF Typed

\* Every step keeps the types.
LEMMA TypeNext ==
  ASSUME Typed, [Next]_vars
  PROVE  Typed'
<1> USE DEF Typed
<1>a. RuntimeTypeOK
  OBVIOUS
<1>b. <<>> \in Seq(Document)
  BY EmptySeq
<1>1. CASE Tick
  <2>1. RuntimeTypeOK'
    BY <1>1, <1>a, RuntimeTypeStays DEF Tick
  <2> QED
    BY <1>1, <2>1, JiraAssumption DEF Tick
<1>2. ASSUME NEW k \in Issue, UpdateIssue(k) PROVE Typed'
  <2>1. RuntimeTypeOK'
    BY <1>2, <1>a, RuntimeTypeStays DEF UpdateIssue
  <2>2. clock \in 0..clock
    BY JiraAssumption
  <2> QED
    BY <1>2, <2>1, <2>2 DEF UpdateIssue
<1>3. ASSUME NEW k \in Issue, IndexIssue(k) PROVE Typed'
  <2>1. RuntimeTypeOK'
    BY <1>3, <1>a, RuntimeTypeStays DEF IndexIssue
  <2> QED
    BY <1>3, <2>1 DEF IndexIssue
<1>4. ASSUME NEW j \in Job, Start(j) PROVE Typed'
  <2>1. RuntimeTypeOK'
    BY <1>4, <1>a DEF Start, ReadCursor, RuntimeTypeOK, ragVars
  <2>2. clock \in 0..clock
    BY JiraAssumption
  <2> QED
    BY <1>4, <2>1, <2>2 DEF Start
<1>5. ASSUME NEW j \in Job, FetchPage(j) PROVE Typed'
  BY <1>5, PageKeepsTypes
<1>6. ASSUME NEW j \in Job, SearchRejected(j) PROVE Typed'
  <2>1. RuntimeTypeOK'
    BY <1>6, <1>a DEF SearchRejected, Exit, RuntimeTypeOK, ragVars, NoCursor
  <2>2. 0 \in 0..clock
    BY JiraAssumption
  <2> QED
    BY <1>6, <2>1, <2>2 DEF SearchRejected
<1>7. ASSUME NEW j \in Job, BuildBatch(j) PROVE Typed'
  BY <1>7, BuildKeepsTypes
<1>8. CASE RuntimeStep
  <2>1. RuntimeTypeOK'
    BY <1>8, <1>a, RuntimeTypeStep DEF RuntimeStep
  <2>2. 0 \in 0..clock
    BY JiraAssumption
  <2> QED
    BY <1>8, <1>b, <2>1, <2>2 DEF RuntimeStep
<1>9. CASE UNCHANGED vars
  <2>1. RuntimeTypeOK'
    BY <1>9, <1>a, RuntimeTypeStays DEF vars
  <2> QED
    BY <1>9, <2>1 DEF vars, jiraVars
<1> QED
  BY <1>1, <1>2, <1>3, <1>4, <1>5, <1>6, <1>7, <1>8, <1>9 DEF Next

-----------------------------------------------------------------------------
(* What the overlap takes off a watermark *)

\* A bound is not above its watermark, and if it is above 0 not above the
\* watermark less the overlap: truncation to the minute lowers it only.
LEMMA BoundFacts ==
  ASSUME NEW c \in Nat
  PROVE  /\ Bound(c) \in Int
         /\ Bound(c) <= c
         /\ c <= Overlap => Bound(c) = 0
         /\ c > Overlap => Bound(c) + Overlap <= c
<1>1. Overlap \in Nat /\ Minute \in Nat /\ Minute > 0
  BY JiraAssumption
<1>2. CASE c <= Overlap
  BY <1>1, <1>2 DEF Bound
<1>3. CASE c > Overlap
  <2>1. (c - Overlap) % Minute \in 0..(Minute - 1)
    BY <1>1, <1>3
  <2> QED
    BY <1>1, <1>3, <2>1 DEF Bound
<1> QED
  BY <1>1, <1>2, <1>3

\* A version within the overlap of a watermark is not out of its reach.
LEMMA WithinOverlap ==
  ASSUME NEW c \in Nat, NEW u \in Nat, c <= u + Overlap
  PROVE  u >= Bound(c)
BY BoundFacts, JiraAssumption

-----------------------------------------------------------------------------
(* The steps of others *)

\* A step in which time may pass, an issue may change, and more may be
\* accepted.
Around ==
  /\ ownOrder' = ownOrder
  /\ clock <= clock'
  /\ accepted \subseteq accepted'
  /\ cutShort => cutShort'
  /\ \A k \in Issue : updated'[k] = updated[k] \/ updated'[k] = clock

\* A step that is none of job j.
Same(j) ==
  /\ pc'[j] = pc[j]
  /\ fetched'[j] = fetched[j]
  /\ floor'[j] = floor[j]
  /\ batch'[j] = batch[j]
  /\ next'[j] = next[j]
  /\ pc[j] = "fetch" => since'[j] = since[j] /\ clock' <= since[j] + SearchTime

\* The types of what the proofs compute with.
LEMMA Numbers ==
  ASSUME Typed
  PROVE  /\ clock \in Nat
         /\ cursor \in Nat
         /\ \A k \in Issue : updated[k] \in Nat /\ updated[k] <= clock
         /\ \A k \in Issue : searchable[k] \in Nat /\ searchable[k] <= clock
         /\ \A j \in Job : floor[j] \in Nat /\ next[j] \in Nat
         /\ \A j \in Job : since[j] \in Nat /\ since[j] <= clock
         /\ Lag \in Nat /\ SearchTime \in Nat /\ Overlap \in Nat
<1>1. clock \in Nat
  BY DEF Typed
<1> QED
  BY <1>1, JiraAssumption DEF Typed, RuntimeTypeOK

\* What others do leaves what the watermark of job j had put out of reach
\* accepted: a new version is not older than any watermark.
LEMMA FloorStays ==
  ASSUME Typed, Typed', TimeInv, NEW j \in Job, FloorInv(j), Around, floor'[j] = floor[j]
  PROVE  FloorInv(j)'
<1> SUFFICES ASSUME ~cutShort', NEW k \in Issue,
                    updated'[k] # 0, updated'[k] < Bound(floor'[j])
             PROVE  Version(k)' \in accepted'
  BY DEF FloorInv
<1>1. floor[j] \in Nat /\ floor[j] <= clock /\ clock \in Nat
  BY Numbers DEF TimeInv
<1>2. Bound(floor[j]) \in Int /\ Bound(floor[j]) <= clock
  BY <1>1, BoundFacts
<1>3. updated'[k] = updated[k]
  BY <1>1, <1>2 DEF Around
<1>4. Version(k) \in accepted
  BY <1>3 DEF FloorInv, Around
<1> QED
  BY <1>3, <1>4 DEF Version, Around

\* The same for what the stored watermark puts out of reach.
LEMMA CursorStays ==
  ASSUME Typed, Typed', TimeInv, NothingLostAfterFullSync, Around, cursor' = cursor
  PROVE  NothingLostAfterFullSync'
<1> SUFFICES ASSUME ~cutShort', NEW k \in Issue,
                    updated'[k] # 0, updated'[k] < Bound(cursor')
             PROVE  Version(k)' \in accepted'
  BY DEF NothingLostAfterFullSync, NothingLost, OutOfReach
<1>1. cursor \in Nat /\ cursor <= clock /\ clock \in Nat
  BY Numbers DEF TimeInv
<1>2. Bound(cursor) \in Int /\ Bound(cursor) <= clock
  BY <1>1, BoundFacts
<1>3. updated'[k] = updated[k]
  BY <1>1, <1>2 DEF Around
<1>4. Version(k) \in accepted
  BY <1>3 DEF NothingLostAfterFullSync, NothingLost, OutOfReach, Around
<1> QED
  BY <1>3, <1>4 DEF Version, Around

\* What others do leaves the job's search as complete as it was.
LEMMA FetchStays ==
  ASSUME Typed, Typed', TimeInv, NEW j \in Job, JobInv(j), Around, Same(j),
         pc[j] = "fetch"
  PROVE  FetchInv(j)'
<1>1. FetchInv(j)
  BY DEF JobInv
<1>2. Returned(j)' = Returned(j) /\ Returned(j) \subseteq Document
  BY ReturnedType DEF Returned, Same
<1>3. since'[j] = since[j] /\ clock' <= since[j] + SearchTime /\ floor'[j] = floor[j]
  BY DEF Same
<1>4. Ordered(j)' = Ordered(j) /\ BadQuery(j)' = BadQuery(j)
  BY <1>3 DEF Ordered, BadQuery, Around
<1>5. \A k \in Issue : Ripe(j, k)' => updated'[k] = updated[k] /\ Ripe(j, k)
  BY <1>3, Numbers DEF Ripe, Around
<1>6. \A d \in Returned(j)' : Ripe(j, d[1])' => updated'[d[1]] = d[2]
  BY <1>1, <1>2, <1>5, DocumentType DEF FetchInv
<1>7. Ordered(j)' => \A k \in Issue :
        Ripe(j, k)' /\ updated'[k] >= Bound(floor'[j]) =>
          \/ Version(k)' \in Returned(j)'
          \/ \A d \in Returned(j)' : UpdatedAt(d) <= updated'[k]
  BY <1>1, <1>2, <1>3, <1>4, <1>5 DEF FetchInv, Version
<1>8. FloorInv(j)'
  BY <1>1, <1>3, FloorStays DEF FetchInv
<1>9. BadQuery(j)' => fetched'[j] = <<>>
  BY <1>1, <1>4 DEF FetchInv, Same
<1>10. clock' <= since'[j] + SearchTime
  BY <1>3
<1> QED
  BY <1>6, <1>7, <1>8, <1>9, <1>10 DEF FetchInv

\* Nor does what others do change what holds of a job after its search.
LEMMA JobStays ==
  ASSUME Typed, Typed', TimeInv, NEW j \in Job, JobInv(j), Around, Same(j)
  PROVE  JobInv(j)'
<1>1. Returned(j)' = Returned(j) /\ Returned(j) \subseteq Document
  BY ReturnedType DEF Returned, Same
<1>n. /\ clock \in Nat /\ clock' \in Nat /\ clock <= clock' /\ Overlap \in Nat
      /\ next[j] \in Nat /\ next[j] <= clock
  BY Numbers, JiraAssumption DEF Around, TimeInv, Typed
<1>t. \A d \in Returned(j) : UpdatedAt(d) \in Nat
  BY <1>1, DocumentType DEF UpdatedAt
<1>2. \A d \in Returned(j)' : UpdatedAt(d) <= clock'
  BY <1>1, <1>n, <1>t DEF JobInv
<1>3. pc'[j] \notin {"fetch", "build"} => fetched'[j] = <<>>
  BY DEF JobInv, Same
<1>4. pc'[j] = "fetch" => FetchInv(j)'
  BY FetchStays DEF Same
<1>5. ASSUME pc'[j] = "build" PROVE BuildInv(j)'
  <2> SUFFICES ASSUME ~cutShort', NEW k \in Issue, updated'[k] # 0
               PROVE  \/ Version(k)' \in accepted'
                      \/ Version(k)' \in Returned(j)'
                      \/ \A d \in Returned(j)' : UpdatedAt(d) <= updated'[k] + Overlap
    BY DEF BuildInv
  <2>1. CASE updated'[k] = clock
    BY <2>1, <1>1, <1>n, <1>t DEF JobInv
  <2>2. CASE updated'[k] = updated[k]
    <3>1. BuildInv(j)
      BY <1>5 DEF JobInv, Same
    <3> QED
      BY <2>2, <3>1, <1>1 DEF BuildInv, Version, Around
  <2> QED
    BY <2>1, <2>2 DEF Around
<1>6. ASSUME pc'[j] \in {"embed", "write"} PROVE EmbedInv(j)'
  <2> SUFFICES ASSUME ~cutShort', NEW k \in Issue, updated'[k] # 0
               PROVE  \/ Version(k)' \in accepted'
                      \/ \E i \in 1..Len(batch'[j]) : Version(k)' \in batch'[j][i]
                      \/ updated'[k] >= Bound(next'[j])
    BY DEF EmbedInv
  <2>0. next'[j] = next[j] /\ batch'[j] = batch[j]
    BY DEF Same
  <2>1. CASE updated'[k] = clock
    BY <2>0, <2>1, <1>n, BoundFacts
  <2>2. CASE updated'[k] = updated[k]
    <3>1. EmbedInv(j)
      BY <1>6 DEF JobInv, Same
    <3> QED
      BY <2>0, <2>2, <3>1 DEF EmbedInv, Version, Around
  <2> QED
    BY <2>1, <2>2 DEF Around
<1>7. pc'[j] = "write" => batch'[j] = <<>>
  BY DEF JobInv, Same
<1> QED
  BY <1>2, <1>3, <1>4, <1>5, <1>6, <1>7 DEF JobInv

\* A job that is not under way owes nothing.
LEMMA IdleJob ==
  ASSUME NEW j \in Job, Typed', pc'[j] = "idle", fetched'[j] = <<>>
  PROVE  JobInv(j)'
<1>1. Returned(j)' = {}
  <2>1. Len(fetched'[j]) = 0
    OBVIOUS
  <2> QED
    BY <2>1 DEF Returned
<1> QED
  BY <1>1 DEF JobInv

-----------------------------------------------------------------------------
(* A page *)

\* What one more page of a search is: the first of what is ahead, all of it if
\* the search ends there, unless the cap cut it short.
LEMMA PageFacts ==
  ASSUME Typed, NEW j \in Job, FetchPage(j)
  PROVE  \E n \in Nat : \E s \in [1..n -> Ahead(j)] :
           /\ Returned(j)' = Returned(j) \cup {s[i] : i \in 1..n}
           /\ IsPage(s, Ahead(j), Room(j), Ordered(j))
           /\ pc'[j] \in {"fetch", "build"}
           /\ cutShort => cutShort'
           /\ pc'[j] = "build" /\ ~cutShort' /\ ~Ordered(j) =>
                \A d \in Ahead(j) : \E i \in 1..n : s[i] = d
<1>1. PICK n \in 0..Room(j) : \E s \in [1..n -> Ahead(j)] :
       LET left == {d \in Ahead(j) : \A i \in 1..n : s[i] # d}
           done == Len(fetched[j]) + n = MaxIssues \/ left = {}
       IN /\ IsPage(s, Ahead(j), Room(j), Ordered(j))
          /\ fetched' = [fetched EXCEPT ![j] = @ \o s]
          /\ pc' = [pc EXCEPT ![j] = IF done THEN "build" ELSE "fetch"]
          /\ cutShort' = (cutShort \/ (~Ordered(j) /\ done /\ left # {}))
  BY DEF FetchPage
<1>2. PICK s \in [1..n -> Ahead(j)] :
       LET left == {d \in Ahead(j) : \A i \in 1..n : s[i] # d}
           done == Len(fetched[j]) + n = MaxIssues \/ left = {}
       IN /\ IsPage(s, Ahead(j), Room(j), Ordered(j))
          /\ fetched' = [fetched EXCEPT ![j] = @ \o s]
          /\ pc' = [pc EXCEPT ![j] = IF done THEN "build" ELSE "fetch"]
          /\ cutShort' = (cutShort \/ (~Ordered(j) /\ done /\ left # {}))
  BY <1>1
<1> DEFINE left == {d \in Ahead(j) : \A i \in 1..n : s[i] # d}
           done == Len(fetched[j]) + n = MaxIssues \/ left = {}
<1>3. n \in Nat
  OBVIOUS
<1>4. s \in Seq(Document) /\ Len(s) = n
  BY <1>3, PageType
<1>5. fetched'[j] = fetched[j] \o s
  BY <1>2 DEF Typed
<1>6. /\ Len(fetched[j]) \in Nat
      /\ Len(fetched'[j]) = Len(fetched[j]) + n
      /\ \A i \in 1..Len(fetched[j]) + n : fetched'[j][i] =
           IF i <= Len(fetched[j]) THEN fetched[j][i] ELSE s[i - Len(fetched[j])]
  <2>1. fetched[j] \in Seq(Document) /\ Len(fetched[j]) \in Nat
    BY ReturnedType
  <2>2. /\ Len(fetched[j] \o s) = Len(fetched[j]) + Len(s)
        /\ \A i \in 1..Len(fetched[j]) + Len(s) : (fetched[j] \o s)[i] =
             IF i <= Len(fetched[j]) THEN fetched[j][i] ELSE s[i - Len(fetched[j])]
    BY <1>4, <2>1, ConcatProperties
  <2> QED
    BY <1>4, <1>5, <2>1, <2>2
<1>7. Returned(j)' = Returned(j) \cup {s[i] : i \in 1..n}
  <2>0. Returned(j)' = {fetched'[j][i] : i \in 1..Len(fetched'[j])}
    BY DEF Returned
  <2>1. ASSUME NEW i \in 1..Len(fetched'[j])
        PROVE  fetched'[j][i] \in Returned(j) \cup {s[l] : l \in 1..n}
    <3>1. CASE i <= Len(fetched[j])
      <4>1. i \in 1..Len(fetched[j]) /\ fetched'[j][i] = fetched[j][i]
        BY <3>1, <1>6
      <4> QED
        BY <4>1 DEF Returned
    <3>2. CASE i > Len(fetched[j])
      <4>1. i - Len(fetched[j]) \in 1..n
        BY <3>2, <1>6, <1>3
      <4>2. fetched'[j][i] = s[i - Len(fetched[j])]
        BY <3>2, <1>6
      <4> QED
        BY <4>1, <4>2
    <3> QED
      BY <3>1, <3>2, <1>6
  <2>2. ASSUME NEW i \in 1..Len(fetched[j])
        PROVE  fetched[j][i] \in Returned(j)'
    <3>1. i \in 1..Len(fetched'[j]) /\ fetched'[j][i] = fetched[j][i]
      BY <1>6, <1>3
    <3> QED
      BY <2>0, <3>1
  <2>3. ASSUME NEW l \in 1..n
        PROVE  s[l] \in Returned(j)'
    <3> DEFINE m == Len(fetched[j]) + l
    <3>1. /\ m \in 1..Len(fetched'[j]) /\ m \in 1..Len(fetched[j]) + n
          /\ ~(m <= Len(fetched[j])) /\ m - Len(fetched[j]) = l
      BY <1>6, <1>3
    <3>2. fetched'[j][m] = s[m - Len(fetched[j])]
      BY <1>6, <3>1
    <3> QED
      BY <2>0, <3>1, <3>2
  <2>4. Returned(j)' \subseteq Returned(j) \cup {s[l] : l \in 1..n}
    BY <2>0, <2>1
  <2>5. Returned(j) \subseteq Returned(j)'
    BY <2>2 DEF Returned
  <2> QED
    BY <2>3, <2>4, <2>5
<1>8. pc'[j] = IF done THEN "build" ELSE "fetch"
  BY <1>2 DEF Typed, RuntimeTypeOK
<1>9. cutShort' = (cutShort \/ (~Ordered(j) /\ done /\ left # {}))
  BY <1>2
<1>10. pc'[j] = "build" /\ ~cutShort' /\ ~Ordered(j) =>
         \A d \in Ahead(j) : \E i \in 1..n : s[i] = d
  BY <1>8, <1>9
<1> HIDE DEF left, done
<1> QED
  BY <1>2, <1>3, <1>7, <1>8, <1>9, <1>10

\* The search index has every version that was ripe when the job began.
LEMMA RipeIsFound ==
  ASSUME Typed, LagInv, NEW j \in Job, NEW k \in Issue, Ripe(j, k)
  PROVE  searchable[k] = updated[k] /\ Version(k) \in Found
<1>1. searchable[k] = updated[k]
  BY Numbers DEF LagInv, Ripe
<1> QED
  BY <1>1 DEF Ripe, Version, Found

\* A page shows what is, or what was too recently.
LEMMA PageIsCurrent ==
  ASSUME Typed, LagInv, NEW j \in Job, NEW d \in Ahead(j)
  PROVE  /\ d \in Document
         /\ UpdatedAt(d) <= clock
         /\ Ripe(j, d[1]) => updated[d[1]] = d[2]
<1>1. d \in Found
  BY DEF Ahead
<1>2. PICK k \in Issue : d = <<k, searchable[k]>>
  BY <1>1 DEF Found
<1>3. d[1] = k /\ d[2] = searchable[k]
  BY <1>2
<1> QED
  BY <1>1, <1>3, FoundType, Numbers, RipeIsFound DEF UpdatedAt

\* In update order, a version that is on no page yet is either on the next or
\* not before any of it.
LEMMA OrderedPage ==
  ASSUME Typed, LagInv, NEW j \in Job, Ordered(j),
         NEW n \in Nat, NEW s \in [1..n -> Ahead(j)],
         IsPage(s, Ahead(j), Room(j), Ordered(j)),
         NEW k \in Issue, Ripe(j, k), updated[k] >= Bound(floor[j]),
         \/ Version(k) \in Returned(j)
         \/ \A d \in Returned(j) : UpdatedAt(d) <= updated[k]
  PROVE  LET R == Returned(j) \cup {s[i] : i \in 1..n}
         IN  Version(k) \in R \/ \A d \in R : UpdatedAt(d) <= updated[k]
<1>1. CASE Version(k) \in Returned(j)
  BY <1>1
<1>2. CASE Version(k) \notin Returned(j)
  <2>1. UpdatedAt(Version(k)) = updated[k]
    BY DEF UpdatedAt, Version
  <2>2. \A d \in Returned(j) : UpdatedAt(d) <= updated[k]
    BY <1>2
  <2>3. Version(k) \in Found
    BY RipeIsFound
  <2>4. Version(k) \in Ahead(j)
    BY <1>2, <2>1, <2>2, <2>3 DEF Ahead
  <2>5. CASE \E i \in 1..n : s[i] = Version(k)
    BY <2>5
  <2>6. CASE \A i \in 1..n : s[i] # Version(k)
    <3>1. DOMAIN s = 1..n
      OBVIOUS
    <3>2. \A i \in 1..n : UpdatedAt(s[i]) <= UpdatedAt(Version(k))
      BY <2>4, <2>6, <3>1 DEF IsPage
    <3> QED
      BY <2>1, <2>2, <3>2
  <2> QED
    BY <2>5, <2>6
<1> QED
  BY <1>1, <1>2

\* Without an order, a version the job did not get yet is ahead of it.
LEMMA UnorderedAhead ==
  ASSUME Typed, LagInv, NEW j \in Job, ~Ordered(j), FetchInv(j),
         NEW k \in Issue, Ripe(j, k), Version(k) \notin Returned(j)
  PROVE  Version(k) \in Ahead(j)
<1>1. Version(k) \in Found /\ Version(k)[1] = k
  BY RipeIsFound DEF Version
<1>2. ASSUME NEW d \in Returned(j) PROVE d[1] # k
  <2>1. d = <<d[1], d[2]>>
    BY ReturnedType, DocumentType
  <2>2. d[1] = k => updated[k] = d[2]
    BY DEF FetchInv
  <2> QED
    BY <2>1, <2>2 DEF Version
<1> QED
  BY <1>1, <1>2 DEF Ahead

\* A page leaves what its job owes in order; this is where SafeOverlap is
\* needed, for the versions that the search index may have had too late.
LEMMA PageKeepsJob ==
  ASSUME SafeOverlap, Typed, Typed', LagInv, NEW j \in Job, JobInv(j), FetchPage(j)
  PROVE  JobInv(j)'
<1>1. PICK n \in Nat : \E s \in [1..n -> Ahead(j)] :
           /\ Returned(j)' = Returned(j) \cup {s[i] : i \in 1..n}
           /\ IsPage(s, Ahead(j), Room(j), Ordered(j))
           /\ pc'[j] \in {"fetch", "build"}
           /\ cutShort => cutShort'
           /\ pc'[j] = "build" /\ ~cutShort' /\ ~Ordered(j) =>
                \A d \in Ahead(j) : \E i \in 1..n : s[i] = d
  BY PageFacts
<1>2. PICK s \in [1..n -> Ahead(j)] :
           /\ Returned(j)' = Returned(j) \cup {s[i] : i \in 1..n}
           /\ IsPage(s, Ahead(j), Room(j), Ordered(j))
           /\ pc'[j] \in {"fetch", "build"}
           /\ cutShort => cutShort'
           /\ pc'[j] = "build" /\ ~cutShort' /\ ~Ordered(j) =>
                \A d \in Ahead(j) : \E i \in 1..n : s[i] = d
  BY <1>1
<1>3. /\ pc[j] = "fetch" /\ ~BadQuery(j)
      /\ UNCHANGED <<cursor, floor, batch, next, accepted, ownOrder, clock, updated,
                     searchable, since>>
  BY DEF FetchPage, ragVars
<1>4. FetchInv(j)
  BY <1>3 DEF JobInv
<1>5. /\ \A k \in Issue : Ripe(j, k)' = Ripe(j, k)
      /\ \A k \in Issue : Version(k)' = Version(k)
      /\ Ordered(j)' = Ordered(j) /\ BadQuery(j)' = BadQuery(j)
      /\ FloorInv(j)' = (cutShort' \/ \A k \in Issue :
           updated[k] # 0 /\ updated[k] < Bound(floor[j]) => Version(k) \in accepted)
  BY <1>3 DEF Ripe, Version, Ordered, BadQuery, FloorInv
<1>6. \A i \in 1..n :
        /\ s[i] \in Document
        /\ UpdatedAt(s[i]) <= clock
        /\ Ripe(j, s[i][1]) => updated[s[i][1]] = s[i][2]
  BY PageIsCurrent
<1>7. \A d \in Returned(j)' : UpdatedAt(d) <= clock'
  BY <1>2, <1>3, <1>6 DEF JobInv
<1>8. \A d \in Returned(j)' : Ripe(j, d[1])' => updated'[d[1]] = d[2]
  <2>1. \A d \in Returned(j)' : d[1] \in Issue /\ (Ripe(j, d[1]) => updated[d[1]] = d[2])
    BY <1>2, <1>4, <1>6, ReturnedType, DocumentType DEF FetchInv
  <2> QED
    BY <2>1, <1>3, <1>5
<1>9. Ordered(j)' => \A k \in Issue :
        Ripe(j, k)' /\ updated'[k] >= Bound(floor'[j]) =>
          \/ Version(k)' \in Returned(j)'
          \/ \A d \in Returned(j)' : UpdatedAt(d) <= updated'[k]
  <2> SUFFICES ASSUME Ordered(j), NEW k \in Issue, Ripe(j, k), updated[k] >= Bound(floor[j])
               PROVE  \/ Version(k) \in Returned(j)'
                      \/ \A d \in Returned(j)' : UpdatedAt(d) <= updated[k]
    BY <1>3, <1>5
  <2>1. \/ Version(k) \in Returned(j)
        \/ \A d \in Returned(j) : UpdatedAt(d) <= updated[k]
    BY <1>4 DEF FetchInv
  <2> QED
    BY <2>1, <1>2, OrderedPage, ZenonT(60)
<1>10. FloorInv(j)'
  BY <1>2, <1>4, <1>5 DEF FetchInv, FloorInv
<1>11. pc'[j] = "fetch" => FetchInv(j)'
  <2>1. clock' <= since'[j] + SearchTime
    BY <1>3, <1>4 DEF FetchInv
  <2>2. ~BadQuery(j)'
    BY <1>3, <1>5
  <2> QED
    BY <1>8, <1>9, <1>10, <2>1, <2>2 DEF FetchInv
<1>12. ASSUME pc'[j] = "build" PROVE BuildInv(j)'
  <2> SUFFICES ASSUME ~cutShort', NEW k \in Issue, updated[k] # 0
               PROVE  \/ Version(k) \in accepted
                      \/ Version(k) \in Returned(j)'
                      \/ \A d \in Returned(j)' : UpdatedAt(d) <= updated[k] + Overlap
    BY <1>3, <1>5 DEF BuildInv
  <2>n. /\ updated[k] \in Nat /\ since[j] \in Nat /\ clock \in Nat
        /\ Lag \in Nat /\ SearchTime \in Nat /\ Overlap \in Nat
        /\ floor[j] \in Nat /\ Bound(floor[j]) \in Int
    BY Numbers, BoundFacts
  <2>t. \A d \in Returned(j)' : UpdatedAt(d) \in Nat
    <3>1. Returned(j)' \subseteq Document
      BY <1>2, <1>6, ReturnedType
    <3> QED
      BY <3>1, DocumentType DEF UpdatedAt
  <2>1. CASE ~Ripe(j, k)
    <3>1. since[j] <= updated[k] + Lag
      BY <2>1, <2>n DEF Ripe
    <3>2. clock <= since[j] + SearchTime
      BY <1>4 DEF FetchInv
    <3>3. clock <= updated[k] + Overlap
      BY <3>1, <3>2, <2>n, SMTT(40) DEF SafeOverlap
    <3>4. clock' = clock
      BY <1>3
    <3> QED
      BY <3>3, <3>4, <1>7, <2>n, <2>t
  <2>2. CASE updated[k] < Bound(floor[j])
    BY <2>2, <1>2, <1>4 DEF FetchInv, FloorInv
  <2>3. CASE Ripe(j, k) /\ ~(updated[k] < Bound(floor[j])) /\ Ordered(j)
    <3>1. updated[k] >= Bound(floor[j])
      BY <2>3, <2>n
    <3>2. \/ Version(k) \in Returned(j)'
          \/ \A d \in Returned(j)' : UpdatedAt(d) <= updated[k]
      BY <2>3, <3>1, <1>9, <1>3, <1>5
    <3> QED
      BY <3>2, <2>n, <2>t
  <2>4. CASE Ripe(j, k) /\ ~Ordered(j)
    <3>1. CASE Version(k) \in Returned(j)
      BY <3>1, <1>2
    <3>2. CASE Version(k) \notin Returned(j)
      <4>1. Version(k) \in Ahead(j)
        BY <2>4, <3>2, <1>4, UnorderedAhead
      <4>2. \E i \in 1..n : s[i] = Version(k)
        BY <4>1, <2>4, <1>12, <1>2
      <4> QED
        BY <4>2, <1>2
    <3> QED
      BY <3>1, <3>2
  <2> QED
    BY <2>1, <2>2, <2>3, <2>4
<1> QED
  BY <1>2, <1>7, <1>11, <1>12 DEF JobInv

-----------------------------------------------------------------------------
(* The other steps of a job *)

\* A job that starts owes what the stored watermark leaves.
LEMMA StartKeepsJob ==
  ASSUME Typed, Typed', NothingLostAfterFullSync, NEW j \in Job, JobInv(j), Start(j)
  PROVE  JobInv(j)'
<1>1. /\ pc[j] = "idle" /\ pc'[j] = "fetch"
      /\ floor'[j] = cursor /\ since'[j] = clock
      /\ UNCHANGED <<fetched, accepted, clock, updated, cutShort>>
  BY DEF Start, ReadCursor, Typed, RuntimeTypeOK, ragVars
<1>2. fetched'[j] = <<>>
  BY <1>1 DEF JobInv
<1>3. Returned(j)' = {}
  <2>1. Len(fetched'[j]) = 0
    BY <1>2
  <2> QED
    BY <2>1 DEF Returned
<1>4. FloorInv(j)'
  BY <1>1 DEF FloorInv, NothingLostAfterFullSync, NothingLost, OutOfReach, Version
<1>5. clock' <= since'[j] + SearchTime
  BY <1>1, Numbers
<1>6. FetchInv(j)'
  BY <1>2, <1>3, <1>4, <1>5 DEF FetchInv
<1> QED
  BY <1>1, <1>2, <1>3, <1>6 DEF JobInv

\* A job that hands over its payloads owes no more than they hold: what it did
\* not get is within the overlap of the watermark it will commit.
LEMMA BuildKeepsJob ==
  ASSUME Typed, Typed', NEW j \in Job, JobInv(j), BuildBatch(j)
  PROVE  JobInv(j)'
<1>1. /\ pc[j] = "build"
      /\ fetched'[j] = <<>>
      /\ UNCHANGED <<accepted, clock, updated, cutShort>>
  BY DEF BuildBatch, Typed, ragVars
<1>2. CASE Exit(j)
  <2>1. pc'[j] = "idle"
    BY <1>2 DEF Exit, Typed, RuntimeTypeOK
  <2> QED
    BY <1>1, <2>1, IdleJob
<1>3. CASE ~Exit(j)
  <2> DEFINE payloads == [i \in 1..Len(fetched[j]) |-> {fetched[j][i]}]
  <2>1. PICK d \in Returned(j) :
          /\ \A r \in Returned(j) : UpdatedAt(r) <= UpdatedAt(d)
          /\ Hand(j, payloads, UpdatedAt(d))
    BY <1>3 DEF BuildBatch
  <2>2. pc'[j] = "embed" /\ batch'[j] = payloads /\ next'[j] = UpdatedAt(d)
    BY <1>3, <2>1 DEF Hand, Typed, RuntimeTypeOK
  <2>3. Len(payloads) = Len(fetched[j])
    <3>1. Len(fetched[j]) \in Nat
      BY ReturnedType
    <3> QED
      BY <3>1
  <2>4. EmbedInv(j)'
    <3> SUFFICES ASSUME ~cutShort, NEW k \in Issue, updated[k] # 0
                 PROVE  \/ Version(k) \in accepted
                        \/ \E i \in 1..Len(batch'[j]) : Version(k) \in batch'[j][i]
                        \/ updated[k] >= Bound(next'[j])
      BY <1>1 DEF EmbedInv, Version
    <3>1. CASE Version(k) \in Returned(j)
      <4>1. PICK i \in 1..Len(fetched[j]) : Version(k) = fetched[j][i]
        BY <3>1 DEF Returned
      <4>2. Version(k) \in payloads[i]
        BY <4>1
      <4> QED
        BY <2>2, <2>3, <4>2
    <3>2. CASE \A r \in Returned(j) : UpdatedAt(r) <= updated[k] + Overlap
      <4>1. UpdatedAt(d) \in Nat
        BY ReturnedType, DocumentType DEF UpdatedAt
      <4> QED
        BY <2>2, <3>2, <4>1, Numbers, WithinOverlap
    <3> QED
      BY <1>1, <3>1, <3>2 DEF JobInv, BuildInv
  <2>5. Returned(j)' = {}
    <3>1. Len(fetched'[j]) = 0
      BY <1>1
    <3> QED
      BY <3>1 DEF Returned
  <2> QED
    BY <1>1, <2>2, <2>4, <2>5 DEF JobInv
<1> QED
  BY <1>2, <1>3

\* An accepted payload is no longer owed.
LEMMA PostKeepsJob ==
  ASSUME Typed, Typed', NEW j \in Job, JobInv(j), PostAccepted(j), RuntimeStep
  PROVE  JobInv(j)'
<1>1. /\ pc[j] = "embed" /\ pc'[j] = "embed" /\ batch[j] # <<>>
      /\ batch'[j] = Tail(batch[j])
      /\ accepted' = accepted \cup Head(batch[j])
      /\ UNCHANGED <<clock, updated, cutShort, next>>
  BY DEF PostAccepted, AddChunks, RuntimeStep, Typed, RuntimeTypeOK
<1>2. fetched'[j] = <<>>
  BY <1>1 DEF RuntimeStep, JobInv
<1>3. batch[j] \in Seq(SUBSET Document)
  BY DEF Typed, RuntimeTypeOK
<1>4. /\ Len(Tail(batch[j])) = Len(batch[j]) - 1
      /\ Len(batch[j]) \in Nat
      /\ \A i \in 1..Len(Tail(batch[j])) : Tail(batch[j])[i] = batch[j][i + 1]
      /\ Head(batch[j]) = batch[j][1]
  BY <1>1, <1>3, HeadTailProperties, LenProperties
<1>5. EmbedInv(j)'
  <2> SUFFICES ASSUME ~cutShort, NEW k \in Issue, updated[k] # 0
               PROVE  \/ Version(k) \in accepted'
                      \/ \E i \in 1..Len(batch'[j]) : Version(k) \in batch'[j][i]
                      \/ updated[k] >= Bound(next[j])
    BY <1>1 DEF EmbedInv, Version
  <2>1. ASSUME NEW i \in 1..Len(batch[j]), Version(k) \in batch[j][i], i # 1
        PROVE  \E l \in 1..Len(batch'[j]) : Version(k) \in batch'[j][l]
    <3> DEFINE l == i - 1
    <3>1. l \in 1..Len(Tail(batch[j])) /\ l + 1 = i
      BY <2>1, <1>4
    <3>2. Tail(batch[j])[l] = batch[j][i]
      BY <3>1, <1>4
    <3> QED
      BY <2>1, <3>1, <3>2, <1>1
  <2>2. EmbedInv(j)
    BY <1>1 DEF JobInv
  <2> QED
    BY <1>1, <1>4, <2>1, <2>2 DEF EmbedInv
<1>6. Returned(j)' = {}
  <2>1. Len(fetched'[j]) = 0
    BY <1>2
  <2> QED
    BY <2>1 DEF Returned
<1> QED
  BY <1>1, <1>2, <1>5, <1>6 DEF JobInv

\* When all is posted, the watermark may be committed.
LEMMA CommitIsSafe ==
  ASSUME Typed, NEW j \in Job, JobInv(j), pc[j] \in {"embed", "write"},
         batch[j] = <<>>, cursor' = next[j], UNCHANGED <<accepted, updated, cutShort>>
  PROVE  NothingLostAfterFullSync'
<1>1. EmbedInv(j)
  BY DEF JobInv
<1>2. Len(batch[j]) = 0
  OBVIOUS
<1>3. Bound(next[j]) \in Int
  BY Numbers, BoundFacts
<1>4. ASSUME ~cutShort, NEW k \in Issue, updated[k] # 0, updated[k] < Bound(next[j])
      PROVE  Version(k) \in accepted
  <2>1. updated[k] \in Nat
    BY Numbers
  <2>2. ~(updated[k] >= Bound(next[j]))
    BY <2>1, <1>3, <1>4
  <2> QED
    BY <1>1, <1>2, <1>4, <2>2 DEF EmbedInv
<1> QED
  BY <1>4 DEF NothingLostAfterFullSync, NothingLost, OutOfReach, Version

\* Without a watermark, nothing is out of reach.
LEMMA NoCursorIsSafe ==
  ASSUME Typed', cursor' = NoCursor
  PROVE  NothingLostAfterFullSync'
<1>1. Bound(cursor') = 0
  BY BoundFacts, JiraAssumption DEF NoCursor
<1>2. \A k \in Issue : updated'[k] \in Nat
  BY DEF Typed
<1>3. OutOfReach' = {}
  BY <1>1, <1>2 DEF OutOfReach
<1> QED
  BY <1>3 DEF NothingLostAfterFullSync, NothingLost

-----------------------------------------------------------------------------
(* The runtime's steps *)

\* The runtime's steps change neither time nor issues, and take nothing back.
LEMMA RuntimeAround ==
  ASSUME Typed, RuntimeStep
  PROVE  Around
<1>1. /\ UNCHANGED <<ownOrder, clock, updated, cutShort>>
      /\ clock \in Nat
  BY Numbers DEF RuntimeStep
<1>2. RuntimeNext
  BY DEF RuntimeStep
<1>3. accepted \subseteq accepted'
  BY <1>2 DEF RuntimeNext, RuntimeProgress, PostAccepted, PostRefused, PostFails, Commit,
     WriteFile, Crash, RestartRag, AddChunks, ragVars
<1> QED
  BY <1>1, <1>3 DEF Around

\* They leave every job alone that keeps its runtime's variables.
LEMMA RuntimeOther ==
  ASSUME Typed, Typed', TimeInv, NEW q \in Job, JobInv(q), RuntimeStep,
         pc'[q] = pc[q], floor'[q] = floor[q], batch'[q] = batch[q], next'[q] = next[q]
  PROVE  JobInv(q)'
<1>1. Around
  BY RuntimeAround
<1>2. fetched'[q] = fetched[q]
  BY DEF RuntimeStep, JobInv
<1>3. pc[q] = "fetch" => since'[q] = since[q] /\ clock' <= since[q] + SearchTime
  BY DEF RuntimeStep, JobInv, FetchInv
<1>4. Same(q)
  BY <1>2, <1>3 DEF Same
<1> QED
  BY <1>1, <1>4, JobStays

\* A job whose process ends owes nothing, and takes nothing from others.
LEMMA ExitKeepsJobs ==
  ASSUME Typed, Typed', TimeInv, \A q \in Job : JobInv(q), RuntimeStep,
         NEW j \in Job, Exit(j)
  PROVE  \A q \in Job : JobInv(q)'
<1> SUFFICES ASSUME NEW q \in Job PROVE JobInv(q)'
  OBVIOUS
<1>1. CASE q = j
  <2>1. pc'[q] = "idle"
    BY <1>1 DEF Exit, Typed, RuntimeTypeOK
  <2>2. fetched'[q] = <<>>
    BY <2>1 DEF RuntimeStep
  <2> QED
    BY <2>1, <2>2, IdleJob
<1>2. CASE q # j
  <2>1. /\ pc'[q] = pc[q] /\ floor'[q] = floor[q]
        /\ batch'[q] = batch[q] /\ next'[q] = next[q]
    BY <1>2 DEF Exit, Typed, RuntimeTypeOK
  <2> QED
    BY <2>1, RuntimeOther
<1> QED
  BY <1>1, <1>2

\* The runtime's steps keep what each job owes, and the watermark safe.
LEMMA RuntimeKeeps ==
  ASSUME Typed, Typed', TimeInv, NothingLostAfterFullSync, \A q \in Job : JobInv(q),
         RuntimeStep
  PROVE  NothingLostAfterFullSync' /\ \A q \in Job : JobInv(q)'
<1>a. Around
  BY RuntimeAround
<1>u. UNCHANGED <<updated, cutShort>>
  BY DEF RuntimeStep
<1>1. ASSUME NEW j \in Job, PostAccepted(j)
      PROVE  NothingLostAfterFullSync' /\ \A q \in Job : JobInv(q)'
  <2>1. NothingLostAfterFullSync'
    BY <1>1, <1>a, CursorStays DEF PostAccepted
  <2>2. ASSUME NEW q \in Job, q # j PROVE JobInv(q)'
    <3>1. /\ pc'[q] = pc[q] /\ floor'[q] = floor[q]
          /\ batch'[q] = batch[q] /\ next'[q] = next[q]
      BY <1>1, <2>2 DEF PostAccepted, Typed, RuntimeTypeOK
    <3> QED
      BY <3>1, RuntimeOther
  <2>3. JobInv(j)'
    BY <1>1, PostKeepsJob
  <2> QED
    BY <2>1, <2>2, <2>3
<1>2. ASSUME NEW j \in Job, PostRefused(j)
      PROVE  NothingLostAfterFullSync' /\ \A q \in Job : JobInv(q)'
  BY <1>2, <1>a, CursorStays, ExitKeepsJobs DEF PostRefused
<1>3. ASSUME NEW j \in Job, PostFails(j)
      PROVE  NothingLostAfterFullSync' /\ \A q \in Job : JobInv(q)'
  BY <1>3, <1>a, CursorStays, ExitKeepsJobs DEF PostFails
<1>4. ASSUME NEW j \in Job, Commit(j)
      PROVE  NothingLostAfterFullSync' /\ \A q \in Job : JobInv(q)'
  <2>1. pc[j] = "embed" /\ batch[j] = <<>> /\ accepted' = accepted
    BY <1>4 DEF Commit, ragVars
  <2>2. CASE Backend = "postgres"
    <3>1. cursor' = next[j] /\ Exit(j)
      BY <1>4, <2>2 DEF Commit
    <3> QED
      BY <2>1, <3>1, <1>u, CommitIsSafe, ExitKeepsJobs
  <2>3. CASE Backend = "container"
    <3>1. cursor' = cursor /\ Exit(j)
      BY <1>4, <2>3 DEF Commit
    <3> QED
      BY <3>1, <1>a, CursorStays, ExitKeepsJobs
  <2>4. CASE Backend = "directory"
    <3>1. /\ cursor' = NoCursor
          /\ pc' = [pc EXCEPT ![j] = "write"]
          /\ UNCHANGED <<floor, batch, next>>
      BY <1>4, <2>4 DEF Commit
    <3>2. ASSUME NEW q \in Job, q # j PROVE JobInv(q)'
      <4>1. pc'[q] = pc[q]
        BY <3>1, <3>2 DEF Typed, RuntimeTypeOK
      <4> QED
        BY <3>1, <4>1, RuntimeOther
    <3>3. JobInv(j)'
      <4>1. pc'[j] = "write" /\ batch'[j] = <<>>
        BY <2>1, <3>1 DEF Typed, RuntimeTypeOK
      <4>2. fetched'[j] = fetched[j] /\ fetched[j] = <<>>
        BY <2>1, <4>1 DEF RuntimeStep, JobInv
      <4>3. EmbedInv(j)
        BY <2>1 DEF JobInv
      <4>4. EmbedInv(j)'
        BY <2>1, <3>1, <4>3, <1>u DEF EmbedInv, Version
      <4>5. Returned(j)' = {}
        <5>1. Len(fetched'[j]) = 0
          BY <4>2
        <5> QED
          BY <5>1 DEF Returned
      <4> QED
        BY <4>1, <4>2, <4>4, <4>5 DEF JobInv
    <3> QED
      BY <3>1, <3>2, <3>3, NoCursorIsSafe
  <2> QED
    BY <2>2, <2>3, <2>4, RuntimeAssumption
<1>5. ASSUME NEW j \in Job, WriteFile(j)
      PROVE  NothingLostAfterFullSync' /\ \A q \in Job : JobInv(q)'
  <2>1. pc[j] = "write" /\ cursor' = next[j] /\ Exit(j) /\ accepted' = accepted
    BY <1>5 DEF WriteFile, ragVars
  <2>2. batch[j] = <<>>
    BY <2>1 DEF JobInv
  <2> QED
    BY <2>1, <2>2, <1>u, CommitIsSafe, ExitKeepsJobs
<1>6. ASSUME NEW j \in Job, Crash(j)
      PROVE  NothingLostAfterFullSync' /\ \A q \in Job : JobInv(q)'
  BY <1>6, <1>a, CursorStays, ExitKeepsJobs DEF Crash
<1>7. CASE RestartRag
  <2>1. cursor' = cursor /\ UNCHANGED <<pc, floor, batch, next>>
    BY <1>7 DEF RestartRag, jobVars
  <2> QED
    BY <2>1, <1>a, CursorStays, RuntimeOther
<1> QED
  BY <1>1, <1>2, <1>3, <1>4, <1>5, <1>6, <1>7
  DEF RuntimeStep, RuntimeNext, RuntimeProgress

-----------------------------------------------------------------------------
(* The inductive invariant *)

\* The initial states owe nothing.
LEMMA InvInit ==
  ASSUME Init
  PROVE  IInv
<1>1. Typed
  BY TypeInit
<1>2. LagInv
  BY DEF Init, LagInv
<1>3. /\ cursor = NoCursor /\ clock = 1
      /\ \A j \in Job : pc[j] = "idle" /\ floor[j] = NoCursor /\ next[j] = NoCursor
      /\ \A j \in Job : fetched[j] = <<>>
      /\ updated = [k \in Issue |-> 0]
  BY DEF Init, RuntimeInit
<1>4. TimeInv
  BY <1>3 DEF TimeInv, NoCursor
<1>5. NothingLostAfterFullSync
  BY <1>3 DEF NothingLostAfterFullSync, NothingLost, OutOfReach
<1>6. ASSUME NEW j \in Job PROVE JobInv(j)
  <2>1. Len(fetched[j]) = 0
    BY <1>3
  <2>2. Returned(j) = {}
    BY <2>1 DEF Returned
  <2> QED
    BY <1>3, <2>2 DEF JobInv
<1> QED
  BY <1>1, <1>2, <1>4, <1>5, <1>6 DEF IInv

\* The search index never falls behind by more than its lag.
LEMMA LagNext ==
  ASSUME Typed, LagInv, [Next]_vars
  PROVE  LagInv'
<1>n. /\ clock \in Nat /\ Lag \in Nat
      /\ \A k \in Issue : updated[k] \in Nat
  BY Numbers
<1>1. CASE Tick
  BY <1>1, <1>n DEF Tick, LagInv
<1>2. ASSUME NEW k \in Issue, UpdateIssue(k) PROVE LagInv'
  <2>1. /\ updated' = [updated EXCEPT ![k] = clock]
        /\ UNCHANGED <<clock, searchable>>
    BY <1>2 DEF UpdateIssue
  <2>2. ASSUME NEW i \in Issue, searchable'[i] # updated'[i]
        PROVE  clock' <= updated'[i] + Lag
    <3>1. CASE i = k
      BY <2>1, <3>1, <1>n DEF Typed
    <3>2. CASE i # k
      BY <2>1, <2>2, <3>2 DEF Typed, LagInv
    <3> QED
      BY <3>1, <3>2
  <2> QED
    BY <2>2 DEF LagInv
<1>3. ASSUME NEW k \in Issue, IndexIssue(k) PROVE LagInv'
  BY <1>3 DEF IndexIssue, LagInv, Typed
<1>4. CASE UNCHANGED <<clock, updated, searchable>>
  BY <1>4 DEF LagInv
<1> QED
  BY <1>1, <1>2, <1>3, <1>4
  DEF Next, Start, FetchPage, SearchRejected, BuildBatch, RuntimeStep, vars, jiraVars

\* A job that ends has a watermark no more.
LEMMA ExitKeepsTime ==
  ASSUME Typed, TimeInv, NEW j \in Job, Exit(j), clock' = clock,
         cursor' \in {cursor, next[j], NoCursor}
  PROVE  TimeInv'
<1>1. NoCursor <= clock /\ next[j] <= clock /\ cursor <= clock
  BY Numbers DEF NoCursor, TimeInv
<1>2. ASSUME NEW q \in Job PROVE floor'[q] <= clock /\ next'[q] <= clock
  BY <1>1 DEF Exit, Typed, RuntimeTypeOK, TimeInv
<1> QED
  BY <1>1, <1>2 DEF TimeInv

\* No watermark ever is in the future: each is the time of a version.
LEMMA TimeNext ==
  ASSUME Typed, TimeInv, \A j \in Job : Seen(j), [Next]_vars
  PROVE  TimeInv'
<1>n. /\ clock \in Nat /\ cursor \in Nat
      /\ \A j \in Job : floor[j] \in Nat /\ next[j] \in Nat
  BY Numbers
<1>0. CASE UNCHANGED <<cursor, floor, next>> /\ clock' \in {clock, clock + 1}
  BY <1>0, <1>n DEF TimeInv
<1>1. ASSUME NEW j \in Job, Start(j) PROVE TimeInv'
  <2>1. /\ UNCHANGED <<cursor, clock, next>>
        /\ floor' = [floor EXCEPT ![j] = cursor]
    BY <1>1 DEF Start, ReadCursor
  <2> QED
    BY <2>1 DEF TimeInv, Typed, RuntimeTypeOK
<1>2. ASSUME NEW j \in Job, SearchRejected(j) PROVE TimeInv'
  BY <1>2, ExitKeepsTime DEF SearchRejected
<1>3. ASSUME NEW j \in Job, BuildBatch(j) PROVE TimeInv'
  <2>1. CASE Exit(j)
    BY <1>3, <2>1, ExitKeepsTime DEF BuildBatch
  <2>2. CASE ~Exit(j)
    <3>1. PICK d \in Returned(j) :
            Hand(j, [i \in 1..Len(fetched[j]) |-> {fetched[j][i]}], UpdatedAt(d))
      BY <1>3, <2>2 DEF BuildBatch
    <3>2. next' = [next EXCEPT ![j] = UpdatedAt(d)] /\ floor' = floor
      BY <2>2, <3>1 DEF Hand
    <3>3. UpdatedAt(d) <= clock
      BY DEF Seen
    <3>4. UNCHANGED <<cursor, clock>>
      BY <1>3 DEF BuildBatch
    <3> QED
      BY <3>2, <3>3, <3>4 DEF TimeInv, Typed, RuntimeTypeOK
  <2> QED
    BY <2>1, <2>2
<1>4. CASE RuntimeStep
  <2>1. clock' = clock
    BY <1>4 DEF RuntimeStep
  <2>2. ASSUME NEW j \in Job, Exit(j), cursor' \in {cursor, next[j], NoCursor}
        PROVE  TimeInv'
    BY <2>1, <2>2, ExitKeepsTime
  <2>3. CASE UNCHANGED <<floor, next>> /\ cursor' \in {cursor, NoCursor}
    BY <2>1, <2>3, <1>n DEF TimeInv, NoCursor
  <2>4. ASSUME NEW j \in Job, PostAccepted(j) PROVE TimeInv'
    BY <2>3, <2>4 DEF PostAccepted
  <2>5. ASSUME NEW j \in Job, PostRefused(j) PROVE TimeInv'
    BY <2>2, <2>5 DEF PostRefused
  <2>6. ASSUME NEW j \in Job, PostFails(j) PROVE TimeInv'
    BY <2>2, <2>6 DEF PostFails
  <2>7. ASSUME NEW j \in Job, Commit(j) PROVE TimeInv'
    BY <2>2, <2>3, <2>7 DEF Commit
  <2>8. ASSUME NEW j \in Job, WriteFile(j) PROVE TimeInv'
    BY <2>2, <2>8 DEF WriteFile
  <2>9. ASSUME NEW j \in Job, Crash(j) PROVE TimeInv'
    BY <2>2, <2>9 DEF Crash
  <2>10. CASE RestartRag
    BY <2>3, <2>10 DEF RestartRag, jobVars
  <2> QED
    BY <1>4, <2>4, <2>5, <2>6, <2>7, <2>8, <2>9, <2>10
    DEF RuntimeStep, RuntimeNext, RuntimeProgress
<1>5. CASE Tick
  BY <1>0, <1>5 DEF Tick, runtimeVars, jobVars
<1>6. ASSUME NEW k \in Issue, UpdateIssue(k) \/ IndexIssue(k) PROVE TimeInv'
  BY <1>0, <1>6 DEF UpdateIssue, IndexIssue, runtimeVars, jobVars
<1>7. ASSUME NEW j \in Job, FetchPage(j) PROVE TimeInv'
  BY <1>0, <1>7 DEF FetchPage
<1>8. CASE UNCHANGED vars
  BY <1>0, <1>8 DEF vars, runtimeVars, jobVars, jiraVars
<1> QED
  BY <1>1, <1>2, <1>3, <1>4, <1>5, <1>6, <1>7, <1>8 DEF Next

\* A page does not go past the cap, nor is there anything of the future on it.
LEMMA PageBounds ==
  ASSUME Typed, NEW j \in Job, Seen(j), FetchPage(j)
  PROVE  Len(fetched'[j]) <= MaxIssues /\ Seen(j)'
<1>1. PICK n \in 0..Room(j) : \E s \in [1..n -> Ahead(j)] :
        fetched' = [fetched EXCEPT ![j] = @ \o s]
  BY DEF FetchPage
<1>2. PICK s \in [1..n -> Ahead(j)] : fetched' = [fetched EXCEPT ![j] = @ \o s]
  BY <1>1
<1>3. n \in Nat /\ Len(fetched[j]) \in Nat /\ fetched[j] \in Seq(Document)
  BY ReturnedType
<1>4. s \in Seq(Document) /\ Len(s) = n
  BY <1>3, PageType
<1>5. Len(fetched'[j]) = Len(fetched[j]) + n
  <2>1. fetched'[j] = fetched[j] \o s
    BY <1>2 DEF Typed
  <2> QED
    BY <1>3, <1>4, <2>1, ConcatProperties
<1>6. n <= MaxIssues - Len(fetched[j])
  BY <1>3, JiraAssumption DEF Room
<1>7. Len(fetched'[j]) <= MaxIssues
  BY <1>3, <1>5, <1>6, JiraAssumption
<1>8. PICK p \in Nat : \E t \in [1..p -> Ahead(j)] :
        Returned(j)' = Returned(j) \cup {t[i] : i \in 1..p}
  BY PageFacts
<1>9. PICK t \in [1..p -> Ahead(j)] : Returned(j)' = Returned(j) \cup {t[i] : i \in 1..p}
  BY <1>8
<1>10. \A i \in 1..p : UpdatedAt(t[i]) <= clock
  <2>1. \A i \in 1..p : t[i] \in Found
    BY PageType
  <2> QED
    BY <2>1, Numbers DEF Found, UpdatedAt
<1>11. clock' = clock
  BY DEF FetchPage
<1> QED
  BY <1>7, <1>9, <1>10, <1>11 DEF Seen

\* A step that fetches nothing keeps the pages of each job or drops them.
LEMMA PagesStay ==
  ASSUME Typed, Typed', PagesInv, clock <= clock',
         NEW j \in Job, fetched'[j] \in {fetched[j], <<>>}
  PROVE  Len(fetched'[j]) <= MaxIssues /\ Seen(j)'
<1>1. CASE fetched'[j] = fetched[j]
  <2>1. Returned(j)' = Returned(j) /\ Len(fetched'[j]) <= MaxIssues
    BY <1>1 DEF Returned, PagesInv
  <2>2. ASSUME NEW d \in Returned(j) PROVE UpdatedAt(d) <= clock'
    <3>1. UpdatedAt(d) \in Nat /\ UpdatedAt(d) <= clock
      BY ReturnedType, DocumentType DEF UpdatedAt, PagesInv, Seen
    <3>2. clock \in Nat /\ clock' \in Nat
      BY DEF Typed
    <3> QED
      BY <3>1, <3>2
  <2> QED
    BY <2>1, <2>2 DEF Seen
<1>2. CASE fetched'[j] = <<>>
  <2>1. Len(fetched'[j]) = 0
    BY <1>2
  <2>2. Returned(j)' = {}
    BY <2>1 DEF Returned
  <2> QED
    BY <2>1, <2>2, JiraAssumption DEF Seen
<1> QED
  BY <1>1, <1>2

\* No step takes a job's pages past the cap, or into the future.
LEMMA PagesNext ==
  ASSUME Typed, PagesInv, [Next]_vars
  PROVE  PagesInv'
<1>1. Typed' /\ clock \in Nat /\ clock <= clock
  BY TypeNext, Numbers
<1>2. ASSUME clock' \in {clock, clock + 1}, \A j \in Job : fetched'[j] \in {fetched[j], <<>>}
      PROVE  PagesInv'
  <2>1. clock <= clock'
    BY <1>1, <1>2
  <2> QED
    BY <1>1, <1>2, <2>1, PagesStay DEF PagesInv
<1>3. ASSUME NEW j \in Job, FetchPage(j) PROVE PagesInv'
  <2>1. clock' = clock /\ \A q \in Job : q # j => fetched'[q] = fetched[q]
    BY <1>3 DEF FetchPage, Typed
  <2>2. Len(fetched'[j]) <= MaxIssues /\ Seen(j)'
    BY <1>3, PageBounds DEF PagesInv
  <2>3. ASSUME NEW q \in Job, q # j PROVE Len(fetched'[q]) <= MaxIssues /\ Seen(q)'
    BY <1>1, <2>1, <2>3, PagesStay
  <2> QED
    BY <2>2, <2>3 DEF PagesInv
<1>4. CASE UNCHANGED fetched /\ clock' \in {clock, clock + 1}
  BY <1>2, <1>4
<1>5. ASSUME NEW j \in Job, BuildBatch(j) PROVE PagesInv'
  <2>1. clock' = clock /\ fetched' = [fetched EXCEPT ![j] = <<>>]
    BY <1>5 DEF BuildBatch
  <2> QED
    BY <1>2, <2>1 DEF Typed
<1>6. CASE RuntimeStep
  BY <1>2, <1>6 DEF RuntimeStep
<1> QED
  BY <1>3, <1>4, <1>5, <1>6
  DEF Next, Tick, UpdateIssue, IndexIssue, Start, SearchRejected, vars, jiraVars

\* In every reachable state each variable has its type: a search only returns
\* issues that exist, with times that are past, no more of them than the cap,
\* and no watermark, stored or to be stored, is of the future.
THEOREM TypeCorrect == Spec => []TypeOK
<1> DEFINE I == Typed /\ TimeInv /\ PagesInv
<1>1. Init => I
  <2> SUFFICES ASSUME Init PROVE I
    OBVIOUS
  <2>1. Typed /\ TimeInv
    BY InvInit DEF IInv
  <2>2. \A j \in Job : fetched[j] = <<>>
    BY DEF Init
  <2>3. \A j \in Job : Len(fetched[j]) = 0
    BY <2>2
  <2>4. \A j \in Job : Returned(j) = {}
    BY <2>3 DEF Returned
  <2> QED
    BY <2>1, <2>3, <2>4, JiraAssumption DEF PagesInv, Seen
<1>2. I /\ [Next]_vars => I'
  BY TypeNext, TimeNext, PagesNext DEF PagesInv
<1>3. I => TypeOK
  <2> SUFFICES ASSUME I PROVE TypeOK
    OBVIOUS
  <2>1. ASSUME NEW j \in Job, NEW i \in DOMAIN fetched[j]
        PROVE  UpdatedAt(fetched[j][i]) <= clock
    <3>1. i \in 1..Len(fetched[j])
      BY DEF Typed
    <3> QED
      BY <3>1 DEF PagesInv, Seen, Returned
  <2> QED
    BY <2>1 DEF Typed, TimeInv, PagesInv, TypeOK
<1> HIDE DEF I
<1> QED
  BY <1>1, <1>2, <1>3, PTL DEF Spec

\* Every step keeps the invariant.
LEMMA InvNext ==
  ASSUME SafeOverlap, IInv, [Next]_vars
  PROVE  IInv'
<1>a. /\ Typed /\ LagInv /\ TimeInv /\ NothingLostAfterFullSync
      /\ \A q \in Job : JobInv(q)
  BY DEF IInv
<1>t. Typed' /\ LagInv' /\ TimeInv'
  BY <1>a, TypeNext, LagNext, TimeNext DEF JobInv, Seen
<1>n. /\ clock \in Nat /\ clock' \in Nat /\ clock <= clock
      /\ \A j \in Job : since[j] \in Nat
  BY <1>a, <1>t, Numbers DEF Typed
<1>0. ASSUME Around, cursor' = cursor, \A q \in Job : Same(q)
      PROVE  NothingLostAfterFullSync' /\ \A q \in Job : JobInv(q)'
  BY <1>0, <1>a, <1>t, CursorStays, JobStays
<1>b. ASSUME Around, cursor' = cursor, NEW j \in Job, JobInv(j)',
             \A q \in Job : q # j => Same(q)
      PROVE  NothingLostAfterFullSync' /\ \A q \in Job : JobInv(q)'
  BY <1>b, <1>a, <1>t, CursorStays, JobStays
<1>s. \A q \in Job : pc[q] = "fetch" => clock <= since[q] + SearchTime
  BY <1>a DEF JobInv, FetchInv
<1>1. CASE Tick
  <2>1. /\ clock' = clock + 1
        /\ UNCHANGED <<cursor, pc, floor, batch, next, accepted, ownOrder, updated, fetched,
                       since, cutShort>>
        /\ \A q \in Job : pc[q] = "fetch" => clock < since[q] + SearchTime
    BY <1>1 DEF Tick, runtimeVars, jobVars, ragVars
  <2>2. Around
    BY <2>1, <1>n DEF Around
  <2>3. \A q \in Job : Same(q)
    BY <2>1, <1>n, JiraAssumption DEF Same
  <2> QED
    BY <1>0, <1>t, <2>1, <2>2, <2>3 DEF IInv
<1>2. ASSUME NEW k \in Issue, UpdateIssue(k) \/ IndexIssue(k) PROVE IInv'
  <2>1. /\ UNCHANGED <<cursor, pc, floor, batch, next, accepted, ownOrder, clock, fetched,
                       since, cutShort>>
        /\ updated' \in {updated, [updated EXCEPT ![k] = clock]}
    BY <1>2 DEF UpdateIssue, IndexIssue, runtimeVars, jobVars, ragVars
  <2>2. Around
    BY <2>1, <1>n, <1>a DEF Around, Typed
  <2>3. \A q \in Job : Same(q)
    BY <2>1, <1>s DEF Same
  <2> QED
    BY <1>0, <1>t, <2>1, <2>2, <2>3 DEF IInv
<1>3. ASSUME NEW j \in Job, Start(j) PROVE IInv'
  <2>1. /\ UNCHANGED <<cursor, batch, next, accepted, ownOrder, clock, updated, fetched,
                       cutShort>>
        /\ \A q \in Job : q # j =>
             pc'[q] = pc[q] /\ floor'[q] = floor[q] /\ since'[q] = since[q]
    BY <1>3, <1>a DEF Start, ReadCursor, ragVars, Typed, RuntimeTypeOK
  <2>2. Around
    BY <2>1, <1>n DEF Around
  <2>3. \A q \in Job : q # j => Same(q)
    BY <2>1, <1>s DEF Same
  <2>4. JobInv(j)'
    BY <1>3, <1>a, <1>t, StartKeepsJob
  <2> QED
    BY <1>b, <1>t, <2>1, <2>2, <2>3, <2>4 DEF IInv
<1>4. ASSUME NEW j \in Job, FetchPage(j) PROVE IInv'
  <2>1. /\ UNCHANGED <<cursor, floor, batch, next, accepted, ownOrder, clock, updated, since>>
        /\ \A q \in Job : q # j => pc'[q] = pc[q] /\ fetched'[q] = fetched[q]
        /\ cutShort => cutShort'
    BY <1>4, <1>a DEF FetchPage, ragVars, Typed, RuntimeTypeOK
  <2>2. Around
    BY <2>1, <1>n DEF Around
  <2>3. \A q \in Job : q # j => Same(q)
    BY <2>1, <1>s DEF Same
  <2>4. JobInv(j)'
    BY <1>4, <1>a, <1>t, PageKeepsJob
  <2> QED
    BY <1>b, <1>t, <2>1, <2>2, <2>3, <2>4 DEF IInv
<1>5. ASSUME NEW j \in Job, SearchRejected(j) PROVE IInv'
  <2>1. /\ UNCHANGED <<cursor, accepted, ownOrder, clock, updated, fetched, cutShort>>
        /\ pc'[j] = "idle" /\ pc[j] = "fetch" /\ BadQuery(j)
        /\ \A q \in Job : q # j =>
             /\ pc'[q] = pc[q] /\ floor'[q] = floor[q] /\ since'[q] = since[q]
             /\ batch'[q] = batch[q] /\ next'[q] = next[q]
    BY <1>5, <1>a DEF SearchRejected, Exit, ragVars, Typed, RuntimeTypeOK
  <2>2. Around
    BY <2>1, <1>n DEF Around
  <2>3. \A q \in Job : q # j => Same(q)
    BY <2>1, <1>s DEF Same
  <2>4. fetched'[j] = <<>>
    BY <2>1, <1>a DEF JobInv, FetchInv
  <2>5. JobInv(j)'
    BY <2>1, <2>4, <1>t, IdleJob
  <2> QED
    BY <1>b, <1>t, <2>1, <2>2, <2>3, <2>5 DEF IInv
<1>6. ASSUME NEW j \in Job, BuildBatch(j) PROVE IInv'
  <2>1. /\ UNCHANGED <<cursor, accepted, ownOrder, clock, updated, cutShort>>
        /\ \A q \in Job : q # j => fetched'[q] = fetched[q] /\ since'[q] = since[q]
    BY <1>6, <1>a DEF BuildBatch, ragVars, Typed
  <2>2. \A q \in Job : q # j =>
          /\ pc'[q] = pc[q] /\ floor'[q] = floor[q]
          /\ batch'[q] = batch[q] /\ next'[q] = next[q]
    BY <1>6, <1>a DEF BuildBatch, Hand, Exit, Typed, RuntimeTypeOK
  <2>3. Around
    BY <2>1, <1>n DEF Around
  <2>4. \A q \in Job : q # j => Same(q)
    BY <2>1, <2>2, <1>s DEF Same
  <2>5. JobInv(j)'
    BY <1>6, <1>a, <1>t, BuildKeepsJob
  <2> QED
    BY <1>b, <1>t, <2>1, <2>3, <2>4, <2>5 DEF IInv
<1>7. CASE RuntimeStep
  BY <1>7, <1>a, <1>t, RuntimeKeeps DEF IInv
<1>8. CASE UNCHANGED vars
  <2>1. UNCHANGED <<cursor, pc, floor, batch, next, accepted, ownOrder, clock, updated,
                    fetched, since, cutShort>>
    BY <1>8 DEF vars, runtimeVars, jobVars, ragVars, jiraVars
  <2>2. Around
    BY <2>1, <1>n DEF Around
  <2>3. \A q \in Job : Same(q)
    BY <2>1, <1>s DEF Same
  <2> QED
    BY <1>0, <1>t, <2>1, <2>2, <2>3 DEF IInv
<1> QED
  BY <1>1, <1>2, <1>3, <1>4, <1>5, <1>6, <1>7, <1>8 DEF Next

\* With an overlap that makes up for the index's lag and the time a search
\* takes, every reachable state satisfies the inductive invariant.
THEOREM InvCorrect == SafeOverlap => (Spec => []IInv)
<1> SUFFICES ASSUME SafeOverlap PROVE Spec => []IInv
  OBVIOUS
<1>1. Init => IInv
  BY InvInit
<1>2. IInv /\ [Next]_vars => IInv'
  BY InvNext
<1> QED
  BY <1>1, <1>2, PTL DEF Spec

\* The watermark never puts a version out of reach that the index was not
\* given, whatever jobs overlap, crash or race the issues' changes, once a
\* first search has not stopped at maxIssuesPerRun (jira_job.py's
\* overlapMinutes against Jira's lag and the length of a search).
THEOREM NothingLostCorrect == SafeOverlap => (Spec => []NothingLostAfterFullSync)
<1>1. IInv => NothingLostAfterFullSync
  BY DEF IInv
<1> QED
  BY <1>1, InvCorrect, PTL

-----------------------------------------------------------------------------
(* When the first search is never cut short *)

\* Every search without a watermark is in update order, or gets all issues.
WholeSearches ==
  \/ OwnOrders \subseteq {TRUE}
  \/ IsFiniteSet(Issue) /\ Cardinality(Issue) <= MaxIssues

\* No issue is on the job's pages twice.
IssuesOnce(j) ==
  \A i, l \in 1..Len(fetched[j]) : fetched[j][i][1] = fetched[j][l][1] => i = l

\* The issue of d is on a page.
OnPages(j, d) == \E i \in 1..Len(fetched[j]) : fetched[j][i][1] = d[1]

UncutInv ==
  /\ ~cutShort
  /\ \A j \in Job : pc[j] = "fetch" /\ ~Ordered(j) => IssuesOnce(j)
  /\ \A j \in Job : pc[j] \notin {"fetch", "build"} => fetched[j] = <<>>

\* The search index has one version of an issue.
LEMMA OneVersion ==
  ASSUME NEW d \in Found, NEW e \in Found, d[1] = e[1]
  PROVE  d = e
BY DEF Found

\* Without an order, a page adds issues that are on no page yet, and leaves
\* others ahead.
LEMMA PageOnce ==
  ASSUME Typed, NEW j \in Job, IssuesOnce(j), ~Ordered(j),
         NEW n \in Nat, NEW s \in [1..n -> Ahead(j)],
         IsPage(s, Ahead(j), Room(j), Ordered(j)),
         fetched'[j] = fetched[j] \o s
  PROVE  /\ Len(fetched'[j]) = Len(fetched[j]) + n
         /\ IssuesOnce(j)'
         /\ \A d \in Ahead(j) : (\A i \in 1..n : s[i] # d) => ~OnPages(j, d)'
<1>1. /\ s \in Seq(Document) /\ Len(s) = n
      /\ fetched[j] \in Seq(Document) /\ Len(fetched[j]) \in Nat
      /\ \A i \in 1..n : s[i] \in Found
  BY PageType, ReturnedType
<1>2. /\ Len(fetched[j] \o s) = Len(fetched[j]) + Len(s)
      /\ \A i \in 1..Len(fetched[j]) + Len(s) : (fetched[j] \o s)[i] =
           IF i <= Len(fetched[j]) THEN fetched[j][i] ELSE s[i - Len(fetched[j])]
  BY <1>1, ConcatProperties
<1>3. /\ Len(fetched'[j]) = Len(fetched[j]) + n
      /\ \A i \in 1..Len(fetched[j]) + n : fetched'[j][i] =
           IF i <= Len(fetched[j]) THEN fetched[j][i] ELSE s[i - Len(fetched[j])]
  BY <1>1, <1>2
<1>4. \A d \in Ahead(j) : d \in Found /\ \A i \in 1..Len(fetched[j]) : fetched[j][i][1] # d[1]
  BY DEF Ahead, Returned
<1>5. \A i, l \in 1..n : s[i][1] = s[l][1] => i = l
  <2>1. \A i, l \in 1..n : s[i] = s[l] => i = l
    <3>1. DOMAIN s = 1..n
      OBVIOUS
    <3> QED
      BY <3>1 DEF IsPage
  <2> QED
    BY <1>1, <2>1, OneVersion
<1>6. ASSUME NEW i \in 1..Len(fetched'[j]), NEW l \in 1..Len(fetched'[j]),
             fetched'[j][i][1] = fetched'[j][l][1], i <= l
      PROVE  i = l
  <2> DEFINE a == i - Len(fetched[j])
             b == l - Len(fetched[j])
  <2>1. CASE l <= Len(fetched[j])
    BY <2>1, <1>1, <1>3, <1>6 DEF IssuesOnce
  <2>2. CASE i <= Len(fetched[j]) /\ l > Len(fetched[j])
    <3>1. b \in 1..n /\ fetched'[j][l] = s[b] /\ fetched'[j][i] = fetched[j][i]
      BY <2>2, <1>1, <1>3
    <3>2. s[b] \in Ahead(j) /\ i \in 1..Len(fetched[j])
      BY <2>2, <3>1, <1>1
    <3> QED
      BY <3>1, <3>2, <1>4, <1>6
  <2>3. CASE i > Len(fetched[j])
    <3>1. a \in 1..n /\ b \in 1..n /\ fetched'[j][i] = s[a] /\ fetched'[j][l] = s[b]
      BY <2>3, <1>1, <1>3, <1>6
    <3>2. a = b
      BY <3>1, <1>5, <1>6
    <3> QED
      BY <3>2, <1>1
  <2> QED
    BY <2>1, <2>2, <2>3, <1>1, <1>3
<1>7. IssuesOnce(j)'
  <2>1. \A i, l \in 1..Len(fetched'[j]) : i <= l \/ l <= i
    BY <1>1, <1>3
  <2> QED
    BY <1>6, <2>1 DEF IssuesOnce
<1>8. ASSUME NEW d \in Ahead(j), \A i \in 1..n : s[i] # d,
             NEW i \in 1..Len(fetched'[j])
      PROVE  fetched'[j][i][1] # d[1]
  <2> DEFINE a == i - Len(fetched[j])
  <2>1. CASE i <= Len(fetched[j])
    <3>1. fetched'[j][i] = fetched[j][i] /\ i \in 1..Len(fetched[j])
      BY <2>1, <1>1, <1>3
    <3> QED
      BY <3>1, <1>4
  <2>2. CASE i > Len(fetched[j])
    <3>1. a \in 1..n /\ fetched'[j][i] = s[a]
      BY <2>2, <1>1, <1>3
    <3>2. s[a] \in Found /\ d \in Found /\ s[a] # d
      BY <3>1, <1>1, <1>4, <1>8
    <3> QED
      BY <3>1, <3>2, OneVersion
  <2> QED
    BY <2>1, <2>2, <1>1, <1>3
<1> QED
  BY <1>3, <1>7, <1>8 DEF OnPages

\* More issues than there are do not fit on the pages of a search.
LEMMA NoMoreIssues ==
  ASSUME IsFiniteSet(Issue), NEW m \in Nat, Cardinality(Issue) <= m,
         NEW f \in [1..m -> Issue], \A i, l \in 1..m : f[i] = f[l] => i = l,
         NEW k \in Issue
  PROVE  \E i \in 1..m : f[i] = k
<1> SUFFICES ASSUME \A i \in 1..m : f[i] # k PROVE FALSE
  OBVIOUS
<1> DEFINE g == [i \in 1..(m + 1) |-> IF i <= m THEN f[i] ELSE k]
<1>1. g \in [1..(m + 1) -> Issue]
  OBVIOUS
<1>2. IsFiniteSet(1..(m + 1)) /\ Cardinality(1..(m + 1)) = m + 1
  <2>1. m + 1 \in Int /\ 1 \in Int /\ ~(1 > m + 1) /\ m + 1 - 1 + 1 = m + 1
    OBVIOUS
  <2> QED
    BY <2>1, FS_Interval
<1>3. Cardinality(Issue) < Cardinality(1..(m + 1))
  BY <1>2, FS_CardinalityType
<1>4. ASSUME NEW i \in 1..(m + 1)
      PROVE  (i \in 1..m /\ g[i] = f[i]) \/ (i = m + 1 /\ g[i] = k)
  <2>1. i \in 1..m \/ (i = m + 1 /\ ~(i <= m))
    OBVIOUS
  <2> QED
    BY <2>1
<1> HIDE DEF g
<1>5. \E x, y \in 1..(m + 1) : x # y /\ g[x] = g[y]
  BY <1>1, <1>2, <1>3, FS_PigeonHole, Zenon
<1>6. PICK x \in 1..(m + 1), y \in 1..(m + 1) : x # y /\ g[x] = g[y]
  BY <1>5
<1> QED
  BY <1>4, <1>6

\* A page does not cut a search short that is in order or gets all issues.
LEMMA PageIsWhole ==
  ASSUME Typed, WholeSearches, UncutInv, NEW j \in Job, FetchPage(j)
  PROVE  UncutInv'
<1>0. pc[j] = "fetch" /\ UNCHANGED <<floor, ownOrder>>
  BY DEF FetchPage
<1>1. PICK n \in 0..Room(j) : \E s \in [1..n -> Ahead(j)] :
       LET left == {d \in Ahead(j) : \A i \in 1..n : s[i] # d}
           done == Len(fetched[j]) + n = MaxIssues \/ left = {}
       IN /\ IsPage(s, Ahead(j), Room(j), Ordered(j))
          /\ fetched' = [fetched EXCEPT ![j] = @ \o s]
          /\ pc' = [pc EXCEPT ![j] = IF done THEN "build" ELSE "fetch"]
          /\ cutShort' = (cutShort \/ (~Ordered(j) /\ done /\ left # {}))
  BY DEF FetchPage
<1>2. PICK s \in [1..n -> Ahead(j)] :
       LET left == {d \in Ahead(j) : \A i \in 1..n : s[i] # d}
           done == Len(fetched[j]) + n = MaxIssues \/ left = {}
       IN /\ IsPage(s, Ahead(j), Room(j), Ordered(j))
          /\ fetched' = [fetched EXCEPT ![j] = @ \o s]
          /\ pc' = [pc EXCEPT ![j] = IF done THEN "build" ELSE "fetch"]
          /\ cutShort' = (cutShort \/ (~Ordered(j) /\ done /\ left # {}))
  BY <1>1
<1> DEFINE left == {d \in Ahead(j) : \A i \in 1..n : s[i] # d}
           done == Len(fetched[j]) + n = MaxIssues \/ left = {}
<1>3. n \in Nat
  OBVIOUS
<1>4. fetched'[j] = fetched[j] \o s
  BY <1>2 DEF Typed
<1>5. ~Ordered(j) => IssuesOnce(j)
  BY <1>0 DEF UncutInv
<1>6. ~Ordered(j) =>
        /\ Len(fetched'[j]) = Len(fetched[j]) + n
        /\ IssuesOnce(j)'
        /\ \A d \in left : \A i \in 1..Len(fetched'[j]) : fetched'[j][i][1] # d[1]
  <2> SUFFICES ASSUME ~Ordered(j)
               PROVE  /\ Len(fetched'[j]) = Len(fetched[j]) + n
                      /\ IssuesOnce(j)'
                      /\ \A d \in left : \A i \in 1..Len(fetched'[j]) :
                           fetched'[j][i][1] # d[1]
    OBVIOUS
  <2>1. IssuesOnce(j) /\ IsPage(s, Ahead(j), Room(j), Ordered(j))
    BY <1>2, <1>5
  <2>2. /\ Len(fetched'[j]) = Len(fetched[j]) + n
        /\ IssuesOnce(j)'
        /\ \A d \in Ahead(j) : (\A i \in 1..n : s[i] # d) => ~OnPages(j, d)'
    <3> HIDE DEF left, done
    <3>1. /\ Typed /\ IssuesOnce(j) /\ ~Ordered(j) /\ n \in Nat
          /\ s \in [1..n -> Ahead(j)] /\ IsPage(s, Ahead(j), Room(j), Ordered(j))
          /\ fetched'[j] = fetched[j] \o s
      BY <2>1, <1>3, <1>4
    <3>2. Len(fetched'[j]) = Len(fetched[j]) + n
      BY <3>1, PageOnce
    <3>3. IssuesOnce(j)'
      BY <3>1, PageOnce
    <3>4. \A d \in Ahead(j) : (\A i \in 1..n : s[i] # d) => ~OnPages(j, d)'
      BY <3>1, PageOnce
    <3> QED
      BY <3>2, <3>3, <3>4
  <2> QED
    BY <2>2 DEF OnPages
<1>7. ~cutShort'
  <2> SUFFICES ASSUME ~Ordered(j), done, left # {} PROVE FALSE
    BY <1>2 DEF UncutInv
  <2>1. Len(fetched'[j]) = MaxIssues
    BY <1>6
  <2>2. IsFiniteSet(Issue) /\ Cardinality(Issue) <= MaxIssues
    BY DEF WholeSearches, Ordered, Typed
  <2> DEFINE f == [i \in 1..MaxIssues |-> fetched'[j][i][1]]
  <2>3. \A i \in 1..MaxIssues : fetched'[j][i] \in Document
    <3>1. s \in Seq(Document) /\ fetched[j] \in Seq(Document)
      BY <1>3, PageType, ReturnedType
    <3>2. fetched'[j] \in Seq(Document)
      BY <3>1, <1>4, ConcatProperties
    <3> QED
      BY <3>2, <2>1, ElementOfSeq
  <2>4. f \in [1..MaxIssues -> Issue]
    BY <2>3, DocumentType
  <2>5. \A i, l \in 1..MaxIssues : f[i] = f[l] => i = l
    BY <2>1, <1>6 DEF IssuesOnce
  <2>6. PICK d \in left : TRUE
    OBVIOUS
  <2>7. d \in Ahead(j) /\ d \in Found
    BY DEF Ahead
  <2>8. d[1] \in Issue
    BY <2>7, FoundType, DocumentType
  <2>9. MaxIssues \in Nat
    BY JiraAssumption
  <2> HIDE DEF f
  <2>10. \E i \in 1..MaxIssues : f[i] = d[1]
    BY <2>2, <2>4, <2>5, <2>8, <2>9, NoMoreIssues
  <2> QED
    BY <2>1, <2>6, <2>10, <1>6 DEF f
<1>8. Ordered(j)' = Ordered(j)
  BY <1>0 DEF Ordered
<1>9. ASSUME NEW q \in Job PROVE /\ pc'[q] = "fetch" /\ ~Ordered(q)' => IssuesOnce(q)'
                                 /\ pc'[q] \notin {"fetch", "build"} => fetched'[q] = <<>>
  <2>1. CASE q = j
    <3>1. pc'[j] \in {"fetch", "build"}
      BY <1>2 DEF Typed, RuntimeTypeOK
    <3> QED
      BY <2>1, <3>1, <1>6, <1>8
  <2>2. CASE q # j
    <3>1. pc'[q] = pc[q] /\ fetched'[q] = fetched[q] /\ Ordered(q)' = Ordered(q)
      BY <1>0, <1>2, <2>2 DEF Typed, RuntimeTypeOK, Ordered
    <3> QED
      BY <3>1 DEF UncutInv, IssuesOnce
  <2> QED
    BY <2>1, <2>2
<1> QED
  BY <1>7, <1>9 DEF UncutInv

\* Whatever leaves cutShort and gives no job another search to get on with.
LEMMA UncutStays ==
  ASSUME Typed, UncutInv, cutShort' = cutShort, ownOrder' = ownOrder,
         \A j \in Job : \/ /\ pc'[j] = pc[j] /\ fetched'[j] = fetched[j]
                           /\ floor'[j] = floor[j]
                        \/ fetched'[j] = <<>>
  PROVE  UncutInv'
<1>1. ASSUME NEW j \in Job PROVE /\ pc'[j] = "fetch" /\ ~Ordered(j)' => IssuesOnce(j)'
                                 /\ pc'[j] \notin {"fetch", "build"} => fetched'[j] = <<>>
  <2>1. CASE pc'[j] = pc[j] /\ fetched'[j] = fetched[j] /\ floor'[j] = floor[j]
    BY <2>1 DEF UncutInv, IssuesOnce, Ordered
  <2>2. CASE fetched'[j] = <<>>
    <3>1. Len(fetched'[j]) = 0
      BY <2>2
    <3> QED
      BY <2>2, <3>1 DEF IssuesOnce
  <2> QED
    BY <2>1, <2>2
<1> QED
  BY <1>1 DEF UncutInv

\* No step cuts a search short that is in order or gets all issues.
LEMMA UncutNext ==
  ASSUME WholeSearches, Typed, \A j \in Job : JobInv(j), UncutInv, [Next]_vars
  PROVE  UncutInv'
<1>1. CASE UNCHANGED <<cutShort, ownOrder, pc, fetched, floor>>
  BY <1>1, UncutStays
<1>2. ASSUME NEW j \in Job, Start(j) PROVE UncutInv'
  <2>1. UNCHANGED <<cutShort, ownOrder, fetched>> /\ pc[j] = "idle"
    BY <1>2 DEF Start, ReadCursor
  <2>2. fetched'[j] = <<>>
    BY <2>1 DEF UncutInv
  <2>3. \A q \in Job : q # j => pc'[q] = pc[q] /\ floor'[q] = floor[q]
    BY <1>2 DEF Start, ReadCursor, Typed, RuntimeTypeOK
  <2> QED
    BY <2>1, <2>2, <2>3, UncutStays
<1>3. ASSUME NEW j \in Job, FetchPage(j) PROVE UncutInv'
  BY <1>3, PageIsWhole
<1>4. ASSUME NEW j \in Job, SearchRejected(j) PROVE UncutInv'
  <2>1. UNCHANGED <<cutShort, ownOrder, fetched>> /\ pc[j] = "fetch" /\ BadQuery(j)
    BY <1>4 DEF SearchRejected
  <2>2. fetched'[j] = <<>>
    BY <2>1 DEF JobInv, FetchInv
  <2>3. \A q \in Job : q # j => pc'[q] = pc[q] /\ floor'[q] = floor[q]
    BY <1>4 DEF SearchRejected, Exit, Typed, RuntimeTypeOK
  <2> QED
    BY <2>1, <2>2, <2>3, UncutStays
<1>5. ASSUME NEW j \in Job, BuildBatch(j) PROVE UncutInv'
  <2>1. UNCHANGED <<cutShort, ownOrder>> /\ fetched' = [fetched EXCEPT ![j] = <<>>]
    BY <1>5 DEF BuildBatch
  <2>2. \A q \in Job : q # j => pc'[q] = pc[q] /\ floor'[q] = floor[q]
    BY <1>5 DEF BuildBatch, Hand, Exit, Typed, RuntimeTypeOK
  <2>3. fetched'[j] = <<>> /\ \A q \in Job : q # j => fetched'[q] = fetched[q]
    BY <2>1 DEF Typed
  <2> QED
    BY <2>1, <2>2, <2>3, UncutStays
<1>6. CASE RuntimeStep
  <2>1. UNCHANGED <<cutShort, ownOrder>>
    BY <1>6 DEF RuntimeStep
  <2>2. ASSUME NEW q \in Job
        PROVE  \/ /\ pc'[q] = pc[q] /\ fetched'[q] = fetched[q]
                  /\ floor'[q] = floor[q]
               \/ fetched'[q] = <<>>
    <3>1. CASE pc'[q] = "idle"
      BY <1>6, <3>1 DEF RuntimeStep
    <3>2. CASE pc'[q] # "idle"
      <4>1. fetched'[q] = fetched[q]
        BY <1>6, <3>2 DEF RuntimeStep
      <4>2. RuntimeNext
        BY <1>6 DEF RuntimeStep
      <4>3. \/ pc'[q] = pc[q] /\ floor'[q] = floor[q]
            \/ pc[q] = "embed"
        BY <3>2, <4>2 DEF RuntimeNext, RuntimeProgress, PostAccepted, PostRefused, PostFails,
           Commit, WriteFile, Crash, RestartRag, Exit, jobVars, Typed,
           RuntimeTypeOK
      <4> QED
        BY <4>1, <4>3 DEF UncutInv
    <3> QED
      BY <3>1, <3>2
  <2> QED
    BY <2>1, <2>2, UncutStays
<1> QED
  BY <1>1, <1>2, <1>3, <1>4, <1>5, <1>6
  DEF Next, Tick, UpdateIssue, IndexIssue, vars, runtimeVars, jobVars, jiraVars

\* Without any exception: if maxIssuesPerRun is enough for every issue, or the
\* configured query is ordered by update time, the watermark never puts a
\* version out of reach that the index was not given.
THEOREM NothingEverLost == SafeOverlap /\ WholeSearches => (Spec => []NothingLost)
<1> SUFFICES ASSUME SafeOverlap, WholeSearches PROVE Spec => []NothingLost
  OBVIOUS
<1>1. Init => IInv /\ UncutInv
  <2> SUFFICES ASSUME Init PROVE UncutInv
    BY InvInit
  <2>1. \A j \in Job : pc[j] = "idle" /\ fetched[j] = <<>>
    BY DEF Init, RuntimeInit
  <2> QED
    BY <2>1 DEF Init, UncutInv
<1>2. IInv /\ UncutInv /\ [Next]_vars => (IInv /\ UncutInv)'
  BY InvNext, UncutNext DEF IInv
<1>3. IInv /\ UncutInv => NothingLost
  BY DEF IInv, UncutInv, NothingLostAfterFullSync
<1> QED
  BY <1>1, <1>2, <1>3, PTL DEF Spec

-----------------------------------------------------------------------------
(* The incremental feed *)

\* A step either leaves accepted, or the watermark, the issues and cutShort.
LEMMA AcceptOrMove ==
  ASSUME Typed, [Next]_vars
  PROVE  \/ accepted' = accepted
         \/ /\ \E D \in SUBSET Document : accepted' = accepted \cup D
            /\ UNCHANGED <<cursor, updated, cutShort>>
<1>1. ASSUME NEW j \in Job, PostAccepted(j), RuntimeStep
      PROVE  /\ \E D \in SUBSET Document : accepted' = accepted \cup D
             /\ UNCHANGED <<cursor, updated, cutShort>>
  <2>1. Head(batch[j]) \in SUBSET Document
    BY <1>1, HeadTailProperties DEF PostAccepted, Typed, RuntimeTypeOK
  <2>2. accepted' = accepted \cup Head(batch[j])
    BY <1>1 DEF PostAccepted, AddChunks
  <2> QED
    BY <1>1, <2>1, <2>2 DEF PostAccepted, RuntimeStep
<1>2. ASSUME NEW j \in Job, PostFails(j), RuntimeStep, accepted' # accepted
      PROVE  /\ \E D \in SUBSET Document : accepted' = accepted \cup D
             /\ UNCHANGED <<cursor, updated, cutShort>>
  <2>1. Head(batch[j]) \in SUBSET Document
    BY <1>2, HeadTailProperties DEF PostFails, Typed, RuntimeTypeOK
  <2>2. \E D \in SUBSET Head(batch[j]) : accepted' = accepted \cup D
    BY <1>2 DEF PostFails, AddChunks
  <2> QED
    BY <1>2, <2>1, <2>2 DEF PostFails, RuntimeStep
<1>3. CASE RuntimeStep
  BY <1>1, <1>2, <1>3 DEF RuntimeStep, RuntimeNext, RuntimeProgress, PostRefused, Commit,
     WriteFile, Crash, RestartRag, ragVars
<1>4. CASE ~RuntimeStep
  BY <1>4 DEF Next, Tick, UpdateIssue, IndexIssue, Start, ReadCursor, FetchPage,
     SearchRejected, BuildBatch, vars, runtimeVars, ragVars
<1> QED
  BY <1>3, <1>4

\* The scraper implements the incremental feed: every step accepts documents,
\* or settles on documents that were accepted before it, or is none of the
\* feed's.
THEOREM Refinement == SafeOverlap => (Spec => ImplementsFeed)
<1> SUFFICES ASSUME SafeOverlap PROVE Spec => ImplementsFeed
  OBVIOUS
<1> DEFINE settled == IF cutShort THEN {} ELSE OutOfReach
<1>1. Init => Feed!Init
  <2> SUFFICES ASSUME Init PROVE settled = {} /\ accepted = {}
    BY DEF Feed!Init
  <2>1. accepted = {} /\ updated = [k \in Issue |-> 0]
    BY DEF Init, RuntimeInit
  <2> QED
    BY <2>1 DEF OutOfReach
<1>2. IInv /\ IInv' /\ [Next]_vars => [Feed!Next]_(Feed!feedVars)
  <2> SUFFICES ASSUME IInv, IInv', [Next]_vars
               PROVE  Feed!Next
    OBVIOUS
  <2>1. CASE accepted' = accepted
    <3>1. settled' \subseteq accepted
      BY <2>1 DEF IInv, NothingLostAfterFullSync, NothingLost
    <3>2. Feed!Settle
      BY <2>1, <3>1 DEF Feed!Settle
    <3> QED
      BY <3>2 DEF Feed!Next
  <2>2. CASE /\ \E D \in SUBSET Document : accepted' = accepted \cup D
             /\ UNCHANGED <<cursor, updated, cutShort>>
    <3>1. settled' = settled
      BY <2>2 DEF OutOfReach, Version
    <3>2. Feed!Accept
      BY <2>2, <3>1 DEF Feed!Accept
    <3> QED
      BY <3>2 DEF Feed!Next
  <2> QED
    BY <2>1, <2>2, AcceptOrMove DEF IInv
<1>3. Spec => []IInv
  BY InvCorrect
<1> QED
  BY <1>1, <1>2, <1>3, PTL DEF Spec, ImplementsFeed, Feed!Spec
=============================================================================
