--------------------- MODULE SlackChannelScraper_proofs ---------------------
(***************************************************************************)
(* Proofs about SlackChannelScraper, for every number of jobs, messages,   *)
(* faults, page size, cap and request limit.                               *)
(*                                                                         *)
(* NeverSkips speaks of the stored watermark only.  It is kept because of  *)
(* what the jobs hold in memory: what a job has drained so far grows       *)
(* downwards without a gap, and at the end reaches the watermark it read,  *)
(* a watermark that was itself safe to store, unless the drain ends at the *)
(* cap; and what it is about to commit is covered once its payload is      *)
(* accepted.  IInv says that of every job at every stage.                  *)
(***************************************************************************)
EXTENDS SlackChannelScraper, SequenceTheorems, FiniteSetTheorems, WellFoundedInduction,
        TLAPS

\* A watermark that skips nothing.
Covered(c) ==
  /\ c <= latest
  /\ \A m \in 1..c : m \in accepted \cup NoChannel \cup cut

\* What job j has drained was posted after the watermark it read.
Drained(j) == \A m \in collected[j] : floor[j] < m /\ m <= latest

\* Nothing is missing between two drained messages.
Convex(j) ==
  \A a, b \in collected[j] : \A m \in Message : a < m /\ m < b => m \in collected[j]

\* Nothing is missing between the watermark and a drained message.
NoGap(j) ==
  \A b \in collected[j] : \A m \in Message : floor[j] < m /\ m < b => m \in collected[j]

FetchInv(j) == Drained(j) /\ Convex(j)

BuildInv(j) ==
  /\ Drained(j)
  /\ Convex(j)
  /\ Full(collected[j]) \/ NoGap(j)

\* Once the one payload is accepted, the watermark to commit is covered; a
\* payload for which that is not so is refused.
EmbedInv(j) ==
  /\ floor[j] < next[j] /\ next[j] <= latest
  /\ \/ batch[j] = <<>> /\ Covered(next[j])
     \/ \E D \in SUBSET Message :
          /\ batch[j] = <<D>>
          /\ Fits(D) => \A m \in 1..next[j] : m \in accepted \cup NoChannel \cup cut \cup D

JobInv(j) ==
  /\ Covered(floor[j])
  /\ pc[j] = "fetch" => FetchInv(j)
  /\ pc[j] = "build" => BuildInv(j)
  /\ pc[j] = "embed" => EmbedInv(j)
  /\ pc[j] = "write" => floor[j] < next[j] /\ Covered(next[j])

IInv ==
  /\ TypeOK
  /\ Covered(cursor)
  /\ \A j \in Job : JobInv(j)

-----------------------------------------------------------------------------
(* Type correctness *)

\* Every step of the runtime keeps it well typed.
LEMMA RuntimeTypeStep ==
  ASSUME RuntimeTypeOK, RuntimeNext
  PROVE  RuntimeTypeOK'
<1> USE RuntimeAssumption
    DEF RuntimeTypeOK, jobVars, ragVars, Exit, Fault, AddChunks, NoCursor
<1>1. ASSUME NEW j \in Job, PostAccepted(j)
      PROVE  RuntimeTypeOK'
  BY <1>1, HeadTailProperties DEF PostAccepted
<1>2. ASSUME NEW j \in Job, PostRefused(j)
      PROVE  RuntimeTypeOK'
  BY <1>2 DEF PostRefused
<1>3. ASSUME NEW j \in Job, PostFails(j)
      PROVE  RuntimeTypeOK'
  <2>1. Head(batch[j]) \in SUBSET Document
    BY <1>3, HeadTailProperties DEF PostFails
  <2>2. PICK D \in SUBSET Head(batch[j]) : AddChunks(D)
    BY <1>3 DEF PostFails
  <2> QED
    BY <1>3, <2>1, <2>2 DEF PostFails
<1>4. ASSUME NEW j \in Job, Commit(j)
      PROVE  RuntimeTypeOK'
  <2>1. UNCHANGED <<indexed, accepted, faults>> /\ next[j] \in Nat
    BY <1>4 DEF Commit
  <2>2. CASE cursor' \in {cursor, next[j]} /\ Exit(j)
    BY <2>1, <2>2
  <2>3. CASE /\ cursor' = NoCursor /\ UNCHANGED <<floor, batch, next>>
             /\ pc' = [pc EXCEPT ![j] = "write"]
    BY <2>1, <2>3
  <2> QED
    BY <1>4, <2>2, <2>3, Zenon DEF Commit
<1>5. ASSUME NEW j \in Job, WriteFile(j)
      PROVE  RuntimeTypeOK'
  BY <1>5 DEF WriteFile
<1>6. ASSUME NEW j \in Job, Crash(j)
      PROVE  RuntimeTypeOK'
  BY <1>6 DEF Crash
<1>7. CASE RestartRag
  BY <1>7 DEF RestartRag
<1> QED
  BY <1>1, <1>2, <1>3, <1>4, <1>5, <1>6, <1>7 DEF RuntimeNext, RuntimeProgress

\* Every set of messages is finite, and so has the cardinality the operators
\* on pages compare.
LEMMA MessageFinite ==
  ASSUME NEW S \in SUBSET Message
  PROVE  IsFiniteSet(S) /\ Cardinality(S) \in Nat
<1>1. IsFiniteSet(Message)
  BY SlackAssumption, FS_Interval DEF Message
<1> QED
  BY <1>1, FS_Subset, FS_CardinalityType

\* A set of messages that is not empty has an oldest one.
LEMMA OldestOf ==
  ASSUME NEW S \in SUBSET Message, S # {}
  PROVE  \E m \in S : \A x \in S : m <= x
<1> DEFINE R == OpToRel(<, Nat)
<1>1. IsWellFoundedOn(R, Nat)
  BY NatLessThanWellFounded
<1>2. \A m \in Nat, n \in Nat : m < n => <<m, n>> \in R
  BY DEF OpToRel
<1>3. S \in SUBSET Nat
  BY SlackAssumption DEF Message
<1> HIDE DEF R
<1>4. PICK m \in S : \A n \in S : <<n, m>> \notin R
  BY <1>1, <1>3, WFMin
<1>5. \A n \in S : ~(n < m) /\ n \in Nat /\ m \in Nat
  BY <1>2, <1>3, <1>4
<1> QED
  BY <1>5

\* The first n of a set of messages are no more than n: all but the last of them
\* come before it.
LEMMA LeadingSize ==
  ASSUME NEW S \in SUBSET Message, NEW n \in Nat
  PROVE  /\ Leading(S, n) \in SUBSET S
         /\ Cardinality(Leading(S, n)) <= n
<1> DEFINE L == Leading(S, n)
           Earlier(m) == {x \in S : Before(x, m)}
<1>1. L \in SUBSET S /\ L \in SUBSET Message /\ \A m \in L : Cardinality(Earlier(m)) < n
  BY DEF Leading
<1> SUFFICES Cardinality(L) <= n
  BY <1>1
<1> HIDE DEF L
<1>2. CASE L = {}
  BY <1>2, FS_EmptySet
<1>3. CASE L # {}
  <2>1. PICK m \in L : \A x \in L : m <= x
    BY <1>1, <1>3, OldestOf
  <2>2. L \subseteq Nat
    BY <1>1, SlackAssumption DEF Message
  <2>3. Earlier(m) \in SUBSET Message /\ L \ {m} \in SUBSET Earlier(m)
    <3>1. \A x \in L \ {m} : x \in S /\ Before(x, m)
      BY <1>1, <2>1, <2>2 DEF Before
    <3>2. \A x \in Earlier(m) : x \in Message
      OBVIOUS
    <3> QED
      BY <3>1, <3>2
  <2>4. Cardinality(Earlier(m)) < n
    BY <1>1
  <2> HIDE DEF Earlier
  <2>5. IsFiniteSet(L) /\ Cardinality(L) \in Nat
    BY <1>1, MessageFinite
  <2>6. IsFiniteSet(Earlier(m)) /\ Cardinality(Earlier(m)) \in Nat
    BY <2>3, MessageFinite
  <2>7. Cardinality(L \ {m}) <= Cardinality(Earlier(m))
    BY <2>3, <2>6, FS_Subset
  <2>8. Cardinality(L \ {m}) = Cardinality(L) - 1
    BY <2>5, FS_RemoveElement
  <2> QED
    BY <2>4, <2>5, <2>6, <2>7, <2>8
<1> QED
  BY <1>2, <1>3

\* A page fits into the room that is left.
LEMMA PageSizeBound ==
  ASSUME TypeOK, NEW j \in Job
  PROVE  /\ Page(j) \in SUBSET Message
         /\ Cardinality(collected[j] \cup Page(j)) <= Cap
<1> DEFINE room == Cap - Cardinality(collected[j])
           shown == Leading(Ahead(j), PageSize)
<1>1. /\ collected[j] \in SUBSET Message
      /\ Cardinality(collected[j]) <= Cap
  BY DEF TypeOK
<1>2. IsFiniteSet(collected[j]) /\ Cardinality(collected[j]) \in Nat
  BY <1>1, MessageFinite
<1>3. room \in Nat
  BY <1>1, <1>2, SlackAssumption
<1>4. Ahead(j) \in SUBSET Message
  BY SlackAssumption DEF Ahead, TypeOK, Message
<1>5. shown \in SUBSET Message
  BY <1>4 DEF Leading
<1> HIDE DEF room, shown
<1>6. Page(j) = Leading(shown, room)
  BY DEF Page, room, shown
<1>7. Page(j) \in SUBSET Message /\ Cardinality(Page(j)) <= room
  BY <1>3, <1>5, <1>6, LeadingSize
<1>8. IsFiniteSet(Page(j)) /\ Cardinality(Page(j)) \in Nat
  BY <1>7, MessageFinite
<1>9. Cardinality(collected[j] \cup Page(j)) <= Cardinality(collected[j]) + Cardinality(Page(j))
  <2>1. Cardinality(collected[j] \cap Page(j)) \in Nat
    BY <1>1, MessageFinite
  <2>2. Cardinality(collected[j] \cup Page(j)) =
          Cardinality(collected[j]) + Cardinality(Page(j)) - Cardinality(collected[j] \cap Page(j))
    BY <1>2, <1>8, FS_Union
  <2> QED
    BY <1>2, <1>8, <2>1, <2>2
<1>10. Cardinality(collected[j] \cup Page(j)) \in Nat
  <2>1. collected[j] \cup Page(j) \in SUBSET Message
    BY <1>1, <1>7
  <2> QED
    BY <2>1, MessageFinite
<1> QED
  BY <1>2, <1>7, <1>8, <1>9, <1>10, SlackAssumption DEF room

\* Every variable keeps its type: in particular a job only ever collects
\* messages that exist, and no more than the cap.
THEOREM TypeCorrect == Spec => []TypeOK
<1>1. Init => TypeOK
  <2> SUFFICES ASSUME Init PROVE TypeOK
    OBVIOUS
  <2>1. RuntimeTypeOK
    BY RuntimeAssumption DEF Init, RuntimeInit, RuntimeTypeOK, NoCursor
  <2> QED
    BY <2>1, SlackAssumption, FS_EmptySet DEF Init, TypeOK
<1>2. TypeOK /\ [Next]_vars => TypeOK'
  <2> SUFFICES ASSUME TypeOK, [Next]_vars PROVE TypeOK'
    OBVIOUS
  <2>1. CASE PostMessage
    BY <2>1, SlackAssumption
    DEF PostMessage, TypeOK, RuntimeTypeOK, runtimeVars, jobVars, ragVars
  <2>2. ASSUME NEW j \in Job, Start(j) PROVE TypeOK'
    BY <2>2, SlackAssumption, FS_EmptySet DEF Start, ReadCursor, TypeOK, RuntimeTypeOK, ragVars
  <2>3. ASSUME NEW j \in Job, FetchPage(j) PROVE TypeOK'
    <3>1. Page(j) \in SUBSET Message /\ Cardinality(collected[j] \cup Page(j)) <= Cap
      BY PageSizeBound
    <3>2. collected' = [collected EXCEPT ![j] = @ \cup Page(j)]
      BY <2>3 DEF FetchPage
    <3>3. /\ collected' \in [Job -> SUBSET Message]
          /\ \A i \in Job : Cardinality(collected'[i]) <= Cap
      BY <3>1, <3>2 DEF TypeOK
    <3> QED
      BY <2>3, <3>3 DEF FetchPage, TypeOK, RuntimeTypeOK, ragVars
  <2>4. ASSUME NEW j \in Job, BuildBatch(j) PROVE TypeOK'
    <3>1. /\ collected' \in [Job -> SUBSET Message]
          /\ \A i \in Job : Cardinality(collected'[i]) <= Cap
          /\ cut' \in SUBSET Message
      BY <2>4, SlackAssumption, FS_EmptySet DEF BuildBatch, TypeOK, LeftBehind
    <3>2. CASE Exit(j)
      BY <2>4, <3>1, <3>2
      DEF BuildBatch, Exit, TypeOK, RuntimeTypeOK, ragVars, NoCursor
    <3>3. CASE ~Exit(j)
      <4>1. PICK newest \in collected[j] : Hand(j, <<Items(collected[j])>>, newest)
        BY <2>4, <3>3 DEF BuildBatch
      <4>2. /\ newest \in Nat
            /\ <<Items(collected[j])>> \in Seq(SUBSET Document)
        <5>1. newest \in Message /\ Items(collected[j]) \in SUBSET Message
          BY DEF TypeOK, Items
        <5> QED
          BY <5>1, SlackAssumption DEF Message
      <4>3. /\ pc' \in [Job -> {"idle", "fetch", "build", "embed", "write"}]
            /\ floor' \in [Job -> Nat]
            /\ batch' \in [Job -> Seq(SUBSET Document)]
            /\ next' \in [Job -> Nat]
        BY <4>1, <4>2 DEF Hand, TypeOK, RuntimeTypeOK
      <4> QED
        BY <2>4, <3>1, <4>3 DEF BuildBatch, TypeOK, RuntimeTypeOK, ragVars
    <3> QED
      BY <3>2, <3>3
  <2>5. CASE RuntimeNext /\ UNCHANGED slackVars
    BY <2>5, RuntimeTypeStep DEF TypeOK, slackVars
  <2>6. CASE UNCHANGED vars
    BY <2>6 DEF TypeOK, RuntimeTypeOK, vars, runtimeVars, jobVars, ragVars, slackVars
  <2> QED
    BY <2>1, <2>2, <2>3, <2>4, <2>5, <2>6 DEF Next
<1> QED
  BY <1>1, <1>2, PTL DEF Spec

-----------------------------------------------------------------------------
(* Pages *)

\* The first n of a set of messages, in page order, are closed under what
\* comes before.
LEMMA LeadingClosed ==
  ASSUME NEW S \in SUBSET Message, NEW n \in Int,
         NEW m \in Leading(S, n), NEW x \in S, Before(x, m)
  PROVE  x \in Leading(S, n)
<1> DEFINE Earlier(y) == {z \in S : Before(z, y)}
<1>1. IsFiniteSet(S)
  BY MessageFinite
<1>2. Earlier(x) \subseteq Earlier(m)
  <2>1. S \subseteq Nat /\ m \in S
    BY SlackAssumption DEF Message, Leading
  <2>2. SUFFICES ASSUME NEW z \in S, Before(z, x) PROVE Before(z, m)
    OBVIOUS
  <2>3. m \in Nat /\ x \in Nat /\ z \in Nat
    BY <2>1
  <2> QED
    BY <2>2, <2>3 DEF Before
<1>3. IsFiniteSet(Earlier(m))
  BY <1>1, FS_Subset
<1>4. /\ Cardinality(Earlier(x)) \in Nat
      /\ Cardinality(Earlier(m)) \in Nat
      /\ Cardinality(Earlier(x)) <= Cardinality(Earlier(m))
  BY <1>2, <1>3, FS_Subset, FS_CardinalityType
<1>5. Cardinality(Earlier(m)) < n
  BY DEF Leading
<1>6. Cardinality(Earlier(x)) < n
  BY <1>4, <1>5
<1> QED
  BY <1>6 DEF Leading

\* A page leaves out nothing that comes before one of its messages.
LEMMA PageClosed ==
  ASSUME TypeOK, NEW j \in Job,
         NEW m \in Page(j), NEW x \in Ahead(j), Before(x, m)
  PROVE  x \in Page(j)
<1>1. Ahead(j) \in SUBSET Message
  BY SlackAssumption DEF Ahead, TypeOK, Message
<1>2. Leading(Ahead(j), PageSize) \in SUBSET Message
  BY <1>1 DEF Leading
<1>3. m \in Leading(Ahead(j), PageSize)
  BY DEF Page, Leading
<1>4. x \in Leading(Ahead(j), PageSize)
  BY <1>1, <1>3, LeadingClosed, SlackAssumption
<1>5. Cap - Cardinality(collected[j]) \in Int
  <2>1. IsFiniteSet(collected[j])
    BY MessageFinite DEF TypeOK
  <2> QED
    BY <2>1, FS_CardinalityType, SlackAssumption
<1> QED
  BY <1>2, <1>4, <1>5, LeadingClosed DEF Page

\* Draining a page keeps what was drained convex.
LEMMA PageKeepsFetchInv ==
  ASSUME TypeOK, NEW j \in Job, FetchInv(j), floor[j] \in Nat,
         FetchPage(j)
  PROVE  FetchInv(j)'
<1> DEFINE C == collected[j]
           P == Page(j)
<1>1. /\ P \subseteq Ahead(j)
      /\ collected'[j] = C \cup P
      /\ floor' = floor /\ latest' = latest
  BY DEF Page, Leading, FetchPage, TypeOK
<1>2. /\ Message \subseteq Nat /\ C \subseteq Message
      /\ \A m \in Ahead(j) :
           /\ m \in Message /\ floor[j] < m /\ m <= latest
           /\ \A r \in C : Before(r, m)
  BY SlackAssumption DEF Ahead, TypeOK, Message
<1>3. latest \in Nat
  BY SlackAssumption DEF TypeOK
<1>4. \A m \in Message :
        floor[j] < m /\ m <= latest /\ (\A r \in C : Before(r, m)) => m \in Ahead(j)
  BY <1>3, SlackAssumption DEF Ahead, Message
<1>5. \A m \in P : \A x \in Ahead(j) : Before(x, m) => x \in P
  BY PageClosed
<1>6. Drained(j)'
  BY <1>1, <1>2 DEF FetchInv, Drained
<1>7. FetchInv(j)'
  <2>1. SUFFICES ASSUME NEW a \in C \cup P, NEW b \in C \cup P, NEW m \in Message,
                        a < m, m < b
                 PROVE  m \in C \cup P
    BY <1>1, <1>6 DEF FetchInv, Convex
  <2>2. \A u, v \in C : \A w \in Message : u < w /\ w < v => w \in C
    BY DEF FetchInv, Convex
  <2>3. floor[j] < m /\ m <= latest
    <3>1. /\ a \in Nat /\ b \in Nat /\ m \in Nat
          /\ floor[j] < a /\ b <= latest
      BY <1>1, <1>2 DEF FetchInv, Drained
    <3> QED
      BY <1>3, <2>1, <3>1
  <2>4. CASE a \in C
    <3>1. b \in C
      <4>1. ASSUME b \in P PROVE b < a
        BY <1>1, <1>2, <2>4, <4>1 DEF Before
      <4>2. a \in Nat /\ b \in Nat /\ m \in Nat
        BY <1>1, <1>2
      <4> QED
        BY <2>1, <4>1, <4>2
    <3> QED
      BY <2>1, <2>2, <2>4, <3>1
  <2>5. CASE a \in P /\ m \notin C
    <3>1. ASSUME NEW r \in C PROVE m < r
      <4>1. m \in Nat /\ r \in Nat /\ b \in Nat /\ m # r
        BY <1>1, <1>2, <2>5
      <4>2. CASE b \in C
        BY <2>1, <2>2, <2>5, <4>1, <4>2
      <4>3. CASE b \in P
        <5>1. r > b
          BY <1>1, <1>2, <4>3 DEF Before
        <5> QED
          BY <2>1, <4>1, <5>1
      <4> QED
        BY <4>2, <4>3
    <3>2. m \in Ahead(j)
      BY <1>2, <1>4, <2>3, <3>1 DEF Before
    <3>3. Before(m, a)
      BY <1>2, <2>1 DEF Before
    <3> QED
      BY <1>5, <2>5, <3>2, <3>3
  <2> QED
    BY <2>1, <2>4, <2>5
<1> QED
  BY <1>7

\* The drain ends at the cap or with everything past the watermark.
LEMMA LastPage ==
  ASSUME TypeOK, NEW j \in Job, FetchInv(j), floor[j] \in Nat,
         FetchPage(j), pc'[j] = "build"
  PROVE  BuildInv(j)'
<1>1. FetchInv(j)'
  BY PageKeepsFetchInv
<1>2. BuildInv(j)'
  <2> DEFINE C == collected[j]
             P == Page(j)
  <2>1. collected'[j] = C \cup P /\ floor' = floor /\ latest' = latest
    BY DEF FetchPage, TypeOK
  <2>2. CASE Full(C \cup P)
    BY <1>1, <2>1, <2>2 DEF FetchInv, BuildInv
  <2>3. CASE ~Full(C \cup P)
    <3>1. Ahead(j) \subseteq P
      BY <2>3 DEF FetchPage, TypeOK, RuntimeTypeOK
    <3>2. /\ Message \subseteq Nat /\ C \cup P \subseteq Message
          /\ latest \in Nat
          /\ \A m \in C \cup P : m <= latest
      BY <1>1, <2>1, SlackAssumption
      DEF Ahead, TypeOK, Message, Page, Leading, FetchInv, Drained
    <3>3. \A m \in Message :
            floor[j] < m /\ m <= latest /\ (\A r \in C : m < r) => m \in P
      BY <3>1, <3>2, SlackAssumption DEF Ahead, Message, Before
    <3>4. ASSUME NEW b \in C \cup P, NEW m \in Message, floor[j] < m, m < b
          PROVE  m \in C \cup P
      <4>1. m <= latest
        <5>1. b <= latest /\ b \in Nat /\ m \in Nat
          BY <3>2
        <5> QED
          BY <3>2, <3>4, <5>1
      <4>2. CASE \A r \in C : m < r
        BY <3>3, <3>4, <4>1, <4>2
      <4>3. ASSUME NEW r \in C, r < m PROVE m \in C \cup P
        BY <1>1, <2>1, <3>4, <4>3 DEF FetchInv, Convex
      <4>4. ASSUME NEW r \in C, ~(m < r) PROVE m \in C \cup P
        <5>1. r \in Nat /\ m \in Nat
          BY <3>2
        <5>2. r = m \/ r < m
          BY <4>4, <5>1
        <5> QED
          BY <4>3, <5>2, Zenon
      <4> QED
        BY <4>2, <4>4, Zenon
    <3> QED
      BY <1>1, <2>1, <3>4 DEF FetchInv, BuildInv, NoGap
  <2> QED
    BY <2>2, <2>3
<1> QED
  BY <1>2

-----------------------------------------------------------------------------
(* The inductive invariant *)

\* A covered watermark stays covered: nothing un-posts or un-accepts.
LEMMA CoveredStays ==
  ASSUME TypeOK, TypeOK', NEW c \in Nat, Covered(c),
         latest <= latest', accepted \subseteq accepted', cut \subseteq cut'
  PROVE  Covered(c)'
<1>1. c <= latest'
  BY SlackAssumption DEF Covered, TypeOK
<1> QED
  BY <1>1 DEF Covered

\* What holds of a job is not disturbed by what others do.
LEMMA JobInvStays ==
  ASSUME TypeOK, TypeOK', NEW j \in Job, JobInv(j),
         latest <= latest', accepted \subseteq accepted', cut \subseteq cut',
         pc'[j] = pc[j], floor'[j] = floor[j], batch'[j] = batch[j],
         next'[j] = next[j], collected'[j] = collected[j]
  PROVE  JobInv(j)'
<1>1. floor[j] \in Nat /\ next[j] \in Nat /\ latest \in Nat /\ latest' \in Nat
  BY SlackAssumption DEF TypeOK, RuntimeTypeOK
<1>2. Covered(floor[j])' /\ (Covered(next[j]) => Covered(next[j])')
  BY <1>1, CoveredStays DEF JobInv, Covered
<1>3. Drained(j) => Drained(j)'
  <2> SUFFICES ASSUME Drained(j), NEW m \in collected[j]
               PROVE  m <= latest'
    BY DEF Drained
  <2>1. m \in Nat /\ m <= latest
    BY SlackAssumption DEF Drained, TypeOK, Message
  <2> QED
    BY <1>1, <2>1
<1>4. CASE pc[j] = "fetch"
  BY <1>2, <1>3, <1>4 DEF JobInv, FetchInv, Convex, NoGap
<1>5. CASE pc[j] = "build"
  BY <1>2, <1>3, <1>5 DEF JobInv, BuildInv, Convex, NoGap
<1>6. CASE pc[j] = "embed"
  <2>1. next'[j] <= latest' /\ floor'[j] < next'[j]
    BY <1>1, <1>6 DEF JobInv, EmbedInv
  <2>2. CASE batch[j] = <<>> /\ Covered(next[j])
    BY <1>2, <1>6, <2>1, <2>2 DEF JobInv, EmbedInv
  <2>3. CASE ~(batch[j] = <<>> /\ Covered(next[j]))
    <3>1. PICK D \in SUBSET Message :
            /\ batch[j] = <<D>>
            /\ Fits(D) => \A m \in 1..next[j] : m \in accepted \cup NoChannel \cup cut \cup D
      BY <1>6, <2>3 DEF JobInv, EmbedInv
    <3>2. Fits(D) => \A m \in 1..next'[j] : m \in accepted' \cup NoChannel \cup cut' \cup D
      BY <3>1
    <3>3. EmbedInv(j)'
      BY <2>1, <3>1, <3>2 DEF EmbedInv, Fits
    <3> QED
      BY <1>2, <1>6, <3>3 DEF JobInv
  <2> QED
    BY <2>2, <2>3
<1>7. CASE pc[j] = "write"
  BY <1>2, <1>7 DEF JobInv
<1>8. CASE pc[j] \notin {"fetch", "build", "embed", "write"}
  BY <1>2, <1>8 DEF JobInv
<1> QED
  BY <1>4, <1>5, <1>6, <1>7, <1>8

\* A job that has ended holds nothing.
LEMMA EndedJobInv ==
  ASSUME TypeOK, TypeOK', NEW j \in Job, Exit(j)
  PROVE  JobInv(j)'
<1>1. pc'[j] = "idle" /\ floor'[j] = 0
  BY DEF Exit, NoCursor, TypeOK, RuntimeTypeOK
<1>2. Covered(floor[j])'
  BY <1>1, SlackAssumption DEF Covered, TypeOK
<1> QED
  BY <1>1, <1>2 DEF JobInv

\* The acting job apart, a step of a job leaves every other job's invariant.
LEMMA OtherJobs ==
  ASSUME TypeOK, TypeOK', NEW j \in Job, \A i \in Job : JobInv(i),
         latest <= latest', accepted \subseteq accepted', cut \subseteq cut', JobInv(j)',
         \A i \in Job \ {j} :
           /\ pc'[i] = pc[i] /\ floor'[i] = floor[i] /\ batch'[i] = batch[i]
           /\ next'[i] = next[i] /\ collected'[i] = collected[i]
  PROVE  \A i \in Job : JobInv(i)'
<1> SUFFICES ASSUME NEW i \in Job PROVE JobInv(i)'
  OBVIOUS
<1>1. CASE i = j
  BY <1>1
<1>2. CASE i # j
  BY <1>2, JobInvStays
<1> QED
  BY <1>1, <1>2

\* Handing a drained job's messages to the runtime.
LEMMA BuildStep ==
  ASSUME TypeOK, TypeOK', NEW j \in Job, JobInv(j), BuildBatch(j)
  PROVE  JobInv(j)'
<1>1. CASE Exit(j)
  BY <1>1, EndedJobInv
<1>2. CASE ~Exit(j)
  <2> DEFINE C == collected[j]
             D == Items(C)
  <2>1. PICK newest \in C :
          (\A m \in C : m <= newest) /\ Hand(j, <<D>>, newest)
    BY <1>2 DEF BuildBatch
  <2>2. /\ pc'[j] = "embed" /\ batch'[j] = <<D>> /\ next'[j] = newest
        /\ floor' = floor /\ latest' = latest /\ accepted' = accepted
        /\ cut' = cut \cup LeftBehind(j)
    BY <1>2, <2>1 DEF Hand, BuildBatch, TypeOK, RuntimeTypeOK, ragVars
  <2>3. /\ C \subseteq Message /\ D \in SUBSET Message /\ Message \subseteq Nat
        /\ floor[j] \in Nat /\ latest \in Nat
        /\ newest \in Nat /\ newest \in Message
    BY SlackAssumption DEF TypeOK, RuntimeTypeOK, Items, Message
  <2>4. BuildInv(j) /\ Covered(floor[j])
    BY DEF JobInv, BuildBatch
  <2>5. floor[j] < newest /\ newest <= latest
    BY <2>4 DEF BuildInv, Drained
  <2>6. ASSUME Fits(D), NEW m \in 1..newest
        PROVE  m \in accepted \cup NoChannel \cup cut' \cup D
    <3>1. m \in Message /\ m \in Nat
      BY <2>3, SlackAssumption DEF Message
    <3>2. CASE m <= floor[j]
      BY <2>2, <2>3, <2>4, <3>1, <3>2 DEF Covered
    <3>3. CASE m > floor[j] /\ NoGap(j)
      <4>1. m \in C
        BY <2>3, <3>1, <3>3 DEF NoGap
      <4> QED
        BY <4>1 DEF Items
    <3>4. CASE m > floor[j] /\ Full(C) /\ \A r \in C : m < r
      BY <2>2, <2>6, <3>1, <3>4 DEF LeftBehind
    <3>5. CASE \E r \in C : ~(m < r)
      <4>1. PICK r \in C : ~(m < r)
        BY <3>5
      <4>2. r \in Nat /\ (m = r \/ r < m)
        <5>1. r \in Nat
          BY <2>3
        <5> QED
          BY <3>1, <4>1, <5>1
      <4>3. Convex(j)
        BY <2>4 DEF BuildInv
      <4>4. m = newest \/ m < newest
        BY <2>3
      <4>5. m \in C
        BY <2>1, <3>1, <4>1, <4>2, <4>3, <4>4 DEF Convex
      <4> QED
        BY <4>5 DEF Items
    <3> QED
      BY <2>3, <2>4, <3>1, <3>2, <3>3, <3>4, <3>5 DEF BuildInv
  <2>7. EmbedInv(j)'
    BY <2>2, <2>3, <2>5, <2>6 DEF EmbedInv, Fits
  <2>8. Covered(floor[j])'
    BY <2>2, <2>4 DEF Covered
  <2> QED
    BY <2>2, <2>7, <2>8 DEF JobInv
<1> QED
  BY <1>1, <1>2

\* An accepted payload covers the watermark its job is about to commit.
LEMMA PostStep ==
  ASSUME TypeOK, TypeOK', NEW j \in Job, JobInv(j), PostAccepted(j),
         latest' = latest, cut' = cut
  PROVE  JobInv(j)'
<1>1. PICK D \in SUBSET Message :
        /\ batch[j] = <<D>>
        /\ Fits(D) => \A m \in 1..next[j] : m \in accepted \cup NoChannel \cup cut \cup D
  BY DEF JobInv, EmbedInv, PostAccepted
<1>2. Head(batch[j]) = D /\ Tail(batch[j]) = <<>>
  BY <1>1
<1>3. /\ batch'[j] = <<>> /\ pc'[j] = "embed"
      /\ next' = next /\ floor' = floor /\ accepted' = accepted \cup D
  BY <1>2 DEF PostAccepted, AddChunks, TypeOK, RuntimeTypeOK
<1>4. \A m \in 1..next[j] : m \in accepted \cup NoChannel \cup cut \cup D
  BY <1>1, <1>2 DEF PostAccepted
<1>5. EmbedInv(j)'
  <2>1. floor'[j] < next'[j] /\ next'[j] <= latest'
    BY <1>3 DEF JobInv, EmbedInv, PostAccepted
  <2>2. Covered(next[j])'
    BY <1>3, <1>4, <2>1 DEF Covered
  <2> QED
    BY <1>3, <2>1, <2>2 DEF EmbedInv
<1>6. Covered(floor[j])'
  BY <1>3 DEF JobInv, Covered
<1> QED
  BY <1>3, <1>5, <1>6 DEF JobInv

\* IInv is inductive: one step per action.
LEMMA Inductive ==
  ASSUME IInv, [Next]_vars, TypeOK'
  PROVE  IInv'
<1> USE DEF IInv
<1>0. cursor \in Nat /\ latest \in Nat /\ latest' \in Nat
  BY SlackAssumption DEF TypeOK, RuntimeTypeOK
<1>1. CASE PostMessage
  <2>1. /\ latest <= latest' /\ accepted' = accepted /\ cursor' = cursor /\ cut' = cut
        /\ pc' = pc /\ floor' = floor /\ batch' = batch /\ next' = next
        /\ collected' = collected
    BY <1>0, <1>1 DEF PostMessage, runtimeVars, jobVars, ragVars
  <2>2. Covered(cursor)'
    BY <1>0, <2>1, CoveredStays
  <2> QED
    BY <2>1, <2>2, JobInvStays
<1>2. ASSUME NEW j \in Job, Start(j)
      PROVE  IInv'
  <2>1. /\ latest' = latest /\ accepted' = accepted /\ cursor' = cursor /\ cut' = cut
        /\ pc'[j] = "fetch" /\ floor'[j] = cursor /\ collected'[j] = {}
        /\ \A i \in Job \ {j} :
             /\ pc'[i] = pc[i] /\ floor'[i] = floor[i] /\ batch'[i] = batch[i]
             /\ next'[i] = next[i] /\ collected'[i] = collected[i]
    BY <1>2 DEF Start, ReadCursor, ragVars, TypeOK, RuntimeTypeOK
  <2>2. Covered(cursor)' /\ Covered(floor[j])'
    BY <2>1 DEF Covered
  <2>3. JobInv(j)'
    BY <2>1, <2>2 DEF JobInv, FetchInv, Drained, Convex, NoGap
  <2> QED
    BY <1>0, <2>1, <2>2, <2>3, OtherJobs
<1>3. ASSUME NEW j \in Job, FetchPage(j)
      PROVE  IInv'
  <2>1. /\ latest' = latest /\ accepted' = accepted /\ cursor' = cursor /\ cut' = cut
        /\ floor' = floor /\ pc[j] = "fetch" /\ pc'[j] \in {"fetch", "build"}
        /\ \A i \in Job \ {j} :
             /\ pc'[i] = pc[i] /\ floor'[i] = floor[i] /\ batch'[i] = batch[i]
             /\ next'[i] = next[i] /\ collected'[i] = collected[i]
    BY <1>3 DEF FetchPage, ragVars, TypeOK, RuntimeTypeOK
  <2>2. Covered(cursor)' /\ Covered(floor[j])'
    BY <2>1 DEF Covered, JobInv
  <2>3. FetchInv(j) /\ floor[j] \in Nat
    BY <2>1 DEF JobInv, TypeOK, RuntimeTypeOK
  <2>4. FetchInv(j)' /\ (pc'[j] = "build" => BuildInv(j)')
    BY <1>3, <2>3, PageKeepsFetchInv, LastPage
  <2>5. JobInv(j)'
    BY <2>1, <2>2, <2>4 DEF JobInv
  <2> QED
    BY <1>0, <2>1, <2>2, <2>5, OtherJobs
<1>4. ASSUME NEW j \in Job, BuildBatch(j)
      PROVE  IInv'
  <2>1. /\ latest' = latest /\ accepted' = accepted /\ cursor' = cursor /\ cut \subseteq cut'
        /\ \A i \in Job \ {j} :
             /\ pc'[i] = pc[i] /\ floor'[i] = floor[i] /\ batch'[i] = batch[i]
             /\ next'[i] = next[i] /\ collected'[i] = collected[i]
    BY <1>4, SMTT(30) DEF BuildBatch, Hand, Exit, ragVars, TypeOK, RuntimeTypeOK
  <2>2. Covered(cursor)'
    BY <2>1 DEF Covered
  <2>3. JobInv(j)'
    BY <1>4, BuildStep
  <2> QED
    BY <1>0, <2>1, <2>2, <2>3, OtherJobs
<1>5. ASSUME NEW j \in Job, PostAccepted(j), UNCHANGED slackVars
      PROVE  IInv'
  <2>1. /\ latest' = latest /\ accepted \subseteq accepted' /\ cursor' = cursor /\ cut' = cut
        /\ \A i \in Job \ {j} :
             /\ pc'[i] = pc[i] /\ floor'[i] = floor[i] /\ batch'[i] = batch[i]
             /\ next'[i] = next[i] /\ collected'[i] = collected[i]
    BY <1>5 DEF PostAccepted, AddChunks, slackVars, TypeOK, RuntimeTypeOK
  <2>2. Covered(cursor)'
    BY <2>1 DEF Covered
  <2>3. JobInv(j)'
    BY <1>5, <2>1, PostStep
  <2> QED
    BY <1>0, <2>1, <2>2, <2>3, OtherJobs
<1>6. ASSUME NEW j \in Job, UNCHANGED slackVars, Exit(j), cursor' = cursor,
             accepted \subseteq accepted'
      PROVE  IInv'
  <2>1. /\ latest' = latest /\ cut' = cut
        /\ \A i \in Job \ {j} :
             /\ pc'[i] = pc[i] /\ floor'[i] = floor[i] /\ batch'[i] = batch[i]
             /\ next'[i] = next[i] /\ collected'[i] = collected[i]
    BY <1>6 DEF Exit, slackVars, TypeOK, RuntimeTypeOK
  <2>2. Covered(cursor)'
    BY <1>6, <2>1 DEF Covered
  <2>3. JobInv(j)'
    BY <1>6, EndedJobInv
  <2> QED
    BY <1>0, <1>6, <2>1, <2>2, <2>3, OtherJobs
<1>7. ASSUME NEW j \in Job, Commit(j) \/ WriteFile(j), UNCHANGED slackVars
      PROVE  IInv'
  <2>1. /\ latest' = latest /\ accepted' = accepted /\ cut' = cut
        /\ \A i \in Job \ {j} :
             /\ pc'[i] = pc[i] /\ floor'[i] = floor[i] /\ batch'[i] = batch[i]
             /\ next'[i] = next[i] /\ collected'[i] = collected[i]
    BY <1>7, ZenonT(60) DEF Commit, WriteFile, Exit, ragVars, slackVars, TypeOK, RuntimeTypeOK
  <2>2. Covered(next[j]) /\ floor[j] < next[j]
    BY <1>7 DEF Commit, WriteFile, JobInv, EmbedInv
  <2>3. Covered(NoCursor)
    BY <1>0 DEF Covered, NoCursor
  <2>4. cursor' \in {cursor, next[j], NoCursor}
    BY <1>7 DEF Commit, WriteFile
  <2>5. Covered(cursor)'
    BY <2>1, <2>2, <2>3, <2>4 DEF Covered
  <2>6. JobInv(j)'
    <3>1. CASE Exit(j)
      BY <3>1, EndedJobInv
    <3>2. CASE ~Exit(j)
      <4>1. pc'[j] = "write" /\ floor' = floor /\ next' = next
        BY <1>7, <3>2 DEF Commit, WriteFile, TypeOK, RuntimeTypeOK
      <4>2. Covered(next[j])' /\ Covered(floor[j])'
        BY <2>1, <2>2, <4>1 DEF Covered, JobInv
      <4> QED
        BY <2>2, <4>1, <4>2 DEF JobInv
    <3> QED
      BY <3>1, <3>2
  <2> QED
    BY <1>0, <2>1, <2>5, <2>6, OtherJobs
<1>8. CASE RestartRag /\ UNCHANGED slackVars
  <2>1. /\ latest' = latest /\ accepted' = accepted /\ cursor' = cursor /\ cut' = cut
        /\ pc' = pc /\ floor' = floor /\ batch' = batch /\ next' = next
        /\ collected' = collected
    BY <1>8 DEF RestartRag, jobVars, slackVars
  <2>2. Covered(cursor)'
    BY <2>1 DEF Covered
  <2> QED
    BY <1>0, <2>1, <2>2, JobInvStays
<1>9. CASE UNCHANGED vars
  <2>1. /\ latest' = latest /\ accepted' = accepted /\ cursor' = cursor /\ cut' = cut
        /\ pc' = pc /\ floor' = floor /\ batch' = batch /\ next' = next
        /\ collected' = collected
    BY <1>9 DEF vars, runtimeVars, jobVars, ragVars, slackVars
  <2>2. Covered(cursor)'
    BY <2>1 DEF Covered
  <2> QED
    BY <1>0, <2>1, <2>2, JobInvStays
<1>10. CASE RuntimeNext /\ UNCHANGED slackVars
  <2>1. ASSUME NEW j \in Job, PostRefused(j) \/ PostFails(j) \/ Crash(j)
        PROVE  IInv'
    <3>1. Exit(j) /\ cursor' = cursor /\ accepted \subseteq accepted'
      BY <2>1 DEF PostRefused, PostFails, Crash, AddChunks, ragVars
    <3> QED
      BY <1>6, <1>10, <3>1
  <2> QED
    BY <1>5, <1>7, <1>8, <1>10, <2>1 DEF RuntimeNext, RuntimeProgress
<1> QED
  BY <1>1, <1>2, <1>3, <1>4, <1>9, <1>10 DEF Next

\* In the first state no job holds anything.
LEMMA InitIInv ==
  ASSUME Init, TypeOK
  PROVE  IInv
<1>1. Covered(0)
  BY SlackAssumption DEF Covered, Init
<1>2. cursor = 0 /\ \A j \in Job : pc[j] = "idle" /\ floor[j] = 0
  BY DEF Init, RuntimeInit, NoCursor
<1> QED
  BY <1>1, <1>2 DEF IInv, JobInv

\* IInv holds throughout.
THEOREM Invariance == Spec => []IInv
<1>1. Init /\ TypeOK => IInv
  BY InitIInv
<1>2. IInv /\ [Next]_vars /\ TypeOK' => IInv'
  BY Inductive
<1> QED
  BY <1>1, <1>2, TypeCorrect, PTL DEF Spec

\* However many jobs overlap, crash or lose an answer, no message at or before
\* the stored watermark has failed to reach the index but for those that a
\* drain left behind at the cap.
THEOREM SkipsNothing == Spec => []NeverSkips
<1>1. IInv => NeverSkips
  BY DEF IInv, Covered, NeverSkips
<1> QED
  BY <1>1, Invariance, PTL

NothingCut == cut = {}

\* NeverSkips without the allowance for what was left behind.
SkipsNone == \A m \in 1..cursor : m \in accepted \cup NoChannel

\* Where a payload of a whole cap of messages is refused, no drain leaves
\* anything behind: the watermark never passes a message that was not embedded.
THEOREM SkipsNoneIfSafe ==
  ASSUME SafeDrain
  PROVE  Spec => []SkipsNone
<1>1. Init => NothingCut
  BY DEF Init, NothingCut
<1>2. TypeOK /\ NothingCut /\ [Next]_vars => NothingCut'
  <2> USE DEF NothingCut
  <2> SUFFICES ASSUME TypeOK, cut = {}, [Next]_vars PROVE cut' = {}
    OBVIOUS
  <2>1. ASSUME NEW j \in Job, BuildBatch(j) PROVE cut' = {}
    <3>1. LeftBehind(j) = {}
      BY DEF LeftBehind, SafeDrain, TypeOK
    <3> QED
      BY <2>1, <3>1 DEF BuildBatch
  <2> QED
    BY <2>1 DEF Next, PostMessage, Start, FetchPage, slackVars, vars
<1>3. NeverSkips /\ NothingCut => SkipsNone
  BY DEF NeverSkips, SkipsNone, NothingCut
<1> QED
  BY <1>1, <1>2, <1>3, SkipsNothing, TypeCorrect, PTL DEF Spec

-----------------------------------------------------------------------------
(* Refinement *)

\* The scraper implements the abstract feed: it settles only what was accepted
\* in an earlier step.
THEOREM Refinement == Spec => ImplementsFeed
<1>1. Init => Feed!Init
  BY DEF Init, RuntimeInit, NoCursor, Feed!Init
<1>2. ASSUME IInv, IInv', [Next]_vars
      PROVE  [Feed!Next]_(Feed!feedVars)
  <2>1. accepted' \in SUBSET Message
    BY <1>2, SlackAssumption DEF IInv, TypeOK, RuntimeTypeOK
  <2>2. CASE accepted' = accepted
    <3>1. (1..cursor') \ (NoChannel \cup cut') \in SUBSET accepted
      BY <1>2, <2>2 DEF IInv, Covered
    <3> QED
      BY <2>2, <3>1 DEF Feed!Next, Feed!Settle
  <2>3. CASE accepted' # accepted
    <3>1. cursor' = cursor /\ cut' = cut
      BY <1>2, <2>3
      DEF Next, PostMessage, Start, FetchPage, BuildBatch, ReadCursor, RuntimeNext,
          RuntimeProgress, PostAccepted, PostRefused, PostFails, Commit, WriteFile,
          Crash, RestartRag, vars, runtimeVars, ragVars, slackVars
    <3>2. accepted \subseteq accepted'
      BY <1>2, <2>3
      DEF Next, PostMessage, Start, FetchPage, BuildBatch, ReadCursor, RuntimeNext,
          RuntimeProgress, PostAccepted, PostRefused, PostFails, Commit, WriteFile,
          Crash, RestartRag, AddChunks, vars, runtimeVars, ragVars
    <3>3. \E D \in SUBSET Message : accepted' = accepted \cup D
      BY <2>1, <3>2
    <3> QED
      BY <3>1, <3>3 DEF Feed!Next, Feed!Accept
  <2> QED
    BY <2>2, <2>3
<1> QED
  BY <1>1, <1>2, Invariance, PTL DEF Spec, ImplementsFeed, Feed!Spec

-----------------------------------------------------------------------------
(* The watermark's direction *)

\* A job's next watermark is past the one it read.
ForwardInv ==
  \A j \in Job :
    /\ pc[j] \in {"fetch", "build"} => Drained(j)
    /\ pc[j] \in {"embed", "write"} => floor[j] < next[j]

\* Whoever does not act keeps its part of ForwardInv.
LEMMA ForwardOthers ==
  ASSUME TypeOK, NEW j \in Job, ForwardInv,
         \A m \in collected'[j] : pc'[j] \in {"fetch", "build"} => floor'[j] < m /\ m <= latest',
         pc'[j] \in {"embed", "write"} => floor'[j] < next'[j],
         latest' = latest,
         \A i \in Job \ {j} :
           /\ pc'[i] = pc[i] /\ floor'[i] = floor[i]
           /\ next'[i] = next[i] /\ collected'[i] = collected[i]
  PROVE  ForwardInv'
<1> SUFFICES ASSUME NEW i \in Job
             PROVE  /\ pc'[i] \in {"fetch", "build"} => Drained(i)'
                    /\ pc'[i] \in {"embed", "write"} => floor'[i] < next'[i]
  BY DEF ForwardInv
<1>1. CASE i = j
  BY <1>1 DEF Drained
<1>2. CASE i # j
  BY <1>2 DEF ForwardInv, Drained
<1> QED
  BY <1>1, <1>2

\* ForwardInv is inductive: a job whose watermark is still the stored one will
\* commit a later one.
LEMMA ForwardInductive ==
  ASSUME TypeOK, ForwardInv, [Next]_vars
  PROVE  ForwardInv'
<1>1. CASE PostMessage
  <2>1. /\ latest' = latest + 1 /\ pc' = pc /\ floor' = floor /\ next' = next
        /\ collected' = collected
    BY <1>1 DEF PostMessage, runtimeVars, jobVars
  <2>2. ASSUME NEW j \in Job, Drained(j) PROVE Drained(j)'
    <3> SUFFICES ASSUME NEW m \in collected[j] PROVE m <= latest + 1
      BY <2>1, <2>2 DEF Drained
    <3>1. m \in Nat /\ latest \in Nat /\ m <= latest
      BY <2>2, SlackAssumption DEF Drained, TypeOK, Message
    <3> QED
      BY <3>1
  <2> QED
    BY <2>1, <2>2 DEF ForwardInv
<1>2. ASSUME NEW j \in Job, Start(j) PROVE ForwardInv'
  <2>1. /\ latest' = latest /\ pc'[j] = "fetch" /\ collected'[j] = {}
        /\ \A i \in Job \ {j} :
             /\ pc'[i] = pc[i] /\ floor'[i] = floor[i]
             /\ next'[i] = next[i] /\ collected'[i] = collected[i]
    BY <1>2 DEF Start, ReadCursor, TypeOK, RuntimeTypeOK
  <2> QED
    BY <2>1, ForwardOthers
<1>3. ASSUME NEW j \in Job, FetchPage(j) PROVE ForwardInv'
  <2>1. /\ latest' = latest /\ floor' = floor /\ pc'[j] \in {"fetch", "build"}
        /\ collected'[j] = collected[j] \cup Page(j)
        /\ \A i \in Job \ {j} :
             /\ pc'[i] = pc[i] /\ floor'[i] = floor[i]
             /\ next'[i] = next[i] /\ collected'[i] = collected[i]
    BY <1>3 DEF FetchPage, TypeOK, RuntimeTypeOK
  <2>2. Drained(j)
    BY <1>3 DEF ForwardInv, FetchPage
  <2>3. \A m \in collected'[j] : floor'[j] < m /\ m <= latest'
    BY <2>1, <2>2, SlackAssumption DEF Drained, Page, Leading, Ahead, TypeOK, Message
  <2> QED
    BY <2>1, <2>3, ForwardOthers
<1>4. ASSUME NEW j \in Job, BuildBatch(j) PROVE ForwardInv'
  <2>1. /\ latest' = latest /\ collected'[j] = {}
        /\ \A i \in Job \ {j} :
             /\ pc'[i] = pc[i] /\ floor'[i] = floor[i]
             /\ next'[i] = next[i] /\ collected'[i] = collected[i]
    BY <1>4 DEF BuildBatch, Hand, Exit, TypeOK, RuntimeTypeOK
  <2>2. pc'[j] \in {"embed", "write"} => floor'[j] < next'[j]
    <3>1. CASE Exit(j)
      BY <3>1 DEF Exit, TypeOK, RuntimeTypeOK
    <3>2. CASE ~Exit(j)
      <4>1. PICK newest \in collected[j] : next'[j] = newest /\ floor' = floor
        BY <1>4, <3>2 DEF BuildBatch, Hand, TypeOK, RuntimeTypeOK
      <4>2. Drained(j)
        BY <1>4 DEF BuildBatch, ForwardInv
      <4> QED
        BY <4>1, <4>2 DEF Drained
    <3> QED
      BY <3>1, <3>2
  <2> QED
    BY <2>1, <2>2, ForwardOthers
<1>5. CASE RuntimeNext /\ UNCHANGED slackVars
  <2>1. ASSUME NEW j \in Job, RuntimeProgress(j) \/ PostFails(j) \/ Crash(j)
        PROVE  ForwardInv'
    <3>1. /\ latest' = latest /\ pc'[j] \notin {"fetch", "build"}
          /\ \A i \in Job \ {j} :
               /\ pc'[i] = pc[i] /\ floor'[i] = floor[i]
               /\ next'[i] = next[i] /\ collected'[i] = collected[i]
      BY <1>5, <2>1
      DEF RuntimeProgress, PostAccepted, PostRefused, PostFails, Commit, WriteFile,
          Crash, Exit, slackVars, TypeOK, RuntimeTypeOK
    <3>2. \/ pc'[j] = "idle"
          \/ floor'[j] = floor[j] /\ next'[j] = next[j] /\ pc[j] = "embed"
      BY <2>1
      DEF RuntimeProgress, PostAccepted, PostRefused, PostFails, Commit, WriteFile,
          Crash, Exit, TypeOK, RuntimeTypeOK
    <3>3. pc'[j] \in {"embed", "write"} => floor'[j] < next'[j]
      BY <3>2 DEF ForwardInv
    <3> QED
      BY <3>1, <3>3, ForwardOthers
  <2>2. CASE RestartRag
    BY <1>5, <2>2
    DEF RestartRag, jobVars, slackVars, ForwardInv, Drained
  <2> QED
    BY <1>5, <2>1, <2>2 DEF RuntimeNext
<1>6. CASE UNCHANGED vars
  BY <1>6 DEF vars, runtimeVars, jobVars, slackVars, ForwardInv, Drained
<1> QED
  BY <1>1, <1>2, <1>3, <1>4, <1>5, <1>6 DEF Next

\* A watermark lower than the stored one is only written by a job overtaken by
\* another commit since it read the store: for any cap and any store.
THEOREM NoRetreat == Spec => RetreatsOnlyWhenOvertaken
<1>1. Init => ForwardInv
  BY DEF Init, RuntimeInit, ForwardInv
<1>2. TypeOK /\ ForwardInv /\ [Next]_vars => ForwardInv'
  BY ForwardInductive
<1>3. TypeOK /\ ForwardInv /\ [Next]_vars =>
        [\/ cursor' >= cursor
         \/ Backend = "directory" /\ cursor' = NoCursor
         \/ \E j \in Job : cursor' = next[j] /\ floor[j] # cursor]_vars
  <2> SUFFICES ASSUME TypeOK, ForwardInv, Next
               PROVE  \/ cursor' >= cursor
                      \/ Backend = "directory" /\ cursor' = NoCursor
                      \/ \E j \in Job : cursor' = next[j] /\ floor[j] # cursor
    OBVIOUS
  <2>1. cursor \in Nat
    BY DEF TypeOK, RuntimeTypeOK
  <2>2. CASE cursor' = cursor
    BY <2>1, <2>2
  <2>3. ASSUME NEW j \in Job, Commit(j) \/ WriteFile(j)
        PROVE  \/ cursor' >= cursor
               \/ Backend = "directory" /\ cursor' = NoCursor
               \/ \E i \in Job : cursor' = next[i] /\ floor[i] # cursor
    <3>1. floor[j] < next[j] /\ floor[j] \in Nat /\ next[j] \in Nat
      BY <2>3 DEF Commit, WriteFile, ForwardInv, TypeOK, RuntimeTypeOK
    <3>2. cursor' = cursor \/ cursor' = next[j] \/ (Backend = "directory" /\ cursor' = NoCursor)
      BY <2>3, RuntimeAssumption DEF Commit, WriteFile
    <3>3. CASE floor[j] = cursor
      BY <2>1, <3>1, <3>2, <3>3
    <3>4. CASE floor[j] # cursor
      BY <2>1, <3>2, <3>4
    <3> QED
      BY <3>3, <3>4
  <2> QED
    BY <2>2, <2>3
    DEF Next, PostMessage, Start, FetchPage, BuildBatch, ReadCursor, RuntimeNext,
        RuntimeProgress, PostAccepted, PostRefused, PostFails, Crash, RestartRag,
        runtimeVars, ragVars
<1> QED
  BY <1>1, <1>2, <1>3, TypeCorrect, PTL DEF Spec, RetreatsOnlyWhenOvertaken

-----------------------------------------------------------------------------
(* One pod at a time *)

\* concurrencyPolicy Forbid, and nobody starts a job by hand.
OnePod == \A i, j \in Job : i = j

\* Until the first fault, nothing in the index is past what the pod will read
\* next, and what it carries is past all of the index.
OncePart(j) ==
  /\ pc[j] # "embed" => batch[j] = <<>>
  /\ pc[j] = "idle" => \A m \in indexed : m <= cursor
  /\ pc[j] \in {"fetch", "build"} =>
       floor[j] = cursor /\ \A m \in indexed : m <= floor[j]
  /\ pc[j] = "embed" =>
       \/ batch[j] = <<>> /\ \A m \in indexed : m <= next[j]
       \/ \E D \in SUBSET Message :
            /\ batch[j] = <<D>>
            /\ floor[j] = cursor /\ \A m \in indexed : m <= floor[j]
            /\ \A m \in D : floor[j] < m /\ m <= next[j]
  /\ pc[j] = "write" => \A m \in indexed : m <= next[j]

OnceInv == faults = 0 => \A j \in Job : OncePart(j)

\* What a pod posts was not in the index, and its watermark covers it.
LEMMA PostOnce ==
  ASSUME TypeOK, ForwardInv, OnceInv, faults = 0, NEW j \in Job, PostAccepted(j)
  PROVE  OncePart(j)'
<1>1. pc[j] = "embed" /\ batch[j] # <<>>
  BY DEF PostAccepted
<1>2. PICK D \in SUBSET Message :
        /\ batch[j] = <<D>>
        /\ floor[j] = cursor /\ \A m \in indexed : m <= floor[j]
        /\ \A m \in D : floor[j] < m /\ m <= next[j]
  BY <1>1 DEF OnceInv, OncePart
<1>3. Head(batch[j]) = D /\ Tail(batch[j]) = <<>>
  BY <1>2
<1>4. /\ indexed' = indexed \cup D
      /\ batch'[j] = <<>> /\ pc'[j] = "embed" /\ next'[j] = next[j]
  BY <1>3 DEF PostAccepted, AddChunks, TypeOK, RuntimeTypeOK
<1>5. /\ floor[j] \in Nat /\ next[j] \in Nat /\ floor[j] < next[j]
      /\ \A m \in indexed : m \in Nat
      /\ \A m \in D : m \in Nat
  BY <1>1, SlackAssumption DEF ForwardInv, TypeOK, RuntimeTypeOK, Message
<1>6. \A m \in indexed' : m <= next'[j]
  BY <1>2, <1>4, <1>5
<1> QED
  BY <1>4, <1>6 DEF OncePart

\* A pod that hands over its batch posts nothing that is in the index.
LEMMA BuildOnce ==
  ASSUME TypeOK, ForwardInv, OnceInv, faults = 0, NEW j \in Job, BuildBatch(j)
  PROVE  OncePart(j)'
<1>1. /\ pc[j] = "build" /\ cursor' = cursor /\ indexed' = indexed
      /\ Drained(j) /\ floor[j] = cursor /\ \A m \in indexed : m <= floor[j]
  BY DEF BuildBatch, ragVars, ForwardInv, OnceInv, OncePart
<1>2. CASE Exit(j)
  <2>1. pc'[j] = "idle" /\ batch'[j] = <<>>
    BY <1>2 DEF Exit, TypeOK, RuntimeTypeOK
  <2> QED
    BY <1>1, <2>1 DEF OncePart
<1>3. CASE ~Exit(j)
  <2>1. PICK newest \in collected[j] :
          /\ \A m \in collected[j] : m <= newest
          /\ Hand(j, <<Items(collected[j])>>, newest)
    BY <1>3 DEF BuildBatch
  <2>2. /\ pc'[j] = "embed" /\ batch'[j] = <<Items(collected[j])>>
        /\ next'[j] = newest /\ floor' = floor
    BY <2>1 DEF Hand, TypeOK, RuntimeTypeOK
  <2>3. Items(collected[j]) \in SUBSET Message
    BY DEF Items, TypeOK
  <2>4. \A m \in Items(collected[j]) : floor'[j] < m /\ m <= next'[j]
    BY <1>1, <2>1, <2>2 DEF Items, Drained
  <2> QED
    BY <1>1, <2>2, <2>3, <2>4 DEF OncePart
<1> QED
  BY <1>2, <1>3

\* Every step of a lone pod keeps the invariant: a commit leaves all of the
\* index behind the watermark, and oldest is exclusive.
LEMMA OnceInductive ==
  ASSUME OnePod, Backend # "container", TypeOK, ForwardInv, OnceInv, [Next]_vars
  PROVE  OnceInv'
<1> SUFFICES ASSUME faults' = 0 PROVE \A j \in Job : OncePart(j)'
  BY DEF OnceInv
<1>0. ~Fault
  BY RuntimeAssumption DEF Fault, TypeOK, RuntimeTypeOK
<1>1. faults = 0
  BY <1>0
  DEF Next, PostMessage, Start, FetchPage, BuildBatch, ReadCursor, RuntimeNext,
      RuntimeProgress, PostAccepted, PostRefused, PostFails, Commit, WriteFile, Crash,
      RestartRag, vars, runtimeVars
<1>2. \A j \in Job : OncePart(j)
  BY <1>1 DEF OnceInv
<1>3. CASE PostMessage \/ UNCHANGED vars
  <2>1. UNCHANGED runtimeVars
    BY <1>3 DEF PostMessage, vars
  <2> QED
    BY <1>2, <2>1 DEF runtimeVars, jobVars, ragVars, OncePart
<1>4. ASSUME NEW j \in Job, Start(j) PROVE OncePart(j)'
  BY <1>2, <1>4 DEF Start, ReadCursor, ragVars, OncePart, TypeOK, RuntimeTypeOK
<1>5. ASSUME NEW j \in Job, FetchPage(j) PROVE OncePart(j)'
  <2>1. /\ pc[j] = "fetch" /\ pc'[j] \in {"fetch", "build"}
        /\ UNCHANGED <<cursor, floor, batch, indexed>>
    BY <1>5 DEF FetchPage, ragVars, TypeOK, RuntimeTypeOK
  <2> QED
    BY <1>2, <2>1 DEF OncePart
<1>6. ASSUME NEW j \in Job, BuildBatch(j) PROVE OncePart(j)'
  BY <1>1, <1>2, <1>6, BuildOnce DEF BuildBatch, ragVars
<1>7. ASSUME NEW j \in Job, PostAccepted(j) PROVE OncePart(j)'
  BY <1>1, <1>7, PostOnce
<1>8. ASSUME NEW j \in Job, PostRefused(j) PROVE OncePart(j)'
  <2>1. /\ pc[j] = "embed" /\ batch[j] # <<>> /\ pc'[j] = "idle" /\ batch'[j] = <<>>
        /\ UNCHANGED <<cursor, indexed>>
    BY <1>8 DEF PostRefused, Exit, ragVars, TypeOK, RuntimeTypeOK
  <2>2. \A m \in indexed : m <= cursor
    BY <1>2, <2>1 DEF OncePart
  <2> QED
    BY <1>2, <2>1, <2>2 DEF OncePart
<1>9. ASSUME NEW j \in Job, Commit(j) PROVE OncePart(j)'
  <2>1. /\ pc[j] = "embed" /\ batch[j] = <<>> /\ indexed' = indexed
    BY <1>9 DEF Commit, ragVars
  <2>2. \A m \in indexed : m <= next[j]
    BY <1>2, <2>1 DEF OncePart
  <2>3. /\ batch'[j] = <<>>
        /\ \/ cursor' = next[j] /\ pc'[j] = "idle"
           \/ pc'[j] = "write" /\ next'[j] = next[j]
    BY <1>9, <2>1 DEF Commit, Exit, TypeOK, RuntimeTypeOK
  <2> QED
    BY <1>2, <2>1, <2>2, <2>3 DEF OncePart
<1>10. ASSUME NEW j \in Job, WriteFile(j) PROVE OncePart(j)'
  <2>1. /\ pc[j] = "write" /\ cursor' = next[j] /\ pc'[j] = "idle"
        /\ batch'[j] = <<>> /\ indexed' = indexed
    BY <1>10 DEF WriteFile, Exit, ragVars, TypeOK, RuntimeTypeOK
  <2> QED
    BY <1>2, <2>1 DEF OncePart
<1>11. \A j \in Job : OncePart(j)' => \A i \in Job : OncePart(i)'
  BY DEF OnePod
<1>12. CASE RuntimeNext /\ UNCHANGED slackVars
  <2>1. PICK j \in Job : RuntimeProgress(j)
    BY <1>0, <1>12 DEF RuntimeNext, PostFails, Crash, RestartRag
  <2> QED
    BY <2>1, <1>7, <1>8, <1>9, <1>10, <1>11 DEF RuntimeProgress
<1> QED
  BY <1>3, <1>4, <1>5, <1>6, <1>11, <1>12 DEF Next

\* With one pod at a time and a store that outlives it, no message that is in
\* the index is on its way there again before a crash, a lost answer or a RAG
\* restart: for any cap and limit.
THEOREM EmbeddedOnce ==
  ASSUME OnePod, Backend # "container"
  PROVE  Spec => []EmbeddedOnceIfFaultFree
<1>1. Init => ForwardInv /\ OnceInv
  BY DEF Init, RuntimeInit, ForwardInv, OnceInv, OncePart
<1>2. TypeOK /\ ForwardInv /\ OnceInv /\ [Next]_vars => ForwardInv' /\ OnceInv'
  BY ForwardInductive, OnceInductive
<1>3. TypeOK /\ OnceInv => EmbeddedOnceIfFaultFree
  <2> SUFFICES ASSUME TypeOK, OnceInv, faults = 0, NEW j \in Job, NEW i \in DOMAIN batch[j]
               PROVE  batch[j][i] \cap indexed = {}
    BY DEF EmbeddedOnceIfFaultFree
  <2>1. OncePart(j)
    BY DEF OnceInv
  <2>2. batch[j] # <<>>
    OBVIOUS
  <2>3. PICK D \in SUBSET Message :
          /\ batch[j] = <<D>>
          /\ \A m \in indexed : m <= floor[j]
          /\ \A m \in D : floor[j] < m
    BY <2>1, <2>2 DEF OncePart
  <2>4. batch[j][i] = D /\ floor[j] \in Nat
    <3>1. i = 1
      BY <2>3
    <3> QED
      BY <2>3, <3>1 DEF TypeOK, RuntimeTypeOK
  <2>5. D \subseteq Nat
    BY SlackAssumption DEF Message
  <2>6. ASSUME NEW m \in D, m \in indexed PROVE FALSE
    <3>1. m \in Nat /\ floor[j] < m /\ m <= floor[j]
      BY <2>3, <2>5, <2>6
    <3> QED
      BY <2>4, <3>1
  <2> QED
    BY <2>4, <2>6
<1> QED
  BY <1>1, <1>2, <1>3, TypeCorrect, PTL DEF Spec

=============================================================================
