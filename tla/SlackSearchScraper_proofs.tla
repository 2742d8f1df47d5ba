--------------------- MODULE SlackSearchScraper_proofs ---------------------
(***************************************************************************)
(* Proofs about SlackSearchScraper, for every number of jobs, messages and *)
(* hits, every budget, radius and shape of threads.                        *)
(*                                                                         *)
(* The budget is kept because an answer is cut to what is left of it       *)
(* (LeadingSize).  CompleteIfRoom is nearly inductive: an answer is only   *)
(* cut when it is longer than what is left, and if there was room for all  *)
(* there is and for that answer once more but for one message, then all of *)
(* the answer had been collected before.                                   *)
(***************************************************************************)
EXTENDS SlackSearchScraper, FiniteSetTheorems, SequenceTheorems,
        WellFoundedInduction, TLAPS

\* A hit is at hand between its thread and its neighbourhood.
HalfInv == \A j \in Job : half[j] => pc[j] = "fetch" /\ hits[j] # <<>>

\* What was collected was in an answer.
NearInv == \A j \in Job : collected[j] \subseteq UNION near[j]

IInv == TypeOK /\ HalfInv /\ NearInv /\ CompleteIfRoom

-----------------------------------------------------------------------------
(* Answers cut to a budget *)

\* A set of naturals that is not empty has a least one.
LEMMA LeastNat ==
  ASSUME NEW T \in SUBSET Nat, T # {}
  PROVE  \E m \in T : \A n \in T : m <= n
<1> DEFINE R == OpToRel(<, Nat)
<1>1. IsWellFoundedOn(R, Nat)
  BY NatLessThanWellFounded
<1>2. \A m \in Nat, n \in Nat : m < n => <<m, n>> \in R
  BY DEF OpToRel
<1> HIDE DEF R
<1>3. PICK m \in T : \A n \in T : <<n, m>> \notin R
  BY <1>1, WFMin
<1>4. \A n \in T : ~(n < m) /\ n \in Nat /\ m \in Nat
  BY <1>2, <1>3
<1> QED
  BY <1>4

\* Every set of messages is finite.
LEMMA MessagesFinite ==
  ASSUME NEW S \in SUBSET Message
  PROVE  IsFiniteSet(S) /\ Cardinality(S) \in Nat
<1>1. IsFiniteSet(Message)
  BY SearchAssumption, FS_Interval DEF Message
<1> QED
  BY <1>1, FS_Subset, FS_CardinalityType

\* Of messages that are cut, one comes last.
LEMMA LastOf ==
  ASSUME NEW L \in SUBSET Message, L # {}, NEW oldestFirst \in BOOLEAN
  PROVE  \E m \in L : \A x \in L \ {m} : IF oldestFirst THEN x < m ELSE x > m
<1>1. L \subseteq Nat /\ \A x \in L : MaxMessages - x \in Nat
  BY SearchAssumption DEF Message
<1>2. CASE oldestFirst
  <2> DEFINE Back == {MaxMessages - x : x \in L}
  <2>1. Back \in SUBSET Nat /\ Back # {}
    BY <1>1
  <2> HIDE DEF Back
  <2>2. PICK k \in Back : \A n \in Back : k <= n
    BY <2>1, LeastNat
  <2>3. PICK m \in L : k = MaxMessages - m
    BY DEF Back
  <2>4. \A x \in L : k <= MaxMessages - x
    BY <2>2 DEF Back
  <2> QED
    BY <1>1, <1>2, <2>3, <2>4, SearchAssumption
<1>3. CASE ~oldestFirst
  <2>1. PICK m \in L : \A x \in L : m <= x
    BY <1>1, LeastNat
  <2> QED
    BY <1>1, <1>3, <2>1
<1> QED
  BY <1>2, <1>3

\* An answer cut to n messages has no more than n.
LEMMA LeadingSize ==
  ASSUME NEW S \in SUBSET Message, NEW n \in Nat, NEW oldestFirst \in BOOLEAN
  PROVE  /\ Leading(S, n, oldestFirst) \subseteq S
         /\ Cardinality(Leading(S, n, oldestFirst)) <= n
<1> DEFINE L == Leading(S, n, oldestFirst)
           Ahead(m) == {x \in S : IF oldestFirst THEN x < m ELSE x > m}
<1>1. L \subseteq S /\ \A m \in L : Cardinality(Ahead(m)) < n
  BY DEF Leading
<1>2. L \in SUBSET Message
  BY <1>1
<1> SUFFICES Cardinality(L) <= n
  BY <1>1
<1> HIDE DEF L
<1>3. CASE L = {}
  BY <1>3, FS_EmptySet
<1>4. CASE L # {}
  <2>1. PICK m \in L : \A x \in L \ {m} : IF oldestFirst THEN x < m ELSE x > m
    BY <1>2, <1>4, LastOf
  <2>2. Ahead(m) \in SUBSET Message /\ L \ {m} \in SUBSET Ahead(m)
    BY <1>1, <2>1
  <2>3. Cardinality(Ahead(m)) < n
    BY <1>1
  <2> HIDE DEF Ahead
  <2>4. IsFiniteSet(L) /\ Cardinality(L) \in Nat
    BY <1>2, MessagesFinite
  <2>5. IsFiniteSet(Ahead(m)) /\ Cardinality(Ahead(m)) \in Nat
    BY <2>2, MessagesFinite
  <2>6. Cardinality(L \ {m}) <= Cardinality(Ahead(m))
    BY <2>2, <2>5, FS_Subset
  <2>7. Cardinality(L \ {m}) = Cardinality(L) - 1
    BY <2>4, FS_RemoveElement
  <2> QED
    BY <2>3, <2>4, <2>5, <2>6, <2>7
<1> QED
  BY <1>3, <1>4

\* An answer that is no longer than that is not cut.
LEMMA LeadingWhole ==
  ASSUME NEW S \in SUBSET Message, NEW n \in Nat, NEW oldestFirst \in BOOLEAN,
         Cardinality(S) <= n
  PROVE  Leading(S, n, oldestFirst) = S
<1> SUFFICES ASSUME NEW m \in S
             PROVE  Cardinality({x \in S : IF oldestFirst THEN x < m ELSE x > m}) < n
  BY Zenon DEF Leading
<1> DEFINE Ahead == {x \in S : IF oldestFirst THEN x < m ELSE x > m}
<1>1. m \in Nat
  BY SearchAssumption DEF Message
<1>2. Ahead \in SUBSET (S \ {m})
  BY <1>1
<1> HIDE DEF Ahead
<1>3. IsFiniteSet(S) /\ Cardinality(S) \in Nat
  BY MessagesFinite
<1>4. IsFiniteSet(S \ {m}) /\ Cardinality(S \ {m}) = Cardinality(S) - 1
  BY <1>3, FS_RemoveElement
<1>5. Cardinality(Ahead) <= Cardinality(S \ {m})
  BY <1>2, <1>4, FS_Subset
<1>6. Ahead \in SUBSET Message
  BY <1>2
<1>7. Cardinality(Ahead) \in Nat
  BY <1>6, MessagesFinite
<1>8. Cardinality(Ahead) < n
  BY <1>3, <1>4, <1>5, <1>7
<1> QED
  BY <1>8 DEF Ahead

-----------------------------------------------------------------------------
(* What the search finds *)

\* A prefix of the ranking, without what is not there, as Hits builds it.
HitStep(f, n) ==
  IF n = 0 THEN <<>>
  ELSE IF Ranking[n] \in Posted /\ Len(f[n - 1]) < RtsLimit
       THEN Append(f[n - 1], Ranking[n])
       ELSE f[n - 1]

\* Whatever is found is a sequence of messages.
LEMMA HitStepType ==
  ASSUME NEW f, NEW n \in 0..Len(Ranking), n # 0 => f[n - 1] \in Seq(Message)
  PROVE  HitStep(f, n) \in Seq(Message)
<1>1. CASE n = 0
  BY <1>1 DEF HitStep
<1>2. CASE n # 0
  <2>1. f[n - 1] \in Seq(Message)
    BY <1>2
  <2>2. Ranking[n] \in Message
    BY <1>2, SearchAssumption, ElementOfSeq
  <2>3. Append(f[n - 1], Ranking[n]) \in Seq(Message)
    BY <2>1, <2>2, AppendProperties
  <2> QED
    BY <1>2, <2>1, <2>3 DEF HitStep
<1> QED
  BY <1>1, <1>2

\* The function Hits is recursive in exists for every ranking.
LEMMA HitsExist ==
  ASSUME NEW N \in 0..Len(Ranking)
  PROVE  \E f \in [0..N -> Seq(Message)] : \A n \in 0..N : f[n] = HitStep(f, n)
<1> DEFINE Has(k) ==
             \E f \in [0..k -> Seq(Message)] : \A n \in 0..k : f[n] = HitStep(f, n)
           Lacking == {k \in 0..N : ~Has(k)}
<1>1. N \in Nat /\ Len(Ranking) \in Nat /\ N <= Len(Ranking)
  BY SearchAssumption, LenProperties
<1>2. Has(0)
  <2> DEFINE f == [n \in 0..0 |-> <<>>]
  <2>1. f \in [0..0 -> Seq(Message)] /\ \A n \in 0..0 : f[n] = HitStep(f, n)
    BY DEF HitStep
  <2> HIDE DEF f
  <2> QED
    BY <2>1
<1>3. ASSUME NEW k \in 1..N, Has(k - 1)
      PROVE  Has(k)
  <2>1. PICK g \in [0..(k - 1) -> Seq(Message)] :
          \A n \in 0..(k - 1) : g[n] = HitStep(g, n)
    BY <1>3
  <2> DEFINE f == [n \in 0..k |-> IF n = k THEN HitStep(g, k) ELSE g[n]]
  <2>2. k \in 0..Len(Ranking) /\ k # 0 /\ k - 1 \in 0..(k - 1)
    BY <1>1
  <2>3. HitStep(g, k) \in Seq(Message)
    BY <2>2, HitStepType
  <2>4. f \in [0..k -> Seq(Message)]
    BY <2>3
  <2>5. f[k] = HitStep(g, k) /\ \A n \in 0..(k - 1) : f[n] = g[n] /\ n \in 0..k
    BY <1>1
  <2> HIDE DEF f
  <2>6. ASSUME NEW n \in 0..k PROVE f[n] = HitStep(f, n)
    <3>1. n # 0 => n - 1 \in 0..(k - 1) /\ f[n - 1] = g[n - 1]
      BY <1>1, <2>5
    <3>2. HitStep(f, n) = HitStep(g, n)
      BY <3>1 DEF HitStep
    <3>3. n = k \/ n \in 0..(k - 1)
      BY <1>1
    <3> QED
      BY <2>1, <2>5, <3>2, <3>3
  <2> QED
    BY <2>4, <2>6
<1> HIDE DEF Has
<1>4. Lacking = {}
  <2> SUFFICES ASSUME Lacking # {} PROVE FALSE
    OBVIOUS
  <2>1. Lacking \in SUBSET Nat
    BY <1>1
  <2>2. PICK k \in Lacking : \A n \in Lacking : k <= n
    <3> HIDE DEF Lacking
    <3> QED
      BY <2>1, LeastNat
  <2>3. k # 0 /\ k \in 1..N /\ k - 1 \in 0..N /\ ~(k <= k - 1)
    BY <1>1, <1>2, <2>2
  <2>4. Has(k - 1)
    BY <2>2, <2>3
  <2> QED
    BY <1>3, <2>2, <2>3, <2>4
<1>5. N \in 0..N
  BY <1>1
<1>6. Has(N)
  BY <1>4, <1>5
<1> QED
  BY <1>6 DEF Has

\* The search finds messages.
LEMMA HitsType == Hits \in Seq(Message)
<1> DEFINE N == Len(Ranking)
           Found(f) == [n \in 0..N |->
             IF n = 0 THEN <<>>
             ELSE IF Ranking[n] \in Posted /\ Len(f[n - 1]) < RtsLimit
                  THEN Append(f[n - 1], Ranking[n])
                  ELSE f[n - 1]]
           c == CHOOSE f : f = Found(f)
<1>1. N \in Nat /\ N \in 0..N
  BY SearchAssumption, LenProperties
<1>2. Hits = c[N]
  BY DEF Hits
<1>3. \A f : Found(f) = [n \in 0..N |-> HitStep(f, n)]
  BY DEF HitStep
<1>4. \E f : f = Found(f)
  <2>1. PICK f \in [0..N -> Seq(Message)] : \A n \in 0..N : f[n] = HitStep(f, n)
    BY <1>1, HitsExist
  <2> HIDE DEF Found
  <2>2. f = [n \in 0..N |-> HitStep(f, n)]
    BY <2>1
  <2> QED
    BY <1>3, <2>2
<1>5. c = Found(c)
  <2> HIDE DEF Found
  <2> QED
    BY <1>4
<1> HIDE DEF c, Found
<1>6. \A n \in 0..N : c[n] = HitStep(c, n)
  BY <1>3, <1>5
<1> DEFINE Wrong == {n \in 0..N : c[n] \notin Seq(Message)}
<1>7. Wrong = {}
  <2> SUFFICES ASSUME Wrong # {} PROVE FALSE
    OBVIOUS
  <2>1. Wrong \in SUBSET Nat
    BY <1>1
  <2>2. PICK n \in Wrong : \A k \in Wrong : n <= k
    <3> HIDE DEF Wrong
    <3> QED
      BY <2>1, LeastNat
  <2>3. n \in 0..N /\ (n # 0 => n - 1 \in 0..N /\ ~(n <= n - 1))
    BY <1>1, <2>2
  <2>4. n # 0 => c[n - 1] \in Seq(Message)
    BY <2>2, <2>3
  <2>5. HitStep(c, n) \in Seq(Message)
    BY <2>3, <2>4, HitStepType
  <2> QED
    BY <1>6, <2>2, <2>3, <2>5
<1> QED
  BY <1>1, <1>2, <1>7

-----------------------------------------------------------------------------
(* Type correctness *)

\* Nothing is collected before a job begins.
LEMMA TypeInit == Init => TypeOK
<1> SUFFICES ASSUME Init PROVE TypeOK
  OBVIOUS
<1>1. RuntimeTypeOK
  BY RuntimeAssumption DEF Init, RuntimeInit, RuntimeTypeOK, NoCursor
<1>2. \A j \in Job : Remaining(j) = Cap
  BY SearchAssumption, FS_EmptySet DEF Init, Remaining
<1> QED
  BY <1>1, <1>2, SearchAssumption DEF Init, TypeOK, RuntimeInit

\* The steps of the runtime that a job of this source takes keep its types.
LEMMA RuntimeTypeNext ==
  ASSUME RuntimeTypeOK, NEW j \in Job,
         Post(j) \/ PostFails(j) \/ Crash(j)
  PROVE  RuntimeTypeOK' /\ cursor' = cursor
<1> USE RuntimeAssumption
    DEF RuntimeTypeOK, jobVars, ragVars, Exit, Fault, AddChunks, NoCursor
<1>1. CASE PostAccepted(j)
  BY <1>1, HeadTailProperties DEF PostAccepted
<1>2. CASE PostRefused(j)
  BY <1>2 DEF PostRefused
<1>3. CASE PostFails(j)
  <2>1. Head(batch[j]) \in SUBSET Document
    BY <1>3, HeadTailProperties DEF PostFails
  <2>2. PICK D \in SUBSET Head(batch[j]) : AddChunks(D)
    BY <1>3 DEF PostFails
  <2> QED
    BY <1>3, <2>1, <2>2 DEF PostFails
<1>4. CASE Crash(j)
  BY <1>4 DEF Crash
<1> QED
  BY <1>1, <1>2, <1>3, <1>4 DEF Post

\* What an answer adds is within the budget.
LEMMA AddType ==
  ASSUME TypeOK, NEW j \in Job, NEW S \in SUBSET Message, NEW oldestFirst \in BOOLEAN,
         Add(j, S, oldestFirst)
  PROVE  /\ collected' \in [Job -> SUBSET (Message \ NoChannel)]
         /\ near' \in [Job -> SUBSET (SUBSET Message)]
         /\ \A i \in Job : Cap - Cardinality(collected'[i]) >= 0
<1> DEFINE new == Leading(S, Remaining(j), oldestFirst)
<1>1. collected[j] \in SUBSET Message /\ Remaining(j) >= 0
  BY DEF TypeOK
<1>2. IsFiniteSet(collected[j]) /\ Cardinality(collected[j]) \in Nat
  BY <1>1, MessagesFinite
<1>3. Remaining(j) \in Nat /\ Cardinality(collected[j]) + Remaining(j) = Cap
  BY <1>1, <1>2, SearchAssumption DEF Remaining
<1>4. new \subseteq S /\ Cardinality(new) <= Remaining(j)
  BY <1>3, LeadingSize
<1>5. /\ collected' = [collected EXCEPT ![j] = collected[j] \cup (new \ NoChannel)]
      /\ near' = [near EXCEPT ![j] = near[j] \cup {S}]
  BY DEF Add
<1> HIDE DEF new
<1>6. new \in SUBSET Message /\ new \ NoChannel \in SUBSET new
  BY <1>4
<1>7. /\ IsFiniteSet(new) /\ Cardinality(new) \in Nat
      /\ IsFiniteSet(new \ NoChannel) /\ Cardinality(new \ NoChannel) \in Nat
      /\ Cardinality(new \ NoChannel) <= Cardinality(new)
  BY <1>6, MessagesFinite, FS_Subset
<1>8. Cardinality(collected[j] \cup (new \ NoChannel)) <= Cap
  <2>1. Cardinality(collected[j] \cup (new \ NoChannel)) =
          Cardinality(collected[j]) + Cardinality(new \ NoChannel)
            - Cardinality(collected[j] \cap (new \ NoChannel))
    BY <1>2, <1>7, FS_Union
  <2>2. Cardinality(collected[j] \cap (new \ NoChannel)) \in Nat
    <3>1. collected[j] \cap (new \ NoChannel) \in SUBSET Message
      BY <1>1
    <3> QED
      BY <3>1, MessagesFinite
  <2> QED
    BY <1>2, <1>3, <1>4, <1>7, <2>1, <2>2
<1>9. /\ collected' \in [Job -> SUBSET (Message \ NoChannel)]
      /\ near' \in [Job -> SUBSET (SUBSET Message)]
  BY <1>5, <1>6 DEF TypeOK
<1>10. ASSUME NEW i \in Job PROVE Cap - Cardinality(collected'[i]) >= 0
  <2>1. CASE i = j
    <3>1. collected'[j] = collected[j] \cup (new \ NoChannel)
      BY <1>5 DEF TypeOK
    <3>2. collected'[j] \in SUBSET Message
      BY <1>9
    <3>3. Cardinality(collected'[j]) \in Nat
      BY <3>2, MessagesFinite
    <3> QED
      BY <1>8, <2>1, <3>1, <3>3, SearchAssumption
  <2>2. CASE i # j
    <3>1. collected'[i] = collected[i]
      BY <1>5, <2>2 DEF TypeOK
    <3> QED
      BY <3>1 DEF TypeOK, Remaining
  <2> QED
    BY <2>1, <2>2
<1> QED
  BY <1>9, <1>10

\* A job that forgets what it collected has its whole budget again.
LEMMA ForgetType ==
  ASSUME TypeOK, NEW j \in Job, Forget(j)
  PROVE  /\ hits' \in [Job -> Seq(Message)] /\ half' \in [Job -> BOOLEAN]
         /\ collected' \in [Job -> SUBSET (Message \ NoChannel)]
         /\ near' \in [Job -> SUBSET (SUBSET Message)]
         /\ \A i \in Job : Cap - Cardinality(collected'[i]) >= 0
<1>1. Cap - Cardinality({}) >= 0
  BY SearchAssumption, FS_EmptySet
<1>2. \A i \in Job : collected'[i] = collected[i] \/ collected'[i] = {}
  BY DEF Forget, TypeOK
<1>3. \A i \in Job : Cap - Cardinality(collected[i]) >= 0
  BY DEF TypeOK, Remaining
<1>4. \A i \in Job : Cap - Cardinality(collected'[i]) >= 0
  BY <1>1, <1>2, <1>3
<1> QED
  BY <1>4 DEF Forget, TypeOK

\* Every step keeps the types.
LEMMA TypeNext == TypeOK /\ HalfInv /\ [Next]_vars => TypeOK'
<1> SUFFICES ASSUME TypeOK, HalfInv, [Next]_vars PROVE TypeOK'
  OBVIOUS
<1>a. RuntimeTypeOK /\ cursor = NoCursor
  BY DEF TypeOK
<1>b. ASSUME UNCHANGED runtimeVars PROVE RuntimeTypeOK' /\ cursor' = NoCursor
  BY <1>a, <1>b DEF RuntimeTypeOK, runtimeVars, jobVars, ragVars
<1>c. ASSUME UNCHANGED collected PROVE \A i \in Job : Remaining(i)' >= 0
  BY <1>c DEF TypeOK, Remaining
<1>1. CASE PostMessage
  <2>1. RuntimeTypeOK' /\ cursor' = NoCursor
    BY <1>1, <1>b DEF PostMessage
  <2> QED
    BY <1>1, <1>c, <2>1, SearchAssumption DEF PostMessage, TypeOK
<1>2. ASSUME NEW j \in Job, Search(j) PROVE TypeOK'
  <2>1. RuntimeTypeOK' /\ cursor' = NoCursor
    BY <1>2, <1>a DEF Search, RuntimeTypeOK, ragVars
  <2> QED
    BY <1>2, <1>c, <2>1, HitsType DEF Search, TypeOK
<1>3. ASSUME NEW j \in Job, ExpandThread(j) PROVE TypeOK'
  <2>1. Replies(Head(hits[j])) \in SUBSET Message
    BY SearchAssumption DEF Replies, Posted, Message, TypeOK
  <2>2. /\ collected' \in [Job -> SUBSET (Message \ NoChannel)]
        /\ near' \in [Job -> SUBSET (SUBSET Message)]
        /\ \A i \in Job : Cap - Cardinality(collected'[i]) >= 0
    BY <1>3, <2>1, AddType DEF ExpandThread
  <2>3. RuntimeTypeOK' /\ cursor' = NoCursor
    BY <1>3, <1>b DEF ExpandThread
  <2> QED
    BY <1>3, <2>2, <2>3 DEF ExpandThread, TypeOK, Remaining
<1>4. ASSUME NEW j \in Job, ExpandWindow(j) PROVE TypeOK'
  <2>1. Window(Head(hits[j])) \in SUBSET Message
    BY SearchAssumption DEF Window, Posted, Message, TypeOK
  <2>2. /\ collected' \in [Job -> SUBSET (Message \ NoChannel)]
        /\ near' \in [Job -> SUBSET (SUBSET Message)]
        /\ \A i \in Job : Cap - Cardinality(collected'[i]) >= 0
    BY <1>4, <2>1, AddType DEF ExpandWindow
  <2>3. RuntimeTypeOK' /\ cursor' = NoCursor
    BY <1>4, <1>b DEF ExpandWindow
  <2>4. Tail(hits[j]) \in Seq(Message)
    BY <1>4, HeadTailProperties DEF ExpandWindow, HalfInv, TypeOK
  <2> QED
    BY <1>4, <2>2, <2>3, <2>4 DEF ExpandWindow, TypeOK, Remaining
<1>5. ASSUME NEW j \in Job, BuildBatch(j) PROVE TypeOK'
  <2>1. <<collected[j]>> \in Seq(SUBSET Document) /\ <<collected[j]>> # <<>>
    <3>1. collected[j] \in SUBSET Document
      BY SearchAssumption DEF TypeOK
    <3> QED
      BY <3>1
  <2>2. RuntimeTypeOK' /\ cursor' = NoCursor
    <3>1. CASE Exit(j)
      BY <1>5, <1>a, <3>1 DEF BuildBatch, Exit, RuntimeTypeOK, ragVars, NoCursor
    <3>2. CASE ~Exit(j)
      <4>1. /\ pc' = [pc EXCEPT ![j] = "embed"] /\ floor' = floor
            /\ batch' = [batch EXCEPT ![j] = <<collected[j]>>]
            /\ next' = [next EXCEPT ![j] = NoCursor]
        BY <1>5, <2>1, <3>2 DEF BuildBatch, Hand
      <4> QED
        BY <1>5, <1>a, <2>1, <4>1 DEF BuildBatch, RuntimeTypeOK, ragVars, NoCursor
    <3> QED
      BY <3>1, <3>2
  <2> QED
    BY <1>5, <2>2, ForgetType DEF BuildBatch, TypeOK, Remaining
<1>6. ASSUME NEW j \in Job, Finish(j) PROVE TypeOK'
  <2>1. RuntimeTypeOK' /\ cursor' = NoCursor
    BY <1>6, <1>a DEF Finish, Exit, RuntimeTypeOK, ragVars, NoCursor
  <2> QED
    BY <1>6, <1>c, <2>1 DEF Finish, TypeOK, searchVars
<1>7. ASSUME NEW j \in Job, Die(j) PROVE TypeOK'
  <2>1. RuntimeTypeOK' /\ cursor' = NoCursor
    BY <1>7, <1>a, RuntimeTypeNext DEF Die
  <2> QED
    BY <1>7, <2>1, ForgetType DEF Die, TypeOK, Remaining
<1>8. ASSUME UNCHANGED searchVars, RuntimeTypeOK', cursor' = cursor PROVE TypeOK'
  BY <1>8, <1>c DEF TypeOK, searchVars
<1>9. ASSUME NEW j \in Job, (Post(j) \/ PostFails(j)) /\ UNCHANGED searchVars PROVE TypeOK'
  BY <1>8, <1>9, <1>a, RuntimeTypeNext
<1>10. CASE RestartRag /\ UNCHANGED searchVars
  <2>1. RuntimeTypeOK' /\ cursor' = cursor
    BY <1>10, <1>a, RuntimeAssumption DEF RestartRag, Fault, RuntimeTypeOK, jobVars
  <2> QED
    BY <1>8, <1>10, <2>1
<1>11. CASE UNCHANGED vars
  BY <1>8, <1>11, <1>a, <1>b DEF vars, runtimeVars
<1> QED
  BY <1>1, <1>2, <1>3, <1>4, <1>5, <1>6, <1>7, <1>9, <1>10, <1>11 DEF Next

-----------------------------------------------------------------------------
(* What is collected *)

\* An answer that there is room for once more is collected: either it is not
\* cut, or all of it had been.
LEMMA AddComplete ==
  ASSUME IInv, NEW j \in Job, NEW S \in SUBSET Message, NEW oldestFirst \in BOOLEAN,
         Add(j, S, oldestFirst)
  PROVE  /\ collected'[j] \subseteq UNION near'[j]
         /\ (\A A \in near'[j] : Cardinality(UNION near'[j]) + Cardinality(A) <= Cap + 1) =>
              (UNION near'[j]) \ NoChannel \subseteq collected'[j]
<1> DEFINE all == UNION near[j]
           new == Leading(S, Remaining(j), oldestFirst)
<1>1. /\ collected[j] \in SUBSET Message /\ collected[j] \subseteq all
      /\ all \in SUBSET Message /\ all \cup S \in SUBSET Message
  BY DEF IInv, TypeOK, NearInv
<1>2. /\ IsFiniteSet(collected[j]) /\ Cardinality(collected[j]) \in Nat
      /\ IsFiniteSet(S) /\ Cardinality(S) \in Nat
      /\ IsFiniteSet(all) /\ Cardinality(all) \in Nat
      /\ IsFiniteSet(all \cup S) /\ Cardinality(all \cup S) \in Nat
  BY <1>1, MessagesFinite
<1>3. /\ collected'[j] = collected[j] \cup (new \ NoChannel)
      /\ near'[j] = near[j] \cup {S} /\ UNION near'[j] = all \cup S
  BY DEF Add, IInv, TypeOK
<1>4. Remaining(j) \in Nat /\ Remaining(j) = Cap - Cardinality(collected[j])
  BY <1>2, SearchAssumption DEF Remaining, IInv, TypeOK
<1>5. new \subseteq S
  BY <1>4, LeadingSize
<1>6. ASSUME \A A \in near'[j] : Cardinality(UNION near'[j]) + Cardinality(A) <= Cap + 1
      PROVE  (UNION near'[j]) \ NoChannel \subseteq collected'[j]
  <2> HIDE DEF all
  <2>1. Cardinality(all \cup S) + Cardinality(S) <= Cap + 1
    BY <1>3, <1>6
  <2>2. all \in SUBSET (all \cup S)
    OBVIOUS
  <2>3. Cardinality(all) <= Cardinality(all \cup S)
    BY <1>2, <2>2, FS_Subset
  <2>4. all \ NoChannel \subseteq collected[j]
    <3>1. ASSUME NEW A \in near[j]
          PROVE  Cardinality(UNION near[j]) + Cardinality(A) <= Cap + 1
      <4>1. Cardinality(all \cup S) + Cardinality(A) <= Cap + 1
        BY <1>3, <1>6
      <4>2. A \in SUBSET Message
        BY DEF IInv, TypeOK
      <4>3. Cardinality(A) \in Nat
        BY <4>2, MessagesFinite
      <4>4. Cardinality(all) + Cardinality(A) <= Cap + 1
        BY <1>2, <2>3, <4>1, <4>3, SearchAssumption
      <4> QED
        BY <4>4 DEF all
    <3>2. (UNION near[j]) \ NoChannel \subseteq collected[j]
      BY <3>1 DEF IInv, CompleteIfRoom
    <3> QED
      BY <3>2 DEF all
  <2>5. CASE Cardinality(S) <= Remaining(j)
    <3>1. new = S
      BY <1>4, <2>5, LeadingWhole
    <3>2. collected'[j] = collected[j] \cup (S \ NoChannel)
      BY <1>3, <3>1
    <3>3. UNION near'[j] = all \cup S
      BY <1>3
    <3> QED
      BY <2>4, <3>2, <3>3
  <2>6. CASE ~(Cardinality(S) <= Remaining(j))
    <3>1. collected[j] \in SUBSET (all \cup S)
      BY <1>1
    <3>2. Cardinality(collected[j]) <= Cardinality(all \cup S)
      BY <1>2, <3>1, FS_Subset
    <3>3. Cardinality(all \cup S) = Cardinality(collected[j])
      BY <1>2, <1>4, <2>1, <2>6, <3>2, SearchAssumption
    <3>4. collected[j] = all \cup S
      BY <1>2, <3>1, <3>3, FS_Subset
    <3> QED
      BY <1>3, <3>4
  <2> QED
    BY <2>5, <2>6
<1> QED
  BY <1>1, <1>3, <1>5, <1>6

\* A hit stays at hand while its neighbourhood is asked for.
LEMMA HalfNext == IInv /\ [Next]_vars => HalfInv'
<1> SUFFICES ASSUME IInv, [Next]_vars PROVE HalfInv'
  OBVIOUS
<1> USE DEF IInv, TypeOK, RuntimeTypeOK, HalfInv, Exit, Forget, searchVars, runtimeVars, jobVars
<1>1. CASE PostMessage
  BY <1>1 DEF PostMessage
<1>2. ASSUME NEW j \in Job, Search(j) PROVE HalfInv'
  BY <1>2 DEF Search
<1>3. ASSUME NEW j \in Job, ExpandThread(j) PROVE HalfInv'
  BY <1>3 DEF ExpandThread
<1>4. ASSUME NEW j \in Job, ExpandWindow(j) PROVE HalfInv'
  BY <1>4 DEF ExpandWindow
<1>5. ASSUME NEW j \in Job, BuildBatch(j) PROVE HalfInv'
  <2>1. /\ half' = [half EXCEPT ![j] = FALSE] /\ hits' = [hits EXCEPT ![j] = <<>>]
        /\ \E p : pc' = [pc EXCEPT ![j] = p]
    BY <1>5 DEF BuildBatch, Hand
  <2> QED
    BY <2>1
<1>6. ASSUME NEW j \in Job, Finish(j) PROVE HalfInv'
  BY <1>6 DEF Finish
<1>7. ASSUME NEW j \in Job, Die(j) PROVE HalfInv'
  BY <1>7 DEF Die, Crash
<1>8. ASSUME NEW j \in Job, Post(j) \/ PostFails(j), UNCHANGED searchVars PROVE HalfInv'
  BY <1>8 DEF Post, PostAccepted, PostRefused, PostFails
<1>9. CASE RestartRag /\ UNCHANGED searchVars
  BY <1>9 DEF RestartRag
<1>10. CASE UNCHANGED vars
  BY <1>10 DEF vars
<1> QED
  BY <1>1, <1>2, <1>3, <1>4, <1>5, <1>6, <1>7, <1>8, <1>9, <1>10 DEF Next

\* What a job collects comes from its answers, and is all of them if there was
\* room.
LEMMA CompleteNext == IInv /\ [Next]_vars => NearInv' /\ CompleteIfRoom'
<1> SUFFICES ASSUME IInv, [Next]_vars PROVE NearInv' /\ CompleteIfRoom'
  OBVIOUS
<1> DEFINE Complete(i) ==
             /\ collected[i] \subseteq UNION near[i]
             /\ (\A S \in near[i] : Cardinality(UNION near[i]) + Cardinality(S) <= Cap + 1) =>
                  (UNION near[i]) \ NoChannel \subseteq collected[i]
<1>1. \A i \in Job : Complete(i)
  BY DEF IInv, NearInv, CompleteIfRoom
<1> SUFFICES ASSUME NEW i \in Job PROVE Complete(i)'
  BY DEF NearInv, CompleteIfRoom
<1>2. ASSUME UNCHANGED <<collected[i], near[i]>> PROVE Complete(i)'
  BY <1>1, <1>2
<1>3. ASSUME collected'[i] = {}, near'[i] = {} PROVE Complete(i)'
  BY <1>3
<1>4. ASSUME NEW j \in Job, NEW S \in SUBSET Message, NEW oldestFirst \in BOOLEAN,
             Add(j, S, oldestFirst)
      PROVE  Complete(i)'
  <2>1. CASE i = j
    BY <1>4, <2>1, AddComplete
  <2>2. CASE i # j
    <3>1. UNCHANGED <<collected[i], near[i]>>
      BY <1>4, <2>2 DEF Add, IInv, TypeOK
    <3> QED
      BY <1>2, <3>1
  <2> QED
    BY <2>1, <2>2
<1>5. ASSUME NEW j \in Job, Forget(j) PROVE Complete(i)'
  <2>1. \/ collected'[i] = {} /\ near'[i] = {}
        \/ UNCHANGED <<collected[i], near[i]>>
    BY <1>5 DEF Forget, IInv, TypeOK
  <2> QED
    BY <1>2, <1>3, <2>1
<1> HIDE DEF Complete
<1>6. ASSUME NEW j \in Job, ExpandThread(j) PROVE Complete(i)'
  <2>1. Replies(Head(hits[j])) \in SUBSET Message
    BY SearchAssumption DEF Replies, Posted, Message, IInv, TypeOK
  <2> QED
    BY <1>4, <1>6, <2>1 DEF ExpandThread
<1>7. ASSUME NEW j \in Job, ExpandWindow(j) PROVE Complete(i)'
  <2>1. Window(Head(hits[j])) \in SUBSET Message
    BY SearchAssumption DEF Window, Posted, Message, IInv, TypeOK
  <2> QED
    BY <1>4, <1>7, <2>1 DEF ExpandWindow
<1>8. ASSUME UNCHANGED <<collected, near>> PROVE Complete(i)'
  BY <1>2, <1>8
<1> QED
  BY <1>5, <1>6, <1>7, <1>8
  DEF Next, PostMessage, Search, BuildBatch, Finish, Die, searchVars, vars

-----------------------------------------------------------------------------
(* The theorems *)

\* With nothing collected, all parts hold.
LEMMA InvInit == Init => IInv
BY TypeInit DEF Init, IInv, HalfInv, NearInv, CompleteIfRoom

\* The invariant the results below follow from.
THEOREM InvCorrect == Spec => []IInv
<1>1. IInv /\ [Next]_vars => IInv'
  BY TypeNext, HalfNext, CompleteNext DEF IInv
<1> QED
  BY <1>1, InvInit, PTL DEF Spec

\* Every variable keeps its type: in particular a run never collects more
\* messages than maxMessagesPerRun, and never a watermark
\* (_slack_search_add_message, _slack_search_expand_hit).
THEOREM TypeCorrect == Spec => []TypeOK
<1>1. IInv => TypeOK
  BY DEF IInv
<1> QED
  BY <1>1, InvCorrect, PTL

\* A run collects all that its hits lead to if its budget has room for that and
\* for the longest answer once more but for one message.
THEOREM CompleteCorrect == Spec => []CompleteIfRoom
<1>1. IInv => CompleteIfRoom
  BY DEF IInv
<1> QED
  BY <1>1, InvCorrect, PTL

=============================================================================
