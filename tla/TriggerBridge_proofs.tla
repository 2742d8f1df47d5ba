------------------------ MODULE TriggerBridge_proofs ------------------------
(***************************************************************************)
(* Proofs about TriggerBridge, for any events, deliveries, restarts and    *)
(* size of the deduper.                                                    *)
(*                                                                         *)
(* The deduper forgets: an id falls out when MaxEntries other ids were     *)
(* asked about after it.  That makes "runs once" an argument about the     *)
(* order of its ids (KeptInv): behind an id stand only ids asked about     *)
(* since, so whichever id is evicted has MaxEntries of them behind it.     *)
(***************************************************************************)
EXTENDS TriggerBridge, SequenceTheorems, FiniteSetTheorems, TLAPS

\* The deliveries the deduper let through, or is about to.
Admitted == Passed \cup {d \in Delivery : pc[d] = "insert"}

\* What was sent is an event; what is being inserted has an id.
EventInv ==
  \A d \in Delivery :
    /\ pc[d] # "unsent" => event[d] \in Event
    /\ pc[d] = "insert" => HasId(d)

\* An id is remembered because a delivery of its event was let through.
SourceInv == \A i \in 1..Len(seen) : \E c \in Passed : event[c] = seen[i]

\* e is remembered, and all ids behind it were asked about after it.
Kept(e) ==
  \E i \in 1..Len(seen) :
    /\ seen[i] = e
    /\ \A j \in (i + 1)..Len(seen) : seen[j] \in others[e]

\* An id that was let through is remembered, unless too many others have come
\* since or it was let through by two threads at once.
KeptInv ==
  \A c \in Passed : HasId(c) =>
    event[c] \in excused \/ Kept(event[c]) \/ Cardinality(others[event[c]]) >= MaxEntries

\* Two deliveries of one event are let through only with an excuse.
OnceInv ==
  \A c, d \in Admitted :
    event[c] = event[d] /\ HasId(c) => c = d \/ event[c] \in excused

IInv ==
  /\ TypeOK
  /\ \A e \in Event : IsFiniteSet(others[e])
  /\ EventInv /\ SourceInv /\ KeptInv /\ OnceInv

-----------------------------------------------------------------------------
(* The deduper's sequence of ids *)

\* RemoveFirst takes an id out and keeps the order of the rest.
LEMMA RemoveFirstPresent ==
  ASSUME NEW S, NEW s \in Seq(S), IsInjective(s), NEW p \in 1..Len(s)
  PROVE  /\ RemoveFirst(s, s[p]) \in Seq(S)
         /\ Len(RemoveFirst(s, s[p])) = Len(s) - 1
         /\ \A i \in 1..(Len(s) - 1) :
              RemoveFirst(s, s[p])[i] = IF i < p THEN s[i] ELSE s[i + 1]
<1> DEFINE I == {i \in 1..Len(s) : s[i] = s[p]}
           a == SubSeq(s, 1, p - 1)
           b == SubSeq(s, p + 1, Len(s))
<1>1. I = {p}
  BY LenProperties DEF IsInjective
<1>2. Min(I) = p
  BY <1>1 DEF Min
<1>3. RemoveFirst(s, s[p]) = a \o b
  BY <1>1, <1>2 DEF RemoveFirst, SelectInSeq, RemoveAt
<1>4. Len(s) \in Nat /\ \A i \in 1..Len(s) : s[i] \in S
  BY LenProperties, ElementOfSeq
<1>5. a \in Seq(S) /\ Len(a) = p - 1 /\ \A i \in 1..(p - 1) : a[i] = s[i]
  <2>1. \A i \in 1..(p - 1) : s[i] \in S
    BY <1>4
  <2> QED
    BY <2>1, <1>4, SubSeqProperties
<1>6. b \in Seq(S) /\ Len(b) = Len(s) - p
      /\ \A i \in 1..(Len(s) - p) : b[i] = s[p + i]
  <2>1. \A i \in (p + 1)..Len(s) : s[i] \in S
    BY <1>4
  <2>2. /\ b \in Seq(S)
        /\ Len(b) = IF p + 1 <= Len(s) THEN Len(s) - (p + 1) + 1 ELSE 0
        /\ \A i \in 1..(Len(s) - (p + 1) + 1) : b[i] = s[(p + 1) + i - 1]
    BY <2>1, <1>4, SubSeqProperties
  <2> QED
    BY <2>2, <1>4
<1> HIDE DEF a, b
<1>7. /\ a \o b \in Seq(S) /\ Len(a \o b) = Len(s) - 1
      /\ \A i \in 1..(Len(s) - 1) : (a \o b)[i] = IF i <= p - 1 THEN a[i] ELSE b[i - (p - 1)]
  BY <1>4, <1>5, <1>6, ConcatProperties
<1> QED
  BY <1>3, <1>4, <1>5, <1>6, <1>7

\* But for its last, the ids of t are ids of s.
OnlyLastIsNew(t, s) ==
  \A j \in 1..(Len(t) - 1) : \E i \in 1..Len(s) : t[j] = s[i]

\* Between an id of s other than k and the last of t are only such as were
\* behind it in s.
OrderKept(t, s, k) ==
  \A i \in 1..Len(s) : s[i] # k =>
    \E h \in 1..(Len(t) - 1) :
      /\ t[h] = s[i]
      /\ \A j \in (h + 1)..(Len(t) - 1) : \E g \in (i + 1)..Len(s) : t[j] = s[g]

\* Touch makes k the last id, once, and keeps the order of the others.
LEMMA TouchProperties ==
  ASSUME NEW S, NEW s \in Seq(S), IsInjective(s), NEW k \in S
  PROVE  /\ Touch(s, k) \in Seq(S) /\ IsInjective(Touch(s, k))
         /\ Len(Touch(s, k)) = IF Contains(s, k) THEN Len(s) ELSE Len(s) + 1
         /\ Touch(s, k)[Len(Touch(s, k))] = k
         /\ OnlyLastIsNew(Touch(s, k), s) /\ OrderKept(Touch(s, k), s, k)
<1> DEFINE r == RemoveFirst(s, k)
           t == Touch(s, k)
<1>1. Len(s) \in Nat /\ \A i \in 1..Len(s) : s[i] \in S
  BY LenProperties, ElementOfSeq
<1>2. CASE Contains(s, k)
  <2>1. PICK p \in 1..Len(s) : s[p] = k
    BY <1>2 DEF Contains
  <2>2. /\ r \in Seq(S) /\ Len(r) = Len(s) - 1
        /\ \A i \in 1..(Len(s) - 1) : r[i] = IF i < p THEN s[i] ELSE s[i + 1]
    BY <2>1, RemoveFirstPresent
  <2> HIDE DEF r
  <2>3. /\ t \in Seq(S) /\ Len(t) = Len(s) /\ t[Len(s)] = k
        /\ \A i \in 1..(Len(s) - 1) : t[i] = IF i < p THEN s[i] ELSE s[i + 1]
    <3>1. t = Append(r, k)
      BY DEF Touch, r
    <3> QED
      BY <3>1, <2>2, <1>1, AppendProperties
  <2> HIDE DEF t
  <2>4. DOMAIN t = 1..Len(s) /\ DOMAIN s = 1..Len(s)
    BY <2>3, LenProperties
  <2>5. IsInjective(t)
    <3> SUFFICES ASSUME NEW i \in 1..Len(s), NEW j \in 1..Len(s), t[i] = t[j]
                 PROVE  i = j
      BY <2>4 DEF IsInjective
    <3> DEFINE f(n) == IF n = Len(s) THEN p ELSE IF n < p THEN n ELSE n + 1
    <3>1. \A n \in 1..Len(s) : f(n) \in 1..Len(s) /\ t[n] = s[f(n)]
      BY <1>1, <2>1, <2>3
    <3>2. f(i) = f(j)
      BY <3>1, <2>4, ZenonT(60) DEF IsInjective
    <3> QED
      BY <3>2, <1>1
  <2>6. \A j \in 1..(Len(t) - 1) : \E i \in 1..Len(s) : t[j] = s[i]
    BY <2>3, <1>1
  <2>7. ASSUME NEW i \in 1..Len(s), s[i] # k
        PROVE  \E h \in 1..(Len(t) - 1) :
                 /\ t[h] = s[i]
                 /\ \A j \in (h + 1)..(Len(t) - 1) : \E g \in (i + 1)..Len(s) : t[j] = s[g]
    <3>1. CASE i < p
      BY <3>1, <2>1, <2>3, <1>1
    <3>2. CASE i > p
      <4>1. i - 1 \in 1..(Len(t) - 1) /\ t[i - 1] = s[i]
        BY <3>2, <2>1, <2>3, <1>1
      <4>2. \A j \in ((i - 1) + 1)..(Len(t) - 1) : t[j] = s[j + 1] /\ j + 1 \in (i + 1)..Len(s)
        BY <3>2, <2>1, <2>3, <1>1
      <4> QED
        BY <4>1, <4>2
    <3> QED
      BY <3>1, <3>2, <2>1, <2>7
  <2>8. OnlyLastIsNew(t, s) /\ OrderKept(t, s, k)
    BY <2>6, <2>7 DEF OnlyLastIsNew, OrderKept
  <2> QED
    BY <1>2, <2>3, <2>5, <2>8 DEF t
<1>3. CASE ~Contains(s, k)
  <2>1. t = Append(s, k)
    BY <1>3 DEF Touch, RemoveFirst, Contains
  <2>2. /\ t \in Seq(S) /\ Len(t) = Len(s) + 1 /\ t[Len(s) + 1] = k
        /\ \A i \in 1..Len(s) : t[i] = s[i]
    BY <2>1, AppendProperties
  <2> HIDE DEF t
  <2>3. DOMAIN t = 1..(Len(s) + 1) /\ DOMAIN s = 1..Len(s)
    BY <2>2, LenProperties
  <2>4. IsInjective(t)
    BY <1>1, <1>3, <2>2, <2>3 DEF IsInjective, Contains
  <2>5. ASSUME NEW i \in 1..Len(s)
        PROVE  \E h \in 1..(Len(t) - 1) :
                 /\ t[h] = s[i]
                 /\ \A j \in (h + 1)..(Len(t) - 1) : \E g \in (i + 1)..Len(s) : t[j] = s[g]
    BY <2>2, <1>1
  <2>6. OnlyLastIsNew(t, s)
    BY <1>1, <2>2 DEF OnlyLastIsNew
  <2>7. OrderKept(t, s, k)
    BY <2>5 DEF OrderKept
  <2> QED
    BY <1>1, <1>3, <2>2, <2>4, <2>6, <2>7 DEF t
<1> QED
  BY <1>2, <1>3

\* Bounded drops the first id if there is one too many.
LEMMA BoundedProperties ==
  ASSUME NEW S, NEW t \in Seq(S), IsInjective(t), Len(t) <= MaxEntries + 1
  PROVE  /\ Bounded(t) \in Seq(S) /\ IsInjective(Bounded(t))
         /\ Len(Bounded(t)) = IF Len(t) > MaxEntries THEN MaxEntries ELSE Len(t)
         /\ Len(t) <= MaxEntries => Bounded(t) = t
         /\ Len(t) > MaxEntries => \A i \in 1..MaxEntries : Bounded(t)[i] = t[i + 1]
<1>1. Len(t) \in Nat /\ MaxEntries \in Nat \ {0}
  BY LenProperties, BridgeAssumption
<1>4. DOMAIN t = 1..Len(t)
  BY LenProperties
<1>2. CASE Len(t) > MaxEntries
  <2>1. Len(t) = MaxEntries + 1 /\ Bounded(t) = Tail(t) /\ t # <<>>
    <3>1. Len(t) # 0
      BY <1>1, <1>2
    <3>2. t # <<>>
      BY <3>1
    <3>3. Len(t) = MaxEntries + 1
      BY <1>1, <1>2
    <3>4. Bounded(t) = Tail(t)
      BY <1>2 DEF Bounded
    <3> QED
      BY <3>2, <3>3, <3>4
  <2>2. /\ Tail(t) \in Seq(S) /\ Len(Tail(t)) = MaxEntries
        /\ \A i \in 1..MaxEntries : Tail(t)[i] = t[i + 1]
    BY <1>1, <2>1, HeadTailProperties
  <2>3. DOMAIN Tail(t) = 1..MaxEntries
    BY <2>2, LenProperties
  <2>4. IsInjective(Tail(t))
    <3> SUFFICES ASSUME NEW i \in 1..MaxEntries, NEW j \in 1..MaxEntries,
                        Tail(t)[i] = Tail(t)[j]
                 PROVE  i = j
      BY <2>3 DEF IsInjective
    <3>1. t[i + 1] = t[j + 1] /\ i + 1 \in 1..Len(t) /\ j + 1 \in 1..Len(t)
      BY <1>1, <2>1, <2>2
    <3> QED
      BY <1>1, <1>4, <3>1 DEF IsInjective
  <2> QED
    BY <1>1, <1>2, <2>1, <2>2, <2>4
<1>3. CASE ~(Len(t) > MaxEntries)
  BY <1>1, <1>3 DEF Bounded
<1> QED
  BY <1>2, <1>3

\* The ids in n consecutive places of a sequence without repetitions are n.
LEMMA DistinctIds ==
  ASSUME NEW S, NEW t \in Seq(S), IsInjective(t), NEW n \in Nat, Len(t) = n + 1,
         NEW T, IsFiniteSet(T), \A j \in 2..(n + 1) : t[j] \in T
  PROVE  Cardinality(T) >= n
<1> DEFINE f == [j \in 2..(n + 1) |-> t[j]]
<1>1. IsFiniteSet(2..(n + 1)) /\ Cardinality(2..(n + 1)) = n
  BY FS_Interval
<1>2. DOMAIN t = 1..(n + 1)
  BY LenProperties
<1>3. f \in Injection(2..(n + 1), T)
  BY <1>2 DEF Injection, IsInjective
<1>4. Cardinality(2..(n + 1)) <= Cardinality(T)
  BY <1>1, <1>3, FS_Injection
<1>5. Cardinality(T) \in Nat
  BY FS_CardinalityType
<1> QED
  BY <1>1, <1>4, <1>5

-----------------------------------------------------------------------------
(* What every step keeps *)

\* An id that is looked up is the event's own.
LEMMA IdIsEvent ==
  ASSUME EventInv, NEW d \in Delivery, pc[d] # "unsent", HasId(d)
  PROVE  Id(d) = event[d] /\ event[d] \in Event \ NoId
BY BridgeAssumption DEF EventInv, HasId, Id

\* What is_duplicate leaves in the deduper, the id asked about last.
LEMMA Asked ==
  ASSUME IInv, NEW d \in Delivery, pc[d] # "unsent", HasId(d), NoteAsked(d),
         \/ seen' = Touch(seen, Id(d)) /\ Contains(seen, Id(d))
         \/ seen' = Bounded(Touch(seen, Id(d))),
         NEW k, k = event[d]
  PROVE  /\ seen' \in Seq(Event \ NoId) /\ IsInjective(seen') /\ Len(seen') <= MaxEntries
         /\ others' \in [Event -> SUBSET Event]
         /\ \A e \in Event : IsFiniteSet(others'[e])
         /\ \A i \in 1..Len(seen') :
              seen'[i] = k \/ \E j \in 1..Len(seen) : seen'[i] = seen[j]
         /\ Kept(k)'
         /\ \A e \in Event \ NoId :
              e # k /\ (Kept(e) \/ Cardinality(others[e]) >= MaxEntries) =>
                Kept(e)' \/ Cardinality(others'[e]) >= MaxEntries
<1>1. Id(d) = k /\ k \in Event \ NoId
  BY IdIsEvent DEF IInv
<1>2. seen \in Seq(Event \ NoId) /\ IsInjective(seen) /\ Len(seen) \in Nat
      /\ Len(seen) <= MaxEntries /\ MaxEntries \in Nat \ {0}
  BY LenProperties, BridgeAssumption DEF IInv, TypeOK
<1> DEFINE t == Touch(seen, k)
           n == Len(t)
<1>3. /\ t \in Seq(Event \ NoId) /\ IsInjective(t)
      /\ n = IF Contains(seen, k) THEN Len(seen) ELSE Len(seen) + 1
      /\ t[n] = k
      /\ OnlyLastIsNew(t, seen) /\ OrderKept(t, seen, k)
  BY <1>1, <1>2, TouchProperties
<1> HIDE DEF t
<1>4. n \in 1..(MaxEntries + 1)
  <2>1. Contains(seen, k) => Len(seen) >= 1
    BY <1>2 DEF Contains
  <2> QED
    BY <2>1, <1>2, <1>3
<1>5. /\ Bounded(t) \in Seq(Event \ NoId) /\ IsInjective(Bounded(t))
      /\ Len(Bounded(t)) = IF n > MaxEntries THEN MaxEntries ELSE n
      /\ n <= MaxEntries => Bounded(t) = t
      /\ n > MaxEntries => \A i \in 1..MaxEntries : Bounded(t)[i] = t[i + 1]
  <2>1. Len(t) <= MaxEntries + 1
    BY <1>2, <1>4
  <2> QED
    BY <1>3, <2>1, BoundedProperties
<1>6. seen' = Bounded(t)
  <2>1. CASE seen' = Touch(seen, Id(d)) /\ Contains(seen, Id(d))
    BY <2>1, <1>1, <1>2, <1>3, <1>5 DEF t
  <2>2. CASE seen' = Bounded(Touch(seen, Id(d)))
    BY <2>2, <1>1 DEF t
  <2> QED
    BY <2>1, <2>2
<1> DEFINE m == Len(seen')
           o == n - m
<1>7. /\ seen' \in Seq(Event \ NoId) /\ IsInjective(seen')
      /\ m \in 1..MaxEntries /\ o \in {0, 1} /\ n = m + o
      /\ o = 1 => m = MaxEntries
      /\ \A i \in 1..m : seen'[i] = t[i + o]
  BY <1>2, <1>4, <1>5, <1>6
<1>8. /\ others' \in [Event -> SUBSET Event]
      /\ \A e \in Event : e # k => others'[e] = others[e] \cup {k}
      /\ others'[k] = {}
  BY <1>1 DEF NoteAsked, IInv, TypeOK
<1>9. \A e \in Event : IsFiniteSet(others'[e])
  <2> TAKE e \in Event
  <2>1. IsFiniteSet(others[e]) /\ IsFiniteSet({})
    BY FS_EmptySet DEF IInv
  <2>2. IsFiniteSet(others[e] \cup {k})
    BY <2>1, FS_AddElement
  <2> QED
    BY <1>8, <2>1, <2>2
<1> HIDE DEF n, m, o
<1>10. Kept(k)'
  <2>1. m \in 1..m /\ seen'[m] = k /\ (m + 1)..m = {}
    BY <1>3, <1>7
  <2>2. \A j \in (m + 1)..m : seen'[j] \in others'[k]
    BY <2>1
  <2> QED
    BY <2>1, <2>2 DEF Kept, m
<1>11. \A i \in 1..m : seen'[i] = k \/ \E j \in 1..Len(seen) : seen'[i] = seen[j]
  <2> TAKE i \in 1..m
  <2>1. CASE i + o = n
    BY <2>1, <1>3, <1>7
  <2>2. CASE i + o # n
    <3>1. i + o \in 1..(n - 1)
      BY <2>2, <1>4, <1>7
    <3>2. PICK j \in 1..Len(seen) : t[i + o] = seen[j]
      BY <3>1, <1>3 DEF OnlyLastIsNew, n
    <3> QED
      BY <3>2, <1>7
  <2> QED
    BY <2>1, <2>2
<1>12. ASSUME NEW e \in Event \ NoId, e # k,
              Kept(e) \/ Cardinality(others[e]) >= MaxEntries
       PROVE  Kept(e)' \/ Cardinality(others'[e]) >= MaxEntries
  <2>1. CASE Cardinality(others[e]) >= MaxEntries
    <3>1. IsFiniteSet(others'[e]) /\ others[e] \subseteq others'[e]
      BY <1>8, <1>9, <1>12
    <3>2. /\ Cardinality(others[e]) \in Nat /\ Cardinality(others'[e]) \in Nat
          /\ Cardinality(others[e]) <= Cardinality(others'[e])
      BY <3>1, FS_Subset, FS_CardinalityType DEF IInv
    <3> QED
      BY <2>1, <3>2, <1>2
  <2>2. CASE Kept(e)
    <3>1. PICK i \in 1..Len(seen) :
            seen[i] = e /\ \A j \in (i + 1)..Len(seen) : seen[j] \in others[e]
      BY <2>2 DEF Kept
    <3>2. PICK h \in 1..(n - 1) :
            /\ t[h] = e
            /\ \A j \in (h + 1)..(n - 1) : \E g \in (i + 1)..Len(seen) : t[j] = seen[g]
      BY <3>1, <1>3, <1>12 DEF OrderKept, n
    <3>3. \A j \in (h + 1)..n : t[j] \in others'[e]
      <4> TAKE j \in (h + 1)..n
      <4>1. CASE j = n
        BY <4>1, <1>3, <1>8, <1>12
      <4>2. CASE j \in (h + 1)..(n - 1)
        BY <4>2, <3>1, <3>2, <1>8, <1>12
      <4> QED
        BY <4>1, <4>2, <1>4
    <3>4. CASE h > o
      <4>1. h - o \in 1..m /\ seen'[h - o] = e
        <5>1. h - o \in 1..m /\ (h - o) + o = h
          BY <3>4, <1>4, <1>7
        <5>2. seen'[h - o] = t[(h - o) + o]
          BY <5>1, <1>7
        <5> QED
          BY <5>1, <5>2, <3>2
      <4>2. \A j \in ((h - o) + 1)..m : seen'[j] \in others'[e]
        <5> TAKE j \in ((h - o) + 1)..m
        <5>1. j \in 1..m /\ j + o \in (h + 1)..n
          BY <1>4, <1>7
        <5> QED
          BY <5>1, <1>7, <3>3
      <4> QED
        BY <4>1, <4>2 DEF Kept, m
    <3>5. CASE h <= o
      <4>1. h = 1 /\ o = 1 /\ n = MaxEntries + 1
        BY <3>5, <1>2, <1>4, <1>7
      <4>2. \A j \in 2..(MaxEntries + 1) : t[j] \in others'[e]
        BY <4>1, <3>3
      <4>3. Len(t) = MaxEntries + 1
        BY <4>1 DEF n
      <4> QED
        BY <4>2, <4>3, <1>2, <1>3, <1>9, DistinctIds
    <3> QED
      BY <3>4, <3>5, <1>4, <1>7
  <2> QED
    BY <2>1, <2>2, <1>12
<1> QED
  BY <1>2, <1>7, <1>8, <1>9, <1>10, <1>11, <1>12 DEF m

-----------------------------------------------------------------------------
(* Every step keeps the invariant *)

\* Nothing has been sent, and nothing let through.
LEMMA InvInit == Init => IInv
<1> SUFFICES ASSUME Init PROVE IInv
  OBVIOUS
<1>1. Len(seen) = 0 /\ seen \in Seq(Event \ NoId)
  BY EmptySeq DEF Init
<1>2. IsInjective(seen)
  BY DEF Init, IsInjective
<1>3. TypeOK
  BY <1>1, <1>2, BridgeAssumption DEF Init, TypeOK
<1>4. Admitted = {} /\ Passed = {}
  BY DEF Init, Admitted, Passed
<1>5. EventInv /\ SourceInv /\ KeptInv /\ OnceInv
  BY <1>1, <1>4 DEF Init, EventInv, SourceInv, KeptInv, OnceInv
<1>6. \A e \in Event : IsFiniteSet(others[e])
  BY FS_EmptySet DEF Init
<1> QED
  BY <1>3, <1>5, <1>6 DEF IInv

\* A request that arrives is not let through yet.
LEMMA DeliverKeeps == ASSUME IInv, NEW d \in Delivery, Deliver(d) PROVE IInv'
<1>1. PICK e \in Event : event' = [event EXCEPT ![d] = e]
  BY DEF Deliver
<1>2. pc[d] = "unsent" /\ pc' = [pc EXCEPT ![d] = "queued"]
      /\ UNCHANGED <<seen, others, excused, restarts>>
  BY DEF Deliver, Goto, history
<1>3. /\ Passed' = Passed /\ Admitted' = Admitted
      /\ \A c \in Admitted : c # d /\ event'[c] = event[c] /\ (HasId(c)' <=> HasId(c))
  BY <1>1, <1>2 DEF Passed, Admitted, IInv, TypeOK, HasId, Id
<1>4. TypeOK'
  BY <1>1, <1>2 DEF IInv, TypeOK
<1>5. EventInv'
  BY <1>1, <1>2 DEF IInv, EventInv, TypeOK, HasId, Id
<1>6. SourceInv'
  BY <1>2, <1>3 DEF IInv, SourceInv, Admitted
<1>7. KeptInv'
  BY <1>2, <1>3 DEF IInv, KeptInv, Kept, Admitted
<1>8. OnceInv'
  BY <1>2, <1>3 DEF IInv, OnceInv
<1> QED
  BY <1>2, <1>4, <1>5, <1>6, <1>7, <1>8 DEF IInv

\* Without an id an event is let through, and nothing is said of it.
LEMMA SkipDeduperKeeps == ASSUME IInv, NEW d \in Delivery, SkipDeduper(d) PROVE IInv'
<1>1. /\ pc[d] = "queued" /\ ~HasId(d)
      /\ pc' = [pc EXCEPT ![d] = pc'[d]] /\ pc'[d] \in {"ignored", "run"}
      /\ UNCHANGED <<event, seen, others, excused, restarts>>
  BY DEF SkipDeduper, LetPass, Goto, IInv, TypeOK
<1>2. /\ Passed' = Passed \cup {d} /\ Admitted' = Admitted \cup {d}
      /\ d \notin Admitted
  BY <1>1 DEF Passed, Admitted, IInv, TypeOK
<1>3. TypeOK'
  BY <1>1 DEF IInv, TypeOK
<1>4. EventInv'
  BY <1>1 DEF IInv, EventInv, TypeOK, HasId, Id
<1>5. SourceInv'
  BY <1>1, <1>2 DEF IInv, SourceInv
<1>6. KeptInv'
  BY <1>1, <1>2 DEF IInv, KeptInv, Kept, HasId, Id
<1>7. OnceInv'
  BY <1>1, <1>2 DEF IInv, OnceInv, HasId, Id
<1> QED
  BY <1>1, <1>3, <1>4, <1>5, <1>6, <1>7 DEF IInv

\* A duplicate renews its id and lets nothing through.
LEMMA DropDuplicateKeeps == ASSUME IInv, NEW d \in Delivery, DropDuplicate(d) PROVE IInv'
<1>1. /\ pc[d] = "queued" /\ HasId(d) /\ Contains(seen, Id(d)) /\ NoteAsked(d)
      /\ seen' = Touch(seen, Id(d)) /\ pc' = [pc EXCEPT ![d] = "deduped"]
      /\ UNCHANGED <<event, excused, restarts>>
  BY DEF DropDuplicate, Goto
<1> DEFINE k == event[d]
<1>2. /\ seen' \in Seq(Event \ NoId) /\ IsInjective(seen') /\ Len(seen') <= MaxEntries
      /\ others' \in [Event -> SUBSET Event]
      /\ \A e \in Event : IsFiniteSet(others'[e])
      /\ \A i \in 1..Len(seen') :
           seen'[i] = k \/ \E j \in 1..Len(seen) : seen'[i] = seen[j]
      /\ \A e \in Event \ NoId :
           e # k /\ (Kept(e) \/ Cardinality(others[e]) >= MaxEntries) =>
             Kept(e)' \/ Cardinality(others'[e]) >= MaxEntries
  BY <1>1, Asked
<1>3. \A e : e = k => Kept(e)'
  BY <1>1, Asked
<1>4. Id(d) = k /\ k \in Event \ NoId
  BY <1>1, IdIsEvent DEF IInv
<1> HIDE DEF k
<1>5. /\ Passed' = Passed /\ Admitted' = Admitted
      /\ \A c \in Delivery : event'[c] = event[c] /\ (HasId(c)' <=> HasId(c))
  BY <1>1 DEF Passed, Admitted, IInv, TypeOK, HasId, Id
<1>6. TypeOK'
  BY <1>1, <1>2 DEF IInv, TypeOK
<1>7. EventInv'
  BY <1>1, <1>5 DEF IInv, EventInv, TypeOK
<1>8. SourceInv'
  <2>1. PICK j \in 1..Len(seen) : seen[j] = k
    BY <1>1, <1>4 DEF Contains
  <2>2. \E c \in Passed : event[c] = k
    BY <2>1 DEF IInv, SourceInv
  <2> QED
    BY <1>1, <1>2, <1>5, <2>2 DEF IInv, SourceInv
<1>9. KeptInv'
  <2> SUFFICES ASSUME NEW c \in Passed, HasId(c), event[c] \notin excused
               PROVE  \A e : e = event[c] => Kept(e)' \/ Cardinality(others'[e]) >= MaxEntries
    BY <1>1, <1>5 DEF KeptInv, Passed
  <2> TAKE e
  <2> SUFFICES ASSUME e = event[c], e # k
               PROVE  Kept(e)' \/ Cardinality(others'[e]) >= MaxEntries
    BY <1>3
  <2>1. e \in Event \ NoId
    BY IdIsEvent DEF IInv, Passed
  <2>2. Kept(e) \/ Cardinality(others[e]) >= MaxEntries
    BY DEF IInv, KeptInv
  <2> QED
    BY <1>2, <2>1, <2>2
<1>10. OnceInv'
  BY <1>1, <1>5 DEF IInv, OnceInv, Admitted, Passed
<1> QED
  BY <1>1, <1>2, <1>6, <1>7, <1>8, <1>9, <1>10 DEF IInv

\* A delivery that does not find its id is excused if another is about to be
\* let through, or if the id has been forgotten since one was.
LEMMA LookUpKeeps == ASSUME IInv, NEW d \in Delivery, LookUp(d) PROVE IInv'
<1>1. /\ pc[d] = "queued" /\ HasId(d) /\ ~Contains(seen, Id(d)) /\ Excuse(d)
      /\ pc' = [pc EXCEPT ![d] = "insert"]
      /\ UNCHANGED <<event, seen, others, restarts>>
  BY DEF LookUp, Goto
<1>2. Id(d) = event[d] /\ event[d] \in Event \ NoId
  BY <1>1, IdIsEvent DEF IInv
<1>3. excused \subseteq excused' /\ excused' \in SUBSET Event
  BY <1>1, <1>2 DEF Excuse, IInv, TypeOK
<1>4. /\ Passed' = Passed /\ Admitted' = Admitted \cup {d} /\ d \notin Admitted
      /\ \A c \in Delivery : HasId(c)' <=> HasId(c)
  BY <1>1 DEF Passed, Admitted, IInv, TypeOK, HasId, Id
<1>5. TypeOK'
  BY <1>1, <1>3 DEF IInv, TypeOK
<1>6. EventInv'
  BY <1>1, <1>2, <1>4 DEF IInv, EventInv, TypeOK
<1>7. SourceInv'
  BY <1>1, <1>4 DEF IInv, SourceInv
<1>8. KeptInv'
  BY <1>1, <1>3, <1>4 DEF IInv, KeptInv, Kept, Passed
<1>9. \A c \in Admitted : event[c] = event[d] => event[d] \in excused'
  <2> SUFFICES ASSUME NEW c \in Admitted, event[c] = event[d]
               PROVE  event[d] \in excused'
    OBVIOUS
  <2>1. CASE pc[c] = "insert"
    BY <2>1, <1>1, <1>2 DEF Excuse, Admitted, Passed
  <2>2. CASE c \in Passed
    <3>1. HasId(c)
      BY <1>1 DEF HasId, Id
    <3>2. event[d] \in excused \/ Kept(event[d]) \/ Cardinality(others[event[d]]) >= MaxEntries
      BY <2>2, <3>1 DEF IInv, KeptInv
    <3>3. ~Kept(event[d])
      BY <1>1, <1>2 DEF Kept, Contains
    <3> QED
      BY <3>2, <3>3, <1>1, <1>3 DEF Excuse
  <2> QED
    BY <2>1, <2>2 DEF Admitted
<1>10. OnceInv'
  <2>1. Admitted \subseteq Delivery
    BY DEF Admitted, Passed
  <2> SUFFICES ASSUME NEW b \in Admitted \cup {d}, NEW c \in Admitted \cup {d},
                      event[b] = event[c], HasId(b), b # c
               PROVE  event[b] \in excused'
    BY <1>1, <1>4, <2>1 DEF OnceInv
  <2>2. CASE b \in Admitted /\ c \in Admitted
    BY <2>2, <1>3 DEF IInv, OnceInv
  <2>3. CASE b = d \/ c = d
    BY <2>3, <1>9
  <2> QED
    BY <2>2, <2>3
<1> QED
  BY <1>1, <1>5, <1>6, <1>7, <1>8, <1>10 DEF IInv

\* An id is put where it is kept, whoever else has put it there meanwhile.
LEMMA InsertKeeps == ASSUME IInv, NEW d \in Delivery, Insert(d) PROVE IInv'
<1>1. /\ pc[d] = "insert" /\ NoteAsked(d)
      /\ seen' = Bounded(Touch(seen, Id(d)))
      /\ pc' = [pc EXCEPT ![d] = pc'[d]] /\ pc'[d] \in {"ignored", "run"}
      /\ UNCHANGED <<event, excused, restarts>>
  BY DEF Insert, LetPass, Goto, IInv, TypeOK
<1>2. HasId(d)
  BY <1>1 DEF IInv, EventInv
<1> DEFINE k == event[d]
<1>3. /\ seen' \in Seq(Event \ NoId) /\ IsInjective(seen') /\ Len(seen') <= MaxEntries
      /\ others' \in [Event -> SUBSET Event]
      /\ \A e \in Event : IsFiniteSet(others'[e])
      /\ \A i \in 1..Len(seen') :
           seen'[i] = k \/ \E j \in 1..Len(seen) : seen'[i] = seen[j]
      /\ \A e \in Event \ NoId :
           e # k /\ (Kept(e) \/ Cardinality(others[e]) >= MaxEntries) =>
             Kept(e)' \/ Cardinality(others'[e]) >= MaxEntries
  BY <1>1, <1>2, Asked
<1>4. \A e : e = k => Kept(e)'
  BY <1>1, <1>2, Asked
<1> HIDE DEF k
<1>5. /\ Passed' = Passed \cup {d} /\ Admitted' = Admitted /\ event[d] = k
      /\ \A c \in Delivery : event'[c] = event[c] /\ (HasId(c)' <=> HasId(c))
  BY <1>1 DEF Passed, Admitted, IInv, TypeOK, HasId, Id, k
<1>6. TypeOK'
  BY <1>1, <1>3 DEF IInv, TypeOK
<1>7. EventInv'
  BY <1>1, <1>5 DEF IInv, EventInv, TypeOK
<1>8. SourceInv'
  BY <1>1, <1>3, <1>5 DEF IInv, SourceInv
<1>9. KeptInv'
  <2> SUFFICES ASSUME NEW c \in Passed \cup {d}, HasId(c), event[c] \notin excused
               PROVE  \A e : e = event[c] => Kept(e)' \/ Cardinality(others'[e]) >= MaxEntries
    BY <1>1, <1>5 DEF KeptInv, Passed
  <2> TAKE e
  <2> SUFFICES ASSUME e = event[c], e # k
               PROVE  Kept(e)' \/ Cardinality(others'[e]) >= MaxEntries
    BY <1>4
  <2>1. c \in Passed
    BY <1>5
  <2>2. e \in Event \ NoId
    BY <2>1, IdIsEvent DEF IInv, Passed
  <2>3. Kept(e) \/ Cardinality(others[e]) >= MaxEntries
    BY <2>1 DEF IInv, KeptInv
  <2> QED
    BY <1>3, <2>2, <2>3
<1>10. OnceInv'
  BY <1>1, <1>5 DEF IInv, OnceInv, Admitted, Passed
<1> QED
  BY <1>1, <1>3, <1>6, <1>7, <1>8, <1>9, <1>10 DEF IInv

\* A run changes nothing the deduper knows.
LEMMA RunGraphKeeps == ASSUME IInv, NEW d \in Delivery, RunGraph(d) PROVE IInv'
<1>1. /\ pc[d] = "run" /\ pc' = [pc EXCEPT ![d] = "over"]
      /\ UNCHANGED <<event, seen, others, excused, restarts>>
  BY DEF RunGraph, Goto, history
<1>2. /\ Passed' = Passed /\ Admitted' = Admitted
      /\ \A c \in Delivery : HasId(c)' <=> HasId(c)
  BY <1>1 DEF Passed, Admitted, IInv, TypeOK, HasId, Id
<1>3. TypeOK'
  BY <1>1 DEF IInv, TypeOK
<1>4. EventInv'
  BY <1>1, <1>2 DEF IInv, EventInv, TypeOK
<1>5. SourceInv' /\ OnceInv'
  BY <1>1, <1>2 DEF IInv, SourceInv, OnceInv, Admitted, Passed
<1>6. KeptInv'
  BY <1>1, <1>2 DEF IInv, KeptInv, Kept, Passed
<1> QED
  BY <1>1, <1>3, <1>4, <1>5, <1>6 DEF IInv

\* A new process has let nothing through, and remembers nothing.
LEMMA RestartKeeps == ASSUME IInv, Restart PROVE IInv'
<1>1. Passed' = {} /\ Admitted' = {}
  BY DEF Restart, Passed, Admitted
<1>2. Len(seen') = 0 /\ seen' \in Seq(Event \ NoId) /\ IsInjective(seen')
  BY EmptySeq DEF Restart, IsInjective
<1>3. TypeOK'
  BY <1>2, BridgeAssumption DEF Restart, IInv, TypeOK
<1>4. EventInv'
  BY DEF Restart, IInv, EventInv
<1>5. SourceInv' /\ KeptInv' /\ OnceInv'
  BY <1>1, <1>2 DEF SourceInv, KeptInv, OnceInv
<1>6. \A e \in Event : IsFiniteSet(others'[e])
  BY FS_EmptySet DEF Restart
<1> QED
  BY <1>3, <1>4, <1>5, <1>6 DEF IInv

\* Each step keeps the invariant.
LEMMA InvNext == IInv /\ [Next]_vars => IInv'
<1> SUFFICES ASSUME IInv, [Next]_vars PROVE IInv'
  OBVIOUS
<1>1. CASE \E d \in Delivery :
             \/ Deliver(d)
             \/ SkipDeduper(d) \/ DropDuplicate(d) \/ LookUp(d) \/ Insert(d)
             \/ RunGraph(d)
  BY <1>1, DeliverKeeps, SkipDeduperKeeps, DropDuplicateKeeps, LookUpKeeps,
     InsertKeeps, RunGraphKeeps
<1>2. CASE Restart
  BY <1>2, RestartKeeps
<1>3. CASE UNCHANGED vars
  BY <1>3 DEF vars, history, IInv, TypeOK, EventInv, SourceInv, KeptInv, Kept, OnceInv,
     Admitted, Passed, HasId, Id
<1> QED
  BY <1>1, <1>2, <1>3 DEF Next

-----------------------------------------------------------------------------
(* The theorems *)

\* The invariant the results below follow from.
THEOREM InvCorrect == Spec => []IInv
BY InvInit, InvNext, PTL DEF Spec

\* The deduper never holds an id twice, an empty one, or more than MaxEntries
\* (EventDeduper, and with the types of the other variables).
THEOREM TypeCorrect == Spec => []TypeOK
<1>1. IInv => TypeOK
  BY DEF IInv
<1> QED
  BY <1>1, InvCorrect, PTL

\* A process runs the pipeline twice for one id only if two threads asked for it
\* at once or MaxEntries other ids had come since (is_duplicate).
THEOREM RunsOnce == Spec => []RunsOnceUnlessExcused
<1>1. IInv => RunsOnceUnlessExcused
  BY DEF IInv, OnceInv, RunsOnceUnlessExcused, Ran, Passed, Admitted
<1> QED
  BY <1>1, InvCorrect, PTL

\* What is dropped has a twin the same process let through (is_duplicate).
THEOREM OnlyTwinsDropped == Spec => DropsOnlyTwins
<1>1. IInv /\ [Next]_vars =>
        [\A d \in Delivery : pc[d] # "deduped" /\ pc'[d] = "deduped" =>
           \E c \in Passed : event[c] = event[d]]_vars
  <2> SUFFICES ASSUME IInv, Next, NEW d \in Delivery,
                      pc[d] # "deduped", pc'[d] = "deduped"
               PROVE  \E c \in Passed : event[c] = event[d]
    OBVIOUS
  <2>1. DropDuplicate(d)
    BY DEF Next, IInv, TypeOK, Goto, LetPass, Deliver, SkipDeduper, DropDuplicate,
           LookUp, Insert, RunGraph, Restart
  <2>2. Contains(seen, event[d])
    BY <2>1, IdIsEvent DEF DropDuplicate, IInv
  <2> QED
    BY <2>2 DEF Contains, IInv, SourceInv
<1> QED
  BY <1>1, InvCorrect, PTL DEF Spec, DropsOnlyTwins

=============================================================================
