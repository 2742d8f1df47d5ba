--------------------------- MODULE RagStore_proofs ---------------------------
(***************************************************************************)
(* Proofs about RagStore, for any requests, bodies and number of restarts. *)
(*                                                                         *)
(* What a query copied under the lock is whole because the lock is held by *)
(* exactly the request that is adding (LockInv), so that nobody else       *)
(* appends and nobody copies meanwhile; and because a request that has     *)
(* left add_chunks without an error has stored all it was given            *)
(* (StagesInv), which is what the requests answered before a query did.    *)
(*                                                                         *)
(* An answer is the expansion of its hits in what was copied (AnswerInv).  *)
(* That the expansion finds what is within reach is about a recursive      *)
(* function of the hops: the least number of hops at which it were wrong   *)
(* (LeastNat) could neither be 0 nor follow one at which it is right.      *)
(***************************************************************************)
EXTENDS RagStore, FiniteSetTheorems, WellFoundedInduction, TLAPS

\* The lock is held by the request that is adding, and by nobody else.
LockInv == \A r \in Request : pc[r] = "adding" <=> lock = r

\* A handler only carries a body of its own kind.
BodyInv ==
  \A r \in Request :
    /\ pc[r] \in {"check", "items", "adding", "entities"} =>
         body[r] \in Body /\ body[r].kind = "embed"
    /\ pc[r] = "rels" => body[r] \in Body /\ body[r].kind # "query"
    /\ pc[r] \in {"vector", "snapshot", "rank"} =>
         body[r] \in Body /\ body[r].kind = "query"
    /\ pc[r] \in {"done", "failed", "refused"} => body[r] \in Body

\* A chunk was brought by an embed request that has been in add_chunks.
ChunksInv ==
  \A c \in chunks :
    /\ body[c[1]] \in Body /\ body[c[1]].kind = "embed"
    /\ pc[c[1]] \in {"adding", "entities", "rels", "done", "failed"}
    /\ c[2] \in 1..Len(body[c[1]].items)

\* A request that is adding has added the first k of its items.
PrefixInv ==
  \A r \in Request : pc[r] = "adding" =>
    \E k \in Nat : k < Len(body[r].items) /\ ChunksOf(r) = {r} \X (1..k)

\* What a handler has behind it is in the store.
StagesInv ==
  \A r \in Request :
    /\ pc[r] \in {"entities", "rels", "done"} /\ body[r].kind = "embed" =>
         Given(r) \subseteq chunks
    /\ pc[r] \in {"rels", "done"} /\ body[r].kind = "embed" =>
         \A e \in body[r].entities : <<body[r].scope, e>> \in entities
    /\ pc[r] = "done" /\ body[r].kind # "query" => body[r].rels \subseteq edges

\* Who has been answered is done, and a query only waited for such.
HistoryInv ==
  /\ \A r \in answered : pc[r] = "done" /\ body[r].kind # "query"
  /\ \A q \in Request : before[q] \subseteq answered

\* A query's copy is of the store, and holds what had been answered before it.
SeenInv ==
  /\ \A q \in Request : seen[q].chunks \subseteq chunks
  /\ \A q \in Request : pc[q] \in {"rank", "done"} /\ body[q].kind = "query" =>
       \A r \in before[q] : body[r].scope = body[q].scope =>
         /\ body[r].kind = "embed" => Given(r) \subseteq seen[q].chunks
         /\ body[r].rels \subseteq seen[q].edges

\* What expanding hits gives in the edges that q copied.
RelatedTo(q, hits) ==
  UNION {Neighbors(Links(seen[q].edges, body[q].scope, body[q].types), s, body[q].hops) :
           s \in Seeds(hits)}

\* A query's answer is made of what it copied, for its hits as they still stand.
AnswerInv ==
  \A q \in Queried :
    /\ answer[q].hits \subseteq seen[q].chunks
    /\ body[q].expand => answer[q].related = RelatedTo(q, answer[q].hits)

IInv ==
  /\ TypeOK
  /\ LockInv /\ BodyInv /\ ChunksInv /\ PrefixInv
  /\ StagesInv /\ HistoryInv /\ SeenInv
  /\ SeesWholeBatches /\ AnswerInv

-----------------------------------------------------------------------------

\* What a body holds, by its kind.
LEMMA BodyFields ==
  ASSUME NEW b \in Body
  PROVE  /\ b.kind \in {"embed", "relate", "query"} /\ b.scope \in Scope
         /\ b.kind = "embed" => /\ b.items \in Seq(Entity \cup {NoEntity})
                                /\ Len(b.items) \in Nat
                                /\ b.entities \subseteq Entity
         /\ b.kind # "query" => b.rels \subseteq Edge
         /\ b.kind = "query" => b.types \subseteq Type /\ b.hops \in Nat
<1>1. b \in EmbedBody \/ b \in RelateBody \/ b \in QueryBody
  BY BodyAssumption
<1>2. CASE b \in EmbedBody
  BY <1>2 DEF EmbedBody
<1>3. CASE b \in RelateBody
  BY <1>3 DEF RelateBody
<1>4. CASE b \in QueryBody
  BY <1>4 DEF QueryBody
<1> QED
  BY <1>1, <1>2, <1>3, <1>4

\* The number of chunks a request has added is where its next one goes.
LEMMA PrefixSize ==
  ASSUME NEW r, NEW k \in Nat
  PROVE  Cardinality({r} \X (1..k)) = k
<1>1. IsFiniteSet({r}) /\ Cardinality({r}) = 1
  BY FS_Singleton
<1>2. IsFiniteSet(1..k) /\ Cardinality(1..k) = k
  BY FS_Interval
<1>3. Cardinality({r} \X (1..k)) = Cardinality({r}) * Cardinality(1..k)
  BY <1>1, <1>2, FS_Product
<1> QED
  BY <1>1, <1>2, <1>3

\* AddChunk stores the item after those stored before, and goes on exactly when
\* that was the last one.
LEMMA NextChunk ==
  ASSUME IInv, NEW r \in Request, AddChunk(r)
  PROVE  \E k \in Nat :
           /\ k < Len(body[r].items) /\ Len(body[r].items) \in Nat
           /\ ChunksOf(r) = {r} \X (1..k)
           /\ chunks' = chunks \cup {<<r, k + 1>>}
           /\ IF k + 1 = Len(body[r].items)
              THEN lock' = NoOne /\ pc' = [pc EXCEPT ![r] = "entities"]
              ELSE lock' = lock /\ pc' = [pc EXCEPT ![r] = "adding"]
<1>1. pc[r] = "adding"
  BY DEF AddChunk
<1>2. PICK k \in Nat : k < Len(body[r].items) /\ ChunksOf(r) = {r} \X (1..k)
  BY <1>1 DEF IInv, PrefixInv
<1>3. Len(body[r].items) \in Nat
  BY <1>1, BodyFields DEF IInv, BodyInv
<1>4. Cardinality(ChunksOf(r)) = k
  BY <1>2, PrefixSize
<1> QED
  BY <1>2, <1>3, <1>4 DEF AddChunk, Goto

-----------------------------------------------------------------------------
(* Type correctness *)

\* The store starts empty.
LEMMA TypeInit == Init => TypeOK
BY BodyAssumption DEF Init, TypeOK, Nothing, NoAnswer, Chunk

\* What handlers store has the types of what a body holds.
LEMMA TypeNext == IInv /\ [Next]_vars => TypeOK'
<1> SUFFICES ASSUME IInv, [Next]_vars PROVE TypeOK'
  OBVIOUS
<1> USE DEF IInv, TypeOK, Goto, store, query, history
<1>1. ASSUME NEW r \in Request, Arrive(r) PROVE TypeOK'
  <2>1. PICK b \in Body :
          /\ body' = [body EXCEPT ![r] = b]
          /\ Goto(r, CASE b.kind = "embed" -> "check"
                       [] b.kind = "relate" -> "rels"
                       [] b.kind = "query" -> "vector")
    BY <1>1 DEF Arrive
  <2> QED
    BY <1>1, <2>1, BodyFields DEF Arrive
<1>2. ASSUME NEW r \in Request, Check(r) PROVE TypeOK'
  BY <1>2 DEF Check
<1>3. ASSUME NEW r \in Request, LockItems(r) PROVE TypeOK'
  BY <1>3 DEF LockItems
<1>4. ASSUME NEW r \in Request, AddChunk(r) PROVE TypeOK'
  <2>1. PICK k \in Nat :
          /\ chunks' = chunks \cup {<<r, k + 1>>}
          /\ \/ lock' = NoOne /\ pc' = [pc EXCEPT ![r] = "entities"]
             \/ lock' = lock /\ pc' = [pc EXCEPT ![r] = "adding"]
    BY <1>4, NextChunk
  <2>2. chunks' \subseteq Chunk
    BY <2>1 DEF Chunk
  <2> QED
    BY <1>4, <2>1, <2>2 DEF AddChunk
<1>5. ASSUME NEW r \in Request, EmbedFails(r) PROVE TypeOK'
  BY <1>5 DEF EmbedFails
<1>6. ASSUME NEW r \in Request, UpsertEntities(r) PROVE TypeOK'
  <2>1. body[r].entities \subseteq Entity /\ body[r].scope \in Scope
    BY <1>6, BodyFields DEF UpsertEntities, BodyInv
  <2> QED
    BY <1>6, <2>1 DEF UpsertEntities
<1>7. ASSUME NEW r \in Request, AddRelationships(r) PROVE TypeOK'
  <2>1. body[r].rels \subseteq Edge
    BY <1>7, BodyFields DEF AddRelationships, BodyInv
  <2> QED
    BY <1>7, <2>1 DEF AddRelationships
<1>8. ASSUME NEW r \in Request, EmbedQuery(r) PROVE TypeOK'
  BY <1>8 DEF EmbedQuery
<1>9. ASSUME NEW r \in Request, Snapshot(r) PROVE TypeOK'
  BY <1>9 DEF Snapshot
<1>10. ASSUME NEW r \in Request, Answer(r) PROVE TypeOK'
  <2> DEFINE L == Links(seen[r].edges, body[r].scope, body[r].types)
  <2>1. PICK hits \in SUBSET seen[r].chunks :
          answer' = [answer EXCEPT ![r] =
            [hits |-> hits,
             related |-> IF body[r].expand
                         THEN UNION {Neighbors(L, s, body[r].hops) : s \in Seeds(hits)}
                         ELSE {}]]
    BY <1>10 DEF Answer
  <2>2. L \subseteq Entity \X Entity \X Type
    BY DEF Links, Edge
  <2>3. ASSUME NEW s PROVE Neighbors(L, s, body[r].hops) \subseteq L
    BY DEF Neighbors, From
  <2>4. UNION {Neighbors(L, s, body[r].hops) : s \in Seeds(hits)}
          \subseteq Entity \X Entity \X Type
    BY <2>2, <2>3
  <2> HIDE DEF L
  <2> QED
    BY <1>10, <2>1, <2>4 DEF Answer
<1>11. ASSUME Restart PROVE TypeOK'
  BY <1>11, BodyAssumption DEF Restart, Nothing, NoAnswer
<1>12. CASE UNCHANGED vars
  BY <1>12 DEF vars
<1> QED
  BY <1>1, <1>2, <1>3, <1>4, <1>5, <1>6, <1>7, <1>8, <1>9, <1>10, <1>11, <1>12 DEF Next

-----------------------------------------------------------------------------
(* The parts of the invariant *)

\* Nobody enters add_chunks before the one in it has left.
LEMMA LockNext == IInv /\ [Next]_vars => LockInv'
<1> SUFFICES ASSUME IInv, [Next]_vars PROVE LockInv'
  OBVIOUS
<1> USE DEF IInv, TypeOK, Goto, store, query, history, LockInv, BodyInv, Free
<1>1. ASSUME NEW r \in Request, Arrive(r) PROVE LockInv'
  <2>1. PICK b \in Body :
          /\ body' = [body EXCEPT ![r] = b]
          /\ Goto(r, CASE b.kind = "embed" -> "check"
                       [] b.kind = "relate" -> "rels"
                       [] b.kind = "query" -> "vector")
    BY <1>1 DEF Arrive
  <2> QED
    BY <1>1, <2>1, BodyFields DEF Arrive
<1>2. ASSUME NEW r \in Request, Check(r) PROVE LockInv'
  BY <1>2 DEF Check
<1>3. ASSUME NEW r \in Request, LockItems(r) PROVE LockInv'
  BY <1>3, BodyAssumption DEF LockItems
<1>4. ASSUME NEW r \in Request, AddChunk(r) PROVE LockInv'
  <2>1. PICK k \in Nat :
          /\ k < Len(body[r].items) /\ Len(body[r].items) \in Nat
          /\ ChunksOf(r) = {r} \X (1..k)
          /\ chunks' = chunks \cup {<<r, k + 1>>}
          /\ IF k + 1 = Len(body[r].items)
             THEN lock' = NoOne /\ pc' = [pc EXCEPT ![r] = "entities"]
             ELSE lock' = lock /\ pc' = [pc EXCEPT ![r] = "adding"]
    BY <1>4, NextChunk
  <2> QED
    BY <1>4, <2>1, BodyAssumption DEF AddChunk
<1>5. ASSUME NEW r \in Request, EmbedFails(r) PROVE LockInv'
  BY <1>5, BodyAssumption DEF EmbedFails
<1>6. ASSUME NEW r \in Request, UpsertEntities(r) PROVE LockInv'
  BY <1>6 DEF UpsertEntities
<1>7. ASSUME NEW r \in Request, AddRelationships(r) PROVE LockInv'
  BY <1>7 DEF AddRelationships
<1>8. ASSUME NEW r \in Request, EmbedQuery(r) PROVE LockInv'
  BY <1>8 DEF EmbedQuery
<1>9. ASSUME NEW r \in Request, Snapshot(r) PROVE LockInv'
  BY <1>9 DEF Snapshot
<1>10. ASSUME NEW r \in Request, Answer(r) PROVE LockInv'
  BY <1>10 DEF Answer
<1>11. ASSUME Restart PROVE LockInv'
  BY <1>11, BodyAssumption DEF Restart, Nothing
<1>12. CASE UNCHANGED vars
  BY <1>12 DEF vars
<1> QED
  BY <1>1, <1>2, <1>3, <1>4, <1>5, <1>6, <1>7, <1>8, <1>9, <1>10, <1>11, <1>12 DEF Next

\* Each stage is reached with a body of its kind.
LEMMA BodyNext == IInv /\ [Next]_vars => BodyInv'
<1> SUFFICES ASSUME IInv, [Next]_vars PROVE BodyInv'
  OBVIOUS
<1> USE DEF IInv, TypeOK, Goto, store, query, history, BodyInv
<1>1. ASSUME NEW r \in Request, Arrive(r) PROVE BodyInv'
  <2>1. PICK b \in Body :
          /\ body' = [body EXCEPT ![r] = b]
          /\ Goto(r, CASE b.kind = "embed" -> "check"
                       [] b.kind = "relate" -> "rels"
                       [] b.kind = "query" -> "vector")
    BY <1>1 DEF Arrive
  <2> QED
    BY <1>1, <2>1, BodyFields DEF Arrive
<1>2. ASSUME NEW r \in Request, Check(r) PROVE BodyInv'
  BY <1>2 DEF Check
<1>3. ASSUME NEW r \in Request, LockItems(r) PROVE BodyInv'
  BY <1>3 DEF LockItems
<1>4. ASSUME NEW r \in Request, AddChunk(r) PROVE BodyInv'
  BY <1>4 DEF AddChunk
<1>5. ASSUME NEW r \in Request, EmbedFails(r) PROVE BodyInv'
  BY <1>5 DEF EmbedFails
<1>6. ASSUME NEW r \in Request, UpsertEntities(r) PROVE BodyInv'
  BY <1>6 DEF UpsertEntities
<1>7. ASSUME NEW r \in Request, AddRelationships(r) PROVE BodyInv'
  BY <1>7 DEF AddRelationships
<1>8. ASSUME NEW r \in Request, EmbedQuery(r) PROVE BodyInv'
  BY <1>8 DEF EmbedQuery
<1>9. ASSUME NEW r \in Request, Snapshot(r) PROVE BodyInv'
  BY <1>9 DEF Snapshot
<1>10. ASSUME NEW r \in Request, Answer(r) PROVE BodyInv'
  BY <1>10 DEF Answer
<1>11. ASSUME Restart PROVE BodyInv'
  BY <1>11 DEF Restart, Nothing
<1>12. CASE UNCHANGED vars
  BY <1>12 DEF vars
<1> QED
  BY <1>1, <1>2, <1>3, <1>4, <1>5, <1>6, <1>7, <1>8, <1>9, <1>10, <1>11, <1>12 DEF Next

\* A chunk's request does not go back before add_chunks.
LEMMA ChunksNext == IInv /\ [Next]_vars => ChunksInv'
<1> SUFFICES ASSUME IInv, [Next]_vars PROVE ChunksInv'
  OBVIOUS
<1> USE DEF IInv, TypeOK, Goto, store, query, history, BodyInv, ChunksInv, Chunk
<1>1. ASSUME NEW r \in Request, Arrive(r) PROVE ChunksInv'
  <2>1. PICK b \in Body :
          /\ body' = [body EXCEPT ![r] = b]
          /\ Goto(r, CASE b.kind = "embed" -> "check"
                       [] b.kind = "relate" -> "rels"
                       [] b.kind = "query" -> "vector")
    BY <1>1 DEF Arrive
  <2> QED
    BY <1>1, <2>1, BodyFields DEF Arrive
<1>2. ASSUME NEW r \in Request, Check(r) PROVE ChunksInv'
  BY <1>2 DEF Check
<1>3. ASSUME NEW r \in Request, LockItems(r) PROVE ChunksInv'
  BY <1>3 DEF LockItems
<1>4. ASSUME NEW r \in Request, AddChunk(r) PROVE ChunksInv'
  <2>1. PICK k \in Nat :
          /\ k < Len(body[r].items) /\ Len(body[r].items) \in Nat
          /\ ChunksOf(r) = {r} \X (1..k)
          /\ chunks' = chunks \cup {<<r, k + 1>>}
          /\ IF k + 1 = Len(body[r].items)
             THEN lock' = NoOne /\ pc' = [pc EXCEPT ![r] = "entities"]
             ELSE lock' = lock /\ pc' = [pc EXCEPT ![r] = "adding"]
    BY <1>4, NextChunk
  <2> QED
    BY <1>4, <2>1 DEF AddChunk
<1>5. ASSUME NEW r \in Request, EmbedFails(r) PROVE ChunksInv'
  BY <1>5 DEF EmbedFails
<1>6. ASSUME NEW r \in Request, UpsertEntities(r) PROVE ChunksInv'
  BY <1>6 DEF UpsertEntities
<1>7. ASSUME NEW r \in Request, AddRelationships(r) PROVE ChunksInv'
  BY <1>7 DEF AddRelationships
<1>8. ASSUME NEW r \in Request, EmbedQuery(r) PROVE ChunksInv'
  BY <1>8 DEF EmbedQuery
<1>9. ASSUME NEW r \in Request, Snapshot(r) PROVE ChunksInv'
  BY <1>9 DEF Snapshot
<1>10. ASSUME NEW r \in Request, Answer(r) PROVE ChunksInv'
  BY <1>10 DEF Answer
<1>11. ASSUME Restart PROVE ChunksInv'
  BY <1>11 DEF Restart, Nothing
<1>12. CASE UNCHANGED vars
  BY <1>12 DEF vars
<1> QED
  BY <1>1, <1>2, <1>3, <1>4, <1>5, <1>6, <1>7, <1>8, <1>9, <1>10, <1>11, <1>12 DEF Next

\* The store only grows, and each stage adds its share.
LEMMA StagesNext == IInv /\ [Next]_vars => StagesInv'
<1> SUFFICES ASSUME IInv, [Next]_vars PROVE StagesInv'
  OBVIOUS
<1> USE DEF IInv, TypeOK, Goto, store, query, history, BodyInv, StagesInv, Given
<1>1. ASSUME NEW r \in Request, Arrive(r) PROVE StagesInv'
  <2>1. PICK b \in Body :
          /\ body' = [body EXCEPT ![r] = b]
          /\ Goto(r, CASE b.kind = "embed" -> "check"
                       [] b.kind = "relate" -> "rels"
                       [] b.kind = "query" -> "vector")
    BY <1>1 DEF Arrive
  <2> QED
    BY <1>1, <2>1, BodyFields DEF Arrive
<1>2. ASSUME NEW r \in Request, Check(r) PROVE StagesInv'
  BY <1>2 DEF Check
<1>3. ASSUME NEW r \in Request, LockItems(r) PROVE StagesInv'
  BY <1>3 DEF LockItems
<1>4. ASSUME NEW r \in Request, AddChunk(r) PROVE StagesInv'
  <2>1. PICK k \in Nat :
          /\ k < Len(body[r].items) /\ Len(body[r].items) \in Nat
          /\ ChunksOf(r) = {r} \X (1..k)
          /\ chunks' = chunks \cup {<<r, k + 1>>}
          /\ IF k + 1 = Len(body[r].items)
             THEN lock' = NoOne /\ pc' = [pc EXCEPT ![r] = "entities"]
             ELSE lock' = lock /\ pc' = [pc EXCEPT ![r] = "adding"]
    BY <1>4, NextChunk
  <2>2. k + 1 = Len(body[r].items) => Given(r) \subseteq chunks'
    <3> SUFFICES ASSUME k + 1 = Len(body[r].items), NEW i \in 1..(k + 1)
                 PROVE  <<r, i>> \in chunks'
      OBVIOUS
    <3>1. CASE i = k + 1
      BY <2>1, <3>1
    <3>2. CASE i \in 1..k
      BY <2>1, <3>2 DEF ChunksOf
    <3> QED
      BY <3>1, <3>2
  <2>3. pc'[r] \notin {"rels", "done"}
    BY <2>1
  <2> QED
    BY <1>4, <2>1, <2>2, <2>3, ZenonT(60) DEF AddChunk
<1>5. ASSUME NEW r \in Request, EmbedFails(r) PROVE StagesInv'
  BY <1>5 DEF EmbedFails
<1>6. ASSUME NEW r \in Request, UpsertEntities(r) PROVE StagesInv'
  BY <1>6 DEF UpsertEntities
<1>7. ASSUME NEW r \in Request, AddRelationships(r) PROVE StagesInv'
  BY <1>7 DEF AddRelationships
<1>8. ASSUME NEW r \in Request, EmbedQuery(r) PROVE StagesInv'
  BY <1>8 DEF EmbedQuery
<1>9. ASSUME NEW r \in Request, Snapshot(r) PROVE StagesInv'
  BY <1>9 DEF Snapshot
<1>10. ASSUME NEW r \in Request, Answer(r) PROVE StagesInv'
  BY <1>10 DEF Answer
<1>11. ASSUME Restart PROVE StagesInv'
  BY <1>11 DEF Restart, Nothing
<1>12. CASE UNCHANGED vars
  BY <1>12 DEF vars
<1> QED
  BY <1>1, <1>2, <1>3, <1>4, <1>5, <1>6, <1>7, <1>8, <1>9, <1>10, <1>11, <1>12 DEF Next

\* Who is done stays done.
LEMMA HistoryNext == IInv /\ [Next]_vars => HistoryInv'
<1> SUFFICES ASSUME IInv, [Next]_vars PROVE HistoryInv'
  OBVIOUS
<1> USE DEF IInv, TypeOK, Goto, store, query, history, BodyInv, HistoryInv
<1>1. ASSUME NEW r \in Request, Arrive(r) PROVE HistoryInv'
  <2>1. PICK b \in Body :
          /\ body' = [body EXCEPT ![r] = b]
          /\ Goto(r, CASE b.kind = "embed" -> "check"
                       [] b.kind = "relate" -> "rels"
                       [] b.kind = "query" -> "vector")
    BY <1>1 DEF Arrive
  <2> QED
    BY <1>1, <2>1, BodyFields DEF Arrive
<1>2. ASSUME NEW r \in Request, Check(r) PROVE HistoryInv'
  BY <1>2 DEF Check
<1>3. ASSUME NEW r \in Request, LockItems(r) PROVE HistoryInv'
  BY <1>3 DEF LockItems
<1>4. ASSUME NEW r \in Request, AddChunk(r) PROVE HistoryInv'
  BY <1>4 DEF AddChunk
<1>5. ASSUME NEW r \in Request, EmbedFails(r) PROVE HistoryInv'
  BY <1>5 DEF EmbedFails
<1>6. ASSUME NEW r \in Request, UpsertEntities(r) PROVE HistoryInv'
  BY <1>6 DEF UpsertEntities
<1>7. ASSUME NEW r \in Request, AddRelationships(r) PROVE HistoryInv'
  BY <1>7 DEF AddRelationships
<1>8. ASSUME NEW r \in Request, EmbedQuery(r) PROVE HistoryInv'
  BY <1>8 DEF EmbedQuery
<1>9. ASSUME NEW r \in Request, Snapshot(r) PROVE HistoryInv'
  BY <1>9 DEF Snapshot
<1>10. ASSUME NEW r \in Request, Answer(r) PROVE HistoryInv'
  BY <1>10 DEF Answer
<1>11. ASSUME Restart PROVE HistoryInv'
  BY <1>11 DEF Restart, Nothing
<1>12. CASE UNCHANGED vars
  BY <1>12 DEF vars
<1> QED
  BY <1>1, <1>2, <1>3, <1>4, <1>5, <1>6, <1>7, <1>8, <1>9, <1>10, <1>11, <1>12 DEF Next

\* A query that copies gets what the answered ones stored.
LEMMA SeenNext == IInv /\ [Next]_vars => SeenInv'
<1> SUFFICES ASSUME IInv, [Next]_vars PROVE SeenInv'
  OBVIOUS
<1> USE DEF IInv, TypeOK, Goto, store, query, history, BodyInv, HistoryInv, StagesInv,
           SeenInv, Given, Chunk
<1>1. ASSUME NEW r \in Request, Arrive(r) PROVE SeenInv'
  <2>1. PICK b \in Body :
          /\ body' = [body EXCEPT ![r] = b]
          /\ Goto(r, CASE b.kind = "embed" -> "check"
                       [] b.kind = "relate" -> "rels"
                       [] b.kind = "query" -> "vector")
    BY <1>1 DEF Arrive
  <2> QED
    BY <1>1, <2>1, BodyFields DEF Arrive
<1>2. ASSUME NEW r \in Request, Check(r) PROVE SeenInv'
  BY <1>2 DEF Check
<1>3. ASSUME NEW r \in Request, LockItems(r) PROVE SeenInv'
  BY <1>3, ZenonT(60) DEF LockItems
<1>4. ASSUME NEW r \in Request, AddChunk(r) PROVE SeenInv'
  BY <1>4 DEF AddChunk
<1>5. ASSUME NEW r \in Request, EmbedFails(r) PROVE SeenInv'
  BY <1>5 DEF EmbedFails
<1>6. ASSUME NEW r \in Request, UpsertEntities(r) PROVE SeenInv'
  BY <1>6 DEF UpsertEntities
<1>7. ASSUME NEW r \in Request, AddRelationships(r) PROVE SeenInv'
  BY <1>7 DEF AddRelationships
<1>8. ASSUME NEW r \in Request, EmbedQuery(r) PROVE SeenInv'
  BY <1>8 DEF EmbedQuery
<1>9. ASSUME NEW r \in Request, Snapshot(r) PROVE SeenInv'
  <2>1. /\ seen'[r].chunks = {c \in chunks : ScopeOf(c) = body[r].scope}
        /\ seen'[r].edges = edges
        /\ \A q \in Request \ {r} : seen'[q] = seen[q] /\ pc'[q] = pc[q]
        /\ UNCHANGED <<body, chunks, answered, before>>
    BY <1>9 DEF Snapshot
  <2>2. ASSUME NEW x \in before[r], body[x].scope = body[r].scope
        PROVE  /\ body[x].kind = "embed" => Given(x) \subseteq seen'[r].chunks
               /\ body[x].rels \subseteq seen'[r].edges
    <3>1. x \in Request /\ pc[x] = "done" /\ body[x].kind # "query"
      OBVIOUS
    <3>2. body[x].rels \subseteq edges
      BY <3>1
    <3>3. body[x].kind = "embed" => Given(x) \subseteq chunks
      BY <3>1
    <3>4. \A c \in Given(x) : ScopeOf(c) = body[r].scope
      BY <2>2 DEF ScopeOf
    <3> QED
      BY <2>1, <3>2, <3>3, <3>4
  <2>3. SeenInv!1'
    BY <2>1
  <2>4. SeenInv!2'
    <3> SUFFICES ASSUME NEW q \in Request, pc'[q] \in {"rank", "done"},
                        body[q].kind = "query", NEW x \in before[q],
                        body[x].scope = body[q].scope
                 PROVE  /\ body[x].kind = "embed" => Given(x) \subseteq seen'[q].chunks
                        /\ body[x].rels \subseteq seen'[q].edges
      BY <2>1
    <3>1. CASE q = r
      BY <2>2, <3>1
    <3>2. CASE q # r
      BY <2>1, <3>2
    <3> QED
      BY <3>1, <3>2
  <2> QED
    BY <2>3, <2>4
<1>10. ASSUME NEW r \in Request, Answer(r) PROVE SeenInv'
  BY <1>10 DEF Answer
<1>11. ASSUME Restart PROVE SeenInv'
  BY <1>11 DEF Restart, Nothing
<1>12. CASE UNCHANGED vars
  BY <1>12 DEF vars
<1> QED
  BY <1>1, <1>2, <1>3, <1>4, <1>5, <1>6, <1>7, <1>8, <1>9, <1>10, <1>11, <1>12 DEF Next

\* Items are stored in their order.
LEMMA PrefixNext == IInv /\ [Next]_vars => PrefixInv'
<1> SUFFICES ASSUME IInv, [Next]_vars PROVE PrefixInv'
  OBVIOUS
<1> USE DEF IInv, TypeOK, Goto, store, query, history, BodyInv, ChunksInv, PrefixInv, ChunksOf
<1>1. ASSUME NEW r \in Request, Arrive(r) PROVE PrefixInv'
  <2>1. PICK b \in Body :
          /\ body' = [body EXCEPT ![r] = b]
          /\ Goto(r, CASE b.kind = "embed" -> "check"
                       [] b.kind = "relate" -> "rels"
                       [] b.kind = "query" -> "vector")
    BY <1>1 DEF Arrive
  <2> QED
    BY <1>1, <2>1, BodyFields DEF Arrive
<1>2. ASSUME NEW r \in Request, Check(r) PROVE PrefixInv'
  BY <1>2 DEF Check
<1>3. ASSUME NEW r \in Request, LockItems(r) PROVE PrefixInv'
  <2>1. CASE body[r].items = <<>>
    BY <1>3, <2>1 DEF LockItems
  <2>2. CASE body[r].items # <<>>
    <3>1. pc' = [pc EXCEPT ![r] = "adding"] /\ UNCHANGED <<body, chunks>>
      BY <1>3, <2>2 DEF LockItems
    <3>2. 0 < Len(body[r].items)
      BY <1>3, <2>2, BodyFields DEF LockItems
    <3>3. ChunksOf(r) = {}
      BY <1>3 DEF LockItems
    <3>4. {r} \X (1..0) = {}
      OBVIOUS
    <3> SUFFICES ASSUME NEW x \in Request, pc'[x] = "adding"
                 PROVE  \E k \in Nat : /\ k < Len(body[x].items)
                                       /\ ChunksOf(x) = {x} \X (1..k)
      BY <3>1
    <3>5. CASE x = r
      BY <3>2, <3>3, <3>4, <3>5, ZenonT(60)
    <3>6. CASE x # r
      BY <3>1, <3>6
    <3> QED
      BY <3>5, <3>6
  <2> QED
    BY <2>1, <2>2
<1>4. ASSUME NEW r \in Request, AddChunk(r) PROVE PrefixInv'
  <2>1. PICK k \in Nat :
          /\ k < Len(body[r].items) /\ Len(body[r].items) \in Nat
          /\ ChunksOf(r) = {r} \X (1..k)
          /\ chunks' = chunks \cup {<<r, k + 1>>}
          /\ IF k + 1 = Len(body[r].items)
             THEN lock' = NoOne /\ pc' = [pc EXCEPT ![r] = "entities"]
             ELSE lock' = lock /\ pc' = [pc EXCEPT ![r] = "adding"]
    BY <1>4, NextChunk
  <2>2. {r} \X (1..(k + 1)) = {r} \X (1..k) \cup {<<r, k + 1>>}
    <3>1. 1..(k + 1) = 1..k \cup {k + 1}
      OBVIOUS
    <3> QED
      BY <3>1
  <2>3. {c \in chunks' : c[1] = r} = {r} \X (1..(k + 1))
    BY <2>1, <2>2
  <2>4. \A x \in Request \ {r} : {c \in chunks' : c[1] = x} = ChunksOf(x)
    BY <2>1
  <2>5. k + 1 # Len(body[r].items) => k + 1 < Len(body[r].items)
    BY <2>1
  <2>6. UNCHANGED body
    BY <1>4 DEF AddChunk
  <2> SUFFICES ASSUME NEW x \in Request, pc'[x] = "adding"
               PROVE  \E n \in Nat : /\ n < Len(body[x].items)
                                     /\ {c \in chunks' : c[1] = x} = {x} \X (1..n)
    BY <2>6
  <2>7. CASE x = r
    <3>1. k + 1 # Len(body[r].items)
      BY <2>1, <2>7
    <3> QED
      BY <2>3, <2>5, <2>7, <3>1
  <2>8. CASE x # r
    <3>1. pc[x] = "adding"
      BY <2>1, <2>8
    <3> QED
      BY <2>4, <2>8, <3>1
  <2> QED
    BY <2>7, <2>8
<1>5. ASSUME NEW r \in Request, EmbedFails(r) PROVE PrefixInv'
  BY <1>5 DEF EmbedFails
<1>6. ASSUME NEW r \in Request, UpsertEntities(r) PROVE PrefixInv'
  BY <1>6 DEF UpsertEntities
<1>7. ASSUME NEW r \in Request, AddRelationships(r) PROVE PrefixInv'
  BY <1>7 DEF AddRelationships
<1>8. ASSUME NEW r \in Request, EmbedQuery(r) PROVE PrefixInv'
  BY <1>8 DEF EmbedQuery
<1>9. ASSUME NEW r \in Request, Snapshot(r) PROVE PrefixInv'
  BY <1>9 DEF Snapshot
<1>10. ASSUME NEW r \in Request, Answer(r) PROVE PrefixInv'
  BY <1>10 DEF Answer
<1>11. ASSUME Restart PROVE PrefixInv'
  BY <1>11 DEF Restart, Nothing
<1>12. CASE UNCHANGED vars
  BY <1>12 DEF vars
<1> QED
  BY <1>1, <1>2, <1>3, <1>4, <1>5, <1>6, <1>7, <1>8, <1>9, <1>10, <1>11, <1>12 DEF Next

\* Nobody adds to a batch that somebody has copied.
LEMMA WholeNext == IInv /\ [Next]_vars => SeesWholeBatches'
<1> SUFFICES ASSUME IInv, [Next]_vars PROVE SeesWholeBatches'
  OBVIOUS
<1> USE DEF IInv, TypeOK, Goto, store, query, history, LockInv, BodyInv, ChunksInv,
           SeenInv, SeesWholeBatches, ChunksOf, Free, Chunk
<1>1. ASSUME NEW r \in Request, Arrive(r) PROVE SeesWholeBatches'
  <2>1. PICK b \in Body :
          /\ body' = [body EXCEPT ![r] = b]
          /\ Goto(r, CASE b.kind = "embed" -> "check"
                       [] b.kind = "relate" -> "rels"
                       [] b.kind = "query" -> "vector")
    BY <1>1 DEF Arrive
  <2> QED
    BY <1>1, <2>1, BodyFields DEF Arrive
<1>2. ASSUME NEW r \in Request, Check(r) PROVE SeesWholeBatches'
  BY <1>2 DEF Check
<1>3. ASSUME NEW r \in Request, LockItems(r) PROVE SeesWholeBatches'
  <2> SUFFICES ASSUME NEW q \in Request, NEW c \in seen[q].chunks
               PROVE  pc'[c[1]] # "adding"
    BY <1>3 DEF LockItems
  <2>1. c[1] \in Request /\ pc[c[1]] \notin {"items", "adding"}
    <3>1. c \in chunks /\ pc[c[1]] # "adding"
      OBVIOUS
    <3> QED
      BY <3>1
  <2> QED
    BY <1>3, <2>1 DEF LockItems
<1>4. ASSUME NEW r \in Request, AddChunk(r) PROVE SeesWholeBatches'
  <2>1. PICK k \in Nat :
          /\ k < Len(body[r].items) /\ Len(body[r].items) \in Nat
          /\ ChunksOf(r) = {r} \X (1..k)
          /\ chunks' = chunks \cup {<<r, k + 1>>}
          /\ IF k + 1 = Len(body[r].items)
             THEN lock' = NoOne /\ pc' = [pc EXCEPT ![r] = "entities"]
             ELSE lock' = lock /\ pc' = [pc EXCEPT ![r] = "adding"]
    BY <1>4, NextChunk
  <2> QED
    BY <1>4, <2>1 DEF AddChunk
<1>5. ASSUME NEW r \in Request, EmbedFails(r) PROVE SeesWholeBatches'
  BY <1>5 DEF EmbedFails
<1>6. ASSUME NEW r \in Request, UpsertEntities(r) PROVE SeesWholeBatches'
  BY <1>6 DEF UpsertEntities
<1>7. ASSUME NEW r \in Request, AddRelationships(r) PROVE SeesWholeBatches'
  BY <1>7 DEF AddRelationships
<1>8. ASSUME NEW r \in Request, EmbedQuery(r) PROVE SeesWholeBatches'
  BY <1>8 DEF EmbedQuery
<1>9. ASSUME NEW r \in Request, Snapshot(r) PROVE SeesWholeBatches'
  <2>1. /\ seen'[r].chunks = {c \in chunks : ScopeOf(c) = body[r].scope}
        /\ \A q \in Request \ {r} : seen'[q] = seen[q] /\ pc'[q] = pc[q]
        /\ pc'[r] = "rank"
        /\ UNCHANGED chunks
    BY <1>9 DEF Snapshot
  <2>2. \A x \in Request : pc'[x] # "adding"
    BY <1>9, <2>1, BodyAssumption DEF Snapshot
  <2>3. \A c \in seen'[r].chunks : ChunksOf(c[1]) \subseteq seen'[r].chunks
    BY <2>1 DEF ScopeOf
  <2>4. \A q \in Request : \A c \in seen'[q].chunks :
          c[1] \in Request /\ ChunksOf(c[1]) \subseteq seen'[q].chunks
    BY <2>1, <2>3
  <2> QED
    BY <2>1, <2>2, <2>4
<1>10. ASSUME NEW r \in Request, Answer(r) PROVE SeesWholeBatches'
  BY <1>10 DEF Answer
<1>11. ASSUME Restart PROVE SeesWholeBatches'
  BY <1>11 DEF Restart, Nothing
<1>12. CASE UNCHANGED vars
  BY <1>12 DEF vars
<1> QED
  BY <1>1, <1>2, <1>3, <1>4, <1>5, <1>6, <1>7, <1>8, <1>9, <1>10, <1>11, <1>12 DEF Next

\* What an answer was made of does not change under it: a request whose chunk
\* was hit never gets another body.
LEMMA AnswerNext == IInv /\ [Next]_vars => AnswerInv'
<1> SUFFICES ASSUME IInv, [Next]_vars PROVE AnswerInv'
  OBVIOUS
<1> USE DEF IInv, TypeOK, Goto, store, query, history, Queried
<1>1. \A q \in Queried : \A c \in answer[q].hits : c[1] \in Request /\ pc[c[1]] # "unsent"
  <2> TAKE q \in Queried
  <2> TAKE c \in answer[q].hits
  <2>1. c \in seen[q].chunks
    BY DEF AnswerInv
  <2>2. c \in chunks
    BY <2>1 DEF SeenInv
  <2> QED
    BY <2>2 DEF ChunksInv, Chunk
<1>2. ASSUME \A q \in Queried' : q \in Queried /\ UNCHANGED <<body[q], seen[q], answer[q]>>,
             \A x \in Request : pc[x] # "unsent" => UNCHANGED body[x]
      PROVE  AnswerInv'
  <2> SUFFICES ASSUME NEW q \in Queried'
               PROVE  /\ answer'[q].hits \subseteq seen'[q].chunks
                      /\ body'[q].expand =>
                           answer'[q].related = RelatedTo(q, answer[q].hits)'
    BY <1>2, Zenon DEF AnswerInv
  <2>1. q \in Queried /\ UNCHANGED <<body[q], seen[q], answer[q]>>
    BY <1>2
  <2>2. \A c \in answer[q].hits : UNCHANGED body[c[1]]
    BY <1>1, <1>2, <2>1
  <2>3. {EntityOf(c) : c \in answer[q].hits}' = {EntityOf(c) : c \in answer[q].hits}
    <3>1. \A c \in answer[q].hits : body'[c[1]].items[c[2]] = body[c[1]].items[c[2]]
      BY <2>2
    <3>2. answer'[q].hits = answer[q].hits
      BY <2>1
    <3> QED
      BY <3>1, <3>2, ZenonT(60) DEF EntityOf
  <2>4. RelatedTo(q, answer[q].hits)' = RelatedTo(q, answer[q].hits)
    BY <2>1, <2>3, ZenonT(60) DEF RelatedTo, Seeds
  <2> QED
    BY <2>1, <2>4 DEF AnswerInv
<1>3. ASSUME NEW r \in Request, Arrive(r) PROVE AnswerInv'
  <2>1. PICK b \in Body :
          /\ body' = [body EXCEPT ![r] = b]
          /\ Goto(r, CASE b.kind = "embed" -> "check"
                       [] b.kind = "relate" -> "rels"
                       [] b.kind = "query" -> "vector")
    BY <1>3 DEF Arrive
  <2>2. b.kind \in {"embed", "relate", "query"}
    BY BodyFields
  <2> QED
    BY <1>2, <1>3, <2>1, <2>2 DEF Arrive
<1>4. ASSUME NEW r \in Request, Check(r) PROVE AnswerInv'
  BY <1>2, <1>4 DEF Check
<1>5. ASSUME NEW r \in Request, LockItems(r) PROVE AnswerInv'
  BY <1>2, <1>5 DEF LockItems
<1>6. ASSUME NEW r \in Request, AddChunk(r) PROVE AnswerInv'
  BY <1>2, <1>6 DEF AddChunk
<1>7. ASSUME NEW r \in Request, EmbedFails(r) PROVE AnswerInv'
  BY <1>2, <1>7 DEF EmbedFails
<1>8. ASSUME NEW r \in Request, UpsertEntities(r) PROVE AnswerInv'
  BY <1>2, <1>8 DEF UpsertEntities
<1>9. ASSUME NEW r \in Request, AddRelationships(r) PROVE AnswerInv'
  BY <1>2, <1>9 DEF AddRelationships, BodyInv
<1>10. ASSUME NEW r \in Request, EmbedQuery(r) PROVE AnswerInv'
  BY <1>2, <1>10 DEF EmbedQuery
<1>11. ASSUME NEW r \in Request, Snapshot(r) PROVE AnswerInv'
  BY <1>2, <1>11 DEF Snapshot
<1>12. ASSUME NEW r \in Request, Answer(r) PROVE AnswerInv'
  <2>1. PICK hits \in SUBSET seen[r].chunks :
          answer' = [answer EXCEPT ![r] =
            [hits |-> hits, related |-> IF body[r].expand THEN RelatedTo(r, hits) ELSE {}]]
    BY <1>12, Zenon DEF Answer, RelatedTo
  <2>2. UNCHANGED <<body, seen>> /\ pc' = [pc EXCEPT ![r] = "done"]
    BY <1>12 DEF Answer
  <2>3. answer'[r].hits = hits /\ (body[r].expand => answer'[r].related = RelatedTo(r, hits))
    BY <2>1
  <2>4. \A q \in Queried' : q # r => q \in Queried /\ answer'[q] = answer[q]
    BY <2>1, <2>2
  <2>5. \A q : RelatedTo(q, answer[q].hits)' = RelatedTo(q, answer'[q].hits)
    <3> TAKE q
    <3>1. {EntityOf(c) : c \in answer[q].hits}' = {EntityOf(c) : c \in answer'[q].hits}
      BY <2>2 DEF EntityOf
    <3>2. body' = body /\ seen' = seen
      BY <2>2
    <3> QED
      BY <3>1, <3>2, ZenonT(60) DEF RelatedTo, Seeds
  <2> SUFFICES ASSUME NEW q \in Queried'
               PROVE  /\ answer'[q].hits \subseteq seen[q].chunks
                      /\ body[q].expand => answer'[q].related = RelatedTo(q, answer'[q].hits)
    BY <2>2, <2>5, Zenon DEF AnswerInv
  <2>6. CASE q = r
    BY <2>3, <2>6
  <2>7. CASE q # r
    BY <2>4, <2>7, Zenon DEF AnswerInv
  <2> QED
    BY <2>6, <2>7
<1>13. ASSUME Restart PROVE AnswerInv'
  <2>1. Queried' = {}
    BY <1>13 DEF Restart
  <2> QED
    BY <2>1, Zenon DEF AnswerInv
<1>14. CASE UNCHANGED vars
  BY <1>2, <1>14 DEF vars
<1> QED
  BY <1>3, <1>4, <1>5, <1>6, <1>7, <1>8, <1>9, <1>10, <1>11, <1>12, <1>13, <1>14 DEF Next

-----------------------------------------------------------------------------
(* Expansion: the recursive function of _neighbors against paths *)

\* A set of naturals that is not empty has a least one.
LEMMA LeastNat ==
  ASSUME NEW T \in SUBSET Nat, T # {}
  PROVE  \E m \in T : \A n \in T : m <= n
<1> DEFINE R == OpToRel(<, Nat)
<1>1. IsWellFoundedOn(R, Nat)
  BY NatLessThanWellFounded, Zenon
<1>2. \A m \in Nat, n \in Nat : m < n => <<m, n>> \in R
  BY DEF OpToRel
<1> HIDE DEF R
<1>3. PICK m \in T : \A n \in T : <<n, m>> \notin R
  BY <1>1, WFMin
<1>4. \A n \in T : ~(n < m) /\ n \in Nat /\ m \in Nat
  BY <1>2, <1>3
<1> QED
  BY <1>4

\* v can be reached from u in exactly n - 1 steps.
Walks(links, u, v, n) ==
  \E path \in [1..n -> Entity] :
    /\ path[1] = u /\ path[n] = v
    /\ \A i \in 1..(n - 1) : \E t \in Type : <<path[i], path[i + 1], t>> \in links

LEMMA WalkHere ==
  ASSUME NEW links, NEW u \in Entity, NEW v
  PROVE  Walks(links, u, v, 1) <=> v = u
<1>1. ASSUME v = u PROVE Walks(links, u, v, 1)
  <2> DEFINE path == [i \in 1..1 |-> u]
  <2>1. path \in [1..1 -> Entity] /\ path[1] = u
    OBVIOUS
  <2>2. 1..(1 - 1) = {}
    OBVIOUS
  <2> HIDE DEF path
  <2> QED
    BY <1>1, <2>1, <2>2 DEF Walks
<1> QED
  BY <1>1 DEF Walks

LEMMA WalkOn ==
  ASSUME NEW links \in SUBSET (Entity \X Entity \X Type), NEW u, NEW v, NEW n \in Nat \ {0}
  PROVE  Walks(links, u, v, n + 1) <=>
           \E l \in links : Walks(links, u, l[1], n) /\ l[2] = v
<1>1. ASSUME NEW l \in links, Walks(links, u, l[1], n), l[2] = v
      PROVE  Walks(links, u, v, n + 1)
  <2>1. PICK path \in [1..n -> Entity] :
          /\ path[1] = u /\ path[n] = l[1]
          /\ \A i \in 1..(n - 1) : \E t \in Type : <<path[i], path[i + 1], t>> \in links
    BY <1>1 DEF Walks
  <2> DEFINE longer == [i \in 1..(n + 1) |-> IF i = n + 1 THEN v ELSE path[i]]
  <2>2. v \in Entity /\ l[3] \in Type /\ l = <<l[1], v, l[3]>>
    BY <1>1
  <2>3. longer \in [1..(n + 1) -> Entity] /\ longer[1] = u /\ longer[n + 1] = v
    BY <2>1, <2>2
  <2>4. \A i \in 1..n : longer[i] = path[i]
    OBVIOUS
  <2>5. longer[n] = l[1]
    BY <2>1, <2>4
  <2> HIDE DEF longer
  <2>6. ASSUME NEW i \in 1..n PROVE \E t \in Type : <<longer[i], longer[i + 1], t>> \in links
    <3>1. CASE i = n
      BY <2>2, <2>3, <2>5, <3>1
    <3>2. CASE i # n
      <4>1. i \in 1..(n - 1) /\ i + 1 \in 1..n
        BY <3>2
      <4> QED
        BY <2>1, <2>4, <4>1
    <3> QED
      BY <3>1, <3>2
  <2>7. \A i \in 1..((n + 1) - 1) : \E t \in Type : <<longer[i], longer[i + 1], t>> \in links
    <3>1. (n + 1) - 1 = n
      OBVIOUS
    <3> QED
      BY <2>6, <3>1, Zenon
  <2> QED
    BY <2>3, <2>7, Zenon DEF Walks
<1>2. ASSUME Walks(links, u, v, n + 1)
      PROVE  \E l \in links : Walks(links, u, l[1], n) /\ l[2] = v
  <2>1. PICK path \in [1..(n + 1) -> Entity] :
          /\ path[1] = u /\ path[n + 1] = v
          /\ \A i \in 1..((n + 1) - 1) : \E t \in Type : <<path[i], path[i + 1], t>> \in links
    BY <1>2 DEF Walks
  <2>2. PICK t \in Type : <<path[n], path[n + 1], t>> \in links
    <3>1. n \in 1..((n + 1) - 1)
      OBVIOUS
    <3> QED
      BY <2>1, <3>1, Zenon
  <2> DEFINE shorter == [i \in 1..n |-> path[i]]
  <2>3. shorter \in [1..n -> Entity] /\ shorter[1] = u /\ shorter[n] = path[n]
    BY <2>1
  <2>4. \A i \in 1..(n - 1) : shorter[i] = path[i] /\ shorter[i + 1] = path[i + 1]
    OBVIOUS
  <2> HIDE DEF shorter
  <2>5. \A i \in 1..(n - 1) : \E r \in Type : <<shorter[i], shorter[i + 1], r>> \in links
    <3> TAKE i \in 1..(n - 1)
    <3>1. i \in 1..((n + 1) - 1)
      OBVIOUS
    <3>2. PICK r \in Type : <<path[i], path[i + 1], r>> \in links
      BY <2>1, <3>1, Zenon
    <3> QED
      BY <2>4, <3>2
  <2>6. Walks(links, u, path[n], n)
    BY <2>1, <2>3, <2>5, Zenon DEF Walks
  <2> QED
    BY <2>1, <2>2, <2>6
<1> QED
  BY <1>1, <1>2

\* The frontier after k hops, as _neighbors computes it.
Frontier(links, seed, hops) ==
  CHOOSE f : f = [k \in 0..hops |->
                    IF k = 0 THEN {seed} ELSE {l[2] : l \in From(links, f[k - 1])}]

LEMMA FrontierReached ==
  ASSUME NEW links \in SUBSET (Entity \X Entity \X Type), NEW seed \in Entity,
         NEW hops \in Nat, NEW k \in 0..hops
  PROVE  Frontier(links, seed, hops)[k] = {v \in Entity : Walks(links, seed, v, k + 1)}
<1> DEFINE Reached(n) == {v \in Entity : Walks(links, seed, v, n + 1)}
           Hop(f) == [n \in 0..hops |->
                        IF n = 0 THEN {seed} ELSE {l[2] : l \in From(links, f[n - 1])}]
           g == [n \in 0..hops |-> Reached(n)]
           c == Frontier(links, seed, hops)
<1>1. Reached(0) = {seed}
  BY WalkHere
<1>2. ASSUME NEW n \in Nat \ {0}
      PROVE  Reached(n) = {l[2] : l \in From(links, Reached(n - 1))}
  <2>1. \A v : Walks(links, seed, v, n + 1) <=>
                 \E l \in links : Walks(links, seed, l[1], n) /\ l[2] = v
    BY WalkOn
  <2>2. \A l \in links : l[1] \in Entity /\ l[2] \in Entity
    OBVIOUS
  <2>3. (n - 1) + 1 = n
    OBVIOUS
  <2> QED
    BY <2>1, <2>2, <2>3 DEF From
<1> HIDE DEF Reached
<1>3. g = Hop(g)
  <2>1. ASSUME NEW n \in 0..hops PROVE g[n] = Hop(g)[n]
    <3>1. CASE n = 0
      BY <1>1, <3>1
    <3>2. CASE n # 0
      <4>1. n \in Nat \ {0} /\ n - 1 \in 0..hops
        BY <3>2
      <4>2. g[n] = Reached(n) /\ g[n - 1] = Reached(n - 1)
        BY <4>1
      <4> HIDE DEF g
      <4> QED
        BY <1>2, <3>2, <4>1, <4>2
    <3> QED
      BY <3>1, <3>2
  <2> QED
    BY <2>1
<1>4. c = Hop(c)
  <2>1. \E f : f = Hop(f)
    BY <1>3
  <2>2. c = CHOOSE f : f = Hop(f)
    BY DEF Frontier
  <2> HIDE DEF c, Hop
  <2> QED
    BY <2>1, <2>2
<1> DEFINE Wrong == {n \in 0..hops : c[n] # Reached(n)}
<1> HIDE DEF c
<1>5. Wrong = {}
  <2> SUFFICES ASSUME Wrong # {} PROVE FALSE
    OBVIOUS
  <2>1. PICK n \in Wrong : \A m \in Wrong : n <= m
    <3>1. Wrong \in SUBSET Nat
      OBVIOUS
    <3> HIDE DEF Wrong
    <3> QED
      BY <3>1, LeastNat
  <2>2. c[0] = {seed}
    BY <1>4
  <2>3. n \in 0..hops /\ n # 0 /\ n \in Nat \ {0} /\ n - 1 \in 0..hops
    BY <1>1, <2>1, <2>2
  <2>4. c[n - 1] = Reached(n - 1)
    BY <2>1, <2>3
  <2>5. c[n] = {l[2] : l \in From(links, c[n - 1])}
    BY <1>4, <2>3
  <2> QED
    BY <1>2, <2>1, <2>3, <2>4, <2>5
<1> QED
  BY <1>5 DEF c, Reached

\* _neighbors reports exactly the steps that leave an entity within reach.
LEMMA NeighborsWithinReach ==
  ASSUME NEW links \in SUBSET (Entity \X Entity \X Type), NEW seed \in Entity,
         NEW hops \in Nat
  PROVE  Neighbors(links, seed, hops) = {l \in links : Reaches(links, seed, l[1], hops)}
<1>1. Neighbors(links, seed, hops) =
        UNION {From(links, Frontier(links, seed, hops)[k]) : k \in 0..(hops - 1)}
  BY DEF Neighbors, Frontier
<1>2. \A k \in 0..(hops - 1) : From(links, Frontier(links, seed, hops)[k]) =
        {l \in links : Walks(links, seed, l[1], k + 1)}
  <2> TAKE k \in 0..(hops - 1)
  <2>1. k \in 0..hops
    OBVIOUS
  <2>2. \A l \in links : l[1] \in Entity
    OBVIOUS
  <2> QED
    BY <2>1, <2>2, FrontierReached DEF From
<1>3. \A l : Reaches(links, seed, l[1], hops) <=>
               \E k \in 0..(hops - 1) : Walks(links, seed, l[1], k + 1)
  <2>1. \A m \in 1..hops : m - 1 \in 0..(hops - 1) /\ (m - 1) + 1 = m
    OBVIOUS
  <2>2. \A k \in 0..(hops - 1) : k + 1 \in 1..hops
    OBVIOUS
  <2>3. \A l : Reaches(links, seed, l[1], hops) <=>
                 \E m \in 1..hops : Walks(links, seed, l[1], m)
    BY DEF Reaches, Walks
  <2> QED
    BY <2>1, <2>2, <2>3
<1> QED
  BY <1>1, <1>2, <1>3

\* The steps along edges of the scope and the types asked for, in one direction
\* or the other, as ExpandsToWithinReach takes them.
StepsAlong(es, scope, types) ==
  {l \in Entity \X Entity \X types :
     \E e \in es : /\ e.scope = scope /\ e.type = l[3]
                 /\ {e.source, e.target} = {l[1], l[2]}}

\* Those are the steps a query may take.
LEMMA LinksBothWays ==
  ASSUME NEW es \in SUBSET Edge, NEW scope, NEW types \in SUBSET Type
  PROVE  Links(es, scope, types) = StepsAlong(es, scope, types)
<1>1. ASSUME NEW e \in es
      PROVE  e.source \in Entity /\ e.target \in Entity /\ e.type \in Type
  BY DEF Edge
<1>2. \A a, b, c, d : {a, b} = {c, d} <=> (a = c /\ b = d) \/ (a = d /\ b = c)
  OBVIOUS
<1>3. \A l : l \in Links(es, scope, types) <=>
        \E e \in es : /\ e.scope = scope /\ e.type \in types
                    /\ \/ l = <<e.source, e.target, e.type>>
                       \/ l = <<e.target, e.source, e.type>>
  BY DEF Links
<1>4. \A l \in Entity \X Entity \X types : l = <<l[1], l[2], l[3]>>
  OBVIOUS
<1>5. ASSUME NEW l \in Links(es, scope, types)
      PROVE  /\ l \in Entity \X Entity \X types
             /\ \E e \in es : /\ e.scope = scope /\ e.type = l[3]
                            /\ {e.source, e.target} = {l[1], l[2]}
  BY <1>1, <1>2, <1>3
<1>6. ASSUME NEW l \in Entity \X Entity \X types, NEW e \in es, e.scope = scope,
             e.type = l[3], {e.source, e.target} = {l[1], l[2]}
      PROVE  l \in Links(es, scope, types)
  BY <1>2, <1>3, <1>4, <1>6
<1> QED
  BY <1>5, <1>6 DEF StepsAlong

-----------------------------------------------------------------------------
(* The theorems *)

\* With nothing stored and no request sent, all parts hold.
LEMMA InvInit == Init => IInv
<1> SUFFICES ASSUME Init PROVE IInv
  OBVIOUS
<1>1. TypeOK
  BY TypeInit
<1>2. LockInv
  BY BodyAssumption DEF Init, LockInv
<1> QED
  BY <1>1, <1>2 DEF Init, IInv, BodyInv, ChunksInv, PrefixInv, StagesInv, HistoryInv,
                    SeenInv, SeesWholeBatches, AnswerInv, Queried, Nothing

\* Every step keeps every part.
LEMMA InvNext == IInv /\ [Next]_vars => IInv'
BY TypeNext, LockNext, BodyNext, ChunksNext, StagesNext, HistoryNext, SeenNext,
   PrefixNext, WholeNext, AnswerNext DEF IInv

\* The invariant the results below follow from.
THEOREM InvCorrect == Spec => []IInv
BY InvInit, InvNext, PTL DEF Spec

\* Every variable keeps its type: in particular what is stored is chunks of
\* requests, and entities and edges of a known scope (RAGStore, query).
THEOREM TypeCorrect == Spec => []TypeOK
<1>1. IInv => TypeOK
  BY DEF IInv
<1> QED
  BY <1>1, InvCorrect, PTL

\* A query never copies a batch of items that is still being added, though
\* adding one takes many steps (add_chunks, _vector_search_top).
THEOREM WholeBatchesCorrect == Spec => []SeesWholeBatches
<1>1. IInv => SeesWholeBatches
  BY DEF IInv
<1> QED
  BY <1>1, InvCorrect, PTL

\* A query has what every request of its scope stored that was answered before
\* it arrived.
THEOREM AnsweredSeenCorrect == Spec => []SeesWhatWasAnswered
<1>1. IInv => SeesWhatWasAnswered
  BY DEF IInv, SeenInv, SeesWhatWasAnswered, Queried
<1> QED
  BY <1>1, InvCorrect, PTL

\* Chunks without their entities and relationships never outlive a request
\* that was answered without an error, however the handlers interleave.
THEOREM IncompleteCorrect == Spec => []IncompleteOnlyIfUnanswered
<1>1. IInv => IncompleteOnlyIfUnanswered
  <2> SUFFICES ASSUME IInv, NEW r \in Request, ChunksOf(r) # {}, pc[r] = "done"
               PROVE  /\ body[r].rels \subseteq edges
                      /\ \A e \in body[r].entities : <<body[r].scope, e>> \in entities
    BY DEF IncompleteOnlyIfUnanswered, ChunksOf, IInv, ChunksInv
  <2>1. body[r].kind = "embed"
    BY DEF ChunksOf, IInv, ChunksInv
  <2> QED
    BY <2>1 DEF IInv, StagesInv
<1> QED
  BY <1>1, InvCorrect, PTL

\* The relationships a query reports are exactly those that leave an entity
\* fewer than max_hops steps away from that of a hit, for any graph and any
\* number of hops (_neighbors, _related_for_expand).
THEOREM ExpansionCorrect == Spec => []ExpandsToWithinReach
<1>1. IInv => ExpandsToWithinReach
  <2> SUFFICES ASSUME IInv, NEW q \in Queried, body[q].expand
               PROVE  LET b == body[q]
                          links == {l \in Entity \X Entity \X b.types :
                                      \E e \in seen[q].edges :
                                        /\ e.scope = b.scope /\ e.type = l[3]
                                        /\ {e.source, e.target} = {l[1], l[2]}}
                      IN answer[q].related =
                           {l \in links : \E s \in Seeds(answer[q].hits) :
                                            Reaches(links, s, l[1], b.hops)}
    BY Zenon DEF ExpandsToWithinReach
  <2> DEFINE L == Links(seen[q].edges, body[q].scope, body[q].types)
             hops == body[q].hops
  <2>1. q \in Request /\ body[q] \in Body /\ body[q].kind = "query"
    BY DEF IInv, BodyInv, Queried
  <2>2. body[q].types \subseteq Type /\ hops \in Nat /\ seen[q].edges \subseteq Edge
    BY <2>1, BodyFields DEF IInv, TypeOK
  <2>3. L = StepsAlong(seen[q].edges, body[q].scope, body[q].types)
    <3>1. body[q].types \in SUBSET Type /\ seen[q].edges \in SUBSET Edge
      BY <2>2
    <3> QED
      BY <3>1, LinksBothWays
  <2>4. L \in SUBSET (Entity \X Entity \X Type)
    BY <2>2, <2>3 DEF StepsAlong
  <2>5. Seeds(answer[q].hits) \subseteq Entity
    <3> SUFFICES ASSUME NEW c \in answer[q].hits PROVE EntityOf(c) \in Entity \cup {NoEntity}
      BY DEF Seeds
    <3>1. /\ body[c[1]] \in Body /\ body[c[1]].kind = "embed"
          /\ c[2] \in 1..Len(body[c[1]].items)
      BY <2>1 DEF IInv, AnswerInv, SeenInv, ChunksInv
    <3>2. body[c[1]].items \in Seq(Entity \cup {NoEntity})
      BY <3>1, BodyFields
    <3> QED
      BY <3>1, <3>2 DEF EntityOf
  <2>6. answer[q].related = UNION {Neighbors(L, s, hops) : s \in Seeds(answer[q].hits)}
    BY Zenon DEF IInv, AnswerInv, RelatedTo
  <2>7. \A s \in Seeds(answer[q].hits) :
          Neighbors(L, s, hops) = {l \in L : Reaches(L, s, l[1], hops)}
    <3> HIDE DEF L, hops
    <3> QED
      BY <2>2, <2>4, <2>5, NeighborsWithinReach
  <2>8. answer[q].related =
          {l \in L : \E s \in Seeds(answer[q].hits) : Reaches(L, s, l[1], hops)}
    <3> HIDE DEF L, hops
    <3> QED
      BY <2>6, <2>7
  <2> HIDE DEF L
  <2> QED
    BY <2>3, <2>8, Zenon DEF StepsAlong
<1> QED
  BY <1>1, InvCorrect, PTL

=============================================================================
