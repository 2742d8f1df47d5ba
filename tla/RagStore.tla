------------------------------ MODULE RagStore ------------------------------
(***************************************************************************)
(* agent/rag: the HTTP service that keeps chunks, entities and             *)
(* relationships in the memory of one process.  FastAPI runs each request  *)
(* on a thread of its own; one lock covers each call of the store, but     *)
(* embed makes up to three such calls, and adding chunks asks a remote     *)
(* model for the vector of each item with the lock held.                   *)
(*                                                                         *)
(* A chunk is named by the request that brought it and its place there.    *)
(* The order and the repetition of relationships, which a query does not   *)
(* depend on, are left out, and so are texts: what is most similar to a    *)
(* query is any choice.                                                    *)
(***************************************************************************)
EXTENDS Naturals, Sequences, FiniteSets

CONSTANTS
  Request,        \* the requests that may arrive, in any number at once
  Body,           \* what they may carry, see BodyAssumption
  Entity, Scope, Type,
  NoEntity,       \* an item without entity_id
  NoBody,
  NoOne,          \* the lock is free
  MaxRestarts     \* bound: restarts of the process

Edge == [scope : Scope, source : Entity, target : Entity, type : Type]

\* EmbedRequest, RelateRequest, QueryRequest.  A query's types are those it
\* asks for, or all of them; max_hops is 1 to 3.
EmbedBody == [kind : {"embed"}, scope : Scope, items : Seq(Entity \cup {NoEntity}),
              entities : SUBSET Entity, rels : SUBSET Edge]
RelateBody == [kind : {"relate"}, scope : Scope, rels : (SUBSET Edge) \ {{}}]
QueryBody == [kind : {"query"}, scope : Scope, topK : 1..50, expand : BOOLEAN,
              types : (SUBSET Type) \ {{}}, hops : 1..3]

ASSUME BodyAssumption ==
  /\ \A b \in Body : b \in EmbedBody \/ b \in RelateBody \/ b \in QueryBody
  /\ \A b \in Body : b.kind # "query" => \A e \in b.rels : e.scope = b.scope
  /\ NoBody \notin Body /\ NoEntity \notin Entity /\ NoOne \notin Request
  /\ MaxRestarts \in Nat

VARIABLES
  pc,             \* where each request is
  body,
  lock,           \* the request that holds RAGStore._lock over several steps
  chunks,         \* _chunks
  entities,       \* _entities
  edges,          \* _edges
  seen,           \* what each query copied under the lock: chunks and edges
  answer,         \* hits and related of the queries answered
  answered,       \* history: requests that stored something and were answered
  before,         \* history: answered, when a request arrived
  restarts

store == <<chunks, entities, edges>>
query == <<seen, answer>>
history == <<answered, before>>
vars == <<pc, body, lock, store, query, history, restarts>>

Chunk == Request \X Nat

TypeOK ==
  /\ pc \in [Request -> {"unsent", "check", "items", "adding", "entities", "rels",
                         "vector", "snapshot", "rank", "done", "failed", "refused",
                         "gone"}]
  /\ body \in [Request -> Body \cup {NoBody}]
  /\ lock \in Request \cup {NoOne}
  /\ chunks \subseteq Chunk
  /\ entities \subseteq Scope \X Entity
  /\ edges \subseteq Edge
  /\ seen \in [Request -> [chunks : SUBSET Chunk, edges : SUBSET Edge]]
  /\ answer \in [Request -> [hits : SUBSET Chunk,
                             related : SUBSET (Entity \X Entity \X Type)]]
  /\ answered \subseteq Request /\ before \in [Request -> SUBSET Request]
  /\ restarts \in 0..MaxRestarts

Nothing == [chunks |-> {}, edges |-> {}]
NoAnswer == [hits |-> {}, related |-> {}]

Init ==
  /\ pc = [r \in Request |-> "unsent"]
  /\ body = [r \in Request |-> NoBody]
  /\ lock = NoOne
  /\ chunks = {} /\ entities = {} /\ edges = {}
  /\ seen = [r \in Request |-> Nothing]
  /\ answer = [r \in Request |-> NoAnswer]
  /\ answered = {} /\ before = [r \in Request |-> {}]
  /\ restarts = 0

Goto(r, where) == pc' = [pc EXCEPT ![r] = where]
Free == lock = NoOne
ScopeOf(c) == body[c[1]].scope
EntityOf(c) == body[c[1]].items[c[2]]
ChunksOf(r) == {c \in chunks : c[1] = r}

-----------------------------------------------------------------------------
(* Arrival *)

\* A request is parsed and its handler starts on a thread.
Arrive(r) ==
  /\ pc[r] = "unsent"
  /\ \E b \in Body :
       /\ body' = [body EXCEPT ![r] = b]
       /\ Goto(r, CASE b.kind = "embed" -> "check"
                    [] b.kind = "relate" -> "rels"
                    [] b.kind = "query" -> "vector")
  /\ before' = [before EXCEPT ![r] = answered]
  /\ UNCHANGED <<lock, store, query, answered, restarts>>

\* An embed request that carries nothing is a 400.
Check(r) ==
  /\ pc[r] = "check"
  /\ LET b == body[r] IN
       Goto(r, IF b.items = <<>> /\ b.entities = {} /\ b.rels = {}
               THEN "refused" ELSE "items")
  /\ UNCHANGED <<body, lock, store, query, history, restarts>>

-----------------------------------------------------------------------------
(* embed and relate *)

\* Mutant: add_chunks gives up where it would have to wait.
LockItemsOrSkip(r) ==
  /\ pc[r] = "items"
  /\ IF body[r].items = <<>> \/ ~Free
     THEN Goto(r, "entities") /\ UNCHANGED lock
     ELSE lock' = r /\ Goto(r, "adding")
  /\ UNCHANGED <<body, store, query, history, restarts>>

\* add_chunks takes the lock if there are items.
LockItems(r) ==
  /\ pc[r] = "items"
  /\ IF body[r].items = <<>>
     THEN Goto(r, "entities") /\ UNCHANGED lock
     ELSE Free /\ lock' = r /\ Goto(r, "adding")
  /\ UNCHANGED <<body, store, query, history, restarts>>

\* The next item is embedded and appended; after the last the lock is released.
AddChunk(r) ==
  /\ pc[r] = "adding"
  /\ LET n == Cardinality(ChunksOf(r)) + 1
         last == n = Len(body[r].items)
     IN /\ chunks' = chunks \cup {<<r, n>>}
        /\ lock' = IF last THEN NoOne ELSE lock
        /\ Goto(r, IF last THEN "entities" ELSE "adding")
  /\ UNCHANGED <<body, entities, edges, query, history, restarts>>

\* Mutant: the lock is not released on the way out.
EmbedFailsLocked(r) ==
  /\ pc[r] = "adding"
  /\ Goto(r, "failed")
  /\ UNCHANGED <<body, lock, store, query, history, restarts>>

\* The remote model fails or times out: the exception leaves add_chunks and the
\* handler, and what was appended before stays.
EmbedFails(r) ==
  /\ pc[r] = "adding"
  /\ lock' = NoOne
  /\ Goto(r, "failed")
  /\ UNCHANGED <<body, store, query, history, restarts>>

\* Mutant: the entities of the items are upserted as well.
UpsertItemEntities(r) ==
  /\ pc[r] = "entities" /\ (body[r].entities # {} => Free)
  /\ entities' = entities \cup {<<body[r].scope, e>> :
                      e \in body[r].entities \cup {EntityOf(c) : c \in ChunksOf(r)}}
  /\ Goto(r, "rels")
  /\ UNCHANGED <<body, lock, chunks, edges, query, history, restarts>>

\* upsert_entities, which asks for the lock if there are any.
UpsertEntities(r) ==
  /\ pc[r] = "entities" /\ (body[r].entities # {} => Free)
  /\ entities' = entities \cup {<<body[r].scope, e>> : e \in body[r].entities}
  /\ Goto(r, "rels")
  /\ UNCHANGED <<body, lock, chunks, edges, query, history, restarts>>

\* Mutant: relationships are recorded only beside entities.
AddRelationshipsOfEntities(r) ==
  /\ pc[r] = "rels" /\ (body[r].rels # {} => Free)
  /\ edges' = edges \cup (IF body[r].kind = "embed" /\ body[r].entities = {}
                          THEN {} ELSE body[r].rels)
  /\ Goto(r, "done")
  /\ answered' = answered \cup {r}
  /\ UNCHANGED <<body, lock, chunks, entities, query, before, restarts>>

\* add_relationships, and the answer to embed or relate.
AddRelationships(r) ==
  /\ pc[r] = "rels" /\ (body[r].rels # {} => Free)
  /\ edges' = edges \cup body[r].rels
  /\ Goto(r, "done")
  /\ answered' = answered \cup {r}
  /\ UNCHANGED <<body, lock, chunks, entities, query, before, restarts>>

-----------------------------------------------------------------------------
(* query *)

\* The query's own vector is computed before the lock is asked for.
EmbedQuery(r) ==
  /\ pc[r] = "vector"
  /\ \/ Goto(r, "snapshot")
     \/ Goto(r, "failed")
  /\ UNCHANGED <<body, lock, store, query, history, restarts>>

\* Mutant: chunks and edges are read without the lock.
SnapshotUnlocked(r) ==
  /\ pc[r] = "snapshot"
  /\ seen' = [seen EXCEPT ![r] =
       [chunks |-> {c \in chunks : ScopeOf(c) = body[r].scope}, edges |-> edges]]
  /\ Goto(r, "rank")
  /\ UNCHANGED <<body, lock, store, answer, history, restarts>>

\* _vector_search_top: one critical section for both lists.
Snapshot(r) ==
  /\ pc[r] = "snapshot" /\ Free
  /\ seen' = [seen EXCEPT ![r] =
       [chunks |-> {c \in chunks : ScopeOf(c) = body[r].scope}, edges |-> edges]]
  /\ Goto(r, "rank")
  /\ UNCHANGED <<body, lock, store, answer, history, restarts>>

\* The steps a query may take along es, in both directions of an edge.
Links(es, scope, types) ==
  LET allowed == {e \in es : e.scope = scope /\ e.type \in types}
  IN {<<e.source, e.target, e.type>> : e \in allowed} \cup
     {<<e.target, e.source, e.type>> : e \in allowed}

From(links, frontier) == {l \in links : l[1] \in frontier}

\* Mutant: one hop too many.
NeighborsOneHopMore(links, seed, hops) ==
  LET frontier[k \in 0..hops] ==
        IF k = 0 THEN {seed} ELSE {l[2] : l \in From(links, frontier[k - 1])}
  IN UNION {From(links, frontier[k]) : k \in 0..hops}

\* _neighbors: the frontier moves on hops times, back over the edge it came by
\* too, and every step it takes is reported once.
Neighbors(links, seed, hops) ==
  LET frontier[k \in 0..hops] ==
        IF k = 0 THEN {seed} ELSE {l[2] : l \in From(links, frontier[k - 1])}
  IN UNION {From(links, frontier[k]) : k \in 0..(hops - 1)}

Seeds(hits) == {EntityOf(c) : c \in hits} \ {NoEntity}

Least(m, n) == IF m < n THEN m ELSE n

\* The topK best hits, and around their entities the relationships asked for.
Answer(r) ==
  /\ pc[r] = "rank"
  /\ LET b == body[r]
         links == Links(seen[r].edges, b.scope, b.types)
     IN \E hits \in SUBSET seen[r].chunks :
          /\ Cardinality(hits) = Least(b.topK, Cardinality(seen[r].chunks))
          /\ answer' = [answer EXCEPT ![r] =
               [hits |-> hits,
                related |-> IF b.expand
                            THEN UNION {Neighbors(links, s, b.hops) : s \in Seeds(hits)}
                            ELSE {}]]
  /\ Goto(r, "done")
  /\ UNCHANGED <<body, lock, store, seen, history, restarts>>

-----------------------------------------------------------------------------

\* The process ends: the store is gone, and with it what was under way.
Restart ==
  /\ restarts < MaxRestarts
  /\ restarts' = restarts + 1
  /\ pc' = [r \in Request |-> IF pc[r] = "unsent" THEN "unsent" ELSE "gone"]
  /\ lock' = NoOne
  /\ chunks' = {} /\ entities' = {} /\ edges' = {}
  /\ seen' = [r \in Request |-> Nothing]
  /\ answer' = [r \in Request |-> NoAnswer]
  /\ answered' = {} /\ before' = [r \in Request |-> {}]
  /\ UNCHANGED body

Next ==
  \/ \E r \in Request :
       \/ Arrive(r) \/ Check(r)
       \/ LockItems(r) \/ AddChunk(r) \/ EmbedFails(r)
       \/ UpsertEntities(r) \/ AddRelationships(r)
       \/ EmbedQuery(r) \/ Snapshot(r) \/ Answer(r)
  \/ Restart

\* Every handler runs on, and a call to the remote model ends within 90 seconds.
Handle(r) ==
  \/ Check(r) \/ LockItems(r) \/ AddChunk(r) \/ UpsertEntities(r)
  \/ AddRelationships(r) \/ EmbedQuery(r) \/ Snapshot(r) \/ Answer(r)

Spec == Init /\ [][Next]_vars

FairSpec == Spec /\ \A r \in Request : WF_vars(Handle(r))

-----------------------------------------------------------------------------
(* Properties *)

Queried == {r \in Request : pc[r] = "done" /\ body[r].kind = "query"}

Given(r) == {r} \X (1..Len(body[r].items))

\* A query finds what was stored before it came: all items and relationships of
\* every request of its scope that had been answered.
SeesWhatWasAnswered ==
  \A q \in Queried : \A r \in before[q] :
    body[r].scope = body[q].scope =>
      /\ body[r].kind = "embed" => Given(r) \subseteq seen[q].chunks
      /\ body[r].rels \subseteq seen[q].edges

\* A query sees an embed request's items all or not at all, or, if the request
\* failed, those it got to: never a batch that is still being added.
SeesWholeBatches ==
  \A q \in Request : \A c \in seen[q].chunks :
    pc[c[1]] # "adding" /\ ChunksOf(c[1]) \subseteq seen[q].chunks

\* Chunks without the entities and the relationships they came with belong to a
\* request that is still at work or has been answered with an error.
IncompleteOnlyIfUnanswered ==
  \A r \in Request :
    /\ ChunksOf(r) # {}
    /\ \/ ~(body[r].rels \subseteq edges)
       \/ \E e \in body[r].entities : <<body[r].scope, e>> \notin entities
    => pc[r] \in {"adding", "entities", "rels", "failed"}

\* v can be reached from u in fewer than n steps.
Reaches(links, u, v, n) ==
  \E m \in 1..n : \E path \in [1..m -> Entity] :
    /\ path[1] = u /\ path[m] = v
    /\ \A i \in 1..(m - 1) : \E t \in Type : <<path[i], path[i + 1], t>> \in links

\* The relationships an expansion reports are exactly those of the scope and of
\* the types asked for that leave an entity fewer than max_hops steps away from
\* that of a hit.
ExpandsToWithinReach ==
  \A q \in Queried : body[q].expand =>
    LET b == body[q]
        links == {l \in Entity \X Entity \X b.types :
                    \E e \in seen[q].edges :
                      /\ e.scope = b.scope /\ e.type = l[3]
                      /\ {e.source, e.target} = {l[1], l[2]}}
    IN answer[q].related =
         {l \in links : \E s \in Seeds(answer[q].hits) : Reaches(links, s, l[1], b.hops)}

\* Though embedding holds the lock over calls to a remote model, every request
\* gets an answer, or the process ends.
EventuallyAnswered ==
  \A r \in Request :
    pc[r] = "check" \/ pc[r] = "rels" \/ pc[r] = "vector" ~>
      pc[r] \in {"done", "failed", "refused", "gone"}

=============================================================================
