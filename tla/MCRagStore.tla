----------------------------- MODULE MCRagStore -----------------------------
(* Small instances of RagStore for TLC. *)
EXTENDS RagStore

CONSTANTS e1, e2, e3, mine, other, cites, blocks

Rel(scope, source, target, type) ==
  [scope |-> scope, source |-> source, target |-> target, type |-> type]

\* A batch that brings a path of two edges with it, one of items only, one of
\* another scope, an empty one, a relationship by itself, and queries.
Bodies == {
  [kind |-> "embed", scope |-> mine, items |-> <<e1, NoEntity>>, entities |-> {e1},
   rels |-> {Rel(mine, e1, e2, cites), Rel(mine, e2, e3, blocks)}],
  [kind |-> "embed", scope |-> other, items |-> <<e1>>, entities |-> {},
   rels |-> {Rel(other, e1, e3, cites)}],
  [kind |-> "embed", scope |-> mine, items |-> <<>>, entities |-> {}, rels |-> {}],
  [kind |-> "relate", scope |-> mine, rels |-> {Rel(mine, e3, e3, cites)}],
  [kind |-> "query", scope |-> mine, topK |-> 1, expand |-> FALSE,
   types |-> Type, hops |-> 1],
  [kind |-> "query", scope |-> mine, topK |-> 2, expand |-> TRUE,
   types |-> Type, hops |-> 2],
  [kind |-> "query", scope |-> mine, topK |-> 2, expand |-> TRUE,
   types |-> {cites}, hops |-> 3]}

=============================================================================
