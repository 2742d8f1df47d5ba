-------------------------- MODULE IncrementalFeed --------------------------
(***************************************************************************)
(* What an incremental scraper promises, with no word about cursors,       *)
(* pages, payloads or jobs.                                                *)
(*                                                                         *)
(* A source offers documents.  The feed hands them to the index, in any    *)
(* order, some of them more than once, and from time to time settles on    *)
(* the set of documents it will not ask the source for again.  It may      *)
(* change its mind and look at settled documents anew (a lost cursor), but *)
(* a document it has settled was accepted by the index in an earlier step. *)
(***************************************************************************)
CONSTANT Document      \* every document the source may ever offer

VARIABLES
  settled,             \* documents no later run asks the source for
  accepted             \* documents the index has acknowledged at least once

feedVars == <<settled, accepted>>

Init ==
  /\ settled = {}
  /\ accepted = {}

\* The index acknowledges a batch.
Accept ==
  /\ \E D \in SUBSET Document : accepted' = accepted \cup D
  /\ settled' = settled

\* The feed moves its point of resumption, forwards or backwards, over
\* documents that are accepted already: never in the step that sends them.
Settle ==
  /\ \E D \in SUBSET accepted : settled' = D
  /\ accepted' = accepted

Next == Accept \/ Settle

Spec == Init /\ [][Next]_feedVars

=============================================================================
