--------------------------- MODULE ScraperRuntime ---------------------------
(***************************************************************************)
(* The runtime every scraper CronJob shares: agent/scrapers/base.py (post  *)
(* the payloads of a batch to the RAG service one after the other, then    *)
(* commit), agent/scrapers/cursor_store.py (where the watermark is kept)   *)
(* and the acceptance side of POST /v1/embed (agent/rag).  What fills the  *)
(* batch is the integration's business: see SlackChannelScraper and        *)
(* JiraScraper, which extend this module.                                  *)
(*                                                                         *)
(* A job is one pod of the CronJob; with concurrencyPolicy Forbid there is *)
(* one at a time, with Allow several.  A pod that fails is run again       *)
(* (restartPolicy OnFailure, backoffLimit, the next schedule), from the    *)
(* top: the process keeps nothing.                                         *)
(***************************************************************************)
EXTENDS Naturals, Sequences, FiniteSets

CONSTANTS
  Job,          \* pods that may run at the same time
  Document,     \* what an embed item stands for, identified by its entity_id
  Backend,      \* SCRAPER_CURSOR_BACKEND: "postgres", or a file, in a "directory" that
                \* outlives the process or in the "container", as the chart has it
  MaxItems,     \* EmbedRequest.items max_length (500)
  MaxFaults     \* bound: crashes, failed requests, RAG restarts

ASSUME RuntimeAssumption ==
  /\ Backend \in {"postgres", "directory", "container"}
  /\ MaxItems \in Nat
  /\ MaxFaults \in Nat

\* get_state's None.  Every timestamp of a source is later than it.
NoCursor == 0

VARIABLES
  cursor,       \* the stored watermark, NoCursor when none can be read
  pc,           \* where each job is
  floor,        \* the watermark each job read when it started
  batch,        \* payloads still to be posted, each a set of documents
  next,         \* the watermark commit() would store
  indexed,      \* documents with a chunk in the RAG process's memory
  accepted,     \* history: documents that were ever put into the index
  faults        \* faults so far

jobVars == <<pc, floor, batch, next>>
ragVars == <<indexed, accepted>>
runtimeVars == <<cursor, jobVars, ragVars, faults>>

RuntimeTypeOK ==
  /\ cursor \in Nat
  /\ pc \in [Job -> {"idle", "fetch", "build", "embed", "write"}]
  /\ floor \in [Job -> Nat]
  /\ batch \in [Job -> Seq(SUBSET Document)]
  /\ next \in [Job -> Nat]
  /\ indexed \in SUBSET Document
  /\ accepted \in SUBSET Document
  /\ faults \in 0..MaxFaults

RuntimeInit(start) ==
  /\ cursor = start
  /\ pc = [j \in Job |-> "idle"]
  /\ floor = [j \in Job |-> NoCursor]
  /\ batch = [j \in Job |-> <<>>]
  /\ next = [j \in Job |-> NoCursor]
  /\ indexed = {}
  /\ accepted = {}
  /\ faults = 0

Fault ==
  /\ faults < MaxFaults
  /\ faults' = faults + 1

\* RAGStore.add_chunks appends: a document posted again has another chunk.
AddChunks(D) ==
  /\ indexed' = indexed \cup D
  /\ accepted' = accepted \cup D

\* The process ends, by returning from main() or by an exception; nothing of
\* it is left but what it wrote elsewhere.
Exit(j) ==
  /\ pc' = [pc EXCEPT ![j] = "idle"]
  /\ floor' = [floor EXCEPT ![j] = NoCursor]
  /\ batch' = [batch EXCEPT ![j] = <<>>]
  /\ next' = [next EXCEPT ![j] = NoCursor]

\* build_batch reads the cursor before it asks the source for anything.
ReadCursor(j) ==
  /\ pc[j] = "idle"
  /\ pc' = [pc EXCEPT ![j] = "fetch"]
  /\ floor' = [floor EXCEPT ![j] = cursor]
  /\ UNCHANGED <<cursor, batch, next, ragVars, faults>>

\* ingest_scraped_embeds: a batch with no payloads ends the run without a
\* commit; any other is posted.
Hand(j, payloads, watermark) ==
  IF payloads = <<>>
    THEN Exit(j)
    ELSE /\ pc' = [pc EXCEPT ![j] = "embed"]
         /\ batch' = [batch EXCEPT ![j] = payloads]
         /\ next' = [next EXCEPT ![j] = watermark]
         /\ floor' = floor

\* Mutant: a payload of exactly the limit is refused.
FitsStrictly(D) == Cardinality(D) < MaxItems

\* EmbedRequest's bound on the items of one request.
Fits(D) == Cardinality(D) <= MaxItems

PostAccepted(j) ==
  /\ pc[j] = "embed" /\ batch[j] # <<>>
  /\ Fits(Head(batch[j]))
  /\ AddChunks(Head(batch[j]))
  /\ batch' = [batch EXCEPT ![j] = Tail(@)]
  /\ UNCHANGED <<cursor, pc, floor, next, faults>>

\* EmbedRequest does not validate: 422, raise_for_status raises, no commit.
PostRefused(j) ==
  /\ pc[j] = "embed" /\ batch[j] # <<>>
  /\ ~Fits(Head(batch[j]))
  /\ Exit(j)
  /\ UNCHANGED <<cursor, ragVars, faults>>

\* httpx.HTTPError: the request is lost, or only its answer, or the service's
\* model fails after some of the items.
PostFails(j) ==
  /\ pc[j] = "embed" /\ batch[j] # <<>>
  /\ Fault
  /\ \E D \in SUBSET Head(batch[j]) :
       /\ D = {} \/ Fits(Head(batch[j]))
       /\ AddChunks(D)
  /\ Exit(j)
  /\ UNCHANGED cursor

\* Mutant: the commit does not wait for the last payload.
CommitEarly(j) ==
  /\ pc[j] = "embed"
  /\ cursor' = next[j]
  /\ Exit(j)
  /\ UNCHANGED <<ragVars, faults>>

\* Mutant: the old row is deleted before the new one is inserted, whatever
\* the store.
CommitDeletesFirst(j) ==
  /\ pc[j] = "embed" /\ batch[j] = <<>>
  /\ cursor' = NoCursor
  /\ pc' = [pc EXCEPT ![j] = "write"]
  /\ UNCHANGED <<floor, batch, next, ragVars, faults>>

\* batch.commit(), the last act of a run.  Postgres upserts in one statement;
\* write_text first truncates the file, and a reader of the empty file gets
\* None.  A file in the container goes with it: the chart mounts no volume for
\* the state directories, so no pod reads what another wrote.
Commit(j) ==
  /\ pc[j] = "embed" /\ batch[j] = <<>>
  /\ \/ Backend = "postgres" /\ cursor' = next[j] /\ Exit(j)
     \/ Backend = "container" /\ cursor' = cursor /\ Exit(j)
     \/ /\ Backend = "directory"
        /\ cursor' = NoCursor
        /\ pc' = [pc EXCEPT ![j] = "write"]
        /\ UNCHANGED <<floor, batch, next>>
  /\ UNCHANGED <<ragVars, faults>>

WriteFile(j) ==
  /\ pc[j] = "write"
  /\ cursor' = next[j]
  /\ Exit(j)
  /\ UNCHANGED <<ragVars, faults>>

\* The pod dies, or the source's API raises (_die, sys.exit) while it is read.
Crash(j) ==
  /\ pc[j] # "idle"
  /\ Fault
  /\ Exit(j)
  /\ UNCHANGED <<cursor, ragVars>>

\* The RAG store lives in one process's memory.
RestartRag ==
  /\ indexed # {}
  /\ Fault
  /\ indexed' = {}
  /\ UNCHANGED <<cursor, jobVars, accepted>>

RuntimeProgress(j) == PostAccepted(j) \/ PostRefused(j) \/ Commit(j) \/ WriteFile(j)

RuntimeNext ==
  \/ \E j \in Job : RuntimeProgress(j) \/ PostFails(j) \/ Crash(j)
  \/ RestartRag

=============================================================================
