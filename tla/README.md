# A TLA+ model of the declarative agent library chart

This directory models the Python runtime under `helm/src/agent` as TLA+ modules, checks
them with TLC on small instances, and proves the most important of the results with
TLAPS for every value of the constants. Paths below are relative to `helm/src/agent`
unless they start with `docs/`, `openspec/`, `examples/` or `helm/`.

## 1. The system

One container image runs in three roles:

- an **agent** pod: an HTTP application that turns a trigger (an HTTP request, a Slack
  mention, a Jira webhook) into one run of a LangGraph pipeline;
- a **RAG service** pod: `POST /v1/embed`, `/v1/relate`, `/v1/query` over an index that
  lives in its memory;
- **scraper** CronJobs: one short process per schedule that reads new material from Slack
  or Jira and posts it to the RAG service.

| component | state it keeps | operations | talks to |
|---|---|---|---|
| Scraper runtime (`scrapers/base.py`) and cursor store (`scrapers/cursor_store.py`) | a watermark per source, in a file or a Postgres row | read the watermark, post payloads one by one, commit | RAG service (HTTP), cursor store |
| Slack scraper (`scrapers/slack_job.py`) | none beyond its process | drain a channel past the watermark; or a search without one | Slack API, runtime |
| Jira scraper (`scrapers/jira_job.py`) | none beyond its process | build the JQL, page through a search, one payload per issue | Jira API, runtime |
| RAG service (`rag/`) | chunks, entities, relationships, in memory | embed, relate, query with graph expansion | - |
| Trigger graph (`trigger_graph.py`, `checkpointing.py`, `observability/checkpointer.py`) | the compiled graph and its key (two module globals), the checkpoints of threads | compile, invoke, read a thread's state | LangGraph, supervisor, tools |
| Trigger bridges (`triggers/`) | the ids seen lately (`EventDeduper`) | accept a delivery, answer 200, run the pipeline later on another thread | trigger graph, Slack |
| HTTP application (`app.py`) | the instances above | trigger route, thread-state routes, RAG proxy | all of the agent |
| Supervisor, subagents, skills (`supervisor.py`, `subagent_exec.py`, `trigger_steps.py`, `skills_state.py`) | tools unlocked in this process | choose a subagent, load a skill, run a tool | tools, RAG service |
| Tools (`tools/`) | none (mock or real requests) | post, react, read, change issues | Slack, Jira |
| Feedback, correlation, side effects (`observability/`) | which message a run posted, which reactions it got | record, look up, retract | bridges, tools |
| Run context (`run_context.py`) | context variables: run, thread, tool sequence | bind, next tool call id, reset | tools |
| Event bus and plugins (`observability/events`, `observability/plugins`) | subscribers | publish | Prometheus, Langfuse, W&B |
| Stores and embedded Postgres (`observability/stores.py`, `pglite_runtime.py`) | cached pools and bundles | create once, hand out | Postgres |
| Settings (`runtime_config.py`, `observability/settings.py`, `env.py`) | none | read the environment | - |
| Helm chart (`helm/chart`) | - | render Deployments and CronJobs | - |

### What is hard about it

- **Crashes and lost answers.** A scraper moves two stores that share no transaction, the
  index and the watermark. It posts first and commits last; everything rests on that order.
- **Overlapping pods.** `concurrencyPolicy` may be `Allow`, and a job can be started by
  hand. Nothing locks the watermark.
- **Paging against a moving source.** Slack pages from the newest message backwards while
  messages arrive; Jira's search index lags behind its issues.
- **Limits.** 10000 messages a run, 500 items a request, 50 issues a run, 10000 ids.
- **Shared globals without locks.** The graph cache and the deduper are read and written by
  the event loop and by worker threads.
- **Answers before work.** The bridges answer 200 before they run anything; a restart in
  between loses the event, a late answer makes the sender repeat it.
- **State that outlives its request.** A thread's checkpoints bring an earlier request's
  skill into a later one; unlocked tools outlive their thread and not their process.
- **A lock over a network call.** The RAG store embeds every item of a request with its lock
  held, and a request is up to three critical sections.
- **Two records of one thing.** A post is a message in Slack, a side effect checkpoint and a
  correlation; a reaction is a retraction of what it opposes and a record of itself.
- **Calls side by side.** A supervisor's tool calls of one turn run on threads with copies of
  the run's context, and any plugin may raise in the middle of them.

### What would make each component correct

- *Scrapers:* never put a document behind the watermark that the index did not accept, but
  for what a limit is known to cut off; never move the watermark back but by losing a race;
  index everything else eventually; with a store that outlives the pod, embed things twice
  only after a fault.
- *RAG:* a query's expansion returns exactly what `max_hops` steps reach; a query sees whole
  batches, and all that was answered before it.
- *Trigger graph:* an ephemeral request leaves no trace; a thread resumes with all of its
  finished runs; nothing leaks from one thread into another.
- *Bridges:* one event runs the pipeline once, and no event is taken for another.
- *Feedback:* after any order of reactions added and removed, the store holds what Slack
  shows; a reaction finds the post it belongs to.
- *Runs:* a tool a supervisor was offered is not refused to it; what a call says it has
  done is on record; no call or generation is counted twice; every W&B session is finished
  after the last call.

`PROJECT.json` lists the components with their status, and the hazards with the line where
each one bites.

## 2. The modules

| module | models | code it stands for |
|---|---|---|
| `IncrementalFeed` | abstract: what an incremental scraper promises | - |
| `ScraperRuntime` | posting, committing, cursor stores, acceptance by the RAG service, process ends | `scrapers/base.py`, `scrapers/cursor_store.py`, `rag/models.py`, `rag/app.py` (embed) |
| `SlackChannelScraper` | extends it with the drain of a channel | `scrapers/slack_job.py` (`_channel_history_*`, `_run_slack_channel`, `_build_items_from_messages`) |
| `SlackSearchScraper` | extends it with a search and the expansion of its hits | `scrapers/slack_job.py` (`_run_slack_search`, `_slack_search_*`, `_collect_*_pages`) |
| `JiraScraper` | extends it with the JQL search | `scrapers/jira_job.py` (`_build_jql`, `search_issues`, `_jira_build_embed_payloads`) |
| `RagStore` | the RAG service: embed, relate, query | `rag/store.py`, `rag/app.py`, `rag/models.py`, `rag/embeddings.py` |
| `ThreadLog` | abstract: what a conversation thread promises its runs | - |
| `TriggerGraph` | the graph cache, checkpointers, the two graphs | `trigger_graph.py`, `checkpointing.py` |
| `TriggerBridge` | deliveries, background tasks, the deduper | `triggers/` |
| `TraceSession` | abstract: what a tracing plugin promises of a run | - |
| `Instruments` | the event bus, Prometheus, Langfuse, W&B | `observability/events`, `observability/middleware`, `observability/plugins` |
| `ToolCalls` | extends it with one call of a tool or a subagent | `trigger_steps.py`, `subagent_exec.py`, `tools/`, `run_context.py`, `observability/side_effects.py`, `trajectory.py`, `span_summaries.py` |
| `RunLifecycle` | composes both into a run from request to response | `trigger_graph.py` (`run_trigger_graph`), `supervisor.py`, `llm_metrics.py`, `app.py`, `triggers/guarded_run.py` |
| `Feedback` | posts, their records, reactions, retractions | `observability/slack_ingest.py`, `feedback.py`, `postgres_repos.py`, `correlation.py`, `label_registry.py`, `tools/slack/post.py` |
| `MC...` | instances for TLC | - |
| `SlackChannelScraper_proofs`, `SlackSearchScraper_proofs`, `JiraScraper_proofs`, `RagStore_proofs`, `TriggerGraph_proofs`, `TriggerBridge_proofs`, `Feedback_proofs`, `RunLifecycle_proofs` | theorems and proofs about the module each is named for | - |

Modules meet where the code does: the three scrapers extend one runtime; `RunLifecycle`
extends `ToolCalls`, which extends `Instruments`, so that a run, its calls and what observes
them are one system. `ScraperRuntime` sees the RAG service as its client does (a payload is
accepted, refused or its answer lost), `RagStore` from within. `TriggerGraph` decides which
graph a run gets and what a thread remembers, `RunLifecycle` what a run does and reports;
they are separate since neither reads the other's state but for the node a request leads to.

The modules define, next to some operators, a copy with a plausible mistake in it
("Mutant: ..."). None is used by a specification; substituted for the original, each makes
TLC report the property that `PROJECT.json` pairs it with, which shows that the property
depends on the code it is about.

### ScraperRuntime

`cursor` is what `get_state` would return, `NoCursor` when it is None. A job is one pod;
`pc[j]` runs through `idle`, `fetch` (reading the source), `build`, `embed` (posting) and,
with the file store, `write` (the file is truncated, not yet written). `floor[j]` is the
watermark the job read, `batch[j]` the payloads it has still to post, `next[j]` the
watermark its `commit` closure would store. `indexed` is what the RAG process holds,
`accepted` the history of what it ever acknowledged or took.

`Hand` is `ingest_scraped_embeds` with no payloads (the run ends without a commit) or some.
`PostFails` loses the request or only the answer, or the service's model fails after some of
the items (any of them; in the order of the code it is a prefix); in each case
`raise_for_status` or httpx raises and the process ends before the commit. `RestartRag`
empties the index, which `get_store` makes anew in each process.

`Commit` depends on where the watermark is kept (`Backend`). "postgres" is one upsert. A file
in a "directory" that is kept is truncated and then written (`WriteFile`), and a reader of
the empty file gets None, since `get_state` takes undecodable JSON for no state. A file in
the "container" is what the chart deploys by default: it mounts the job's configuration and
nothing else (`helm/chart/templates/_manifest_scraper_cronjobs.tpl:47-66,171-190`), so what a
pod writes is gone when it ends, and the next one reads no watermark.

### SlackChannelScraper

A message is its timestamp, a number; conversion of timestamps is exact at the precision
Slack uses. `Ahead(j)` is what conversations.history still has for the job: newer than
`oldest`, which is exclusive, and beyond the pages it got, in Slack's order, which is from the
newest message backwards (`Before`).
`FetchPage` is one round of `_channel_history_drain` with its trim to the cap; the drain's
three ends are the cap, an empty page and a page without `next_cursor`. `BuildBatch` puts
all items into **one** payload and takes the greatest timestamp of everything collected,
the skipped messages included. `cut` is history: the older messages that a drain left behind
when it ended at the cap with a payload that a request may carry (`LeftBehind`). Once such a
drain commits, nothing asks for them again. Messages without a `channel` field are skipped (`NoChannel`);
which messages Slack delivers with one is outside the model.

### SlackSearchScraper

There is no watermark: `next` stays `NoCursor` and nothing is committed. `hits[j]` are the
hits left, best first; `ExpandThread` and `ExpandWindow` are the two halves of
`_slack_search_expand_hit`, each with its own answer from Slack and the budget as it is then
(`Remaining`). `Leading` cuts an answer to the budget *before* messages that were seen are
taken out, as `_trim_page_to_remaining_budget` does; `Add` then counts new messages only.
So a budget of as many messages as there are may leave some out, and `CompleteIfRoom` says how
much is enough. The pages of one answer are not told apart. Each run posts anew what it finds,
and `add_chunks` appends it again: duplicates are what the code does.

### JiraScraper

Time is in ticks; a pair of issue and tick is one version of the issue's text. `updated` is
Jira's truth, `searchable` what its search index has, at most `Lag` ticks behind. `Bound` is
the watermark less `overlapMinutes`, truncated to the minute. With a watermark the query is
put into parentheses and ordered by update time (`Ordered`); without one it is sent as
configured. If the configured query ends in an ORDER BY of its own (`ownOrder`, as every
example has it) the parenthesised query is not JQL (`BadQuery`) and the run ends
(`SearchRejected`). An issue moves in the search's order when it is updated meanwhile.
`cutShort` remembers that an unordered search stopped at `maxIssuesPerRun`.

Assumed of Jira: JQL accepts ORDER BY only at the end of a query; paging by token continues
in the order of the search. Not in the model: 429 retries (they lengthen a search, bounded
by `SearchTime`), string comparison of update times (taken as comparison of times), time
zones (the bound is right for an account in UTC).

### RagStore

A request goes through its handler on a thread of its own. `lock` is the request that holds
`RAGStore._lock` over several steps, which only `add_chunks` does: it takes the lock
(`LockItems`), embeds and appends one item after the other (`AddChunk`) or leaves by an
exception of the embeddings model (`EmbedFails`), with what it has appended left behind.
`UpsertEntities`, `AddRelationships` and `Snapshot` are one critical section each and wait
for the lock. A chunk is the pair of its request and its place in it; `answered` and `before`
are history: which requests had been answered when a query came. `Answer` chooses any hits
of the number asked for (similarity is not modelled) and expands them: `Neighbors` follows
the frontier of `_neighbor_frontier_step` as a recursive function of the hops.

### TriggerGraph

`graph` and `graphKey` are `_compiled_graph` and `_compiled_graph_key`. A run goes through
`check` (compare the key), `build`, `key` (the two assignments), `take` (`return
_compiled_graph`), `load` and `act` (the graph's nodes); each step is what runs between two
accesses to shared state. `store` is the deployment's kind of checkpointer: "none",
"shared" (checkpoints not enabled: the module's one `MemorySaver`), "fresh" (enabled,
memory: a new `MemorySaver` per compile) or "postgres". `history[s][t]` is the `skill_json`
channel and the runs recorded for thread t in saver s. `Arrive` knows that `post_trigger`
never awaits while it runs the graph, so that HTTP triggers follow one another, while bridge
events and thread-state reads run beside them. `Fail` is any exception, `Restart` a restart
of the process. Building the module's `MemorySaver` twice by racing threads is left out.

`ThreadLog` says the same without graphs, keys and savers: a thread is a log of runs with the
skill that is loaded in it. A run resumes it once, goes on with the skill it asks for or else
the thread's, writes that skill back when it finishes, whatever other runs have done
meanwhile, and stays in the log of its own thread; logs are lost all at once or, with
Postgres, never. `ImplementsThreadLog` maps the requests a thread is to remember (`Kept`: not
ephemeral, not a read, one store for all graphs) to its runs, and the first saver's history
to the logs (`Asked`, `Threads`, `Held`, `Finished`).

### TriggerBridge

`pc[d]` is where a delivery is: `queued` as a background task, `insert` between the
deduper's look-up and its insertion, `run`, `over`; or `deduped`, `ignored`, `gone` with its
process. `seen` is the `OrderedDict`. The id of an event that is ignored later (a bot's own
message, no mention) is remembered all the same. `others` and `excused` are history: they
say for which ids the code leaves a second run open. `move_to_end` and `popitem` each belong
to the step before them.

### Instruments, ToolCalls, RunLifecycle

`Publish` is `SyncEventBus.publish`: the metrics, Langfuse, W&B, in that order.
`PublishRaises` is an exception of one of the latter two, after the metrics have counted. An
event is its name, its run and the subject it counts for. `counted` is a bag, so that
counting twice shows; `trace[r]` is `LangfuseLifecycleBridge._runs`, `session[r]` the W&B
run.

A call goes through `run_tool_json`: its id and the check of what is allowed (`Invoke`), the
handler (`RejectArguments`, `LookUpTransition`, `Performed`, `Refused`, `Lost`, `Read`), the
record of its side effect (`Record`), its event in two steps (`CountCall`, `EmitCall`,
because `_ensure_meta` looks for the trace and makes it apart), and its trajectory and span
summary (`Book`). `CallFails` ends it at any of these. Calls of one turn run side by side and
each sees the tool sequence in a copy of the run's context, which is why `TakeId` leaves
`toolSeq` as it is. The kinds of tools are what their handlers do with a change: put it on
record, ask for a transition first, or amend without a record. A subagent has no id, no
check and no record.

A run goes from `Begin` to `Respond` or, for a bridge, `Guard` (`run_guarded`'s `on_error`).
`Begin` publishes run_started *before* the `try` whose `finally` publishes run_ended (`End`),
so that an exception in between (`Compile` without a database) leaves the session open:
`abandoned` has these runs. The supervisor is offered what is allowed when it starts
(`EnterNode`); its model's callback is `StartGeneration`, `NewToken`, `EndGeneration`,
`CompleteGeneration`, whose exceptions LangChain logs and drops. `LeaveTools` waits for all
calls of a turn. `Crash` is the end of the process: what is in memory goes, W&B sessions and,
with Postgres (`Durable`), the records stay.

### Feedback

`log` is the sequence of reactions added and removed as Slack has it; `pc[n]` is where the
handler of event n is. `Home` is where records are: a replica's memory, or one database.
The reactions route does not await, so that a replica handles one event at a time, and
replicas handle theirs side by side. A post is `Send`, `RecordEffect`, `Correlate`, the last
two of which are statements of their own; a handler is `LookUp` (an orphan, a label or
none), `Retract` for a removal, or `Oppose` for each opposing label, `Delete` and `Insert`
for the two statements of the upsert, and `Publish`. Slack delivers an event again if it got
no answer (`again`). `raced`, `spoiled` and `expected` are history: they name whose reactions
were handled side by side, did not all come once and in order, or came after their message
was answered for.

## 3. The runs

| run | instance | shows |
|---|---|---|
| `slack_overlap` | 2 pods, 5 messages, one without a channel, pages of 2, cap 3 over limit 2, Postgres, 2 faults | `TypeOK`, `NeverSkips`, `RetreatsOnlyWhenOvertaken`, implements `IncrementalFeed` |
| `slack_progress` | 1 pod, 5 messages, one without a channel, pages of 2, cap = limit = 3, Postgres, 2 faults | `EmbeddedOnceIfFaultFree`, `EventuallyIndexed` |
| `slack_search` | 1 pod at a time, 6 messages, 4 in one thread, 2 of 3 hits, cap = limit = 4, 2 faults | `TypeOK`, `CompleteIfRoom`, `BestThreadIndexed` |
| `jira_overlap` | 2 pods, 2 issues, 3 ticks, one page, an index that lags by 1, overlap 1, Postgres, 1 fault | `TypeOK`, `NothingLost`, implements `IncrementalFeed` |
| `jira_progress` | 1 pod, 2 issues, 3 ticks, pages of 1, searches of 1 tick, overlap 1, a kept file, queries with and without ORDER BY, 1 fault | `NothingLost`, `EventuallyIndexed` |
| `rag_store` | 3 requests of 7 bodies, 2 scopes, 3 entities, 1 restart | `TypeOK`, `SeesWhatWasAnswered`, `SeesWholeBatches`, `IncompleteOnlyIfUnanswered`, `ExpandsToWithinReach`, `EventuallyAnswered` |
| `trigger_graph` | 3 requests, ephemeral ones apart from others, 2 threads, stores none, shared, fresh, postgres, 1 restart | `TypeOK`, `EphemeralUnrecorded`, `SkillsComeFromTheThread`, implements `ThreadLog` |
| `trigger_race` (violation) | 2 requests, ephemeral beside others | an ephemeral request is checkpointed |
| `bridge_dedupe` | 5 deliveries of 5 events, two of them without an id, 2 ids kept, 1 restart | `TypeOK`, `RunsOnceUnlessExcused`, `DropsOnlyTwins` |
| `feedback` | 2 replicas, 1 message, 4 emojis of 2 labels and none, 3 reactions, 1 redelivery, 1 fault | `TypeOK`, `OneSideUnlessRaced`, `MirrorsTheLog`, `AnsweredForIsNoOrphan`, `FeedbackHasItsSideEffect` |
| `run_lifecycle` | a bridge's supervisor of 2 parallel calls beside an HTTP run of 5 kinds, 1 fault | `TypeOK`, `EffectsOnRecord`, `CallsCountedOnce`, `RefusedOnlyIfLocked`, `OneTracePerRun`, `OneFirstToken`, `SessionsFinished`, implements `TraceSession` |
| `tool_ids` (violation) | the same, without faults | two calls of one turn have one id |

**Why these bounds.** A message is skipped by a page boundary, a cap or a race. Five
messages in pages of two make a full drain of three whose last page is trimmed and leave two
on either side of it; with one of them without a channel, a full drain of `slack_overlap` is
refused or, if that one is in it, carried and leaves messages behind. Two pods are every way
to overlap that one commit can see; two faults are a crash and a lost answer in one
behaviour. In the search, two hits in one thread make answers overlap, and a cap of four is
reached in some states of the channel and not in others. Two issues and three ticks let an
issue move past another within one search, be searchable late and fall out of a watermark's reach
(after a commit at tick 3 an update of tick 1 is). The cap covers both issues: a search that
is cut short in no order is the one that section 4 describes. Three requests to the RAG
service are a writer, another that waits for its lock, and a reader; two edges, a loop and
another scope's edge tell one hop from two and a scope from none. Three requests to the
agent are one that leaves state behind, one that disturbs and one that notices. Five
deliveries fill a deduper of two ids, evict one and repeat it. Three reactions are an
addition, its opposite and a removal, on two replicas in every order. Two calls of one turn
are all that a race of two needs, one fault reaches each point of a run. The numbers in the
code (500, 10000) only matter by being equal, above or below one another. `slack_overlap` has
the cap above the limit, with full drains that fit it nevertheless and others that do not,
`slack_progress` the cap at the limit; a cap below the limit cuts off as the cap at the limit
does. What the bounds may still hide is excluded by proof (section 5) for every safety
property that a passing run checks.

**Deadlock** is not checked: a bounded source falls silent, and a system with nothing to do
is no error here.

**Fairness.** `FairSpec` of the scrapers assumes that an idle job is started again and a
running one keeps running (`WF` of `Progress(j)`): the schedule of the CronJob and an
operating system that schedules its processes. For Jira also that the search index catches
up. Faults, messages and ticks have no fairness, so that nothing depends on a crash or on a
new message. Faults are bounded by `MaxFaults`: `EventuallyIndexed` says that after the last
of them everything arrives that no cap has cut off. `FairSpec` of `RagStore` assumes that each handler runs on
(`WF` of `Handle(r)`, a thread each) and that a call to the embeddings model ends, by its
timeout at the latest. Weak fairness is enough for those who wait for the lock since no
request can take it for ever: each releases it, and there are finitely many. The modules
about triggers, runs and feedback claim no liveness: what its process loses is lost.

## 4. What the violations show

- **`trigger_race`**: `compiled_trigger_graph` returns a global that another thread may have
  replaced (`trigger_graph.py:230`), and `docs/checkpointing-and-traces.md` promises that
  ephemeral requests leave nothing.
- **`tool_ids`**: `next_tool_call_id` (`run_context.py:45`) counts in a context variable; the
  calls of one turn run in copies of the context and get the same number, where the docstring
  promises global uniqueness. Trajectories, span summaries and W&B spans of both calls share
  an id.

These disagreements were found with instances that are not among the runs; each comes back by
the change of constants or the property named:

- With a cap above the 500 items a request may carry (`slack_progress` with `Cap` above
  `MaxItems`), `EventuallyIndexed` fails: `maxMessagesPerRun` defaults to 10000, all of a
  run's messages are one payload (`scrapers/slack_job.py:644`), and a backlog above 500 is
  answered 422 before the commit, at each schedule anew.
- The refusal is also what protects the other side. With a cap *within* the limit a backlog
  above the cap is drained from its newest message, committed, and its older messages are
  never asked for again. That is what `cut` has in `slack_progress`; without `cut` in them,
  `NeverSkips` and `EventuallyIndexed` fail there.
- In the deployment that the chart renders by default the channel's watermark does not
  outlive its pod (`Backend` = "container"): every run drains the whole channel and appends
  it to the index again. `EmbeddedOnceIfFaultFree` fails in `slack_progress` with that value,
  in a behaviour without any fault; `EventuallyIndexed` holds. The documents speak of
  "incremental history under `stateDir`" (`examples/with-scrapers/README.md:19`) and of a
  "Directory for channel-scrape cursors (empty PVC path in production)"
  (`helm/chart/values.schema.json:196`), but no template mounts a claim there. For Jira it
  means the configured query without a bound in each run. `docs/observability.md:276` names
  Postgres as the durable backend.
- A first Jira search without ORDER BY that stops at `maxIssuesPerRun` commits the latest
  update it happened to see; `NothingLost` fails in `jira_overlap` with `MaxIssues` = 1.
- `_build_jql` (`scrapers/jira_job.py:404`) puts `project = DEMO ORDER BY updated ASC` of
  `examples/with-scrapers/values.yaml` into parentheses; with `ownOrder`, `EventuallyIndexed`
  fails, nothing is indexed after the first commit.
- With `maxIssuesPerRun` or more issues inside the overlap window the Jira scraper gets the
  same issues in every run and its watermark never moves. And when the index's lag and the
  length of a search add up to more than `overlapMinutes` (`SafeOverlap` is false),
  `NothingLost` fails.
- A tool whose handler raises anything but `KeyError` is counted nowhere
  (`trigger_steps.py:63-67`), though
  `openspec/changes/agent-runtime-components/specs/runtime-tools-mcp/spec.md:49-52` says that
  when a tool invocation "fails in a way visible to the runtime (for example transport,
  adapter, or tool execution error)" the counter with `result="error"` SHALL increase, and
  `openspec/specs/dalc-agent-o11y-scrape/spec.md:36-43` asks for the series prescribed there.
  In `run_lifecycle`, "a call that is over was counted" fails for such a call; so
  `CallsCountedOnce` says of it only that it is not counted twice.
- `triggers/dedupe.py:9` calls the deduper a "FIFO-bounded set". It is bounded by least
  recent use: a duplicate moves its id to the end (`dedupe.py:20`). `RunsOnceUnlessExcused`
  is about the code, and fails for a deduper that is first in, first out (the mutant
  `DropFifo`).
- "Checkpoints disabled" is in the code a `MemorySaver`, not the stateless graph of
  `docs/runbook-checkpointing-wandb.md:21`: a request without `load_skill` in a thread that
  loaded a skill before is answered with the stored skill (`trigger_graph.py:111`).
- With checkpoints enabled and the memory backend each compile has a store of its own
  (`trigger_graph.py:182`), and a request of the other mode causes one: `ResumesThread` holds
  for the other stores only.

What the code does and the properties leave room for, because nothing promises otherwise:

- Two emojis of one label share a dedupe key: removing one retracts the feedback though the
  other still shows. An addition retracted by its opposite does not come back when the
  opposite is removed. Scores published to W&B and Langfuse are never taken back.
- In memory, a reaction that reaches another replica than the one that posted is an orphan.
- Two runs of one thread at once (a bridge's beside an HTTP request's) each write back the
  skill they started with: the later one undoes what the other has loaded (`ThreadLog`'s
  `Finish`).
- A bridge whose "ok" response raises in a plugin is counted as ok and as error.
- A span summary's outcome is "success" for an answer that is not ok; `chat.update` and reactions leave no side effect
  checkpoint, though the change's specification asks for one of every visible effect.
- An embed request whose model fails leaves the items before it, and a retry appends them
  again. A query waits for as long as another request embeds (up to 500 calls of a remote
  model under the lock).
- Restarting the agent locks the tools that a checkpointed skill says it unlocked.
- As many messages without a channel as the cap admits, next to one another and newest, end
  each run without a payload and so without a commit; the older ones are not reached, and are
  left behind (`cut`) once a newer message with a channel comes.

Details in which the models are coarser than the code:

- The look-up and the `move_to_end` of a duplicate are one step (`DropDuplicate`). Between
  `dedupe.py:19` and `:20` another thread may evict the id, and `move_to_end` then raises
  `KeyError` in the background task.
- Reads of Slack turn `SlackApiError` into an answer that is not ok and let errors of the
  transport through (`tools/slack/history.py:95-98`); the model has such a raise before the
  request only (`RejectArguments`), with the same state after it.
- A `KeyError` from within a handler is counted and answered as an unknown tool
  (`trigger_steps.py:65`), after what the handler may have changed; the model judges a tool
  unknown before it is called. A body of Jira with an `error` under a 2xx status and no
  `ok` is returned without a checkpoint and counted as ok (`tools/jira/handlers.py:243`),
  which no kind of tool of the model does.

## 5. What is proved

Each theorem holds for every value of the constants that the named assumptions of its module
admit: any number of jobs, requests, messages, faults and restarts, any page size, cap and
store. Where more is assumed, the table says so.

| module | theorem | assumes | says |
|---|---|---|---|
| `SlackChannelScraper` | `TypeCorrect` | - | `Spec => []TypeOK` |
| | `SkipsNothing` | - | `Spec => []NeverSkips` |
| | `SkipsNoneIfSafe` | `SafeDrain` | `Spec => []SkipsNone` (`NeverSkips` without `cut`) |
| | `Refinement` | - | `Spec => ImplementsFeed` |
| | `NoRetreat` | - | `Spec => RetreatsOnlyWhenOvertaken` |
| | `EmbeddedOnce` | `OnePod`, a store that outlives the pod | `Spec => []EmbeddedOnceIfFaultFree` |
| `SlackSearchScraper` | `TypeCorrect` | - | `Spec => []TypeOK` |
| | `CompleteCorrect` | - | `Spec => []CompleteIfRoom` |
| `JiraScraper` | `TypeCorrect` | - | `Spec => []TypeOK` |
| | `NothingLostCorrect` | `SafeOverlap` | `Spec => []NothingLostAfterFullSync` |
| | `NothingEverLost` | `SafeOverlap`, `WholeSearches` | `Spec => []NothingLost` |
| | `Refinement` | `SafeOverlap` | `Spec => ImplementsFeed` |
| `RagStore` | `TypeCorrect` | - | `Spec => []TypeOK` |
| | `WholeBatchesCorrect` | - | `Spec => []SeesWholeBatches` |
| | `AnsweredSeenCorrect` | - | `Spec => []SeesWhatWasAnswered` |
| | `IncompleteCorrect` | - | `Spec => []IncompleteOnlyIfUnanswered` |
| | `ExpansionCorrect` | - | `Spec => []ExpandsToWithinReach` |
| `TriggerGraph` | `TypeCorrect` | - | `Spec => []TypeOK` |
| | `NothingEphemeral` | `Apart` | `Spec => []EphemeralUnrecorded` |
| | `Resumes` | `Apart` | `Spec => []ResumesThread` |
| | `OwnSkills` | `Apart` | `Spec => []SkillsComeFromTheThread` |
| | `ThreadsAreLogs` | `Apart` | `Spec => ImplementsThreadLog` |
| | `LogsKeepTheirRuns` | - | `Log!Spec => []Log!KeepsItsRuns` |
| `TriggerBridge` | `TypeCorrect` | - | `Spec => []TypeOK` |
| | `RunsOnce` | - | `Spec => []RunsOnceUnlessExcused` |
| | `OnlyTwinsDropped` | - | `Spec => DropsOnlyTwins` |
| `Feedback` | `TypeCorrect` | - | `Spec => []TypeOK` |
| | `SideEffectFirst` | - | `Spec => []FeedbackHasItsSideEffect` |
| | `NoOrphans` | - | `Spec => []AnsweredForIsNoOrphan` |
| | `OneSide` | - | `Spec => []OneSideUnlessRaced` |
| | `Mirrors` | - | `Spec => []MirrorsTheLog` |
| `RunLifecycle` | `TypeCorrect` | - | `Spec => []TypeOK` |
| | `OnRecord` | - | `Spec => []EffectsOnRecord` |
| | `CountedOnce` | - | `Spec => []CallsCountedOnce` |
| | `OfferedIsAllowed` | - | `Spec => []RefusedOnlyIfLocked` |
| | `OneTrace` | - | `Spec => []OneTracePerRun` |
| | `FirstTokenOnce` | - | `Spec => []OneFirstToken` |
| | `SessionsEnd` | - | `Spec => []SessionsFinished` |
| | `SessionsBehave` | - | `Spec => ImplementsSessions` |

The assumptions in words, and what becomes of the theorem without them:

- `SafeDrain`: the payload of a full cap is more than a request may carry. It holds under the
  defaults (cap 10000 over limit 500), provided more than 500 of a full cap's messages have a
  channel. Without it a commit leaves messages behind: exactly those in `cut`, which is what
  `SkipsNothing` and `Refinement` say for every cap and limit.
- `OnePod`: there is one job, as with `concurrencyPolicy: Forbid` when nobody starts another
  by hand. Two pods read the same watermark and post the same messages. The theorem also
  leaves out `Backend` = "container", where every run posts what the last one did.
- `SafeOverlap`: `Lag + SearchTime <= Overlap`; what the search index may be behind and what
  a search may take is together no more than `overlapMinutes`. Section 4 has the failure.
- `WholeSearches`: every configured query has an order, or there are at most
  `maxIssuesPerRun` issues. Otherwise a first search may be cut short in no order.
- `Apart`: ephemeral requests are not in flight beside others. Two cases of it are certain:
  clients send triggers over HTTP alone, where the coroutine of the route awaits nothing while
  it runs the graph, or they send requests of one kind only. The third is `~Mixing`, which no
  code enforces: with bridges and ephemeral requests in one deployment the promises hold on
  the side of the race on which they do not meet, and `trigger_race` is the other side.

Hardly any of the properties is inductive. What each argument adds:

**SlackChannelScraper.** Types need that a page is no longer than the room that is left
(`PageSizeBound`). `NeverSkips` says nothing of jobs under way. `IInv` adds to `TypeOK` and to
"everything up to the cursor is accepted, has no channel or is in `cut`" what each job still
owes, phase by phase:

- `FetchInv` (while it drains): what it has collected was posted after its floor, and has no
  gap between two messages (`Convex`), as a page continues the last one downwards
  (`PageClosed`) and messages posted meanwhile come before the first page. The gap between the
  floor and the oldest collected message closes with the last page only (`LastPage`).
- `BuildInv` (after the drain): there is no gap above the floor (`NoGap`), **or** the cap is
  reached. In the second case what is in the gap goes to `cut` when the payload is built,
  if a request may carry it.
- `EmbedInv` (while it posts): the watermark to commit is above the floor and not above what
  was posted, and everything up to it is covered or in the one payload left to be posted,
  unless that payload is one that will be refused.

Every conjunct survives the steps of other jobs because `accepted` only grows
(`JobInvStays`), and so does `cut`. Where `SafeDrain` holds nothing is ever cut, which is
`SkipsNoneIfSafe`. The refinement follows with `settled` as the messages up to the cursor: a
commit settles what was accepted before it, and posting does not move the cursor. `NoRetreat`
uses an invariant of its own (`ForwardInv`): what a job collects, and so its `next`, lies above its floor. `EmbeddedOnce` adds `OnceInv` to it: until the first
fault nothing in the index is past the floor of a pod that reads, and all it carries is.

**SlackSearchScraper.** An answer cut to what is left of the budget has no more messages than
that (`LeadingSize`: all but the last of those that were left are ahead of it), which is why
the budget is never exceeded. `CompleteIfRoom` needs that what was collected came from an
answer (`NearInv`): an answer is cut only if it is longer than the room that is left, and
then, if the budget has room for everything and this answer once more but for one message,
as much was collected as there is, so all of the answer was collected before. This is also
why one message less of budget does not do. `HalfInv` keeps a hit at hand between its thread
and its neighbourhood.

**JiraScraper.** That nothing a job was shown or is to commit is of the future, and that its
pages respect the cap, is an invariant next to the types (`Typed`, `TimeInv`, `PagesInv`). A
watermark is safe here because of the time that passes, so the invariant
is about time. `LagInv`: an update that is not searchable is young. Then, phase by phase, why what a job will put out of reach is accepted:

- `FetchInv`: of the versions that the search index had when the job began (`Ripe`), an
  ordered search has each above its bound on a page, or has returned nothing younger. An
  issue that moves in the order while it is paged through is a new version, and not ripe.
- `BuildInv`: each version is accepted, among the results, or within the overlap of all of
  them. A version that was not ripe is at most `Lag + SearchTime` older than anything the
  job is shown: that is where `SafeOverlap` is needed (lemma `PageKeepsJob`). A search without
  an order that is cut short owes nothing (`cutShort`).
- `EmbedInv`: each is accepted, still to be posted, or within reach of the watermark to
  commit.

The refinement takes for `settled` what is out of reach. `NothingEverLost` needs in addition
that no issue is on one job's pages twice in an unordered search (`UncutInv`); then, by the
pigeonhole principle, pages of all issues are never cut at a cap that admits all issues.

**RagStore.** `LockInv`: the lock is held by exactly the request that is adding, so that a
query that finds it free copies no batch in progress. `BodyInv`, `ChunksInv`: each stage is
reached with a body of its kind, and a chunk's request never goes back before `add_chunks`,
so it cannot add again. `PrefixInv`: a request that is adding has added exactly its first `k`
items; with `NextChunk` the last step completes the batch. `StagesInv`: what a handler has
behind it is in the store, which is what a request that was answered without an error has
stored, and what a later query sees (`HistoryInv`, `SeenInv`). `AnswerInv`: an answer is the
expansion of its hits in what the query copied, and no request that brought a hit ever gets
another body.

What is left for `ExpandsToWithinReach` is about data: `_neighbors` moves a frontier on, hop
by hop, and the property speaks of paths. The frontier is a recursive function; it has a
value since the sets of entities at the end of a path of `k` steps satisfy its equation, and
it is those sets because the least `k` at which it differed from them could not be 0 nor
follow one at which it did not (`FrontierReached`). The induction is thus an appeal to the
least element of a set of numbers (`LeastNat`, from the library's well-founded relations).
`Hits` of `SlackSearchScraper`, a recursive function as well, gets its type in the same way.

**TriggerGraph.** Types hold with mixed requests as well; they need that a process makes no
more savers than runs have come that far (`BuiltInv`). If they are kept `Apart`, all active requests
have one flag (`AloneInv`), so the graph in the global fits every run that has passed the
comparison of keys, and the key fits the graph whenever no run is between the two assignments
(`GraphInv`); each run therefore takes a graph with a checkpointer if and only if it is to
have one (`MineInv`). What a thread's checkpoints hold is then said run by run: durable ones
only, and all that are done where one store serves all graphs (`PastInv`); a skill in them or
in a run's channel was asked for in that thread (`SkillInv`). `Resumes` states a consequence
on its own: whoever goes on with a thread has the checkpoints of its finished runs; no run
checks it, as `ThreadLog` has it already (`LogsKeepTheirRuns`: a log has its finished runs,
each in its own thread). The refinement of `ThreadLog` needs a little more (`LogInv`): that a
checkpoint is of a run of its own thread which has got as far as to load, so that a run
resumes a thread that has not seen it; that one which acts is in the log already, unless
nothing is to remember it; and that a run which has not come holds no skill. Each step is
then `Ask`, `Resume`, `Abandon`, `Finish` or `Lose`, or leaves the logs as they are, as all
do that compile a graph or take one. Otherwise TLC refutes it as it refutes
`EphemeralUnrecorded`.

**TriggerBridge.** `DropsOnlyTwins` follows from `SourceInv`: an id is remembered because a
delivery of its event was let through. That an event runs once is an argument about the
*order* of the deduper's ids (`KeptInv`): behind an id stand only ids that were asked about
after it, so whichever is evicted has `MaxEntries` others to excuse it. This rests on
`Touch`, which moves an id that is asked about again to the end; as a deduper that only
appended it would evict an id that was just seen.

**Feedback.** Three arguments meet. The correlation is recorded after the side effect and
only a handler that found it gets past the look-up (`PostInv`, `HandlerInv`, `StoredInv`,
`ExpectedInv`). A handler that is alone with its user and message has an ever smaller list of
opposing labels before it inserts its own (`RaceInv`, `SideInv`, `OpposeInv`). And reactions
that came once and in order are handled up to one of them (`OrderInv`), at which the feedback
is what those before it said but for what this one has done so far (`MirrorInv`, `Between`).

**RunLifecycle.** What a call may do follows from where its run is (`FlowInv`): no call
before the run's node, and only while its turn of tools lasts. Whether a call is counted,
booked and on record can be read off where *it* is (`CallInv`, `CountInv`), and likewise a
generation's first token (`TokenInv`) and a run's session (`SessionInv`). `OneTracePerRun`
needs that a run that has completed a generation or streamed a token has its trace
(`TraceInv`), so that parallel calls, which look for the trace before they use it, cannot
each open one; and that a call never found a trace that did not exist yet. In the refinement
of `TraceSession` each step of a run, a call or an instrument is one of its session, or none.

**What the proofs changed.** The checkpointer's choice in `TriggerGraph` (`Checkpointer`) was
a CASE whose arms overlapped for an ephemeral request without a store; TLC took the first,
the theorem could not. It is now the order of the code's tests (`trigger_graph.py:179`).
`MaxTime` of `JiraScraper` has to be positive: time 0 stands for "never updated". `Hits` of
`SlackSearchScraper` is a recursive function over the ranking, where it was a `SelectSeq` that
the provers know nothing about.

**Only model-checked.** The four liveness properties (`EventuallyIndexed` of both scrapers,
`BestThreadIndexed`, `EventuallyAnswered`): they depend on fairness and so on ENABLED. Every
other property of a passing run is stated by a theorem above.

## 6. What is not modelled

- Whether the index still *has* what was accepted: it is in one process's memory, and after
  a restart of the RAG service nothing before the watermark is posted again. `NeverSkips`
  speaks of acceptance for that reason.
- Verification of signatures, parsing of requests, texts and prompts, labels and durations of
  metrics, rendering of the chart, the script that checks the repository's own documents: data
  and input/output with no protocol.
- The caches of pools and bundles in `observability/stores.py`, `checkpointer.py`,
  `bootstrap.py` and `pglite_runtime.py`, which are filled without a lock: two first requests
  may open two pools and keep one.
- What worker threads keep bound after their run (Socket Mode's listener never unbinds the
  run's context), and that a W&B run opened for late feedback with `reinit=True` ends the one
  of a run in flight: both are behaviour of libraries as much as of this code.
- The composition of `TriggerBridge` and `RunLifecycle` with `TriggerGraph`: a delivery is a
  run is a step of a thread's history, and the product of the three is beyond TLC at any
  bound at which each is interesting.

## 7. The plan

In place: the scrapers over one runtime with `IncrementalFeed` above the two incremental
ones; the RAG service; the trigger graph with `ThreadLog` above it; the bridges; runs, calls and instruments with
`TraceSession` above them; feedback; the proofs of section 5, which cover the safety
properties of all modules.

Left, in the order of what matters most:

1. The stores' caches of pools and bundles.
2. The order of update times as strings in `scrapers/jira_job.py:437`, a pure function.
