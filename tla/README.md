# Neuralgram: a TLA+ model of its memory and of the API before it

Neuralgram ingests documents, cuts them into content-addressed chunks, and builds a
memory from them in the background: a Postgres table of jobs, worker tasks that
extract, embed, buffer and summarize, and a gateway that meters every call of a
language model. What can go wrong in it is mostly what happens *between* statements:
a handler reads, waits seconds for a model, and writes; several requests, workers and
instances of the service do so at once; each of them may die. This directory models
that code with TLA+, checks it with TLC, and proves its safety properties with TLAPS
for any number of jobs, workers, tenants, requests, chunks.

Paths below are relative to `src/neuralgram/`.

## 1. The system

| Component | State it keeps | Operations | Hard behaviour | What makes it correct |
|---|---|---|---|---|
| Job queue, `memory/queue.py` | rows of `jobs`: status, lease owner and expiry, retry count, dedupe key | `enqueue`, `claim` (`FOR UPDATE SKIP LOCKED`), `ack`, `fail` | claims of several instances; leases that run out under a living worker; `fail` reads and then writes | one holder per job; no retry lost or added; every job settles |
| Worker pool, `memory/workers.py` | tasks, wake event, model semaphore | `start`, `stop`, `wake`, the loop claim - handler - ack/fail | crash, cancellation, lost wake-up, exceptions of the bookkeeping | a stop strands no finished job; a worker survives a database error |
| Usage meter, `router/metering.py` | `usage_events`, advisory locks, the connections they hold | `tenant_lock`, `check_cap`, signup limits, `record` | check - provider call - record is not a transaction; cancellation anywhere; a lock's holder waits for a second connection | no check is stale; caps are passed by less than a call; locks come back |
| Gateway and cache, `router/gateway.py`, `router/cache.py` | Redis entries | `complete`, `embed` | cache hits bypass the meter; expiry | only answered calls are recorded and cached |
| Provider health, `router/health.py`, `router/routing.py` | failure counts, cooldowns, shared by all calls | `is_available`, `record_success`, `record_failure`, failover with retries | one call's outcome changes what another may ask | a call with a provider that answers is answered; a tripped provider is left alone |
| Source tree, `memory/trees.py` | chunk lifecycles, `summaries` | `append_buffer`, `seal`, `_cascade`, `flush_stale` | what is selected before the model call is written after it | nothing falls out of the tree; nodes chain down to chunks; a full buffer is sealed |
| Ingest and store, `api/routes_memory.py`, `memory/store.py` | `chunks`, vault files | `ingest_endpoint`, `persist` | files and rows are two stores; the commit and the enqueue are two commits | rows and files agree; one request inserts; every stored chunk is judged |
| Canonical text, compression, chunker, `ingestion/`, `compression/`, `memory/chunker.py` | none | one pass over a text | off-by-one at a cut, at a budget, at a join | what is posted is in the chunks, in its order |
| Extractor, `memory/extraction.py` | lifecycles, `entities`, `chunk_entities` | `extract_chunk` | crash between the admission and its follow-up jobs | a verdict is final; follow-ups come after the links; admitted work is not lost |
| Topics and digest, `memory/topics.py`, `memory/digest.py` | topic and daily nodes of `summaries` | `topic_route`, `digest_daily`, `DigestScheduler` | a row lock held through a model call, or none at all; one tick a day | one node per entity and per day; hot entities and finished days have theirs |
| Erasure, `memory/erasure.py` | everything of a tenant | `erase_tenant` | one long transaction and a directory sweep, among running handlers | no row without its file; what holds the entity is erased with it |
| Authentication and roles, `api/deps.py`, `api/routes_auth.py` | `users` | signup, login (key rotation), `require_tenant`, `require_role` | logins, signups and erasures at once, each a SELECT and a later commit | an answered key works, an ended key does not |
| Demo rate limiter, `api/rate_limit.py` | Redis counters | `check_and_increment` | INCR, then EXPIRE; midnight | a visitor is admitted as often as its limit says |
| Storage and isolation, `storage/repository.py`, `common/db.py` | the tenant of a session | `scoped_select`, row-level security, the connection pool | visitors that share one key | a read returns its owner's rows, all of them |
| Audit, `api/audit.py`, `api/routes_admin.py` | `audit_events` | the middleware, the read route | an exception, a failed write, a row written after the answer is known | the trail has every answered request |
| Retrieval, `memory/retrieval.py`, `memory/tree_retrieval.py` | none | `search`, `semantic_search`, `hybrid_search`, reads of summaries | equals and near-equals of two cut lists | nothing found comes behind what it dominates |
| Metrics, logs, tracing, `observability/` | gauges | - | nothing reads them back | not modelled |

How they interact. A request resolves its key, is counted if it is a visitor's, and
leaves its row in the trail after its answer is known. The ingest route calls `persist`
and then `enqueue`s one `extract_chunk` per new chunk and wakes the pool of its own
process. Workers of every instance claim from the one table. `extract_chunk` calls the
gateway, commits its verdict, and then enqueues `append_buffer` and one `topic_route`
per entity; these summarize through the gateway, which takes the tenant's advisory lock
around each call and a second connection for its checks. The scheduler enqueues
`digest_daily`. An erasure deletes rows of all of these tables, jobs and the account
included, under running handlers.

`PROJECT.json` lists the hazards of this code, each at its line, with the properties
that would catch it going wrong.

## 2. Modules

| Module | Models |
|---|---|
| `JobQueue` | the statements on `jobs`, one operator per statement; a row is a record, time is the two values a lease has (live, expired) and whether a backoff is over |
| `WorkerPool` (extends `JobQueue`) | the worker tasks of several instances, cut at every `await`: `ClaimSelect`/`ClaimCommit`, `StartHandler`/`EndHandler`, `Ack`, `FailRead`/`FailWrite`, `Stop`, `Crash`, `Start`, `Wake`. `Faults` names what the environment may do |
| `DurableQueue` | the abstract queue: a job is pending, then done, or failed after `MaxRetries` misses. `WorkerPool` implements it (`QueuePromise`), and `ContentPipeline` is built on it |
| `UsageMeter` | metered calls with their lock, checks, provider call, record, cache, and the connections each of these takes from the pool; `usage_events` is its sums and counts |
| `UsageLedger` | what the metering promises: a call is admitted at one instant within every limit that applies, and charged once or not at all. `UsageMeter` implements it (`CallsAtomic`) |
| `SourceTree` | runs of `append_buffer` and `flush_stale` over one source: `StartAppend`, `MarkBuffered`, `CountBuffer`, `Select`, `WriteNode`, retried until they return |
| `ContentPipeline` | requests (`Insert`, `Commit`, `Unlink`, `EnqueueExtract`) and extractions (`StartExtract`, `Verdict`, `EnqueueNext`) over rows, files, links and the `DurableQueue` |
| `DocumentText` | what a posted text goes through before it is stored, over sequences of characters: `Canonical`, `Compress`, `Chunked`; the code's loops are recursive functions (`Loop`). Composed with the requests of `ContentPipeline` in `ContentPipelineProperties` |
| `TenantMemory` | `topic_route`, `digest_daily`, the scheduler and `erase_tenant` over one entity and its chunks, with the row lock of the entity, READ COMMITTED. A row has the date of its INSERT (`WriteFile`) and is seen from its commit on (`CommitRow`); an admission is committed (`Admit`), and then its `topic_route` enqueued (`EnqueueTopic`, one owed for each in `following`, for ever if its process died); the tick looks for the chunks of the day that ended (`Tick`) and then enqueues its digest (`EnqueueDigest`). `straddled`, `swallowed`, `late` and `locked` are histories: what was under way when an erasure ran, whose job an older one took the place of, what was committed when the tick of its day had looked |
| `ProviderFailover` | calls that share breakers: `Begin`, `Answer`, `Retry`, `AskAgain`, `FailOver`, `Break`, `CooldownOver`. Between two awaits of one call nothing else runs, so the choice of the next candidate is one step |
| `ApiAccess` | requests of every route, one step per statement: `Find`, `SignupCommit`, `LoginCommit`; `Resolve`, which for a visitor reads the date too; `Count`, `Expire`, and the end of a counter a day after its EXPIRE, `Lapse` (`lapses` counts them); the bodies as far as they store, read or erase; `Audit` and what breaks it |
| `SearchRanking` | `Search`, `SemanticSearch`, `HybridSearch` as operators on lists of hits, scores as fractions where the code has floats. The sort is modelled by what it returns: a hit has the place that the number of hits preceding it gives. Composed with the searches of `ApiAccess` in `ApiAccessProperties` |

Each has a `...Properties` module that states what it is relied on for. The state
machines, with `DocumentText` and `SearchRanking` composed into two of them, have an
`MC...` module that gives TLC its instances. What is proved is in the `...Proofs`
modules, that of `SearchRanking` in `ApiAccessProofs`. A definition named `X_Something`, with a comment "Mutant of X", is a
plausible bug in `X`; it is used by nothing, and each property is known to fail when `X`
is replaced by one of them.

Data is abstracted to what the properties tell apart. A chunk is a number or a model
value; prompts, scores and embeddings are left out; a verdict is a nondeterministic
choice; a key is the request that made it; a cost is a number up to `MaxCost`; time is a
few flags and a date. Control is kept: every early return, every exception path that
changes state, and the order of commits. Only in `DocumentText` are characters data: what
a cut or a strip loses is what its property is about.

## 3. What TLC checks

| Run | Question | Bounds, and why they are enough |
|---|---|---|
| `pool_timely` | While leases outlast the work: exclusive handling, only the owner ends a lease, refinement of `DurableQueue`, every job settles | 2 instances with a worker each (all races are between two), a job with a handler and one without, `MaxRetries` 2, one crash, stop, claim error or bookkeeping error |
| `pool_overrun` | What still holds when leases run out under living workers, rows are erased and the pool stops: the retry budget, agreement of the columns, no premature failure, a stop lets a finished job be acked | 2 workers, 2 rows with one key, `MaxRetries` 3, so that a stale `retry_count` can be wrong by more than one |
| `pool_death` | Violated: a worker survives a database error | as above, one fault |
| `meter` | Caps, limits and locks with calls that may be cancelled anywhere, while connections run out; refinement of `UsageLedger` | 2 callers, a capped signup tenant, 2 demo visitors, 3 calls, costs of 0 or 1 against caps of 1 so that overshoot is visible; 5 connections and one other user, where two callers alone may want 6 |
| `meter_demo_cap` | Violated: the shared demo cap is overshot by less than a call | as above, no aborts |
| `tree` | Two runs at once and one fault: nothing falls out of the tree, nodes chain down, one parent unless selections overlapped, lifecycles only go forward, a full buffer is sealed | 3 chunks, buffer of 2, cascade of 2, 4 nodes: enough for two seals that overlap and a fold above them; no more runs (2) than the buffer holds; jobs are retried after a fault |
| `tree_duplicates` | Violated: one parent each, with two runs | 3 chunks |
| `pipeline` | Rows and files, one inserter, order of commits and enqueues, final verdicts, every chunk is judged, every admitted chunk buffered; and every text is stored whole | 2 requests that post the same 2 chunks in either order, 1 worker, 2 faults of any of six kinds (two are needed for a failed undo), `MaxRetries` 2. Texts: all of up to 5 characters out of two letters, a space and a newline, under budgets of 1, 2 and 9 tokens of 4 characters, so that cuts, joins and truncation all happen |
| `pipeline_lost_work` | Violated: a worker crash loses no admitted chunk | 1 crash |
| `memory` | No duplicate topic or digest node, no hot entity without its node, no day without its digest, what an erasure takes along | 2 chunks, hot above 1 mention, 2 handlers, 2 days, one erasure or two of five faults, `MaxRetries` 2, so that a digest can fail for good, 3 persists, so that an erased chunk can come back. `MCErasure` leaves out an erasure with another fault, and one after midnight but in a tenant of one chunk: no property of the run relates an erasure to a digest, and `DayDigested` ends with one |
| `failover` | A route with a provider that answers is answered; a tripped provider gets only retries that were due | 2 calls, 3 providers, routes of 1 and 3 candidates, one with a provider twice; the code's own threshold 3 and 2 attempts; 2 cooldowns that run out |
| `access` | Keys that work and keys that do not, whose rows are read, what the trail has, the visitors' limit; and how a hybrid search ranks | 3 requests of any kind at once or in a row (a race, and one to observe it), one account and one free email, an operator, two visitors, `DailyLimit` 1 and one midnight, which may fall between a date and its INCR, before or after the counter is gone. Past midnight only the calls of one visitor are followed (`MCDays`): nothing but the limiter looks at the date, and each visitor has counters of its own. Hits: every two lists of up to 3, up to the names of the chunks; limits up to 3, on both sides of `RrfK` 2 |

Deadlock is checked in `pool_*` and `failover`, whose systems never stop: workers poll
for ever and calls can always begin. In the others the bounds on requests, calls, chunks or
faults end every behaviour, and a behaviour that ends too early violates the liveness
properties.

Every bound is a named constant in a guard: `MaxFaults`, `MaxCalls`, `MaxOthers`,
`MaxIngests`, `MaxPersists`, `MaxTrips`, `LastDay`, and the sets `Jobs`, `NodeIds`,
`Chunks`, `Slots`, `Forms`, `Menu`. `SYMMETRY` is used where no liveness is checked: two
workers of one instance in `pool_overrun`, requests and visitors in `access`. Slots of
`TenantMemory` are taken in order for the same reason.

`StoredWhole` and `FusedRanking` quantify over inputs, not over histories: they are
evaluated for every text whenever a request posts, and for every two lists of hits
whenever a search is served.

### Fairness

Only weak fairness, and only of what the event loop and Postgres do: every `await` of
a handler, statement or provider call returns or raises (all of them have timeouts, the
wait for a lock three seconds, the wait for a connection thirty); a lease and a backoff
run out with the clock; midnight comes, and the scheduler's task goes on; an instance that went down is started again
(`Start`, the platform's restart); the queue runs what is pending. Not fair:
submissions, admissions and their enqueues in `TenantMemory`, the steps of an erasure, aborts and all faults, cooldowns, the return of a connection by somebody
else, verdicts in favour of a chunk, `wake()`. So `EveryJobSettles` rests on the poll,
not on the event, `EveryChunkJudged` on the retries, and `LocksReturn` on the timeout of
the pool: with all connections held by callers that wait for another, nothing else ends it.

### Disagreements with the code's own statements

1. **A bookkeeping error kills a worker** (`pool_death`). `_worker_loop` guards `claim`
   against database errors, because "there is no supervisor that restarts it"; `ack` and
   `fail` in `_run_job` are outside of that guard.
2. **The demo cap is shared, its lock is not** (`meter_demo_cap`). Two visitors pass the check of
   the family's sum at once, each under its own tenant's lock. `FamilyOvershoot` is the
   bound that does hold: one call per tenant.
3. **One full buffer is sealed twice** (`tree_duplicates`). `seal` selects without a lock
   and writes after the model call; the tree is not a tree. `OneParentUnlessOverlapped`
   says that nothing but such an overlap can do this.
4. **A crash loses admitted work** (`pipeline_lost_work`). The admission is committed
   before `append_buffer` is enqueued, and a re-run skips a chunk that is no longer
   pending.

Seen in the models too, without a run of their own:

- With `"overrun"` among the faults, `OnlyOwnerEndsLease` is false: `ack` and `fail` name
  the row by its id only, so a late worker settles the job of its successor. A job whose
  handler always overruns is claimed for ever, without its retries being counted.
- `fail()` of an erased row raises in `.one()` and ends its worker, as in 1.
- A call that is cancelled between the provider's answer and `record`, or gets no
  connection to record on, is paid and not recorded (`Abort` and `PoolTimeout` at `"record"`).
- `router/metering.py` says of the lock that unrelated tenants are never blocked by it. They
  share its connections: callers of other tenants wait for one, and may time out.
- A seal that fails leaves its buffer full: the retry of `append_buffer` finds its chunk
  `buffered` and returns. `FullBufferSeals` therefore ends with the first fault.
- `FullBufferSeals` needs no more runs at once than the buffer holds: with three runs and a
  buffer of two, all three can fold the same two chunks while two more are buffered, and
  return; the buffer then stays full until the next append. With the code's buffer of 8
  and 3 workers per instance that takes a third instance.
- Nothing in the program enqueues `flush_stale`; `StartFlush` is there for who may.
- A `persist` whose commit lands with its answer lost unlinks the files of committed
  rows; one whose commit fails unlinks after its rollback, and may take the file another
  request has written for the same chunk since. `RowsAndFiles` names these as its condition;
  `OneInserter` is about the requests before their commit and after it, not about one that
  unlinks, which may hold a chunk that another has inserted by then.
- A request that dies between the commit and the enqueues leaves chunks that are never
  extracted: posting them again inserts nothing and enqueues nothing.
- A handler of `topic_route` that read its mentions before another may overwrite the
  node with fewer of them. That the node covers the last mention is not a property.
- A persist that is open during an erasure commits a row whose file `rmtree` has removed,
  and handlers that began before it write their nodes after it, when the UPDATE of the
  entity found no row to lock. `straddled`, and `locked` of a node, mark the exceptions.
- With one erasure a hot entity can stay without its node. It comes between the commit of an
  admission and the enqueue of its `topic_route`: the job outlives it, and when the chunk is
  posted and admitted again, the dedupe key `topic:{entity}:{chunk}` of that job swallows the
  enqueue. A chunk that is being persisted during the erasure leaves such a job as well.
  `swallowed` marks these, and `HotEntityHasNode` excepts them.
- A chunk that is admitted after the digest of its day has run is in no digest: the
  docstring of `digest_daily` says "chunks admitted/sealed on `day`" (`memory/digest.py`, line
  46), its filter is `created_at` (lines 62-63). `DayDigested` starts from an
  admission that is before it.
- A row inserted before midnight and committed after the tick's SELECT has the date of the day
  that is over (`created_at` is `now()`, the start of its transaction). If it is the only one
  of its tenant, that day never gets a digest (`late`, which `EndedDaysHaveDigest` excepts).
- A digest whose model call fails `MaxRetries` times is given up, and the day stays without one.
- A visitor's call that reads the date before midnight and counts after it counts on the
  day that is over. Where that counter has expired its INCR returns 1, and the call is admitted
  past the limit of that day. `DemoLimit` has the limit of the current day without
  exception, and for one that is over the limit once more for each time the counter expired.
- A reply with status 200 that is no JSON raises `ValueError` past the
  `except httpx.HTTPError` of the adapters: no failover, no failure recorded (`Break`),
  while `router/providers.py` says that any parse failure raises `ProviderError`.
- The retries of a call do not look at the breaker: a tripped provider still gets those
  of every call that had it. `CooldownKept` is the bound that holds, per call.
- `api/audit.py` says that every request is recorded. One that raises leaves no row, and one
  whose row cannot be written is answered all the same; `TrailComplete` excepts both.
- Two logins at once both answer a key, and only the one committed last works
  (`killer` in `AnsweredKeyWorks`); a login whose account is erased before its UPDATE is
  an unhandled `StaleDataError`, a 500.
- `hybrid_search` cuts both lists to the limit before it adds their ranks: a chunk just
  behind the limit in both is not found.

## 4. What TLAPS proves

For every value of the constants that satisfies the named assumptions of the modules,
with all faults allowed unless said otherwise:

| Theorem | Says | Argument |
|---|---|---|
| `WorkerPoolProofs!TypeCorrect` | `Spec => []TypeOK` | one lemma per statement on the table |
| `BudgetKept`, `LeaseColumnsAgree` | `RetryBudget`, `LeaseMatchesStatus` | inductive invariant `TableInv`: both, plus `LockedRowsClaimable` and `RowLocksExclusive`. A claim's UPDATE does not look at the row again; only the row lock it holds keeps the row as its SELECT saw it |
| `GivenUpRightly` | `GivenUpOnlyAfterRetries` | `CountsRecorded`: every `retry_count` written or read was counted by a completed `fail` |
| `WorkerPoolProofs!NoTwoHolders`, `LateAnswersHarmless` | `ExclusiveHandling`, `OnlyOwnerEndsLease`, assuming `Timely` (no `"overrun"`) | `HoldersOwnTheirLease`: the row of a holder is gone, or leased to it and live, with the count its `fail` has read |
| `PromiseKept` | `QueuePromise`: `WorkerPool` implements `DurableQueue`, assuming `Timely` | initial states map to initial states; each statement maps to a step of one job or to a stutter |
| `StopsAreGraceful` | `StopStrandsNoFinishedJob`, assuming no `"crash"` | by cases on the step that takes a task with an ended handler down: it is its own `Ack` or `FailWrite`, which ends the lease |
| `WorkersDieOfTwoThings` | `[]WorkersSurvive`, assuming neither `"bookkeeping"` nor `"erase"`: the converse of `pool_death` | with `HeldRowsExist`: the row of every job a worker holds is in the table, so `fail` finds it |
| `UsageMeterProofs!MeterTypeCorrect`, `ChecksNeverStale` | `TypeOK`; `LockHeld` and `ChecksCurrent` | who is past a check holds the lock of its tenant, so nothing of the tenant is recorded between |
| `NoLockLeft` | `LocksUnderWay`: the safety half of `LocksReturn` | by itself inductive, with the types: every way out of a call frees its lock or leads to the unlock |
| `CapHeld`, `SignupLimitHeld` | `CapOvershoot`, `SignupLimits` | inductive invariant `MeterInv`, with `IngestsFree`: the row that counts an ingest costs nothing |
| `FamilyCapHeld` | `FamilyOvershoot` | `FamilyBound`: what the family has spent, and one call's cost for each of its tenants that is past the check, stay below the cap and one call's cost for every tenant. The sum over tenants is the fold of the community modules; that it is well defined, and changes with one summand by as much, is proved by induction on cardinality |
| `LedgerImplemented` | `CallsAtomic`: `UsageMeter` implements `UsageLedger` | a call is *open* from the step that passes its first check, if all its others would pass then: they read sums of the tenant only, and its caller has the tenant's lock (`LockHeld`), so they still pass when they are made. The family's sum is the one that other tenants change, and it is the one checked first. A call is closed by its row, or by whatever ends it before |
| `SourceTreeProofs!TreeTypeCorrect`, `NothingLost` | `TypeOK`, `NothingFallsOut`, with jobs handed out twice too | `FoldsOwnLevel`: what a run has selected stays nodes of the level it folds |
| `LifecycleKept` | `LifecycleForward`, assuming `OneRunPerJob` | `LifeInv`: a run that is about to mark its chunk finds it as it has read it (`MarksOwn`), and what is selected has been buffered |
| `Provenance` | `ChainsDown`, assuming `OneRunPerJob` | `ChainInv`: what a node covers stays sealed, or closed and of the level below |
| `TreeUnlessOverlapped` | `OneParentUnlessOverlapped`, assuming `OneRunPerJob` | `ParentInv`, with `SelectsApart`: until two selections overlap, what a run has selected is its own, and still open |
| `NoFullBufferLeft` | `FullBufferAwaited`: the safety half of `FullBufferSeals`, assuming `FewRuns` | `SealsSuffice`: for *every* set of the runs that are sealing, what would stay in the buffer if just these got through is less than a buffer, and one chunk for each other run. That the buffer is less than full when nobody is sealing is the case of no runs; the other cases carry it over a write, whose batch may overlap those of others. A run that selects takes a buffer's worth (`FirstOfIs`), which is where the runs must be few |
| `ContentPipelineProofs!PipelineTypeCorrect` | `TypeOK` | part by part of the state |
| `OneInserts`, `FilesWithRows`, `FollowUpsLate`, `VerdictsFinal` | `OneInserter`, `RowsAndFiles`, `FollowUpsAfterLinks`, `VerdictFinal` | inductive invariant `PipeInv`: `InsertsOwn` ties the ids that a request holds before and after its commit to rows nobody else has inserted, `FilesFirst` orders file and commit, `RunsOwn` gives a chunk to one run, `TodoReady` has every follow-up about rows already written |
| `DocumentTextProofs!TextWhole`, `ContentPipelineProofs!TextsStoredWhole` | `NotWhole = {}`: every message of any length, under any budget, is in its chunks letter by letter but for what each step is meant to drop; so `StoredWhole` | see below |
| `NoChunkForgotten`, `NoAdmittedForgotten` | `PendingAwaited`, `AdmittedAwaited`: the safety halves of `EveryChunkJudged` and `AdmittedIsBuffered` | `JobsFollowRows`, a part of `PipeInv`: an extract job that is done has judged its chunk, a run that is at its follow-ups has, and an append job that is done has buffered its chunk |
| `TenantMemoryProofs!MemoryTypeCorrect`, `NoDanglingRows` | `TypeOK`, `RowsHaveFiles` | `FilesInv`: whatever an erasure under way does not take has been persisted during it |
| `LockedNodesGone` | `LockedNodesErased` | `LockInv`: the row of the entity is locked by one handler or deleted by the erasure, never both, and what the erasure leaves was written without the lock |
| `NoDuplicateNodes` | `OneNodePerScope` (no overrun, no erasure: its own condition) | `NodeInv`, with `HandlersApart`: a handler has its job to itself, that of a topic the entity's row too, from its UPDATE on, and what is about to be inserted is not there |
| `HotEntityServed` | `HotEntityHasNode`, but for mentions that straddled an erasure or whose job was swallowed | `HotInv`: while a hot entity has no node, the job of the mention linked last is yet to end, and whoever runs it has read every mention (`WillServe`) |
| `NoDayForgotten` | `EndedDaysHaveDigest`: the safety half of `DayDigested`, for the chunks that were committed before the tick looked | `DaysInv`: while no tick is lost and nothing erased, the scheduler lives, and midnight waits for the tick of the day before; whoever is committed later is in `late` |
| `ProviderFailoverProofs!FailoverTypeCorrect` | `TypeOK` | part by part |
| `CooldownsKept` | `CooldownKept` | `AsksCounted`: the requests of a tripped provider are among the attempts its caller has counted; a closed breaker has none |
| `ExhaustedOnlyLast` | no call ends as exhausted with a provider that answers on its route: the safety half of `FailsOver` | `NonePassedOver`: such a provider never trips, and the first available candidate is taken |
| `ApiAccessProofs!AccessTypeCorrect` | `TypeOK` | part by part |
| `AnsweredKeysWork`, `EndedKeysDenied` | `AnsweredKeyWorks`, `RevokedKeyDenied` | `KeysNamed`: a key belongs to the one account it was made for, an ended key to none; `KeysEnd`; `OwnTenant` |
| `OwnRowsOnly`, `TrailKept` | `ReadsOwn`, `TrailComplete` | `OwnTenant`: from `Resolve` on, the tenant of a request is the owner its client presents; `Written`: what is over is in the trail |
| `DemoLimitHeld` | `DemoLimit` | `Counted`: of those admitted on a counter, all but `DailyLimit` for each of its earlier lives were counted in this one, and no more than `DailyLimit`; a counter is of a date that has come, was timed on that date or later, and has ended only when that was over. So the counter of today is in its first life |
| `ApiAccessProofs!NoneRankedWrong`, `RankedAsFused` | `RankedWrong = {}` for lists of hits of every length, every limit and every `rrf_k`; so `FusedRanking` | fractions are added and compared as such (`PlusGrows`, `ExceedsThrough`); `Precedes` is a strict total order of the chunks found, so the number of those ahead is a bijection with the places (`AheadIs`, `RankedIs`) |

The invariants are stated in the `...Properties` modules under "Why", or at the head of
the proofs, in named parts that few actions touch; each step of `Next` has its lemma or
its numbered case.

`TextWhole` is an induction over data, of which the provers can use no induction rule that
takes a predicate. They can use sets: a set of sequences that has the empty one, and with
each one its extensions, has all of them (`AllSequences`; `AllNaturals` likewise). Each loop
of `DocumentText` gets the set of texts for which what it has built so far is right
(`LinesSoFar`, `ParagraphsSoFar`, `KeptSoFar`, ...), and one lemma for a turn of it. What is compared is
`Letters`, a text without its blanks: `Letters` of a concatenation is the concatenation of
them, so it is the same before and after a strip, a split, a join, a cut. `HardSplit`
goes on while its rest is longer than a budget, and each turn shortens the rest.

Four assumptions are about data: a list of hits names no chunk twice, for `chunks.id` and
`scores.chunk_id` are primary keys (`SearchAssumption`); the tenants with the prefix of
the demo family are finitely many (`MeterAssumption`); a blank and a newline are
characters (`TextAssumption`); texts and budgets are texts and numbers (`TextsAssumption`).
Three are about configuration. `Timely`: the lease (60 s) is longer than the wait for the
semaphore, the handler and the bookkeeping together. `OneRunPerJob`
(`SourceTree`): the queue hands no job to two handlers, which is what `NoTwoHolders` proves of it
under `Timely`. `FewRuns` (`SourceTree`): the instances together have no more workers than
a buffer has chunks, 3 of each against 8. The code enforces none of them. Without them the other
theorems still hold, and `pool_overrun` shows what the table still guarantees.

Only model-checked: liveness itself, for TLAPS has no fairness here: `EveryJobSettles`,
`LocksReturn`, `FullBufferSeals`, `EveryChunkJudged`, `AdmittedIsBuffered`, `DayDigested`,
`FailsOver`. What each rests on step by step is proved: that the thing waited for
always has somebody who is to do it next. For `EveryJobSettles` that is `PromiseKept` with
`WorkersDieOfTwoThings`, for `FailsOver` `ExhaustedOnlyLast`, for the others the theorem above
whose line names it.

To repeat: `tlc -config memory.cfg MCTenantMemory`, `tlapm TenantMemoryProofs.tla`, and
likewise for the others; `PROJECT.json` names the module of each run.

## 5. Plan and limits

Done, in this order: `JobQueue` and `WorkerPool` with the refinement of `DurableQueue`;
`UsageMeter`; `SourceTree`; `ContentPipeline` over `DurableQueue`; `TenantMemory`;
`ProviderFailover`; the pool of connections in `UsageMeter`; `ApiAccess`;
`DocumentText` and `SearchRanking`; proofs for all state machines; `UsageLedger` and its
refinement; theorems for every safety property the runs check; the safety halves of liveness.

Next:

1. The worker pool composed with the meter: background jobs that fail on the
   three-second lock timeout of a busy tenant, and lose a retry each time; the response
   cache in the retries of an extraction that choked on its reply.
2. `ContentPipeline` over the worker pool itself, instead of over `DurableQueue`.

Not modelled:

- the rules for HTML and Markdown of the compressor: lists of regular expressions, with
  property tests in the repository;
- scores, embeddings and how Postgres matches them; prompts and the parsing of replies;
- the HTTP adapters beyond the ways a request can end; `remap` of routes, called by tests
  only;
- the decay of mentions within the days of `TenantMemory`;
- the limit of 100 rows of the audit route, far above what the model's requests write;
- metrics, logs and tracing, which nothing reads back, and the soak and load tests.
