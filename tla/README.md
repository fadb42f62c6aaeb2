# Y-AI Agent Context OS: the specification

TLA+ modules, model-checking configurations and proofs for the parts of this
repository in which several actors work on shared state. The source of every
definition is the code; `PROJECT.json` names the lines it stands for.

## 1. The system

An Express API (`apps/api`) keeps everything in PostgreSQL and serves a React
front end (`apps/web`), index workers (`workers/index-worker.ts`) and agents.
Services are classes over a `query(sql)` function. `queryDb` in
`apps/api/src/index.ts` sends each query to `pg.Pool.query`: every statement is
committed on its own, on any connection, and at every `await` another request
may run. Only `IndexJobService.claimNextJob` takes a connection of its own and
opens a real transaction. No timer calls anything: sweeps run when somebody
posts to their route.

| Component | State | Operations | Talks to | Hard behaviour, and what should hold |
|---|---|---|---|---|
| Index job queue, `packages/core/src/index-job-service.ts` | `index_jobs`: status, `locked_by`, `locked_at`, `attempts` | create, claim-next, complete, fail, cancel, retry, release-stale-locks | index worker, worker runtime (same table) | one lease per job; attempts counted and limited; checks that are stale when the update runs; row locks |
| Worker runtime, `apps/api/src/WorkerRuntimeService.ts` | `worker_registry`: status, heartbeat, `active_job_count`, `max_concurrency`; writes `index_jobs` | register, heartbeat, pause, stop, claim, complete, fail, two lease sweeps | queue | the count against the leases; a limit that a registration rewrites; paused workers; eviction |
| Index worker, `workers/index-worker.ts` | its loop, the job in hand, `stopped` | runOnce, stop | queue, over HTTP | lost replies, crashes, stops; no job forgotten by a live worker; progress |
| File locks, `apps/api/src/FileLockingService.ts` | `file_locks`: status, mode, path, `expires_at` | acquire, refresh, release, drain of a worker, release-stale | none | exclusive write locks; two readings of a deadline; ended locks stay ended |
| Task lifecycle, `TaskLifecycleService.ts` and its routes | `tasks.status`, `task_status_history`, the connection pool | transition, pause, PATCH | resume engine | `BEGIN`, `UPDATE`, `COMMIT` on different connections; validated against an old status; requests that wait for each other's locks |
| Resume engine, `packages/agents/src/resume.ts` | `resume_schedules` (and the task's status) | schedule, replace, update, cancel, requeue sweep | task lifecycle | overlapping sweeps that write from an old read; one active schedule per task |
| Agent sessions, `packages/agents/src/recovery.ts` | `agent_sessions` | create, update, find the session to recover | handoffs | one live session per task and provider; updates that write every column back |
| Handoffs, `packages/agents/src/handoff.ts` | `agent_handoffs` | create, validate, update | memory, resume states, boundaries | three reads at three moments, judged later, of rows that are also changed in place |
| Artifact store, `ArtifactCASService.ts` | `cas_blobs`, `artifact_versions` | create version, archive, quarantine | evidence | version numbers under overlap; a create that fails half-way |
| Event store, `EventStoreService.ts` | `event_records` | append, replay | audit | one record per idempotency key, whatever is sent again |
| Quality gates, `QualityGateService.ts` | runs, command results | create, start, ingest, complete, cancel | evidence | late results, finalized runs |
| Context objects, `ContextObjectStoreService.ts` | `context_objects`, references | create, mark stale, quarantine, refer | artifacts | deduplication against marks |
| Context vault, the `context-items` routes of `index.ts` | `context_items`, `context_chunks` | post, patch, delete | graph, retrieval | an item and its chunks written one by one |
| Incremental index, `incremental-index-service.ts` | file events | signal a change | queue | debouncing, hashes read before they are written |
| Knowledge graph, `packages/graph` | `graph_edges`, reports | sync, create edge, simulate a change | vault | a rewrite in autocommit; cycles and depth of the walk |
| Permission kernel, `PermissionKernelService.ts` | `permission_policies` | evaluate | every service | precedence of deny, override and boundary; unreadable rules |
| Evidence store, `EvidenceStoreService.ts` | `evidence_records` | create, verify | gates | none: a record is written once |
| Context compiler, retrieval, search, `packages/context` | packs, boundaries | compile, rank | graph | none with a protocol of its own |
| Memory, timeline, debug, `packages/agents` | records | insert, list | none | none |
| Database, `db.ts` | tables, in-memory fallback | migrate | all | its unique indexes are part of the modules above |
| API surface: routes, auth, audit, config | tokens, audit log | | all | none |
| Redaction, providers, shared types, connectors, ui, front end, scripts | | | | none |

The hazards of this code, at the lines where they bite, are listed in
`PROJECT.json` with the properties that cover them.

## 2. What is modelled

### One style for all modules

A handler is an async function over autocommitted statements. It becomes **one
action per statement that reads or writes shared state**; whatever it read and
will use later is kept in a *request slot* (`req[r]`, with a program counter
`pc`). A guard is the code's `WHERE` clause, condition or early return. An
`UPDATE ... WHERE id = $1` writes whatever the row has become, and that is how
a stale check does harm. A request that is refused at its first statement
changes nothing and is no action. `Abort` is a failed query or a dead API
process between two statements. Audit records, logs, permission checks and
metadata change none of the modelled state and are left out; a failure of an
audit insert is an `Abort`, or for the caller a lost reply.

Time is one flag or phase per deadline. It can only pass, at any moment; what
the code compares with a clock looks at the flag.

Some modules carry *history variables* that no action reads except to keep them:
`overlapped`, `mixed`, `starved`, `upkeep`, `mirror`, `peak` and the like. They
name the circumstance under which a property is claimed, where the code promises nothing
beyond it. Which circumstance that is, is part of what a property says.

| Module | Component | Composes |
|---|---|---|
| `IndexJobs` | index job queue | implements `JobLeases` |
| `WorkerRuntime` | worker runtime | `IndexJobs` |
| `IndexWorker` | index workers | `IndexJobs` |
| `FileLocks` | file locks | |
| `TaskLifecycle` | task lifecycle, pause and PATCH routes, connection pool | |
| `ResumeSchedules` | resume schedules | |
| `AgentSessions`, `Handoffs` | sessions, handoffs | |
| `Artifacts`, `EventStore`, `QualityGates`, `ContextObjects` | the stores | |
| `ContextVault`, `KnowledgeGraph`, `ChangeImpact` | vault, graph sync, change simulation | |
| `IncrementalIndex` | file events | |
| `PermissionKernel` | permission decisions | |
| `MCStores` | the stores together | all modules from `ResumeSchedules` on |
| `IndexJobsProofs`, `IndexWorkerProofs`, `WorkerRuntimeProofs`, `FileLocksProofs`, `TaskLifecycleProofs` | theorems | the module of that name |
| `AgentsProofs` | theorems | `ResumeSchedules`, `AgentSessions`, `Handoffs` |
| `ServicesProofs` | theorems | `Artifacts`, `QualityGates`, `IncrementalIndex` |
| `StoresProofs` | theorems | the other six stores, and `MCStores` |

### IndexJobs

`jobs` is the table: status, `locked_by`, `attempts`, and `aged` for a
`locked_at` older than the threshold of the sweep that looks. A job's number is
its place in `created_at` order. `rowlock` is PostgreSQL's row lock, held by
`claimNextJob` between `SELECT ... FOR UPDATE SKIP LOCKED` (`ClaimSelect`) and
`COMMIT` (`ClaimCommit`); every other update waits for it (`Write`) and a
concurrent claim skips the row (`Claimable`). `CancelCheck`/`CancelUpdate`,
`RetryCheck`/`RetryUpdate`, `ReleaseSelect`/`ReleaseRow` are the two statements
of their handlers. `MarkCompleted` and `MarkFailed` are one statement each: the
`SELECT` before decides nothing but whether the row exists, and rows are not
deleted.

`createJob`, `markProcessing` and `updateJobStatus` are left out: only tests
call them. With them `running` and `queued` never reach the table, and the
status set is that of the routes.

### JobLeases

The promise of the queue in three variables: the jobs on offer, who holds each,
how many attempts are left. A lease is granted on an offered job with attempts
left and costs one; it is never passed on. `IndexJobs!Leases` is the refinement
mapping, `ImplementsLeases` the property.

### WorkerRuntime

The registry (`workers`) and the runtime's requests (`wreq`), beside
`Queue == INSTANCE IndexJobs`: the routes of both services are mounted on one
table, and `Next` interleaves both. A claim is three statements: `ClaimCheck`
reads status and count, `ClaimTake` picks and leases in one statement (a CTE
with `FOR UPDATE SKIP LOCKED`), `ClaimCount` raises the count.
`RegisterWorker` is an upsert: it activates the worker, rewrites its limit
whatever the worker holds, and leaves the count alone. Complete and
fail are `FinishCheck`, `CompleteJob` or `FailJob`, `FinishCount`. The two
sweeps are loops; the program counter says which statement comes next and
`todo` and `rows` what remains of the lists they selected.
`SerialSpec` is the runtime as its tests use it: a worker waits for the answer
before it asks again, a new registration included, no sweep runs, nothing dies.
`peak` is history, the highest limit a worker was ever registered with.

### IndexWorker

The processes of `workers/index-worker.ts` composed with the queue:
`proc[w].pc` is the place in `runOnce`, between two HTTP calls. The service
handles a worker's claim in the slot of that worker; `claimed` and `completed`
stand for a reply that is on its way and may be lost. `ReportFailure` is the
`catch`: a file that cannot be read, a failed complete, or a complete that was
done and whose reply was lost. `Fail` then ends the process, because `run()`
does not catch what `runOnce()` throws. `Crash` is a kill or a failing call
outside the `try`. Others (`Operator`) may cancel, retry and sweep. Two history
variables serve `OnlyOwnVerdictOverturned`: `verdict` is the worker that last
completed a job, `taken` the jobs an operator wrote while a worker had them.

### FileLocks

`locks` is the table. `phase` is what is left of `expires_at`: `live`, `due`,
`over`. `acquireLock` asks for `expires_at > NOW()` of the database;
`refreshLock` and the rest for `expires_at < now`. `due` is what lies between
the two: an instant, or as long as the API's clock lags behind the database's.
`SeesDue` says whether an instance has it. Each handler is its check and its
update; `releaseLocksForWorker` selects and calls `releaseLock` per row.

### TaskLifecycle

One task. `pool` is pg's pool: `idle` is a stack, since the connection returned
last is handed out first; `queue` holds the requests that found none free. Every
statement of `transitionTask` goes through `Issue` and `Return`: a request keeps
its connection from one statement to the next as long as nobody waits, because
it takes back what it has just returned; when somebody waits, the connection
goes there and the rest of the block runs wherever its turn comes. `tx[c]` is
the transaction open on connection `c`: `BeginTx` on one that is open already
changes nothing, `CommitTx` and `RollbackTx` end whatever is open on the
connection they land on, `WriteStatus` waits for a transaction on another
connection that has written the row. A new connection is one that no other
request uses (`InUse`). A statement that fails closes its
connection (`BlockFails`, `RequestFails`), `CloseIdle` is the pool's ten
seconds, and `ProcessDies` loses all of it. `PatchLook` and `RewriteStatus` are
what the routes do before and after the transition. The PATCH writes whatever
status is in its body, but asks for a transition only if that is a true value:
`Blank` stands for the rest (`""`, 0, `false`), which leaves a task without a
status and with no row in its history.

### ResumeSchedules

`createResumeSchedule` is three statements (look, cancel the old one, insert),
the sweep `autoRequeueReadySchedules` one that selects and one per row, WHERE id
only, with the attempts computed from the first read. `ActiveOf` and
`IndexAllows` are the partial unique index: a write it refuses throws and ends
its request. `UpdateSchedule` is the one statement of `updateResumeSchedule`: what
the body gives of status, attempts and `resume_at`; `patched` remembers that
status or attempts were changed that way. `CancelForTask` is what a transition to a terminal or paused status
does to the task's schedules.

### AgentSessions and Handoffs

`SessionStart`/`SessionCheck`/`SessionInsert` and
`SessionRead`/`SessionClash`/`SessionWrite` are create and update; the unique
index stands behind both. `Offered` is the `ORDER BY` of
`getLatestRecoverableSession`. A handoff is judged (`Missing`, `Judgement`) from
the latest row of three sources read one after the other (`HandoffRead`); a row
of a source is the set of what it provides. `AddSource` inserts a row;
`UpdateSource` changes the latest one in place, as `updateMemory`,
`updateResumeState`, the boundary's PATCH and `createMemory`'s
`ON CONFLICT (id) DO UPDATE` do. (No live route writes a boundary; its rows may
still be written in the database, and the model lets them.)

### Artifacts, EventStore, QualityGates, ContextObjects

Each is a read that decides and a write that comes later, with a unique index
(artifact numbers, idempotency keys, contents) or without (gate runs) behind it.
In `Artifacts` a create is five statements from the blob to the version. In
`EventStore` a send is one delivery of the client's request: it may be repeated,
overlap with another, fail, or be stored without the client hearing of it. In
`QualityGates` results are counted per kind.

### ContextVault, KnowledgeGraph, ChangeImpact

`ContextVault` counts each chunk row of one item, as nothing keeps a chunk from
being inserted twice. `KnowledgeGraph` has what the vault states as *facts*,
and edges as what `createEdge` makes of them; `Duplicate` is the query that
decides whether an edge is there. `ChangeImpact` is the breadth-first walk of
`generateChangeSimulation`, one query per step, with the level, the set of nodes
met and the boundary's forbidden files; `generateImpactPreview` walks in the
same way. A node is used by the sources of the edges to it and, if it is a hook,
by the nodes whose imported paths name it (`Uses`). The code has two checks of
the boundary: one for changed files, which knows the entries written with a
leading `/` (`Unchangeable`), and one for dependents, which does not
(`Forbidden`). `createEdge` accepts an edge of a node to itself, and so does `Link`:
such a file is reported as affected by its own change.

### IncrementalIndex and PermissionKernel

`IncrementalIndex` puts the files beside the service: they change when they
like, a client signals, the service reads the hash from disk and the last event
from the table, asks for a job and inserts the event. `PermissionKernel` is one
evaluation at a time beside an operator who edits the rules: boundaries first,
then the rules that can be read (`Loaded`), conditions, deny before allow, and
the override. `tables` is history: the rules that stood from the request until
they were read, among which the ground for an allow must be.

## 3. What is checked

| Run | Instance | Shows |
|---|---|---|
| `index_jobs` | 2 jobs, 2 workers, 3 requests in flight, 2 attempts | leases match statuses, attempts stay within the limit, no lease is stolen, the queue implements `JobLeases`; nothing deadlocks |
| `runtime_shared` | 2 workers, 2 attempts, limits 1 and 2; either `SerialSpec` with 3 jobs, or both services on 1 job with a request of each, or 1 worker with 2 overlapping runtime requests and both limits | leases stay with their worker with both services on one table; the overruns of attempts and of the count are bounded, whatever limits are registered meanwhile; for workers that wait for each answer, `active_job_count` is exact and no claim exceeds the limit in force |
| `runtime_rows` | 2 jobs, 1 attempt, fair; either 2 runtime requests and 1 of the queue on 1 job, or a request of each service on 2 jobs of 1 worker, or a runtime request over 2 jobs and 2 workers | every request and every sweep of both services ends, however many rows it loops over and whatever row lock it waits for |
| `index_workers` | 2 workers, 2 attempts; either alone on 3 jobs, or beside 2 operators on 1 job, fair | a live worker knows each lease it holds; a completed job is declared failed only by the worker that completed it, or by one that had it when an operator wrote it; alone, one worker per job, pending jobs are served and claimed ones finished unless workers die |
| `file_locks` | 2 rows, 1 path, 2 requests, with `due`, fair | rows that have ended stay ended; every request, drain and sweep ends |
| `file_locks_serial` | 3 rows, 2 paths, 1 request, without `due` | write locks exclude |
| `tasks` | 2 connections; 3 requests that pause or transition, or 2 of any kind, overrides and PATCHes included; the task starts failed; fair | while no request has had to wait for a connection, what is answered is committed and no transaction is left behind; one request at a time, the history explains the status and an archived task stays archived; every request ends |
| `stores` | one store at a time: 1 path with 2 contents, 2 creates and 3 versions; 1 gate run and 3 requests; 2 context objects; 1 key sent 3 times; 1 file with 3 events; 2 schedules of 1 task; 2 sessions; 1 handoff over 3 source rows; 2 syncs over a vault of 3 facts; change simulations of depth 3; 2 texts of an item; the rules and requests of `MCStores` | a path's active version is its newest and history only grows; a verdict matches the results; a content flagged stays flagged; an event is stored once and every answer names it; events follow the file; a schedule is queued for one attempt; recovery offers the live session, and none is revived by accident; a handoff's verdict is current; a synced graph mirrors the vault; a simulation reaches what depends on the change; an item has its chunks; what is allowed has a ground |

Four runs end in a violation. Each refutes one sentence of the repository; the
finding in `PROJECT.json` quotes it.

| Run | What happens |
|---|---|
| `file_locks_race` | two acquires both find no conflict and both insert |
| `tasks_race` | a connection goes to a waiting request between `BEGIN` and `COMMIT`: a transition answered as done is rolled back with another's, or never committed |
| `artifacts_race` | two creates of one path overlap: one supersedes the version the other has inserted, then fails on its number, and the path has no active version |
| `graph_relations` | a sync that runs alone writes `defines_api`, takes `defines_route` for a duplicate of it, and never writes that |

The modules have more behaviours of this kind that no run is kept for:

* a cancel that checked before the job finished overwrites it, and so does a
  sweep that selected it (`CancelUpdate`, `ReleaseRow`);
* two sweeps select one lease with an attempt left; a claim uses it between
  their updates, and the job then waits for ever;
* a failed job with attempts left stays failed until somebody retries it;
* two claims of a worker pass one check of the limit, by as much as
  `CountBounded` says; a claim that checked before a pause still leases
  (`ClaimTake`); after a sweep with a stale read the runtime's claim starts a job
  beyond `max_attempts`, by as much as `AttemptsOverrunBounded` says;
* a worker registered anew with a lower limit keeps what it holds, and is over
  its limit without any overlap (`RegisterWorker`);
* a sweep takes the job of a slow worker, its successor completes it, and the
  slow one then reports it failed: that holds (`taken`);
* a PATCH with an empty status takes a task out of `archived`, without a
  transition and without history (`Blank`);
* an entry `/path` of a boundary's list blocks the file as a change and not as a
  dependent, which is followed (`Unchangeable`);
* with the last rule of the table disabled, the rules of the code stand in for it,
  as if nothing had ever been configured (`Loaded`);
* a lock at its very deadline no longer conflicts and can still be refreshed,
  beside a successor (`due`); a sweep ends a lock refreshed after it was selected.

### What a property is claimed under

* `AtomicWhilePoolLasts`: until a request has had to wait for a connection. The
  code's pool has ten; the model two. What matters is whether they run out.
* `HistoryExplainsStatus`, `ArchivedIsFinal`: no two requests in flight (and no
  override). With two, the second writes over the first (`UPDATE ... WHERE id`). A
  PATCH of an empty status is the exception both name.
* `CountBounded`, `SerialCountExact`: a lower limit takes nothing back, so what a
  worker holds is bounded by the highest it had, and a claim by the one in force.
* `OnlyOwnVerdictOverturned`: no operator wrote the job while a worker had it.
* `VerdictMatchesResults`: no two requests on the run overlapped. One that did
  may add a result after the count, or reopen a finalized run.
* `OnlyRevivedByName`: no two updates of a session overlapped.
* `OneAttempt`: no update request has set the schedule's status or attempts.
* `VerdictIsCurrent`: no source has got a row, and no latest row has changed,
  since the request began.
* `SyncedGraphMirrors`, `SpreadIsReach`: the vault, or the graph, is as it was.
* `VaultWhole`: the last POST or PATCH of a text met no other request.
* `EventsFollow`: signals did not overlap, fail or fall into the 1500 ms.

### Bounds

`NumJobs`, `NumLocks`, `NumSchedules`, `NumSessions`, `NumHandoffs`,
`MaxVersion`, `MaxEvents`, `MaxSends`, `MaxSources` and `MaxResults` bound the
rows ever inserted, the number of slots the requests in flight. The hazards are
races between two handlers about one row, sometimes with a third that moves the
row on between them; three slots on two rows (`index_jobs`) contain all of
these. Two jobs are needed for the order of claims and for a sweep that is half
done, three for a worker at limit 2 with a job to spare. `MaxAttempts = 2` has a
first, a last and a refused attempt; where attempts do not matter to the
property it is 1. Attempts and counts are not cut off by a guard: in `IndexJobs`
the limit bounds attempts, in `WorkerRuntime` the properties say how far they
can go. In the composition of `runtime_shared` one runtime request is in flight
at a time, beside one of the queue, and no worker is marked stale, which all
code treats as stopped. Its two limits are one that is lowered and raised.

`tasks`: with two connections three requests are what it takes for one to wait
while a block is open. A task that has failed has three actions to take, and
those of the configuration, with an override and the pause, take it to running,
paused, cancelled and to archived, which must be final. `stores`: three versions are
two creates that race for a number and one that comes after; three sends are one
that is stored unheard and two that overlap about it; two texts of one and two
chunks leave something behind when they mix; depth 3 with a cycle visits a node
again on another level. `MaxUpdated = 0` keeps a schedule that was queued from
being made to wait again without end, which an update request may do;
`GivenAttempts = {0, 1}` are attempts taken back and attempts set. The
simulation's files are two cycles, a link of a file to itself, a hook that is
imported without an edge, a forbidden file on a path and beside one, and one
forbidden as `/path` that is asked about and met. `FewTables` lets the
rules be edited once while one evaluation reads them: the table that answers and
another one, which is what the property tells apart. `runtime_rows` has two rows
where a loop over rows has a next one, and two workers where the loop over workers
has; the fairness speaks of no step its uses leave out.

Workers, paths and slots are interchangeable and are symmetry sets in safety
runs; liveness runs use none. The stores share no table and no variable, so
`MCStores` lets one of them move per behaviour, chosen at the start; `MCRuntimeUse`,
`MCRuntimeRows`, `MCIndexWorker` and `MCTaskLifecycle` choose between
uses in the same way.

`CHECK_DEADLOCK FALSE` stands where the model really may stop: all rows of a
bounded table used up with nobody left to change them, every request of a task
made, every worker process dead, or every job finished with nobody left to ask
for anything. `IndexJobs` never stops: `index_jobs` checks for deadlock.

### Fairness

The event loop runs a continuation once its query has answered, so a request in
flight goes on: fairness on `RequestStep` and `RuntimeStep`. A statement that
waits for a row lock is in the database's queue, and the lock may be taken and
given back meanwhile: strong fairness in `WorkerRuntime`, for the requests of
both services. In `FileLocks` nothing waits, and weak fairness is enough. A live
index worker polls: weak fairness on its step. In `TaskLifecycle` the database
ends each statement it can, and the pool closes connections that stay idle: weak
fairness on each request's statement and on `CloseIdle`; a transaction forgotten
on an idle connection blocks everybody until then. Clients, operators, clocks
and failures are under no obligation, and nobody has to start a sweep.

## 4. What is proved

With TLAPS, for every number of jobs, rows, workers, paths, keys and requests:
every invariant and every safety property of the passing runs. Each proof names
an inductive invariant; the theorems that follow from it are in `PROJECT.json`.

* `IndexJobsProofs`. `IInv`: `TypeOK`; what a request in flight remembers, a
  claim holding the lock of its row (`SlotOK`); the row under a lock is as it
  was read (`LockedRowIsStable`); leases match statuses and attempts are within
  the limit (`TableOK`). The row lock is what makes `seen + 1` the right value
  in `ClaimCommit`. From it the invariants, `NoLeaseTheft`, that every claim
  costs an attempt, and `ImplementsLeases`: initial states map to initial
  states, every step to a step of `JobLeases` or to a stutter.
* `IndexWorkerProofs`. A step of the processes is a step of the queue or leaves
  it alone, so the lemmas above, instantiated with the slots of workers and
  operators, carry the queue's invariant and its refinement over. The rest is about the processes: a
  worker's slot holds its own claim and nobody claims for an operator
  (`OwnClaims`, `OperatorsDoNotClaim`). With that `LeaseHolderKnows` is inductive:
  a live worker's lease is on the job it has in hand, the reply of whose claim
  may still be on its way. For `OnlyOwnVerdictOverturned`, the job in a
  worker's hand is leased to it or was completed by it (`Owns`), unless an
  operator has written it meanwhile (`Ownership`), so a report of failure meets
  no completion but its own. For workers
  alone (`WorkersSpec`), `OwnsJob` says what the row of a job in hand looks like
  at each place of `runOnce`, the lost reply of a complete included; hence
  `AloneOneWorkerPerJob`.
* `FileLocksProofs`. A request about to insert has a row id of its own
  (`ReservedOK`), one about to update found its row there (`TargetOK`); hence
  `EndedStaysEnded`. `ExclusiveWhenSerial`: with one slot and no request on
  `due`, write locks exclude; `SInv` adds that an admitted acquire has nothing
  in force against it and an admitted refresh has no successor. Neither
  hypothesis can go: without the first `file_locks_race` is a counterexample,
  without the second the refresh at the deadline.
* `WorkerRuntimeProofs`, about the composition. `IndexJobsProofs` does not carry
  over, as the runtime's claim overruns the attempts; what does is that no
  statement of the runtime writes a row under the lock of a claim (`LockedOK`).
  With `TableOK`, `ClaimsOK` and the runtime's slots that is inductive and gives
  `TypeOK`, `LeaseMatchesStatus` and `NoLeaseTheft`. `CountBounded`: the count
  plus the claims that were let through is below the highest limit plus slots
  (`CountOK`).
  `AttemptsOverrunBounded`: each request in flight can requeue a job once more
  than it should, so attempts plus what is still to come stay bounded
  (`AttemptsInv`, `Reach`). It assumes `MaxAttempts # 0`: the API takes 0, and
  the runtime's claim then has nothing that stops it. About `SerialSpec`:
  `CountMatchesLeases` and `ConcurrencyLimit`, from where the one request of each worker stands
  (`TurnsOK`), which no registration overtakes, and what the count is there
  (`BalancedOK`); both together are
  `SerialCountExact`, proved of the specification that the run checks.
* `TaskLifecycleProofs`. `PoolOK` is the bookkeeping of the pool: no connection
  is with two requests or idle while in use, and who waits is in the queue, once.
  `TxOK`: a transaction is open on an open connection only. While nobody has had
  to wait, a transaction is open exactly on the connections of the requests in
  their block, and who is about to commit has its row there (`BlockOK`); this is
  `AtomicWhilePoolLasts`. While no two requests have overlapped, what a request
  has read and what its transaction holds is still so when it writes (`SoloOK`),
  and the history explains the status, or there is none (`Blank`): `HistoryExplainsStatus`,
  `ArchivedIsFinal`. One request at a time never waits, if there is a connection
  at all: that lemma lets the second argument use the first.
* `AgentsProofs`. Schedules: the index keeps one active schedule per task; a
  schedule whose status and attempts nobody patches is `scheduled` with no attempts or beyond it, so what
  a sweep read before it was queued are no attempts (`RowsFit`, `SweepsFit`,
  `OldFits`). Hence `OneAttempt`. Sessions: one live session per provider
  (`OneLive`), requests name rows that exist (`TargetOK`), and as long as updates
  do not overlap what an update read is what is there (`ReadIsFresh`). Hence
  `RecoveryOffersLive` and `OnlyRevivedByName`. Handoffs: what a judgement has
  read so far is the latest row of its source, unless a source has had a row, or
  its latest changed, since (`ReadsLatest`). Hence `VerdictIsCurrent`, whatever other requests do to the
  same handoff meanwhile.
* `ServicesProofs`. Artifacts: numbers have no gaps (`Gapless`) and a create's
  number is at most one above the highest (`NumbersFit`), so whoever inserts is
  the newest. Hence `ActiveIsNewest` and `HistoryOnlyGrows`, failures included.
  Gates: on a run without overlap there is one request (`OneByOne`) and the run
  it will write is still open (`StillOpen`). Hence `VerdictMatchesResults`; and
  `SettledForGood`: a finalized run without a request in flight does not change
  again. Incremental index: of a file whose signals have not overlapped one
  request at most is in flight (`OneSignal`), its event begins where the latest
  ends (`Continues`), and the hash it has read is the file's, unless the file has
  changed since (`HashIsCurrent`). Hence `EventsFollow`.
* `StoresProofs`. `StoredOnce` and `FlaggedStaysFlagged`
  from their modules' types and guards; `AllowedHasGround` from what the rules
  held are: those of a table that stood, or those of the code (`RulesStood`). `VaultWhole` (`SoleOK`: the one request
  is under way and has done what its place says; `WholeOK`, `GoneOK`); the number
  of rows of a chunk is bounded by the requests (`CopiesOK`).
  `SyncedGraphMirrors` (`PartialOK`: the last sync to delete is under way and
  every fact of the vault is covered or still on its list; `CompleteOK`;
  `AloneOK` for soundness).
  `SpreadIsReach`, the correctness of the breadth-first walk: `Ball(E, f, k)` is
  what a chain of at most k edges or hook imports leads to. `Level` says what a walk has done on a level:
  it has reached the ball of that level, all but the front has been looked up,
  and the next front is outside. A ball is one step from the ball
  before (`BallStep`), and a set that holds the start and is closed under edges
  holds every ball (`ClosedHoldsBall`), by the first place at which a path would
  leave it: a least element, where an induction over the path would need a
  theorem with an operator parameter.
  `StoresAreIndependent`: a behaviour of the stores side by side is a behaviour
  of each. What is proved of one therefore holds of the specification that the
  run `stores` checks (`StoresTypeCorrect`, `StoresKeepTheirPromises`).

The assumptions are those declared in the modules: bounds are naturals, slots
are finite where they are counted, workers and operators are different, and
`NULL`, `Gone` and `None` are no members of the sets they stand outside.

Only model-checked: liveness, that is the three properties that requests end
and the two of `index_workers` that jobs are served and finished, which is out
of the prover's reach as `ENABLED` is; and the refuted sentences.

## 5. Not modelled, and why

* Every route that begins with `/tasks/` answers 410 (`index.ts:166`): task boundaries and
  context packs can be edited by no live route, and their services are left out.
  Resume schedules, sessions and handoffs are created at the service level only,
  and are modelled there, since the routes that update, sweep and validate them
  are live.
* Evidence: a record is inserted once, its payload is never changed, and its
  status is recomputed from it. Agent runs, timeline and debug append and
  list, and of memory only what a handoff reads matters. A property would repeat the assignment.
* `createJob`, `markProcessing` and `updateJobStatus` of the queue, which only
  tests call; node updates and deletions of the graph, which no route calls.
* Repository adapter and static analysis: reading and parsing of files. Context
  compiler, retrieval and search: scoring, ranking and formatting of text.
  Redaction and providers: text filters and stubs.
* Database: migrations run once at startup. The in-memory fallback serves tests,
  keeps no constraint and no concurrency.
* API surface, configuration, authentication and audit: they keep no protocol
  state. Audit records matter where their failure does, as an `Abort`.
* The front end and the validation scripts.

Most of the lines of this repository are of these last kinds: views, SQL text,
payload formatting, and scripts. The modules stand for the routes and services
that change shared state.

## 6. The plan from here

1. The queue's stale checks: how often `CancelUpdate` and `ReleaseRow` can write
   over a job that has moved on, bounded by the requests in flight as
   `AttemptsOverrunBounded` bounds the attempts.
2. `FileLocks` with `due`: that a refresh at the deadline is the only way to two
   write locks when requests do not overlap.
3. Schedules composed with the task's status: what a requeue sweep leaves of a
   task that a transition has just ended.

## 7. Running it

`tlc -config IndexJobs.cfg MCIndexJobs.tla`, and so on for every run in
`PROJECT.json`; `tlapm` on each of the `*Proofs.tla`.
