---------------------------- MODULE WorkerRuntime ----------------------------
(***************************************************************************)
(* WorkerRuntimeService (apps/api/src/WorkerRuntimeService.ts): the worker *)
(* registry, and the second set of handlers that lease index jobs.  It     *)
(* works on the table of IndexJobs beside IndexJobService, whose routes    *)
(* stay mounted: Next composes the two.                                    *)
(*                                                                         *)
(* No handler here opens a transaction.  active_job_count is written by    *)
(* statements of their own, after the job rows they account for, so every  *)
(* place where the two can part is a program counter of a request.         *)
(***************************************************************************)
EXTENDS Integers, FiniteSets

CONSTANTS
  NumJobs, Worker, Request, MaxAttempts, NULL,   \* as in IndexJobs
  RuntimeRequest,  \* slots for requests in flight on the workers/* routes
  Limit,           \* what registrations set max_concurrency to, unchecked (for 0 the code takes 2)
  Priority         \* priority of each job: "high", "medium" or "low"

ASSUME QueueAssumption ==
  /\ NumJobs \in Nat /\ MaxAttempts \in Nat
  /\ NULL \notin Worker /\ NULL \notin Request /\ NULL \notin Nat
ASSUME LimitAssumption == Limit \subseteq Int
ASSUME SlotsAssumption ==
  IsFiniteSet(Request) /\ IsFiniteSet(RuntimeRequest) /\ RuntimeRequest # {}

VARIABLES
  jobs, rowlock, req,  \* the queue and IndexJobService's requests
  workers,             \* worker_registry: a row per worker
  wreq                 \* the runtime's requests in flight

Queue == INSTANCE IndexJobs

Job == Queue!Job

runtimeVars == <<workers, wreq>>
vars == <<jobs, rowlock, req, workers, wreq>>

\* fresh: heartbeat_at is younger than the eviction threshold; limit: max_concurrency.
\* peak is history, read by properties only: the highest limit the row ever had.
WorkerRow == [status: {"absent", "active", "paused", "stopped", "stale"},
              fresh: BOOLEAN, count: Nat, limit: Int, peak: Nat]

\* What a lease sweep keeps of a job row it selected.
LeaseRow == [job: Job, worker: Worker \union {NULL}, requeue: BOOLEAN]

Idle == [pc |-> "idle", worker |-> NULL, job |-> NULL, todo |-> {}, rows |-> {}]

\* "claimed", "finished" and "swept" stand between a job update and the update of the
\* count; "evicted" between a worker's eviction and the search for its leases.
Slot == [pc: {"idle", "claim", "claimed", "complete", "fail", "finished",
              "evict", "evicted", "leases", "sweep", "swept"},
         worker: Worker \union {NULL}, job: Job \union {NULL},
         todo: SUBSET Worker, rows: SUBSET LeaseRow]

TypeOK ==
  /\ Queue!TypeOK
  /\ workers \in [Worker -> WorkerRow]
  /\ wreq \in [RuntimeRequest -> Slot]

Init ==
  /\ Queue!Init
  /\ workers = [w \in Worker |-> [status |-> "absent", fresh |-> FALSE,
                                   count |-> 0, limit |-> 0, peak |-> 0]]
  /\ wreq = [r \in RuntimeRequest |-> Idle]

-----------------------------------------------------------------------------
Free(r) == wreq[r].pc = "idle"

At(r, pc) == wreq[r].pc = pc

Goto(r, slot) == wreq' = [wreq EXCEPT ![r] = slot]

Registered(w) == workers[w].status # "absent"

\* The jobs a worker holds.
LeasesOf(w) == {j \in Job : jobs[j].locked_by = w}

\* Slip: without GREATEST.
Discount_NoFloor(w) == workers' = [workers EXCEPT ![w].count = @ - 1]

\* active_job_count = GREATEST(0, active_job_count - 1)
Discount(w) ==
  workers' = [workers EXCEPT ![w].count = IF @ = 0 THEN 0 ELSE @ - 1]

\* Slip: a released job is always queued again.
LeaseRows_AlwaysRequeue(S) ==
  {[job |-> j, worker |-> jobs[j].locked_by, requeue |-> TRUE] : j \in S}

\* What a sweep remembers of the jobs in a set.
LeaseRows(S) ==
  {[job |-> j, worker |-> jobs[j].locked_by,
    requeue |-> jobs[j].attempts < MaxAttempts] : j \in S}

-----------------------------------------------------------------------------
(* The registry: one statement each. *)

\* POST workers/register: an upsert that rewrites the limit of a known worker, whatever
\* it holds, and never touches its count.
RegisterWorker(w, limit) ==
  /\ workers' = [workers EXCEPT ![w].status = "active", ![w].fresh = TRUE,
                                ![w].limit = limit, ![w].peak = IF limit > @ THEN limit ELSE @]
  /\ UNCHANGED <<jobs, rowlock, req, wreq>>

HeartbeatWorker(w) ==
  /\ Registered(w)
  /\ workers' = [workers EXCEPT ![w].fresh = TRUE]
  /\ UNCHANGED <<jobs, rowlock, req, wreq>>

\* POST workers/pause, workers/stop, and markWorkerStale, which no route calls.
SetStatus(w, s) ==
  /\ Registered(w)
  /\ workers' = [workers EXCEPT ![w].status = s]
  /\ UNCHANGED <<jobs, rowlock, req, wreq>>

PauseWorker(w) == SetStatus(w, "paused")
StopWorker(w) == SetStatus(w, "stopped")
MarkWorkerStale(w) == SetStatus(w, "stale")

\* Time passes: heartbeat_at falls behind the eviction threshold.
HeartbeatAges(w) ==
  /\ workers[w].fresh
  /\ workers' = [workers EXCEPT ![w].fresh = FALSE]
  /\ UNCHANGED <<jobs, rowlock, req, wreq>>

-----------------------------------------------------------------------------
(* POST workers/claim *)

\* Slip: the limit itself is let through.
ClaimCheck_OffByOne(r, w) ==
  /\ Free(r)
  /\ workers[w].status = "active"
  /\ workers[w].count <= workers[w].limit
  /\ Goto(r, [Idle EXCEPT !.pc = "claim", !.worker = w])
  /\ UNCHANGED <<jobs, rowlock, req, workers>>

\* The worker's status, count and limit are read and checked ...
ClaimCheck(r, w) ==
  /\ Free(r)
  /\ workers[w].status = "active"
  /\ workers[w].count < workers[w].limit
  /\ Goto(r, [Idle EXCEPT !.pc = "claim", !.worker = w])
  /\ UNCHANGED <<jobs, rowlock, req, workers>>

\* Slip: jobs in processing are taken too, as if their worker were gone.
Waiting_AnyLease(j) == jobs[j].status \in {"pending", "processing"} /\ Queue!Unlocked(j)

\* attempts are not looked at.
Waiting(j) == jobs[j].status = "pending" /\ Queue!Unlocked(j)

\* ORDER BY priority = 'high' DESC, priority = 'medium' DESC, created_at
Ahead(i, j) ==
  LET class(k) == CASE Priority[k] = "high" -> 0 [] Priority[k] = "medium" -> 1 [] OTHER -> 2
  IN  class(i) < class(j) \/ (class(i) = class(j) /\ i < j)

FirstInLine(j) == Waiting(j) /\ \A i \in Job \ {j} : Waiting(i) => Ahead(j, i)

\* ... then one statement picks and leases a job; with none the answer is null ...
ClaimTake(r) ==
  /\ At(r, "claim")
  /\ \/ \E j \in Job :
          /\ FirstInLine(j)
          /\ jobs' = [jobs EXCEPT ![j] = Queue!Leased(@, wreq[r].worker, @.attempts + 1)]
          /\ Goto(r, [wreq[r] EXCEPT !.pc = "claimed"])
     \/ /\ \A j \in Job : ~ Waiting(j)
        /\ Goto(r, Idle)
        /\ UNCHANGED jobs
  /\ UNCHANGED <<rowlock, req, workers>>

\* ... and the count goes up in a third.
ClaimCount(r) ==
  /\ At(r, "claimed")
  /\ workers' = [workers EXCEPT ![wreq[r].worker].count = @ + 1]
  /\ Goto(r, Idle)
  /\ UNCHANGED <<jobs, rowlock, req>>

-----------------------------------------------------------------------------
(* POST workers/complete and workers/fail *)

\* The lease is checked in one statement ...
FinishCheck(r, w, j, pc) ==
  /\ Free(r)
  /\ jobs[j].locked_by = w
  /\ Goto(r, [Idle EXCEPT !.pc = pc, !.worker = w, !.job = j])
  /\ UNCHANGED <<jobs, rowlock, req, workers>>

CompleteCheck(r, w, j) == FinishCheck(r, w, j, "complete")
FailCheck(r, w, j) == FinishCheck(r, w, j, "fail")

\* ... the job is overwritten in another, WHERE id only ...
FinishJob(r, status) ==
  /\ Queue!Write(wreq[r].job, Queue!Unleased(jobs[wreq[r].job], status))
  /\ Goto(r, [wreq[r] EXCEPT !.pc = "finished"])
  /\ UNCHANGED <<rowlock, req, workers>>

CompleteJob(r) == At(r, "complete") /\ FinishJob(r, "completed")
FailJob(r) == At(r, "fail") /\ FinishJob(r, "failed")

\* Slip: the answer is sent without giving the slot back.
FinishCount_Forgets(r) ==
  /\ At(r, "finished")
  /\ Goto(r, Idle)
  /\ UNCHANGED <<jobs, rowlock, req, workers>>

\* ... and the worker's count goes down in a third.
FinishCount(r) ==
  /\ At(r, "finished")
  /\ Discount(wreq[r].worker)
  /\ Goto(r, Idle)
  /\ UNCHANGED <<jobs, rowlock, req>>

-----------------------------------------------------------------------------
(* POST workers/lease-release/workers *)

\* What is left of an eviction sweep: the leases of this worker, then other workers.
EvictRest(todo, rows) ==
  IF rows # {} THEN [Idle EXCEPT !.pc = "leases", !.todo = todo, !.rows = rows]
  ELSE IF todo # {} THEN [Idle EXCEPT !.pc = "evict", !.todo = todo]
  ELSE Idle

Unheard == {w \in Worker : workers[w].status \in {"active", "paused"} /\ ~ workers[w].fresh}

EvictSelect(r) ==
  /\ Free(r)
  /\ Unheard # {}
  /\ Goto(r, EvictRest(Unheard, {}))
  /\ UNCHANGED <<jobs, rowlock, req, workers>>

\* The next worker is stopped, heard of again in between or not ...
EvictWorker(r) ==
  /\ At(r, "evict")
  /\ \E w \in wreq[r].todo :
       /\ workers' = [workers EXCEPT ![w].status = "stopped"]
       /\ Goto(r, [wreq[r] EXCEPT !.pc = "evicted", !.worker = w, !.todo = @ \ {w}])
  /\ UNCHANGED <<jobs, rowlock, req>>

\* ... its leases are selected ...
EvictLeases(r) ==
  /\ At(r, "evicted")
  /\ LET held == {j \in LeasesOf(wreq[r].worker) : jobs[j].status = "processing"}
     IN  Goto(r, EvictRest(wreq[r].todo, LeaseRows(held)))
  /\ UNCHANGED <<jobs, rowlock, req, workers>>

\* ... and released one by one, WHERE id only.  The count is never brought down.
EvictRelease(r) ==
  /\ At(r, "leases")
  /\ \E row \in wreq[r].rows :
       /\ Queue!Write(row.job, Queue!Swept(jobs[row.job], row.requeue))
       /\ Goto(r, EvictRest(wreq[r].todo, wreq[r].rows \ {row}))
  /\ UNCHANGED <<rowlock, req, workers>>

-----------------------------------------------------------------------------
(* POST workers/lease-release/jobs *)

\* Leases that are old, or whose worker is stopped, stale or unknown.
Expired ==
  {j \in Job :
     /\ jobs[j].status = "processing"
     /\ \/ jobs[j].aged
        \/ jobs[j].locked_by = NULL
        \/ workers[jobs[j].locked_by].status \in {"stopped", "stale", "absent"}}

SweepSelect(r) ==
  /\ Free(r)
  /\ Expired # {}
  /\ Goto(r, [Idle EXCEPT !.pc = "sweep", !.rows = LeaseRows(Expired)])
  /\ UNCHANGED <<jobs, rowlock, req, workers>>

SweepRelease(r) ==
  /\ At(r, "sweep")
  /\ \E row \in wreq[r].rows :
       /\ Queue!Write(row.job, Queue!Swept(jobs[row.job], row.requeue))
       /\ Goto(r, [wreq[r] EXCEPT !.pc = "swept", !.worker = row.worker, !.rows = @ \ {row}])
  /\ UNCHANGED <<rowlock, req, workers>>


\* The count of the worker that held the lease when it was selected goes down.
SweepCount(r) ==
  /\ At(r, "swept")
  /\ Discount(wreq[r].worker)
  /\ Goto(r, IF wreq[r].rows = {} THEN Idle
             ELSE [wreq[r] EXCEPT !.pc = "sweep", !.worker = NULL])
  /\ UNCHANGED <<jobs, rowlock, req>>

-----------------------------------------------------------------------------
\* A query fails or the API process dies between two statements.
Abort(r) ==
  /\ ~ Free(r)
  /\ Goto(r, Idle)
  /\ UNCHANGED <<jobs, rowlock, req, workers>>

Registration(w) == \E limit \in Limit : RegisterWorker(w, limit)

StatusStep(w) ==
  \/ HeartbeatWorker(w) \/ PauseWorker(w) \/ StopWorker(w) \/ MarkWorkerStale(w)
  \/ HeartbeatAges(w)

RegistryStep(w) == Registration(w) \/ StatusStep(w)

\* What a worker asks the runtime for.
WorkerStart(r, w) ==
  ClaimCheck(r, w) \/ \E j \in Job : CompleteCheck(r, w, j) \/ FailCheck(r, w, j)

WorkerStep(r) == ClaimTake(r) \/ ClaimCount(r) \/ CompleteJob(r) \/ FailJob(r) \/ FinishCount(r)

SweepStart(r) == EvictSelect(r) \/ SweepSelect(r)

SweepStep(r) ==
  EvictWorker(r) \/ EvictLeases(r) \/ EvictRelease(r) \/ SweepRelease(r) \/ SweepCount(r)

RuntimeStep(r) == WorkerStep(r) \/ SweepStep(r)

Next ==
  \/ Queue!Next /\ UNCHANGED runtimeVars
  \/ \E w \in Worker : RegistryStep(w)
  \/ \E r \in RuntimeRequest :
       \/ \E w \in Worker : WorkerStart(r, w)
       \/ SweepStart(r)
       \/ RuntimeStep(r)
       \/ Abort(r)

Spec == Init /\ [][Next]_vars

(***************************************************************************)
(* The event loop runs a continuation once its query has answered, and a   *)
(* statement that waits for a row lock is queued for it: strong fairness,  *)
(* since the lock may be taken and given back in between.  Clients, sweeps *)
(* and the clock promise nothing.                                          *)
(***************************************************************************)
Fairness ==
  /\ \A r \in Request : SF_vars(Queue!RequestStep(r) /\ UNCHANGED runtimeVars)
  /\ \A r \in RuntimeRequest : SF_vars(RuntimeStep(r))

FairSpec == Spec /\ Fairness

(***************************************************************************)
(* The runtime used the way its tests use it: each worker waits for one    *)
(* answer before it asks again, to be registered anew too, jobs are leased *)
(* through workers/claim only, no sweep runs and no handler dies.          *)
(***************************************************************************)
Silent(w) == \A q \in RuntimeRequest : wreq[q].worker # w

SerialNext ==
  \/ \E j \in Job : Queue!CreateIndexJob(j) /\ UNCHANGED runtimeVars
  \/ \E w \in Worker : StatusStep(w) \/ (Silent(w) /\ Registration(w))
  \/ \E r \in RuntimeRequest : WorkerStep(r) \/ \E w \in Worker : Silent(w) /\ WorkerStart(r, w)

SerialSpec == Init /\ [][SerialNext]_vars

-----------------------------------------------------------------------------
(* Properties of every use *)

\* With two services writing status and locked_by, a job is still leased exactly while
\* it is processing.
LeaseMatchesStatus == Queue!LeaseMatchesStatus

\* Neither service hands a leased job to another worker.
NoLeaseTheft == Queue!NoLeaseTheft

\* Claims of one worker that overlap all pass the same check, so the limit gives way: a
\* count may exceed the highest limit its worker was registered with (a later, lower one
\* takes nothing back) by less than the number of requests in flight, and no further.
CountBounded ==
  \A w \in Worker : workers[w].count < workers[w].peak + Cardinality(RuntimeRequest)

\* A sweep that decided on attempts it read earlier can queue a job whose attempts are
\* used up, and the runtime's claim does not look at them.  The overrun is at most one
\* per other request in flight.
AttemptsOverrunBounded ==
  \A j \in Job :
    jobs[j].attempts < MaxAttempts + Cardinality(Request) + Cardinality(RuntimeRequest)

\* Every request of either service is answered, whatever locks it waits for and however
\* many rows it has to work through.
EveryRequestEnds ==
  /\ \A r \in RuntimeRequest : ~ Free(r) ~> Free(r)
  /\ \A r \in Request : ~ Queue!Free(r) ~> Queue!Free(r)

-----------------------------------------------------------------------------
(* Properties of the serial use *)

InFlight(w, pc) == {r \in RuntimeRequest : wreq[r].worker = w /\ wreq[r].pc = pc}

\* active_job_count is the number of jobs the worker holds, but for the request that has
\* done the job's update and not yet the count's.
CountMatchesLeases ==
  \A w \in Worker :
    workers[w].count + Cardinality(InFlight(w, "claimed"))
      = Cardinality(LeasesOf(w)) + Cardinality(InFlight(w, "finished"))

\* "Third claim blocked due to concurrency limit saturation": a claim that got its job
\* has not taken its worker beyond the limit in force, whatever limits it was registered
\* with before, and no worker ever holds more than the highest of them.
ConcurrencyLimit ==
  \A w \in Worker :
    /\ Cardinality(LeasesOf(w)) <= workers[w].peak
    /\ InFlight(w, "claimed") # {} => Cardinality(LeasesOf(w)) <= workers[w].limit

=============================================================================
