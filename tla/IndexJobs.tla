------------------------------ MODULE IndexJobs ------------------------------
(***************************************************************************)
(* The index_jobs table and the IndexJobService handlers that work on it   *)
(* (packages/core/src/index-job-service.ts).                               *)
(*                                                                         *)
(* Every handler is an async function over a PostgreSQL pool: a query is   *)
(* an autocommit statement of its own, and any other handler may run at    *)
(* an await.  A handler is therefore one action per statement that reads   *)
(* or writes shared state; what it read is kept in its request slot until  *)
(* it is used.  Only claimNextJob holds a transaction, and with it a row   *)
(* lock, across two statements: rowlock.                                   *)
(*                                                                         *)
(* A job's number is its rank in created_at order.  The clock is reduced   *)
(* to one flag per lease: aged, when locked_at is older than the threshold *)
(* of the sweep that looks at it.                                          *)
(***************************************************************************)
EXTENDS Naturals

CONSTANTS
  NumJobs,      \* jobs ever created (a bound of the model)
  Worker,       \* worker ids that appear as locked_by
  Request,      \* slots for requests in flight (a bound on concurrency)
  MaxAttempts,  \* max_attempts of the jobs
  NULL

ASSUME JobsAssumption == NumJobs \in Nat /\ MaxAttempts \in Nat
ASSUME NullAssumption == NULL \notin Worker /\ NULL \notin Request /\ NULL \notin Nat

Job == 1..NumJobs

VARIABLES
  jobs,     \* the table: a row per job
  rowlock,  \* the request whose transaction locks the row, or NULL
  req       \* the requests in flight

vars == <<jobs, rowlock, req>>

Status == {"absent", "pending", "processing", "completed", "failed", "cancelled"}

Row == [status: Status, locked_by: Worker \union {NULL}, attempts: Nat, aged: BOOLEAN]

\* What a sweep keeps of a row it selected: the job, and whether attempts were left.
StaleRow == [job: Job, requeue: BOOLEAN]

Idle == [pc |-> "idle", job |-> NULL, worker |-> NULL, seen |-> 0, rows |-> {}]

Slot == [pc: {"idle", "claim", "cancel", "retry", "release"},
         job: Job \union {NULL}, worker: Worker \union {NULL},
         seen: Nat, rows: SUBSET StaleRow]

TypeOK ==
  /\ jobs \in [Job -> Row]
  /\ rowlock \in [Job -> Request \union {NULL}]
  /\ req \in [Request -> Slot]

-----------------------------------------------------------------------------
(* What the UPDATE statements do to a row. *)

\* status = 'processing', locked_by = w, locked_at = NOW(), attempts = n
Leased(row, w, n) ==
  [row EXCEPT !.status = "processing", !.locked_by = w, !.attempts = n, !.aged = FALSE]

\* Slip: the status changes and the lock columns are forgotten.
Unleased_KeepsLock(row, s) == [row EXCEPT !.status = s, !.aged = FALSE]

\* status = s, locked_by = NULL, locked_at = NULL
Unleased(row, s) ==
  [row EXCEPT !.status = s, !.locked_by = NULL, !.aged = FALSE]

Exists(j) == jobs[j].status # "absent"

\* Slip: the claim's SELECT loses its FOR UPDATE, so that no row is ever locked.
Unlocked_NoForUpdate(j) == jobs[j].status \in Status

\* An UPDATE of a row that a transaction has locked waits for its end.
Unlocked(j) == rowlock[j] = NULL

Write(j, row) ==
  /\ Unlocked(j)
  /\ jobs' = [jobs EXCEPT ![j] = row]

Free(r) == req[r].pc = "idle"

Start(r, slot) == req' = [req EXCEPT ![r] = slot]

Finish(r) == req' = [req EXCEPT ![r] = Idle]

\* retryFailedJob's row: the lock columns go, and attempts start again.
Retried(row) == [Unleased(row, "pending") EXCEPT !.attempts = 0]

\* A sweep's row once the UPDATE has run.
Swept(row, requeue) == Unleased(row, IF requeue THEN "pending" ELSE "failed")

-----------------------------------------------------------------------------
Init ==
  /\ jobs = [j \in Job |-> [status |-> "absent", locked_by |-> NULL,
                            attempts |-> 0, aged |-> FALSE]]
  /\ rowlock = [j \in Job |-> NULL]
  /\ req = [r \in Request |-> Idle]

\* Slip: the new row carries the legacy tag.
CreateIndexJob_LegacyTag(j) ==
  /\ ~ Exists(j)
  /\ \A i \in Job : i < j => Exists(i)
  /\ jobs' = [jobs EXCEPT ![j].status = "queued"]
  /\ UNCHANGED <<rowlock, req>>

\* POST /index-jobs: one INSERT, jobs appear in created_at order.
CreateIndexJob(j) ==
  /\ ~ Exists(j)
  /\ \A i \in Job : i < j => Exists(i)
  /\ jobs' = [jobs EXCEPT ![j].status = "pending"]
  /\ UNCHANGED <<rowlock, req>>

\* Slip: the attempts are not compared with the maximum.
Claimable_NoLimit(j) == jobs[j].status = "pending" /\ Unlocked(j)

Claimable(j) ==
  /\ jobs[j].status = "pending"
  /\ jobs[j].attempts < MaxAttempts
  /\ Unlocked(j)

\* POST /index-jobs/claim-next: BEGIN, then SELECT ... FOR UPDATE SKIP LOCKED takes
\* and locks the oldest claimable row.  With none the handler commits and returns
\* null, and nothing changes.
ClaimSelect(r, w) ==
  /\ Free(r)
  /\ \E j \in Job :
       /\ Claimable(j)
       /\ \A i \in Job : Claimable(i) => j <= i
       /\ rowlock' = [rowlock EXCEPT ![j] = r]
       /\ Start(r, [Idle EXCEPT !.pc = "claim", !.job = j, !.worker = w,
                                !.seen = jobs[j].attempts])
  /\ UNCHANGED jobs

\* Slip: the handler returns without COMMIT, and its connection keeps the row lock.
ClaimCommit_NoCommit(r) ==
  /\ req[r].pc = "claim"
  /\ Finish(r)
  /\ UNCHANGED <<jobs, rowlock>>

\* The UPDATE with the attempts computed from the selected row, and COMMIT.
ClaimCommit(r) ==
  /\ req[r].pc = "claim"
  /\ LET j == req[r].job IN
       /\ jobs' = [jobs EXCEPT ![j] = Leased(@, req[r].worker, req[r].seen + 1)]
       /\ rowlock' = [rowlock EXCEPT ![j] = NULL]
  /\ Finish(r)

\* POST /index-jobs/:jobId/complete: whoever asks, whatever the status.  The SELECT
\* before the UPDATE only fetches metadata.
MarkCompleted(j) ==
  /\ Exists(j)
  /\ Write(j, Unleased(jobs[j], "completed"))
  /\ UNCHANGED <<rowlock, req>>

\* POST /index-jobs/:jobId/fail
MarkFailed(j) ==
  /\ Exists(j)
  /\ Write(j, Unleased(jobs[j], "failed"))
  /\ UNCHANGED <<rowlock, req>>

\* POST /index-jobs/:jobId/cancel: the status is checked in one statement ...
CancelCheck(r, j) ==
  /\ Free(r)
  /\ Exists(j)
  /\ jobs[j].status \notin {"completed", "failed"}
  /\ Start(r, [Idle EXCEPT !.pc = "cancel", !.job = j])
  /\ UNCHANGED <<jobs, rowlock>>

\* ... and overwritten in another, WHERE id only.
CancelUpdate(r) ==
  /\ req[r].pc = "cancel"
  /\ Write(req[r].job, Unleased(jobs[req[r].job], "cancelled"))
  /\ Finish(r)
  /\ UNCHANGED rowlock

\* POST /index-jobs/:jobId/retry: refused once attempts reach the maximum, whatever
\* the status.
RetryCheck(r, j) ==
  /\ Free(r)
  /\ Exists(j)
  /\ jobs[j].attempts < MaxAttempts
  /\ Start(r, [Idle EXCEPT !.pc = "retry", !.job = j])
  /\ UNCHANGED <<jobs, rowlock>>

RetryUpdate(r) ==
  /\ req[r].pc = "retry"
  /\ Write(req[r].job, Retried(jobs[req[r].job]))
  /\ Finish(r)
  /\ UNCHANGED rowlock

\* The rows a sweep finds stale, with what it makes of their attempts.
StaleRows ==
  {row \in StaleRow :
     /\ jobs[row.job].status = "processing"
     /\ jobs[row.job].aged
     /\ row.requeue <=> jobs[row.job].attempts < MaxAttempts}

\* POST /index-jobs/release-stale-locks: the stale rows are selected once ...
ReleaseSelect(r) ==
  /\ Free(r)
  /\ StaleRows # {}
  /\ Start(r, [Idle EXCEPT !.pc = "release", !.rows = StaleRows])
  /\ UNCHANGED <<jobs, rowlock>>

\* ... and released one statement at a time, WHERE id only.
ReleaseRow(r) ==
  /\ req[r].pc = "release"
  /\ \E row \in req[r].rows :
       /\ Write(row.job, Swept(jobs[row.job], row.requeue))
       /\ IF req[r].rows = {row}
            THEN Finish(r)
            ELSE req' = [req EXCEPT ![r].rows = @ \ {row}]
  /\ UNCHANGED rowlock

\* A query fails, or the API process dies, between two statements: the handler ends
\* there, and the database rolls an open transaction back.
Abort(r) ==
  /\ ~ Free(r)
  /\ Finish(r)
  /\ rowlock' = [j \in Job |-> IF rowlock[j] = r THEN NULL ELSE rowlock[j]]
  /\ UNCHANGED jobs

\* Time passes: locked_at falls behind the threshold.
LeaseAges(j) ==
  /\ jobs[j].status = "processing"
  /\ ~ jobs[j].aged
  /\ jobs' = [jobs EXCEPT ![j].aged = TRUE]
  /\ UNCHANGED <<rowlock, req>>

JobStep(j) ==
  CreateIndexJob(j) \/ MarkCompleted(j) \/ MarkFailed(j) \/ LeaseAges(j)

RequestStart(r) ==
  \/ \E w \in Worker : ClaimSelect(r, w)
  \/ \E j \in Job : CancelCheck(r, j) \/ RetryCheck(r, j)
  \/ ReleaseSelect(r)

\* What a request in flight does next.
RequestStep(r) == ClaimCommit(r) \/ CancelUpdate(r) \/ RetryUpdate(r) \/ ReleaseRow(r)

Next ==
  \/ \E j \in Job : JobStep(j)
  \/ \E r \in Request : RequestStart(r) \/ RequestStep(r) \/ Abort(r)

Spec == Init /\ [][Next]_vars

-----------------------------------------------------------------------------
(* Properties *)

\* A job is leased exactly while it is processing.  locked_by and status are written
\* by seven handlers; the sweeps look only at processing rows, so a lease left on any
\* other row would never be released, and a processing row without a lease has no owner.
LeaseMatchesStatus ==
  \A j \in Job : (jobs[j].status = "processing") <=> (jobs[j].locked_by # NULL)

\* However claims, retries, sweeps and aborts interleave, a job is never given to a
\* worker more often than max_attempts since its last reset, and a processing job has
\* used at least one attempt.
AttemptsWithinLimit ==
  \A j \in Job :
    /\ jobs[j].attempts <= MaxAttempts
    /\ jobs[j].status = "processing" => jobs[j].attempts >= 1

\* A row lock belongs to a claim in flight on that very row, and the row is still as
\* that claim selected it: no other handler has slipped an update under the lock.
LockedRowIsStable ==
  \A j \in Job : rowlock[j] # NULL =>
    LET r == rowlock[j] IN
    /\ req[r].pc = "claim" /\ req[r].job = j
    /\ jobs[j].status = "pending" /\ jobs[j].attempts = req[r].seen

\* A lease never passes from one worker to another in one step: a worker gets a job
\* only after the lease of the previous one was taken back.
NoLeaseTheft ==
  [][\A j \in Job :
       (jobs[j].locked_by # NULL /\ jobs'[j].locked_by # NULL)
         => jobs'[j].locked_by = jobs[j].locked_by]_vars

\* Every start of processing is counted exactly once in attempts, and nothing else
\* raises it: no increment is lost between the claim's SELECT and its UPDATE.
EveryClaimCounted ==
  [][\A j \in Job :
       (jobs[j].status # "processing" /\ jobs'[j].status = "processing")
         <=> jobs'[j].attempts = jobs[j].attempts + 1]_vars

-----------------------------------------------------------------------------
(* The queue implements the abstract lease book. *)

Leases == INSTANCE JobLeases WITH
  open   <- {j \in Job : jobs[j].status = "pending"},
  holder <- [j \in Job |-> jobs[j].locked_by],
  left   <- [j \in Job |-> MaxAttempts - jobs[j].attempts]

\* IndexJobService keeps the promise of JobLeases under every interleaving of its routes.
ImplementsLeases == Leases!Spec

=============================================================================
