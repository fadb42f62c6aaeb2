------------------------- MODULE WorkerRuntimeProofs -------------------------
(***************************************************************************)
(* Proofs about WorkerRuntime, the composition of the two services that    *)
(* lease index jobs: for any number of jobs, workers and requests of       *)
(* either, a job is leased exactly while it is processing, no lease passes *)
(* from one worker to another, and what overlapping requests can overrun,  *)
(* the concurrency limit and the attempts, is overrun by less than the     *)
(* number of requests in flight.                                           *)
(* Workers that wait for their answers keep the count exact and the limit. *)
(*                                                                         *)
(* IndexJobsProofs does not carry over: its invariant bounds the attempts, *)
(* which the runtime's claim overruns.  What does carry over is the        *)
(* argument about the row lock: no statement of the runtime writes a row   *)
(* under the lock of a claim of the other service.                         *)
(***************************************************************************)
EXTENDS MCRuntimeUse, FiniteSetTheorems, TLAPS

USE QueueAssumption

RowOK(row) == row \in Queue!Row /\ (row.status = "processing" <=> row.locked_by # NULL)

TableOK == jobs \in [Job -> Queue!Row] /\ \A j \in Job : RowOK(jobs[j])

\* What a request of IndexJobService knows: a claim owns its row.
ClaimsOK ==
  \A r \in Request :
    /\ req[r].pc \in {"claim", "cancel", "retry"} => req[r].job \in Job
    /\ req[r].pc = "claim" => req[r].worker \in Worker /\ rowlock[req[r].job] = r

\* A locked row belongs to a claim and waits: nobody has leased it behind the lock.
LockedOK ==
  \A j \in Job : rowlock[j] # NULL =>
    /\ req[rowlock[j]].pc = "claim" /\ req[rowlock[j]].job = j
    /\ jobs[j].status = "pending"

QueueOK ==
  /\ TableOK
  /\ rowlock \in [Job -> Request \union {NULL}]
  /\ req \in [Request -> Queue!Slot]
  /\ ClaimsOK /\ LockedOK

\* What a request of the runtime knows: for whom it works, and on which job.
SlotOK(slot) ==
  /\ slot.pc \in {"claim", "claimed", "complete", "fail", "finished", "evicted"}
       => slot.worker \in Worker
  /\ slot.pc \in {"complete", "fail"} => slot.job \in Job

SlotsOK == \A r \in RuntimeRequest : SlotOK(wreq[r])

\* The limit in force is on record.
KnownRow == {row \in WorkerRow : row.limit <= row.peak}

RuntimeOK ==
  /\ workers \in [Worker -> KnownRow]
  /\ wreq \in [RuntimeRequest -> Slot]
  /\ SlotsOK

IInv == QueueOK /\ RuntimeOK

-----------------------------------------------------------------------------
(* The rows that the statements write. *)

LEMMA LeasedRow ==
  ASSUME NEW row \in Queue!Row, NEW w \in Worker, NEW n \in Nat
  PROVE  RowOK(Queue!Leased(row, w, n))
  BY DEF RowOK, Queue!Leased, Queue!Row, Queue!Status

LEMMA UnleasedRow ==
  ASSUME NEW row \in Queue!Row, NEW s \in Queue!Status \ {"processing"}
  PROVE  /\ RowOK(Queue!Unleased(row, s))
         /\ Queue!Unleased(row, s).locked_by = NULL
         /\ Queue!Unleased(row, s).status = s
  BY DEF RowOK, Queue!Unleased, Queue!Row, Queue!Status

LEMMA SweptRow ==
  ASSUME NEW row \in Queue!Row, NEW requeue
  PROVE  RowOK(Queue!Swept(row, requeue)) /\ Queue!Swept(row, requeue).locked_by = NULL
  BY UnleasedRow DEF Queue!Swept, Queue!Status

LEMMA RetriedRow ==
  ASSUME NEW row \in Queue!Row
  PROVE  RowOK(Queue!Retried(row)) /\ Queue!Retried(row).locked_by = NULL
  BY DEF RowOK, Queue!Retried, Queue!Unleased, Queue!Row, Queue!Status

LEMMA CreatedRow ==
  ASSUME NEW row, RowOK(row), row.status = "absent"
  PROVE  LET new == [row EXCEPT !.status = "pending"] IN
         RowOK(new) /\ new.locked_by = row.locked_by
  BY DEF RowOK, Queue!Row, Queue!Status

LEMMA AgedRow ==
  ASSUME NEW row, RowOK(row)
  PROVE  LET new == [row EXCEPT !.aged = TRUE] IN
         RowOK(new) /\ new.locked_by = row.locked_by
  BY DEF RowOK, Queue!Row

LEMMA IdleSlots ==
  /\ Queue!Idle \in Queue!Slot /\ Queue!Idle.pc = "idle"
  /\ Idle \in Slot /\ Idle.pc = "idle"
  BY DEF Queue!Idle, Queue!Slot, Idle, Slot, Queue!StaleRow, LeaseRow

LEMMA InitIInv == Init => IInv
<1> SUFFICES ASSUME Init PROVE IInv
  OBVIOUS
<1>1. QueueOK
  BY IdleSlots DEF Init, Queue!Init, QueueOK, TableOK, RowOK, ClaimsOK, LockedOK, Job,
                   Queue!Row, Queue!Status
<1>2. RuntimeOK
  BY IdleSlots DEF Init, RuntimeOK, SlotsOK, SlotOK, KnownRow, WorkerRow
<1> QED BY <1>1, <1>2 DEF IInv

-----------------------------------------------------------------------------
(* Steps on the queue, of whichever service. *)

\* The lease of the row j is given up, kept, or given to somebody who takes it from nobody.
Fair(j) == jobs'[j].locked_by \in {jobs[j].locked_by, NULL} \/ jobs[j].locked_by = NULL

\* A statement that writes one unlocked row disturbs no claim.
LEMMA WriteStep ==
  ASSUME QueueOK, NEW j \in Job, NEW row, RowOK(row),
         rowlock[j] = NULL, jobs' = [jobs EXCEPT ![j] = row],
         row.locked_by \in {jobs[j].locked_by, NULL} \/ jobs[j].locked_by = NULL,
         UNCHANGED rowlock, req' \in [Request -> Queue!Slot],
         \A r \in Request : \/ req'[r] = req[r]
                            \/ req[r].pc # "claim" /\ req'[r].pc \in {"idle", "release"}
  PROVE  QueueOK' /\ \A i \in Job : Fair(i)
<1>1. \A i \in Job : jobs'[i] = IF i = j THEN row ELSE jobs[i]
  BY DEF QueueOK, TableOK
<1>2. TableOK'
  BY <1>1 DEF QueueOK, TableOK, RowOK
<1>3. ClaimsOK'
  BY DEF QueueOK, ClaimsOK
<1>4. LockedOK'
  BY <1>1 DEF QueueOK, LockedOK
<1>5. \A i \in Job : Fair(i)
  BY <1>1 DEF Fair
<1> QED BY <1>2, <1>3, <1>4, <1>5 DEF QueueOK

\* A step that leaves the table and the locks alone and starts or ends no claim.
LEMMA QuietStep ==
  ASSUME QueueOK, UNCHANGED <<jobs, rowlock>>, req' \in [Request -> Queue!Slot],
         \A r \in Request :
           \/ req'[r] = req[r]
           \/ /\ req[r].pc # "claim" /\ req'[r].pc # "claim"
              /\ req'[r].pc \in {"cancel", "retry"} => req'[r].job \in Job
  PROVE  QueueOK' /\ \A i \in Job : Fair(i)
  BY DEF QueueOK, TableOK, RowOK, ClaimsOK, LockedOK, Fair

LEMMA QueueMoves ==
  ASSUME QueueOK, NEW r \in Request, NEW slot \in Queue!Slot, req' = [req EXCEPT ![r] = slot]
  PROVE  /\ req' \in [Request -> Queue!Slot]
         /\ req'[r] = slot
         /\ \A q \in Request \ {r} : req'[q] = req[q]
  BY DEF QueueOK

LEMMA JobStep ==
  ASSUME QueueOK, NEW j \in Job, Queue!JobStep(j)
  PROVE  QueueOK' /\ \A i \in Job : Fair(i)
<1>0. jobs[j] \in Queue!Row /\ RowOK(jobs[j]) /\ UNCHANGED <<rowlock, req>>
  BY DEF QueueOK, TableOK, Queue!JobStep, Queue!CreateIndexJob, Queue!MarkCompleted,
         Queue!MarkFailed, Queue!LeaseAges
<1>1. PICK row : /\ RowOK(row) /\ jobs' = [jobs EXCEPT ![j] = row] /\ rowlock[j] = NULL
                 /\ row.locked_by \in {jobs[j].locked_by, NULL}
  <2>1. CASE Queue!CreateIndexJob(j)
    <3>1. jobs[j].status = "absent" /\ rowlock[j] = NULL
      BY <2>1 DEF Queue!CreateIndexJob, Queue!Exists, QueueOK, LockedOK
    <3>2. jobs' = [jobs EXCEPT ![j] = [jobs[j] EXCEPT !.status = "pending"]]
      BY <2>1 DEF Queue!CreateIndexJob
    <3> QED BY <1>0, <3>1, <3>2, CreatedRow
  <2>2. CASE Queue!MarkCompleted(j) \/ Queue!MarkFailed(j)
    <3>1. PICK s \in {"completed", "failed"} : Queue!Write(j, Queue!Unleased(jobs[j], s))
      BY <2>2 DEF Queue!MarkCompleted, Queue!MarkFailed
    <3>2. RowOK(Queue!Unleased(jobs[j], s)) /\ Queue!Unleased(jobs[j], s).locked_by = NULL
      BY <1>0, UnleasedRow DEF Queue!Status
    <3> QED BY <3>1, <3>2 DEF Queue!Write, Queue!Unlocked
  <2>3. CASE Queue!LeaseAges(j)
    <3>1. rowlock[j] = NULL
      BY <2>3 DEF Queue!LeaseAges, QueueOK, LockedOK
    <3>2. jobs' = [jobs EXCEPT ![j] = [jobs[j] EXCEPT !.aged = TRUE]]
      BY <2>3 DEF Queue!LeaseAges
    <3> QED BY <1>0, <3>1, <3>2, AgedRow
  <2> QED BY <2>1, <2>2, <2>3 DEF Queue!JobStep
<1>2. req' \in [Request -> Queue!Slot] /\ \A r \in Request : req'[r] = req[r]
  BY <1>0 DEF QueueOK
<1> QED BY <1>0, <1>1, <1>2, WriteStep

LEMMA ClaimSelectStep ==
  ASSUME QueueOK, NEW r \in Request, NEW w \in Worker, Queue!ClaimSelect(r, w)
  PROVE  QueueOK' /\ \A i \in Job : Fair(i)
<1>1. PICK j \in Job :
        /\ Queue!Claimable(j)
        /\ rowlock' = [rowlock EXCEPT ![j] = r]
        /\ req' = [req EXCEPT ![r] = [Queue!Idle EXCEPT !.pc = "claim", !.job = j, !.worker = w,
                                                        !.seen = jobs[j].attempts]]
  BY DEF Queue!ClaimSelect, Queue!Start, Job
<1> DEFINE slot == [Queue!Idle EXCEPT !.pc = "claim", !.job = j, !.worker = w,
                                      !.seen = jobs[j].attempts]
<1>2. slot \in Queue!Slot /\ slot.pc = "claim" /\ slot.job = j /\ slot.worker = w
  BY DEF Queue!Slot, Queue!Idle, QueueOK, TableOK, Queue!Row, Job
<1> HIDE DEF slot
<1>3. req' = [req EXCEPT ![r] = slot] /\ UNCHANGED jobs /\ req[r].pc = "idle"
  BY <1>1 DEF slot, Queue!ClaimSelect, Queue!Free
<1>4. rowlock[j] = NULL /\ jobs[j].status = "pending"
  BY <1>1 DEF Queue!Claimable, Queue!Unlocked
<1>5. /\ req' \in [Request -> Queue!Slot] /\ req'[r] = slot
      /\ \A q \in Request \ {r} : req'[q] = req[q]
  BY <1>2, <1>3, QueueMoves
<1>6. TableOK' /\ rowlock' \in [Job -> Request \union {NULL}] /\ \A i \in Job : Fair(i)
  BY <1>1, <1>3 DEF QueueOK, TableOK, RowOK, Fair
<1>7. ClaimsOK'
  BY <1>1, <1>2, <1>4, <1>5 DEF QueueOK, ClaimsOK
<1>8. LockedOK'
  BY <1>1, <1>2, <1>3, <1>4, <1>5 DEF QueueOK, LockedOK
<1> QED BY <1>5, <1>6, <1>7, <1>8 DEF QueueOK

LEMMA ClaimCommitStep ==
  ASSUME QueueOK, NEW r \in Request, Queue!ClaimCommit(r)
  PROVE  QueueOK' /\ \A i \in Job : Fair(i)
<1>1. PICK j \in Job, w \in Worker :
        /\ j = req[r].job /\ w = req[r].worker /\ rowlock[j] = r /\ req[r].seen \in Nat
        /\ jobs[j].status = "pending" /\ RowOK(jobs[j])
  BY DEF Queue!ClaimCommit, QueueOK, ClaimsOK, LockedOK, TableOK, Queue!Slot
<1>2. PICK n \in Nat : n = req[r].seen + 1
  BY <1>1
<1> DEFINE row == Queue!Leased(jobs[j], w, n)
<1>3. RowOK(row)
  BY LeasedRow DEF QueueOK, TableOK
<1>4. /\ jobs' = [jobs EXCEPT ![j] = row] /\ rowlock' = [rowlock EXCEPT ![j] = NULL]
      /\ req' = [req EXCEPT ![r] = Queue!Idle]
  BY <1>1, <1>2 DEF Queue!ClaimCommit, Queue!Finish
<1> HIDE DEF row
<1>5. /\ req' \in [Request -> Queue!Slot] /\ req'[r] = Queue!Idle
      /\ \A q \in Request \ {r} : req'[q] = req[q]
  BY <1>4, IdleSlots, QueueMoves
<1>6. jobs[j].locked_by = NULL
  BY <1>1 DEF RowOK
<1>7. TableOK' /\ rowlock' \in [Job -> Request \union {NULL}] /\ \A i \in Job : Fair(i)
  <2>1. \A i \in Job : jobs'[i] = IF i = j THEN row ELSE jobs[i]
    BY <1>4 DEF QueueOK, TableOK
  <2> QED BY <1>3, <1>4, <1>6, <2>1 DEF QueueOK, TableOK, RowOK, Fair
<1>8. \A q \in Request : q # r /\ req[q].pc = "claim" => req[q].job # j
  BY <1>1 DEF QueueOK, ClaimsOK
<1>9. ClaimsOK'
  BY <1>4, <1>5, <1>8, IdleSlots DEF QueueOK, ClaimsOK
<1>10. LockedOK'
  BY <1>1, <1>4, <1>5 DEF QueueOK, LockedOK, TableOK
<1> QED BY <1>5, <1>7, <1>9, <1>10 DEF QueueOK

\* Cancel, retry and the sweep read and take a slot.
LEMMA CheckStep ==
  ASSUME QueueOK, NEW r \in Request,
         Queue!ReleaseSelect(r) \/ \E j \in Job : Queue!CancelCheck(r, j) \/ Queue!RetryCheck(r, j)
  PROVE  QueueOK' /\ \A i \in Job : Fair(i)
<1>1. PICK slot \in Queue!Slot :
        /\ req' = [req EXCEPT ![r] = slot] /\ slot.pc \in {"cancel", "retry", "release"}
        /\ slot.pc \in {"cancel", "retry"} => slot.job \in Job
  <2>1. CASE Queue!ReleaseSelect(r)
    <3>1. Queue!StaleRows \in SUBSET Queue!StaleRow
      BY DEF Queue!StaleRows
    <3>2. /\ [Queue!Idle EXCEPT !.pc = "release", !.rows = Queue!StaleRows] \in Queue!Slot
          /\ [Queue!Idle EXCEPT !.pc = "release", !.rows = Queue!StaleRows].pc = "release"
      BY <3>1 DEF Queue!Slot, Queue!Idle
    <3> QED BY <2>1, <3>2 DEF Queue!ReleaseSelect, Queue!Start
  <2>2. ASSUME NEW j \in Job, NEW pc \in {"cancel", "retry"},
               req' = [req EXCEPT ![r] = [Queue!Idle EXCEPT !.pc = pc, !.job = j]]
        PROVE  \E slot \in Queue!Slot :
                 /\ req' = [req EXCEPT ![r] = slot] /\ slot.pc \in {"cancel", "retry", "release"}
                 /\ slot.pc \in {"cancel", "retry"} => slot.job \in Job
    <3>1. /\ [Queue!Idle EXCEPT !.pc = pc, !.job = j] \in Queue!Slot
          /\ [Queue!Idle EXCEPT !.pc = pc, !.job = j].pc = pc
          /\ [Queue!Idle EXCEPT !.pc = pc, !.job = j].job = j
      BY DEF Queue!Slot, Queue!Idle, Job
    <3> QED BY <2>2, <3>1
  <2> QED BY <2>1, <2>2 DEF Queue!CancelCheck, Queue!RetryCheck, Queue!Start
<1>2. req[r].pc = "idle" /\ UNCHANGED <<jobs, rowlock>>
  BY DEF Queue!ReleaseSelect, Queue!CancelCheck, Queue!RetryCheck, Queue!Free
<1>3. /\ req' \in [Request -> Queue!Slot] /\ req'[r] = slot
      /\ \A q \in Request \ {r} : req'[q] = req[q]
  BY <1>1, QueueMoves
<1> QED BY <1>1, <1>2, <1>3, QuietStep

LEMMA UpdateStep ==
  ASSUME QueueOK, NEW r \in Request, Queue!CancelUpdate(r) \/ Queue!RetryUpdate(r)
  PROVE  QueueOK' /\ \A i \in Job : Fair(i)
<1>1. PICK j \in Job : j = req[r].job /\ jobs[j] \in Queue!Row
  BY DEF Queue!CancelUpdate, Queue!RetryUpdate, QueueOK, ClaimsOK, TableOK
<1>2. PICK row : RowOK(row) /\ row.locked_by = NULL /\ Queue!Write(j, row)
  <2>1. CASE Queue!CancelUpdate(r)
    BY <1>1, <2>1, UnleasedRow DEF Queue!CancelUpdate, Queue!Status
  <2>2. CASE Queue!RetryUpdate(r)
    BY <1>1, <2>2, RetriedRow DEF Queue!RetryUpdate
  <2> QED BY <2>1, <2>2
<1>3. /\ UNCHANGED rowlock /\ req' = [req EXCEPT ![r] = Queue!Idle]
      /\ req[r].pc # "claim"
  BY DEF Queue!CancelUpdate, Queue!RetryUpdate, Queue!Finish
<1>4. /\ req' \in [Request -> Queue!Slot] /\ req'[r] = Queue!Idle
      /\ \A q \in Request \ {r} : req'[q] = req[q]
  BY <1>3, IdleSlots, QueueMoves
<1> QED BY <1>2, <1>3, <1>4, IdleSlots, WriteStep DEF Queue!Write, Queue!Unlocked

LEMMA ReleaseRowStep ==
  ASSUME QueueOK, NEW r \in Request, Queue!ReleaseRow(r)
  PROVE  QueueOK' /\ \A i \in Job : Fair(i)
<1>1. PICK stale \in req[r].rows :
        /\ Queue!Write(stale.job, Queue!Swept(jobs[stale.job], stale.requeue))
        /\ \/ req' = [req EXCEPT ![r] = Queue!Idle]
           \/ req' = [req EXCEPT ![r].rows = @ \ {stale}]
  BY DEF Queue!ReleaseRow, Queue!Finish
<1>2. stale.job \in Job /\ req[r] \in Queue!Slot /\ jobs[stale.job] \in Queue!Row
  BY DEF QueueOK, TableOK, Queue!Slot, Queue!StaleRow, Job
<1> DEFINE row == Queue!Swept(jobs[stale.job], stale.requeue)
<1>3. RowOK(row) /\ row.locked_by = NULL
  BY <1>2, SweptRow
<1>4. PICK slot \in Queue!Slot : req' = [req EXCEPT ![r] = slot] /\ slot.pc \in {"idle", "release"}
  <2>1. /\ [req[r] EXCEPT !.rows = @ \ {stale}] \in Queue!Slot
        /\ [req[r] EXCEPT !.rows = @ \ {stale}].pc = "release"
    BY <1>2 DEF Queue!Slot, Queue!ReleaseRow
  <2> QED BY <1>1, <2>1, IdleSlots
<1>5. /\ req' \in [Request -> Queue!Slot] /\ req'[r] = slot
      /\ \A q \in Request \ {r} : req'[q] = req[q]
  BY <1>4, QueueMoves
<1>6. UNCHANGED rowlock /\ req[r].pc # "claim"
  BY DEF Queue!ReleaseRow
<1> HIDE DEF row
<1>7. rowlock[stale.job] = NULL /\ jobs' = [jobs EXCEPT ![stale.job] = row]
  BY <1>1 DEF row, Queue!Write, Queue!Unlocked
<1> QED BY <1>2, <1>3, <1>4, <1>5, <1>6, <1>7, WriteStep

LEMMA AbortStep ==
  ASSUME QueueOK, NEW r \in Request, Queue!Abort(r)
  PROVE  QueueOK' /\ \A i \in Job : Fair(i)
<1>1. UNCHANGED jobs /\ req' = [req EXCEPT ![r] = Queue!Idle]
  BY DEF Queue!Abort, Queue!Finish
<1>2. \A j \in Job : rowlock'[j] = IF rowlock[j] = r THEN NULL ELSE rowlock[j]
  BY DEF Queue!Abort, Job
<1>3. /\ req' \in [Request -> Queue!Slot] /\ req'[r] = Queue!Idle
      /\ \A q \in Request \ {r} : req'[q] = req[q]
  BY <1>1, IdleSlots, QueueMoves
<1>4. TableOK' /\ rowlock' \in [Job -> Request \union {NULL}] /\ \A i \in Job : Fair(i)
  BY <1>1 DEF QueueOK, TableOK, RowOK, Fair, Queue!Abort, Job
<1>5. ClaimsOK'
  BY <1>2, <1>3, IdleSlots DEF QueueOK, ClaimsOK
<1>6. LockedOK'
  BY <1>1, <1>2, <1>3 DEF QueueOK, LockedOK
<1> QED BY <1>3, <1>4, <1>5, <1>6 DEF QueueOK

LEMMA QueueStep ==
  ASSUME QueueOK, Queue!Next
  PROVE  QueueOK' /\ \A i \in Job : Fair(i)
<1>1. ASSUME NEW j \in Job, Queue!JobStep(j) PROVE QueueOK' /\ \A i \in Job : Fair(i)
  BY <1>1, JobStep
<1>2. ASSUME NEW r \in Request, Queue!RequestStart(r) PROVE QueueOK' /\ \A i \in Job : Fair(i)
  BY <1>2, ClaimSelectStep, CheckStep DEF Queue!RequestStart, Job
<1>3. ASSUME NEW r \in Request, Queue!RequestStep(r) PROVE QueueOK' /\ \A i \in Job : Fair(i)
  BY <1>3, ClaimCommitStep, UpdateStep, ReleaseRowStep DEF Queue!RequestStep
<1>4. ASSUME NEW r \in Request, Queue!Abort(r) PROVE QueueOK' /\ \A i \in Job : Fair(i)
  BY <1>4, AbortStep
<1> QED BY <1>1, <1>2, <1>3, <1>4 DEF Queue!Next, Job

-----------------------------------------------------------------------------
(* Steps of the runtime on the table and on its own state. *)

\* The runtime never touches the row locks and the slots of the other service.
LEMMA UntouchedQueue ==
  ASSUME [Next]_vars, ~ Queue!Next
  PROVE  UNCHANGED <<rowlock, req>>
  BY DEF Next, vars, RegistryStep, Registration, RegisterWorker, StatusStep, HeartbeatWorker,
         PauseWorker, StopWorker,
         MarkWorkerStale, SetStatus, HeartbeatAges, WorkerStart, ClaimCheck, CompleteCheck,
         FailCheck, FinishCheck, SweepStart, EvictSelect, SweepSelect, RuntimeStep, WorkerStep,
         ClaimTake, ClaimCount, CompleteJob, FailJob, FinishJob, FinishCount, SweepStep,
         EvictWorker, EvictLeases, EvictRelease, SweepRelease, SweepCount, Abort

\* The runtime writes one unlocked row, or none.
LEMMA RuntimeOnQueue ==
  ASSUME IInv, [Next]_vars, ~ Queue!Next
  PROVE  QueueOK' /\ \A i \in Job : Fair(i)
<1> DEFINE Writes(j, row) ==
             /\ RowOK(row) /\ rowlock[j] = NULL /\ jobs' = [jobs EXCEPT ![j] = row]
             /\ row.locked_by = NULL \/ jobs[j].locked_by = NULL
<1>1. UNCHANGED <<rowlock, req>>
  BY UntouchedQueue
<1>2. ASSUME NEW r \in RuntimeRequest, ClaimTake(r)
      PROVE  UNCHANGED jobs \/ \E j \in Job : \E row : Writes(j, row)
  <2>1. CASE UNCHANGED jobs
    BY <2>1
  <2>2. ASSUME NEW j \in Job, FirstInLine(j),
               jobs' = [jobs EXCEPT ![j] = Queue!Leased(@, wreq[r].worker, @.attempts + 1)]
        PROVE  \E row : Writes(j, row)
    <3>1. rowlock[j] = NULL /\ jobs[j].status = "pending" /\ jobs[j].locked_by = NULL
      BY <2>2 DEF FirstInLine, Waiting, Queue!Unlocked, IInv, QueueOK, TableOK, RowOK
    <3>2. wreq[r].worker \in Worker /\ jobs[j] \in Queue!Row /\ jobs[j].attempts \in Nat
      BY <1>2 DEF ClaimTake, At, IInv, RuntimeOK, SlotsOK, SlotOK, QueueOK, TableOK, Queue!Row
    <3>3. RowOK(Queue!Leased(jobs[j], wreq[r].worker, jobs[j].attempts + 1))
      BY <3>2, LeasedRow
    <3> QED BY <2>2, <3>1, <3>3
  <2> QED BY <1>2, <2>1, <2>2 DEF ClaimTake
<1>3. ASSUME NEW r \in RuntimeRequest, CompleteJob(r) \/ FailJob(r)
      PROVE  \E j \in Job : \E row : Writes(j, row)
  <2>1. PICK s \in {"completed", "failed"} :
          Queue!Write(wreq[r].job, Queue!Unleased(jobs[wreq[r].job], s))
    BY <1>3 DEF CompleteJob, FailJob, FinishJob
  <2>2. wreq[r].job \in Job /\ jobs[wreq[r].job] \in Queue!Row
    BY <1>3 DEF CompleteJob, FailJob, At, IInv, RuntimeOK, SlotsOK, SlotOK, QueueOK, TableOK
  <2>3. /\ RowOK(Queue!Unleased(jobs[wreq[r].job], s))
        /\ Queue!Unleased(jobs[wreq[r].job], s).locked_by = NULL
    BY <2>2, UnleasedRow DEF Queue!Status
  <2> QED BY <2>1, <2>2, <2>3 DEF Queue!Write, Queue!Unlocked
<1>4. ASSUME NEW r \in RuntimeRequest, EvictRelease(r) \/ SweepRelease(r)
      PROVE  \E j \in Job : \E row : Writes(j, row)
  <2>1. PICK lease \in wreq[r].rows :
          Queue!Write(lease.job, Queue!Swept(jobs[lease.job], lease.requeue))
    BY <1>4 DEF EvictRelease, SweepRelease
  <2>2. lease.job \in Job /\ jobs[lease.job] \in Queue!Row
    BY DEF IInv, RuntimeOK, Slot, LeaseRow, QueueOK, TableOK
  <2>3. /\ RowOK(Queue!Swept(jobs[lease.job], lease.requeue))
        /\ Queue!Swept(jobs[lease.job], lease.requeue).locked_by = NULL
    BY <2>2, SweptRow
  <2> QED BY <2>1, <2>2, <2>3 DEF Queue!Write, Queue!Unlocked
<1>5. UNCHANGED jobs \/ \E j \in Job : \E row : Writes(j, row)
  <2> HIDE DEF Writes
  <2> QED
    BY <1>2, <1>3, <1>4
       DEF Next, vars, RegistryStep, Registration, RegisterWorker, StatusStep, HeartbeatWorker,
           PauseWorker, StopWorker,
           MarkWorkerStale, SetStatus, HeartbeatAges, WorkerStart, ClaimCheck, CompleteCheck,
           FailCheck, FinishCheck, SweepStart, EvictSelect, SweepSelect, RuntimeStep, WorkerStep,
           ClaimCount, FinishCount, SweepStep, EvictWorker, EvictLeases, SweepCount, Abort
<1>6. req' \in [Request -> Queue!Slot] /\ \A r \in Request : req'[r] = req[r]
  BY <1>1 DEF IInv, QueueOK
<1>7. CASE UNCHANGED jobs
  BY <1>1, <1>6, <1>7, QuietStep DEF IInv
<1>8. CASE \E j \in Job : \E row : Writes(j, row)
  BY <1>1, <1>6, <1>8, WriteStep DEF IInv
<1> QED BY <1>5, <1>7, <1>8

-----------------------------------------------------------------------------
(* Steps of the runtime on the registry and on its requests. *)

\* workers' is the registry with one row rewritten.
Rewrites(w, row) == workers' = [workers EXCEPT ![w] = row]

LEMMA RowMoves ==
  ASSUME RuntimeOK, NEW w, NEW row, Rewrites(w, row), w \in Worker => row \in KnownRow
  PROVE  workers' \in [Worker -> KnownRow]
  BY DEF RuntimeOK, Rewrites

LEMMA StatusRow ==
  ASSUME RuntimeOK, NEW w \in Worker, NEW s \in {"active", "paused", "stopped", "stale"},
         workers' = [workers EXCEPT ![w].status = s]
  PROVE  workers' \in [Worker -> KnownRow]
<1>1. [workers[w] EXCEPT !.status = s] \in KnownRow
  BY DEF RuntimeOK, KnownRow, WorkerRow
<1> QED BY <1>1, RowMoves DEF Rewrites

LEMMA FreshRow ==
  ASSUME RuntimeOK, NEW w \in Worker, NEW b \in BOOLEAN,
         workers' = [workers EXCEPT ![w].fresh = b]
  PROVE  workers' \in [Worker -> KnownRow]
<1>1. [workers[w] EXCEPT !.fresh = b] \in KnownRow
  BY DEF RuntimeOK, KnownRow, WorkerRow
<1> QED BY <1>1, RowMoves DEF Rewrites

LEMMA RegisteredRow ==
  ASSUME RuntimeOK, NEW w \in Worker, NEW limit \in Limit, RegisterWorker(w, limit)
  PROVE  workers' \in [Worker -> KnownRow]
<1>1. limit \in Int /\ workers[w] \in WorkerRow
  BY LimitAssumption DEF RuntimeOK, KnownRow
<1>2. PICK peak \in Nat :
        /\ peak = IF limit > workers[w].peak THEN limit ELSE workers[w].peak
        /\ limit <= peak
  BY <1>1 DEF WorkerRow
<1> DEFINE row == [workers[w] EXCEPT !.status = "active", !.fresh = TRUE, !.limit = limit,
                                     !.peak = peak]
<1>3. row \in WorkerRow /\ row.limit = limit /\ row.peak = peak
  BY <1>1, <1>2 DEF WorkerRow
<1>4. row \in KnownRow
  BY <1>2, <1>3 DEF KnownRow
<1>5. workers' = [workers EXCEPT ![w] = row]
  BY <1>1, <1>2 DEF RuntimeOK, RegisterWorker
<1> QED BY <1>4, <1>5, RowMoves DEF Rewrites

LEMMA CountedRow ==
  ASSUME RuntimeOK, NEW w \in Worker, workers' = [workers EXCEPT ![w].count = @ + 1]
  PROVE  workers' \in [Worker -> KnownRow]
<1>1. [workers[w] EXCEPT !.count = @ + 1] \in KnownRow
  BY DEF RuntimeOK, KnownRow, WorkerRow
<1> QED BY <1>1, RowMoves DEF Rewrites

\* w may be the NULL of a swept row that nobody held: the UPDATE then finds no row.
LEMMA DiscountedRow ==
  ASSUME RuntimeOK, NEW w, Discount(w)
  PROVE  workers' \in [Worker -> KnownRow]
<1> DEFINE row == [workers[w] EXCEPT !.count = IF @ = 0 THEN 0 ELSE @ - 1]
<1>1. w \in Worker => row \in KnownRow
  BY DEF RuntimeOK, KnownRow, WorkerRow
<1>2. workers' = [workers EXCEPT ![w] = row]
  BY DEF Discount
<1> QED BY <1>1, <1>2, RowMoves DEF Rewrites

LEMMA SlotMoves ==
  ASSUME RuntimeOK, NEW r \in RuntimeRequest, NEW slot \in Slot, SlotOK(slot), Goto(r, slot),
         workers' \in [Worker -> KnownRow]
  PROVE  RuntimeOK'
<1>1. wreq' \in [RuntimeRequest -> Slot]
  BY DEF RuntimeOK, Goto
<1>2. \A q \in RuntimeRequest : wreq'[q] = IF q = r THEN slot ELSE wreq[q]
  BY DEF RuntimeOK, Goto
<1>3. SlotsOK'
  BY <1>2 DEF RuntimeOK, SlotsOK, SlotOK
<1> QED BY <1>1, <1>3 DEF RuntimeOK

LEMMA IdleSlotOK == Idle \in Slot /\ SlotOK(Idle)
  BY IdleSlots DEF SlotOK

LEMMA LeaseRowsType ==
  ASSUME QueueOK, NEW S \in SUBSET Job
  PROVE  LeaseRows(S) \in SUBSET LeaseRow
<1> SUFFICES ASSUME NEW j \in S
             PROVE  [job |-> j, worker |-> jobs[j].locked_by,
                     requeue |-> jobs[j].attempts < MaxAttempts] \in LeaseRow
  BY DEF LeaseRows
<1>1. jobs[j].locked_by \in Worker \union {NULL}
  BY DEF QueueOK, TableOK, Queue!Row
<1> QED BY <1>1 DEF LeaseRow

LEMMA EvictRestType ==
  ASSUME NEW todo \in SUBSET Worker, NEW rows \in SUBSET LeaseRow
  PROVE  EvictRest(todo, rows) \in Slot /\ SlotOK(EvictRest(todo, rows))
  BY DEF EvictRest, Idle, Slot, SlotOK

LEMMA RegistryRuntime ==
  ASSUME RuntimeOK, NEW w \in Worker, RegistryStep(w)
  PROVE  RuntimeOK'
<1>1. UNCHANGED wreq
  BY DEF RegistryStep, Registration, RegisterWorker, StatusStep, HeartbeatWorker, PauseWorker,
         StopWorker,
         MarkWorkerStale, SetStatus, HeartbeatAges
<1>2. workers' \in [Worker -> KnownRow]
  <2>1. CASE Registration(w)
    BY <2>1, RegisteredRow DEF Registration
  <2>2. CASE HeartbeatWorker(w) \/ HeartbeatAges(w)
    BY <2>2, FreshRow DEF HeartbeatWorker, HeartbeatAges
  <2>3. CASE PauseWorker(w) \/ StopWorker(w) \/ MarkWorkerStale(w)
    BY <2>3, StatusRow DEF PauseWorker, StopWorker, MarkWorkerStale, SetStatus
  <2> QED BY <2>1, <2>2, <2>3 DEF RegistryStep, StatusStep
<1> QED BY <1>1, <1>2 DEF RuntimeOK, SlotsOK, SlotOK

LEMMA WorkerStartRuntime ==
  ASSUME RuntimeOK, NEW r \in RuntimeRequest, NEW w \in Worker, WorkerStart(r, w)
  PROVE  RuntimeOK'
<1>1. workers' \in [Worker -> KnownRow]
  BY DEF RuntimeOK, WorkerStart, ClaimCheck, CompleteCheck, FailCheck, FinishCheck
<1>2. PICK slot \in Slot : SlotOK(slot) /\ Goto(r, slot)
  <2>1. CASE ClaimCheck(r, w)
    <3>1. /\ [Idle EXCEPT !.pc = "claim", !.worker = w] \in Slot
          /\ SlotOK([Idle EXCEPT !.pc = "claim", !.worker = w])
      BY DEF Idle, Slot, SlotOK
    <3> QED BY <2>1, <3>1 DEF ClaimCheck
  <2>2. ASSUME NEW j \in Job, NEW pc \in {"complete", "fail"}, FinishCheck(r, w, j, pc)
        PROVE  \E slot \in Slot : SlotOK(slot) /\ Goto(r, slot)
    <3>1. /\ [Idle EXCEPT !.pc = pc, !.worker = w, !.job = j] \in Slot
          /\ SlotOK([Idle EXCEPT !.pc = pc, !.worker = w, !.job = j])
      BY DEF Idle, Slot, SlotOK
    <3> QED BY <2>2, <3>1 DEF FinishCheck
  <2> QED BY <2>1, <2>2 DEF WorkerStart, CompleteCheck, FailCheck
<1> QED BY <1>1, <1>2, SlotMoves

LEMMA WorkerStepRuntime ==
  ASSUME RuntimeOK, NEW r \in RuntimeRequest, WorkerStep(r)
  PROVE  RuntimeOK'
<1>0. wreq[r] \in Slot /\ SlotOK(wreq[r])
  BY DEF RuntimeOK, SlotsOK
<1>1. workers' \in [Worker -> KnownRow]
  <2>1. CASE ClaimTake(r) \/ CompleteJob(r) \/ FailJob(r)
    BY <2>1 DEF RuntimeOK, ClaimTake, CompleteJob, FailJob, FinishJob
  <2>2. CASE ClaimCount(r)
    BY <1>0, <2>2, CountedRow DEF SlotOK, ClaimCount, At
  <2>3. CASE FinishCount(r)
    BY <2>3, DiscountedRow DEF FinishCount
  <2> QED BY <2>1, <2>2, <2>3 DEF WorkerStep
<1>2. \/ Goto(r, Idle)
      \/ ClaimTake(r) /\ Goto(r, [wreq[r] EXCEPT !.pc = "claimed"])
      \/ (CompleteJob(r) \/ FailJob(r)) /\ Goto(r, [wreq[r] EXCEPT !.pc = "finished"])
  BY DEF WorkerStep, ClaimTake, ClaimCount, CompleteJob, FailJob, FinishJob, FinishCount
<1>3. ASSUME NEW pc \in {"claimed", "finished"}, wreq[r].worker \in Worker
      PROVE  [wreq[r] EXCEPT !.pc = pc] \in Slot /\ SlotOK([wreq[r] EXCEPT !.pc = pc])
  BY <1>0, <1>3 DEF Slot, SlotOK
<1>4. ClaimTake(r) \/ CompleteJob(r) \/ FailJob(r) => wreq[r].worker \in Worker
  BY <1>0 DEF SlotOK, ClaimTake, CompleteJob, FailJob, At
<1>5. PICK slot \in Slot : SlotOK(slot) /\ Goto(r, slot)
  BY <1>2, <1>3, <1>4, IdleSlotOK
<1> QED BY <1>1, <1>5, SlotMoves

LEMMA SweepStartRuntime ==
  ASSUME IInv, NEW r \in RuntimeRequest, SweepStart(r)
  PROVE  RuntimeOK'
<1>1. workers' \in [Worker -> KnownRow]
  BY DEF IInv, RuntimeOK, SweepStart, EvictSelect, SweepSelect
<1>2. PICK slot \in Slot : SlotOK(slot) /\ Goto(r, slot)
  <2>1. CASE EvictSelect(r)
    <3>1. Unheard \in SUBSET Worker
      BY DEF Unheard
    <3>2. EvictRest(Unheard, {}) \in Slot /\ SlotOK(EvictRest(Unheard, {}))
      BY <3>1, EvictRestType
    <3> QED BY <2>1, <3>2 DEF EvictSelect
  <2>2. CASE SweepSelect(r)
    <3>1. LeaseRows(Expired) \in SUBSET LeaseRow
      BY LeaseRowsType DEF IInv, Expired
    <3>2. /\ [Idle EXCEPT !.pc = "sweep", !.rows = LeaseRows(Expired)] \in Slot
          /\ SlotOK([Idle EXCEPT !.pc = "sweep", !.rows = LeaseRows(Expired)])
      BY <3>1 DEF Idle, Slot, SlotOK
    <3> QED BY <2>2, <3>2 DEF SweepSelect
  <2> QED BY <2>1, <2>2 DEF SweepStart
<1> QED BY <1>1, <1>2, SlotMoves DEF IInv

LEMMA SweepStepRuntime ==
  ASSUME IInv, NEW r \in RuntimeRequest, SweepStep(r)
  PROVE  RuntimeOK'
<1>0. /\ wreq[r] \in Slot /\ SlotOK(wreq[r]) /\ workers \in [Worker -> KnownRow]
      /\ wreq[r].todo \in SUBSET Worker /\ wreq[r].rows \in SUBSET LeaseRow
  BY DEF IInv, RuntimeOK, SlotsOK, Slot
<1>1. workers' \in [Worker -> KnownRow]
  <2>1. CASE EvictWorker(r)
    BY <1>0, <2>1, StatusRow DEF IInv, EvictWorker
  <2>2. CASE EvictLeases(r) \/ EvictRelease(r) \/ SweepRelease(r)
    BY <1>0, <2>2 DEF EvictLeases, EvictRelease, SweepRelease
  <2>3. CASE SweepCount(r)
    BY <2>3, DiscountedRow DEF IInv, SweepCount
  <2> QED BY <2>1, <2>2, <2>3 DEF SweepStep
<1>2. PICK slot \in Slot : SlotOK(slot) /\ Goto(r, slot)
  <2>1. CASE EvictWorker(r)
    <3>1. PICK w \in wreq[r].todo :
            Goto(r, [wreq[r] EXCEPT !.pc = "evicted", !.worker = w, !.todo = @ \ {w}])
      BY <2>1 DEF EvictWorker
    <3> DEFINE slot == [wreq[r] EXCEPT !.pc = "evicted", !.worker = w, !.todo = @ \ {w}]
    <3>2. slot \in Slot /\ SlotOK(slot)
      BY <1>0 DEF Slot, SlotOK
    <3> QED BY <3>1, <3>2
  <2>2. CASE EvictLeases(r)
    <3>1. PICK held \in SUBSET Job : Goto(r, EvictRest(wreq[r].todo, LeaseRows(held)))
      BY <2>2 DEF EvictLeases, LeasesOf
    <3>2. LeaseRows(held) \in SUBSET LeaseRow
      BY LeaseRowsType DEF IInv
    <3> QED BY <1>0, <3>1, <3>2, EvictRestType
  <2>3. CASE EvictRelease(r)
    <3>1. PICK row \in wreq[r].rows : Goto(r, EvictRest(wreq[r].todo, wreq[r].rows \ {row}))
      BY <2>3 DEF EvictRelease
    <3>2. wreq[r].rows \ {row} \in SUBSET LeaseRow
      BY <1>0
    <3> QED BY <1>0, <3>1, <3>2, EvictRestType
  <2>4. CASE SweepRelease(r)
    <3>1. PICK row \in wreq[r].rows :
            Goto(r, [wreq[r] EXCEPT !.pc = "swept", !.worker = row.worker, !.rows = @ \ {row}])
      BY <2>4 DEF SweepRelease
    <3> DEFINE slot == [wreq[r] EXCEPT !.pc = "swept", !.worker = row.worker,
                                       !.rows = @ \ {row}]
    <3>2. row.worker \in Worker \union {NULL}
      BY <1>0 DEF LeaseRow
    <3>3. slot \in Slot /\ SlotOK(slot)
      BY <1>0, <3>2 DEF Slot, SlotOK
    <3> QED BY <3>1, <3>3
  <2>5. CASE SweepCount(r)
    <3>1. /\ [wreq[r] EXCEPT !.pc = "sweep", !.worker = NULL] \in Slot
          /\ SlotOK([wreq[r] EXCEPT !.pc = "sweep", !.worker = NULL])
      BY <1>0 DEF Slot, SlotOK
    <3> QED BY <2>5, <3>1, IdleSlotOK DEF SweepCount
  <2> QED BY <2>1, <2>2, <2>3, <2>4, <2>5 DEF SweepStep
<1> QED BY <1>1, <1>2, SlotMoves DEF IInv

LEMMA AbortRuntime ==
  ASSUME RuntimeOK, NEW r \in RuntimeRequest, Abort(r)
  PROVE  RuntimeOK'
<1>1. Goto(r, Idle) /\ workers' \in [Worker -> KnownRow]
  BY DEF RuntimeOK, Abort
<1> QED BY <1>1, IdleSlotOK, SlotMoves

-----------------------------------------------------------------------------
(* The count of a worker: each claim that was let through may still raise it. *)

Claims(w) ==
  {r \in RuntimeRequest : wreq[r].pc \in {"claim", "claimed"} /\ wreq[r].worker = w}

CountOK ==
  \A w \in Worker :
    workers[w].count + Cardinality(Claims(w)) < workers[w].peak + Cardinality(RuntimeRequest)

LEMMA ClaimsFinite ==
  ASSUME NEW w
  PROVE  /\ IsFiniteSet(RuntimeRequest) /\ Cardinality(RuntimeRequest) \in Nat
         /\ IsFiniteSet(Claims(w)) /\ Cardinality(Claims(w)) \in Nat
         /\ Cardinality(Claims(w)) <= Cardinality(RuntimeRequest)
  BY SlotsAssumption, FS_Subset, FS_CardinalityType DEF Claims

\* A step that counts nobody up and lets no new claim through.
LEMMA NoMoreClaims ==
  ASSUME RuntimeOK, CountOK, NEW w \in Worker, Claims(w)' \subseteq Claims(w),
         workers'[w].count \in Nat, workers'[w].count <= workers[w].count,
         workers'[w].peak \in Nat, workers[w].peak <= workers'[w].peak
  PROVE  workers'[w].count + Cardinality(Claims(w)')
           < workers'[w].peak + Cardinality(RuntimeRequest)
<1>1. Cardinality(Claims(w)') <= Cardinality(Claims(w)) /\ Cardinality(Claims(w)') \in Nat
  BY ClaimsFinite, FS_Subset, FS_CardinalityType
<1>2. workers[w].count \in Nat /\ workers[w].peak \in Nat
  BY DEF RuntimeOK, KnownRow, WorkerRow
<1> QED BY <1>1, <1>2, ClaimsFinite DEF CountOK

LEMMA CountInit == Init => CountOK
<1> SUFFICES ASSUME Init, NEW w \in Worker
             PROVE  workers[w].count + Cardinality(Claims(w))
                      < workers[w].peak + Cardinality(RuntimeRequest)
  BY DEF CountOK
<1>1. workers[w].count = 0 /\ workers[w].peak = 0
  BY DEF Init
<1>2. Claims(w) = {}
  BY DEF Init, Claims, Idle
<1>3. Cardinality(RuntimeRequest) # 0
  BY SlotsAssumption, FS_EmptySet
<1> QED BY <1>1, <1>2, <1>3, FS_EmptySet, ClaimsFinite

LEMMA PeaksGrow ==
  ASSUME IInv, [Next]_vars, NEW w \in Worker
  PROVE  workers[w].peak <= workers'[w].peak
<1>0. /\ workers \in [Worker -> KnownRow]
      /\ workers[w].peak \in Int /\ workers[w].peak <= workers[w].peak
  BY DEF IInv, RuntimeOK, KnownRow, WorkerRow
<1>1. ASSUME NEW v, Discount(v) PROVE workers[w].peak <= workers'[w].peak
  BY <1>0, <1>1 DEF Discount, KnownRow, WorkerRow
<1>2. ASSUME NEW v \in Worker, RegistryStep(v) PROVE workers[w].peak <= workers'[w].peak
  <2>1. ASSUME NEW limit \in Limit, RegisterWorker(v, limit)
        PROVE  workers[w].peak <= workers'[w].peak
    <3>1. limit \in Int
      BY LimitAssumption
    <3> QED BY <1>0, <2>1, <3>1 DEF RegisterWorker, KnownRow, WorkerRow
  <2>2. CASE StatusStep(v)
    BY <1>0, <2>2 DEF StatusStep, HeartbeatWorker, PauseWorker, StopWorker, MarkWorkerStale,
                      SetStatus, HeartbeatAges, KnownRow, WorkerRow
  <2> QED BY <1>2, <2>1, <2>2 DEF RegistryStep, Registration
<1>3. ASSUME NEW r \in RuntimeRequest, EvictWorker(r) \/ ClaimCount(r)
      PROVE  workers'[w].peak = workers[w].peak
  <2>1. CASE EvictWorker(r)
    BY <1>0, <2>1 DEF EvictWorker, KnownRow, WorkerRow
  <2>2. CASE ClaimCount(r)
    BY <1>0, <2>2 DEF ClaimCount, KnownRow, WorkerRow
  <2> QED BY <1>3, <2>1, <2>2
<1>4. CASE UNCHANGED workers
  BY <1>0, <1>4
<1> QED
  BY <1>0, <1>1, <1>2, <1>3, <1>4
     DEF Next, vars, runtimeVars, RuntimeStep, WorkerStep, SweepStep, ClaimTake, CompleteJob,
         FailJob, FinishJob, FinishCount, SweepCount, EvictLeases, EvictRelease, SweepRelease,
         WorkerStart, ClaimCheck, CompleteCheck, FailCheck, FinishCheck, SweepStart, EvictSelect,
         SweepSelect, Abort

LEMMA OnlyClaimsCountUp ==
  ASSUME IInv, [Next]_vars, NEW w \in Worker,
         \A r \in RuntimeRequest : ~ (ClaimCount(r) /\ wreq[r].worker = w)
  PROVE  workers'[w].count <= workers[w].count
<1>0. workers \in [Worker -> KnownRow] /\ workers[w].count \in Nat
  BY DEF IInv, RuntimeOK, KnownRow, WorkerRow
<1>1. ASSUME NEW v, Discount(v) PROVE workers'[w].count <= workers[w].count
  BY <1>0, <1>1 DEF Discount, KnownRow, WorkerRow
<1>2. ASSUME NEW v \in Worker, RegistryStep(v) PROVE workers'[w].count = workers[w].count
  <2>1. ASSUME NEW limit, RegisterWorker(v, limit) PROVE workers'[w].count = workers[w].count
    BY <1>0, <2>1 DEF RegisterWorker, KnownRow, WorkerRow
  <2>2. CASE StatusStep(v)
    BY <1>0, <2>2 DEF KnownRow, WorkerRow, StatusStep, HeartbeatWorker, PauseWorker, StopWorker,
                      MarkWorkerStale, SetStatus, HeartbeatAges
  <2> QED BY <1>2, <2>1, <2>2 DEF RegistryStep, Registration
<1>3. ASSUME NEW r \in RuntimeRequest, EvictWorker(r)
      PROVE  workers'[w].count = workers[w].count
  BY <1>0, <1>3 DEF EvictWorker, KnownRow, WorkerRow
<1>4. ASSUME NEW r \in RuntimeRequest, ClaimCount(r)
      PROVE  workers'[w].count = workers[w].count
  <2>1. wreq[r].worker # w
    BY <1>4
  <2> QED BY <1>0, <1>4, <2>1 DEF ClaimCount
<1>5. ASSUME NEW r \in RuntimeRequest, RuntimeStep(r)
      PROVE  workers'[w].count <= workers[w].count
  <2>1. CASE FinishCount(r) \/ SweepCount(r)
    BY <1>1, <2>1 DEF FinishCount, SweepCount
  <2>2. CASE ClaimCount(r) \/ EvictWorker(r)
    BY <1>0, <1>3, <1>4, <2>2
  <2>3. CASE UNCHANGED workers
    BY <1>0, <2>3
  <2> QED BY <1>5, <2>1, <2>2, <2>3
          DEF RuntimeStep, WorkerStep, SweepStep, ClaimTake, CompleteJob, FailJob, FinishJob,
              EvictLeases, EvictRelease, SweepRelease
<1>6. CASE UNCHANGED workers
  BY <1>0, <1>6
<1>7. ASSUME NEW r \in RuntimeRequest,
             SweepStart(r) \/ Abort(r) \/ \E v \in Worker : WorkerStart(r, v)
      PROVE  UNCHANGED workers
  BY <1>7 DEF WorkerStart, ClaimCheck, CompleteCheck, FailCheck, FinishCheck,
              SweepStart, EvictSelect, SweepSelect, Abort
<1>8. CASE \E v \in Worker : RegistryStep(v)
  BY <1>0, <1>2, <1>8
<1>9. CASE \E r \in RuntimeRequest : RuntimeStep(r)
  BY <1>5, <1>9
<1> QED
  BY <1>6, <1>7, <1>8, <1>9 DEF Next, vars, runtimeVars

\* A request that is not let through by a check is no claim it was not before.
LEMMA OnlyChecksLetThrough ==
  ASSUME IInv, [Next]_vars, NEW w \in Worker,
         \A r \in RuntimeRequest : ~ ClaimCheck(r, w)
  PROVE  Claims(w)' \subseteq Claims(w)
<1> DEFINE Ok(old, new) == \/ new = old
                           \/ new.pc \notin {"claim", "claimed"}
                           \/ new.worker # w
                           \/ old.pc = "claim" /\ new.worker = old.worker
<1>0. wreq \in [RuntimeRequest -> Slot]
  BY DEF IInv, RuntimeOK
<1>1. ASSUME NEW r \in RuntimeRequest, NEW slot, Goto(r, slot), Ok(wreq[r], slot)
      PROVE  Claims(w)' \subseteq Claims(w)
  BY <1>0, <1>1 DEF Goto, Claims
<1>2. CASE UNCHANGED wreq
  BY <1>2 DEF Claims
<1>3. \A todo, rows : EvictRest(todo, rows).pc \notin {"claim", "claimed"}
  BY DEF EvictRest, Idle
<1>4. Idle.pc \notin {"claim", "claimed"}
  BY DEF Idle
<1>5. ASSUME NEW r \in RuntimeRequest, SweepStep(r) PROVE Claims(w)' \subseteq Claims(w)
  <2>0. wreq[r] \in Slot
    BY <1>0
  <2>1. CASE EvictWorker(r)
    <3>1. PICK v : Goto(r, [wreq[r] EXCEPT !.pc = "evicted", !.worker = v, !.todo = @ \ {v}])
      BY <2>1 DEF EvictWorker
    <3>2. [wreq[r] EXCEPT !.pc = "evicted", !.worker = v, !.todo = @ \ {v}].pc = "evicted"
      BY <2>0 DEF Slot
    <3> QED BY <1>1, <3>1, <3>2
  <2>2. CASE EvictLeases(r) \/ EvictRelease(r)
    BY <1>1, <1>3, <2>2 DEF EvictLeases, EvictRelease
  <2>3. CASE SweepRelease(r)
    <3>1. PICK row : Goto(r, [wreq[r] EXCEPT !.pc = "swept", !.worker = row.worker,
                                             !.rows = @ \ {row}])
      BY <2>3 DEF SweepRelease
    <3>2. [wreq[r] EXCEPT !.pc = "swept", !.worker = row.worker, !.rows = @ \ {row}].pc = "swept"
      BY <2>0 DEF Slot
    <3> QED BY <1>1, <3>1, <3>2
  <2>4. CASE SweepCount(r)
    <3>1. [wreq[r] EXCEPT !.pc = "sweep", !.worker = NULL].pc = "sweep"
      BY <2>0 DEF Slot
    <3> QED BY <1>1, <1>4, <2>4, <3>1 DEF SweepCount
  <2> QED BY <1>5, <2>1, <2>2, <2>3, <2>4 DEF SweepStep
<1>6. ASSUME NEW r \in RuntimeRequest, WorkerStep(r) PROVE Claims(w)' \subseteq Claims(w)
  <2>0. wreq[r] \in Slot
    BY <1>0
  <2>1. CASE ClaimTake(r) /\ Goto(r, [wreq[r] EXCEPT !.pc = "claimed"])
    <3>1. Ok(wreq[r], [wreq[r] EXCEPT !.pc = "claimed"])
      BY <2>0, <2>1 DEF ClaimTake, At, Slot
    <3> QED BY <1>1, <2>1, <3>1
  <2>2. CASE Goto(r, Idle)
    BY <1>1, <1>4, <2>2
  <2>3. CASE Goto(r, [wreq[r] EXCEPT !.pc = "finished"])
    <3>1. [wreq[r] EXCEPT !.pc = "finished"].pc = "finished"
      BY <2>0 DEF Slot
    <3> QED BY <1>1, <2>3, <3>1
  <2> QED BY <1>6, <2>1, <2>2, <2>3
          DEF WorkerStep, ClaimTake, ClaimCount, CompleteJob, FailJob, FinishJob, FinishCount
<1>7. ASSUME NEW r \in RuntimeRequest, NEW v \in Worker, WorkerStart(r, v)
      PROVE  Claims(w)' \subseteq Claims(w)
  <2>1. CASE ClaimCheck(r, v)
    <3>1. v # w
      BY <2>1
    <3>2. [Idle EXCEPT !.pc = "claim", !.worker = v].worker # w
      BY <3>1 DEF Idle
    <3> QED BY <1>1, <2>1, <3>2 DEF ClaimCheck
  <2>2. ASSUME NEW j \in Job, NEW pc \in {"complete", "fail"}, FinishCheck(r, v, j, pc)
        PROVE  Claims(w)' \subseteq Claims(w)
    <3>1. [Idle EXCEPT !.pc = pc, !.worker = v, !.job = j].pc = pc
      BY DEF Idle
    <3> QED BY <1>1, <2>2, <3>1 DEF FinishCheck
  <2> QED BY <1>7, <2>1, <2>2 DEF WorkerStart, CompleteCheck, FailCheck
<1>8. ASSUME NEW r \in RuntimeRequest, SweepStart(r) \/ Abort(r)
      PROVE  Claims(w)' \subseteq Claims(w)
  <2>1. [Idle EXCEPT !.pc = "sweep", !.rows = LeaseRows(Expired)].pc = "sweep"
    BY DEF Idle
  <2> QED BY <1>1, <1>3, <1>4, <1>8, <2>1 DEF SweepStart, EvictSelect, SweepSelect, Abort
<1> QED
  BY <1>2, <1>5, <1>6, <1>7, <1>8
     DEF Next, vars, runtimeVars, RuntimeStep, RegistryStep, Registration, RegisterWorker,
         StatusStep, HeartbeatWorker,
         PauseWorker, StopWorker, MarkWorkerStale, SetStatus, HeartbeatAges

LEMMA CountNext ==
  ASSUME IInv, IInv', CountOK, [Next]_vars
  PROVE  CountOK'
<1> SUFFICES ASSUME NEW w \in Worker
             PROVE  workers'[w].count + Cardinality(Claims(w)')
                      < workers'[w].peak + Cardinality(RuntimeRequest)
  BY DEF CountOK, Claims
<1>0. /\ workers[w].count \in Nat /\ workers'[w].count \in Nat
      /\ workers[w].peak \in Nat /\ workers'[w].peak \in Nat
  BY DEF IInv, RuntimeOK, KnownRow, WorkerRow
<1>1. ASSUME NEW r \in RuntimeRequest, ClaimCheck(r, w)
      PROVE  workers'[w].count + Cardinality(Claims(w)')
               < workers'[w].peak + Cardinality(RuntimeRequest)
  <2>1. workers'[w].count < workers'[w].peak
    <3>1. /\ UNCHANGED workers /\ workers[w].count < workers[w].limit
          /\ workers[w] \in KnownRow
      BY <1>1 DEF ClaimCheck, IInv, RuntimeOK
    <3> QED BY <3>1 DEF KnownRow, WorkerRow
  <2>2. IsFiniteSet(RuntimeRequest) /\ Claims(w)' \subseteq RuntimeRequest
    BY ClaimsFinite DEF Claims
  <2>3. /\ Cardinality(Claims(w)') <= Cardinality(RuntimeRequest)
        /\ Cardinality(Claims(w)') \in Nat
    BY <2>2, FS_Subset, FS_CardinalityType
  <2>4. Cardinality(RuntimeRequest) \in Nat
    BY ClaimsFinite
  <2> HIDE DEF Claims
  <2> QED BY <1>0, <2>1, <2>3, <2>4
<1>2. ASSUME NEW r \in RuntimeRequest, ClaimCount(r), wreq[r].worker = w
      PROVE  workers'[w].count + Cardinality(Claims(w)')
               < workers'[w].peak + Cardinality(RuntimeRequest)
  <2>1. r \in Claims(w) /\ Claims(w)' = Claims(w) \ {r}
    BY <1>2 DEF ClaimCount, At, Goto, Claims, IInv, RuntimeOK, Idle
  <2>2. Cardinality(Claims(w)') = Cardinality(Claims(w)) - 1
    BY <2>1, ClaimsFinite, FS_RemoveElement
  <2>3. workers'[w].count = workers[w].count + 1
    BY <1>2 DEF ClaimCount, IInv, RuntimeOK, KnownRow, WorkerRow
  <2>4. workers[w].peak <= workers'[w].peak
    BY PeaksGrow
  <2> QED BY <1>0, <2>2, <2>3, <2>4, ClaimsFinite DEF CountOK
<1>3. CASE \A r \in RuntimeRequest : ~ ClaimCheck(r, w) /\ ~ (ClaimCount(r) /\ wreq[r].worker = w)
  BY <1>0, <1>3, PeaksGrow, OnlyClaimsCountUp, OnlyChecksLetThrough, NoMoreClaims DEF IInv
<1> QED BY <1>1, <1>2, <1>3

-----------------------------------------------------------------------------
(* Attempts: a sweep that selected a job while it had attempts left may still queue it,  *)
(* once, when they are used up.                                                          *)

Marks(rows, j) == \E x \in rows : x.job = j /\ x.requeue

QueueMarks(j) == {q \in Request : Marks(req[q].rows, j)}
RuntimeMarks(j) == {r \in RuntimeRequest : Marks(wreq[r].rows, j)}

Unique(rows) == \A x, y \in rows : x.job = y.job => x = y

\* What a sweep selects now.
Selected(rows) ==
  /\ Unique(rows)
  /\ \A x \in rows : x.requeue => jobs[x.job].attempts < MaxAttempts

RowsOK ==
  /\ \A q \in Request : Unique(req[q].rows) /\ (req[q].pc = "claim" => req[q].rows = {})
  /\ \A r \in RuntimeRequest :
       Unique(wreq[r].rows) /\ (wreq[r].pc = "claim" => wreq[r].rows = {})

\* IndexJobService's claim has read the attempts of the row it has locked.
SeenOK ==
  \A q \in Request : req[q].pc = "claim" =>
    req[q].seen = jobs[req[q].job].attempts /\ req[q].seen < MaxAttempts

FreshOK == \A j \in Job : jobs[j].status = "absent" => jobs[j].attempts = 0

\* The attempts a job may still get: one if it waits, one for each sweep that will queue it.
Reach(j) ==
  jobs[j].attempts + (IF jobs[j].status = "pending" THEN 1 ELSE 0)
    + Cardinality(QueueMarks(j)) + Cardinality(RuntimeMarks(j))

Slots == Cardinality(Request) + Cardinality(RuntimeRequest)

OverrunOK == \A j \in Job : jobs[j].attempts >= MaxAttempts => Reach(j) < MaxAttempts + Slots

AttemptsInv == RowsOK /\ SeenOK /\ FreshOK /\ OverrunOK

\* What a step does to the slots of either service and to a row of the table.
QueueSlotsStep ==
  \A q \in Request :
    /\ \/ req'[q].rows \subseteq req[q].rows
       \/ Selected(req'[q].rows) /\ UNCHANGED jobs
    /\ req'[q].pc = "claim" =>
         \/ req'[q] = req[q]
         \/ /\ req'[q].rows = {} /\ UNCHANGED jobs
            /\ req'[q].seen = jobs[req'[q].job].attempts /\ req'[q].seen < MaxAttempts

RuntimeSlotsStep ==
  \A r \in RuntimeRequest :
    /\ \/ wreq'[r].rows \subseteq wreq[r].rows
       \/ Selected(wreq'[r].rows) /\ UNCHANGED jobs
    /\ wreq'[r].pc = "claim" => wreq'[r].rows = {}

Kept(j) == jobs'[j] = jobs[j]

Settled(j) == jobs'[j].attempts = jobs[j].attempts /\ jobs'[j].status \notin {"pending", "absent"}

Offered(j) ==
  /\ jobs'[j].attempts = jobs[j].attempts /\ jobs[j].attempts < MaxAttempts
  /\ jobs'[j].status # "absent"

Reset(j) == jobs'[j].attempts = 0 /\ jobs'[j].status # "absent" /\ rowlock[j] = NULL

Requeued(j) ==
  /\ jobs'[j].attempts = jobs[j].attempts /\ jobs'[j].status # "absent"
  /\ \/ \E q \in Request : Marks(req[q].rows, j) /\ ~ Marks(req'[q].rows, j)
     \/ \E r \in RuntimeRequest : Marks(wreq[r].rows, j) /\ ~ Marks(wreq'[r].rows, j)

Committed(j) ==
  \E q \in Request :
    /\ req[q].pc = "claim" /\ req[q].job = j /\ req'[q].pc # "claim" /\ req'[q].rows = {}
    /\ jobs'[j].attempts = req[q].seen + 1 /\ jobs'[j].status = "processing"

Taken(j) ==
  \E r \in RuntimeRequest :
    /\ wreq'[r].rows = {} /\ rowlock[j] = NULL
    /\ jobs[j].status = "pending" /\ jobs'[j].status = "processing"
    /\ jobs'[j].attempts = jobs[j].attempts + 1

RowStep(j) ==
  Kept(j) \/ Settled(j) \/ Offered(j) \/ Reset(j) \/ Requeued(j) \/ Committed(j) \/ Taken(j)

LEMMA MarksFinite ==
  ASSUME NEW j
  PROVE  /\ IsFiniteSet(Request) /\ IsFiniteSet(RuntimeRequest)
         /\ Cardinality(Request) \in Nat /\ Cardinality(RuntimeRequest) \in Nat
         /\ IsFiniteSet(QueueMarks(j)) /\ IsFiniteSet(RuntimeMarks(j))
         /\ Cardinality(QueueMarks(j)) \in Nat /\ Cardinality(RuntimeMarks(j)) \in Nat
  BY SlotsAssumption, FS_Subset, FS_CardinalityType DEF QueueMarks, RuntimeMarks

LEMMA MarksFiniteNext ==
  ASSUME NEW j
  PROVE  /\ IsFiniteSet(QueueMarks(j)') /\ IsFiniteSet(RuntimeMarks(j)')
         /\ Cardinality(QueueMarks(j)') \in Nat /\ Cardinality(RuntimeMarks(j)') \in Nat
         /\ Cardinality(QueueMarks(j)') <= Cardinality(Request)
         /\ Cardinality(RuntimeMarks(j)') <= Cardinality(RuntimeRequest)
<1>1. QueueMarks(j)' \subseteq Request /\ RuntimeMarks(j)' \subseteq RuntimeRequest
  BY DEF QueueMarks, RuntimeMarks
<1> QED BY <1>1, SlotsAssumption, FS_Subset, FS_CardinalityType

\* A finite set that lost an element, or lacks one, is smaller.
LEMMA Smaller ==
  ASSUME NEW S, IsFiniteSet(S), NEW T \in SUBSET S, NEW x \in S, x \notin T
  PROVE  Cardinality(T) + 1 <= Cardinality(S)
<1>1. T \in SUBSET (S \ {x})
  OBVIOUS
<1>2. /\ IsFiniteSet(S \ {x}) /\ Cardinality(S \ {x}) = Cardinality(S) - 1
      /\ Cardinality(S) \in Nat
  BY FS_RemoveElement, FS_CardinalityType
<1>3. Cardinality(T) <= Cardinality(S \ {x}) /\ Cardinality(T) \in Nat
  BY <1>1, <1>2, FS_Subset, FS_CardinalityType
<1> QED BY <1>2, <1>3

LEMMA MarksShrink ==
  ASSUME QueueSlotsStep, RuntimeSlotsStep, NEW j \in Job, ~ (jobs'[j].attempts < MaxAttempts)
  PROVE  QueueMarks(j)' \subseteq QueueMarks(j) /\ RuntimeMarks(j)' \subseteq RuntimeMarks(j)
<1>1. ASSUME NEW q \in QueueMarks(j)' PROVE q \in QueueMarks(j)
  <2>1. q \in Request /\ Marks(req'[q].rows, j)
    BY <1>1 DEF QueueMarks, Marks
  <2>2. ~ (Selected(req'[q].rows) /\ UNCHANGED jobs)
    BY <2>1 DEF Selected, Marks
  <2>3. req'[q].rows \subseteq req[q].rows
    BY <2>1, <2>2 DEF QueueSlotsStep
  <2> QED BY <2>1, <2>3 DEF QueueMarks, Marks
<1>2. ASSUME NEW r \in RuntimeMarks(j)' PROVE r \in RuntimeMarks(j)
  <2>1. r \in RuntimeRequest /\ Marks(wreq'[r].rows, j)
    BY <1>2 DEF RuntimeMarks, Marks
  <2>2. ~ (Selected(wreq'[r].rows) /\ UNCHANGED jobs)
    BY <2>1 DEF Selected, Marks
  <2>3. wreq'[r].rows \subseteq wreq[r].rows
    BY <2>1, <2>2 DEF RuntimeSlotsStep
  <2> QED BY <2>1, <2>3 DEF RuntimeMarks, Marks
<1> QED BY <1>1, <1>2

LEMMA OverrunStep ==
  ASSUME MaxAttempts # 0, IInv, IInv', AttemptsInv, QueueSlotsStep, RuntimeSlotsStep,
         NEW j \in Job, RowStep(j), ~ (jobs'[j].attempts < MaxAttempts)
  PROVE  Reach(j)' < MaxAttempts + Slots
<1> DEFINE a == jobs[j].attempts
           b == jobs'[j].attempts
           p == IF jobs[j].status = "pending" THEN 1 ELSE 0
           n == IF jobs'[j].status = "pending" THEN 1 ELSE 0
           Q == Cardinality(QueueMarks(j))
           R == Cardinality(RuntimeMarks(j))
           Q1 == Cardinality(QueueMarks(j)')
           R1 == Cardinality(RuntimeMarks(j)')
           CQ == Cardinality(Request)
           CR == Cardinality(RuntimeRequest)
<1>1. /\ a \in Nat /\ b \in Nat /\ p \in {0, 1} /\ n \in {0, 1} /\ Q \in Nat /\ R \in Nat
      /\ Q1 \in Nat /\ R1 \in Nat /\ CQ \in Nat /\ CR \in Nat /\ Q1 <= CQ /\ R1 <= CR
      /\ MaxAttempts \in Nat /\ b >= MaxAttempts
  <2>1. a \in Nat /\ b \in Nat
    BY DEF IInv, QueueOK, TableOK, Queue!Row
  <2>2. b >= MaxAttempts /\ p \in {0, 1} /\ n \in {0, 1}
    BY <2>1
  <2>3. /\ Q \in Nat /\ R \in Nat /\ CQ \in Nat /\ CR \in Nat
        /\ Q1 \in Nat /\ R1 \in Nat /\ Q1 <= CQ /\ R1 <= CR
    BY MarksFinite, MarksFiniteNext
  <2> QED BY <2>1, <2>2, <2>3
<1>2. QueueMarks(j)' \subseteq QueueMarks(j) /\ RuntimeMarks(j)' \subseteq RuntimeMarks(j)
  BY MarksShrink
<1>3. Q1 <= Q /\ R1 <= R
  BY <1>2, MarksFinite, FS_Subset
<1>4. a >= MaxAttempts => a + p + Q + R < MaxAttempts + (CQ + CR)
  BY DEF AttemptsInv, OverrunOK, Reach, Slots
<1>5. b + n + Q1 + R1 < MaxAttempts + (CQ + CR)
  <2> HIDE DEF a, b, p, n, Q, R, Q1, R1, CQ, CR
  <2>1. CASE Kept(j) \/ Settled(j)
    <3>1. b = a /\ n <= p
      BY <2>1, <1>1 DEF a, b, p, n, Kept, Settled
    <3> QED BY <1>1, <1>3, <1>4, <3>1
  <2>2. CASE Offered(j) \/ Reset(j)
    BY <1>1, <2>2 DEF Offered, Reset, a, b
  <2>3. CASE Requeued(j)
    <3>1. b = a
      BY <2>3 DEF Requeued, a, b
    <3>2. \/ \E q \in QueueMarks(j) : q \notin QueueMarks(j)'
          \/ \E r \in RuntimeMarks(j) : r \notin RuntimeMarks(j)'
      BY <2>3 DEF Requeued, QueueMarks, RuntimeMarks, Marks
    <3>3. Q1 + 1 <= Q \/ R1 + 1 <= R
      BY <1>2, <3>2, MarksFinite, Smaller DEF Q, R, Q1, R1
    <3> QED BY <1>1, <1>3, <1>4, <3>1, <3>3
  <2>4. CASE Committed(j)
    <3>1. PICK q \in Request :
            /\ req[q].pc = "claim" /\ req[q].job = j /\ req'[q].rows = {}
            /\ b = req[q].seen + 1 /\ jobs'[j].status = "processing"
      BY <2>4 DEF Committed, b
    <3>2. req[q].seen < MaxAttempts /\ req[q].seen = a
      BY <3>1 DEF AttemptsInv, SeenOK, a
    <3>3. b = MaxAttempts /\ n = 0
      BY <1>1, <3>1, <3>2 DEF n
    <3>4. q \notin QueueMarks(j)' /\ QueueMarks(j)' \subseteq Request
      BY <3>1 DEF QueueMarks, Marks
    <3>5. Q1 + 1 <= CQ
      BY <3>4, MarksFinite, Smaller DEF Q1, CQ
    <3> QED BY <1>1, <3>3, <3>5
  <2>5. CASE Taken(j)
    <3>1. PICK r \in RuntimeRequest :
            /\ wreq'[r].rows = {} /\ p = 1 /\ n = 0 /\ b = a + 1
      BY <2>5 DEF Taken, a, b, p, n
    <3>2. CASE a >= MaxAttempts
      BY <1>1, <1>3, <1>4, <3>1, <3>2
    <3>3. CASE ~ (a >= MaxAttempts)
      <4>1. r \notin RuntimeMarks(j)' /\ RuntimeMarks(j)' \subseteq RuntimeRequest
        BY <3>1 DEF RuntimeMarks, Marks
      <4>2. R1 + 1 <= CR
        BY <4>1, MarksFinite, Smaller DEF R1, CR
      <4> QED BY <1>1, <3>1, <3>3, <4>2
    <3> QED BY <3>2, <3>3
  <2> QED BY <2>1, <2>2, <2>3, <2>4, <2>5 DEF RowStep
<1> QED BY <1>5 DEF Reach, Slots

LEMMA AttemptsStep ==
  ASSUME MaxAttempts # 0, IInv, IInv', AttemptsInv, QueueSlotsStep, RuntimeSlotsStep,
         \A j \in Job : RowStep(j)
  PROVE  AttemptsInv'
<1>1. RowsOK'
  <2>1. ASSUME NEW q \in Request
        PROVE  Unique(req'[q].rows) /\ (req'[q].pc = "claim" => req'[q].rows = {})
    BY DEF QueueSlotsStep, AttemptsInv, RowsOK, Selected, Unique
  <2>2. ASSUME NEW r \in RuntimeRequest
        PROVE  Unique(wreq'[r].rows) /\ (wreq'[r].pc = "claim" => wreq'[r].rows = {})
    BY DEF RuntimeSlotsStep, AttemptsInv, RowsOK, Selected, Unique
  <2> QED BY <2>1, <2>2 DEF RowsOK, Unique
<1>2. SeenOK'
  <2> SUFFICES ASSUME NEW q \in Request, req'[q].pc = "claim"
               PROVE  /\ req'[q].seen = jobs'[req'[q].job].attempts
                      /\ req'[q].seen < MaxAttempts
    BY DEF SeenOK
  <2>1. CASE req'[q] = req[q]
    <3>1. PICK j \in Job : j = req[q].job /\ rowlock[j] = q /\ q # NULL
      BY <2>1 DEF IInv, QueueOK, ClaimsOK
    <3>2. /\ \A i \in Request : req[i].pc = "claim" /\ req[i].job = j => i = q
          /\ jobs[j].status = "pending" /\ req[q].seen = jobs[j].attempts
          /\ req[q].seen < MaxAttempts
      BY <2>1, <3>1 DEF IInv, QueueOK, ClaimsOK, LockedOK, AttemptsInv, SeenOK
    <3>3. jobs'[j].attempts = jobs[j].attempts
      BY <2>1, <3>1, <3>2 DEF RowStep, Kept, Settled, Offered, Reset, Requeued, Committed, Taken
    <3> QED BY <2>1, <3>1, <3>2, <3>3
  <2>2. CASE req'[q] # req[q]
    BY <2>2 DEF QueueSlotsStep
  <2> QED BY <2>1, <2>2
<1>3. FreshOK'
  BY DEF FreshOK, AttemptsInv, RowStep, Kept, Settled, Offered, Reset, Requeued, Committed, Taken
<1>4. OverrunOK'
  <2> SUFFICES ASSUME NEW j \in Job, jobs'[j].attempts >= MaxAttempts
               PROVE  Reach(j)' < MaxAttempts + Slots
    BY DEF OverrunOK, Slots
  <2>1. ~ (jobs'[j].attempts < MaxAttempts)
    BY DEF IInv, QueueOK, TableOK, Queue!Row
  <2> QED BY <2>1, OverrunStep
<1> QED BY <1>1, <1>2, <1>3, <1>4 DEF AttemptsInv

LEMMA QueueSlotMove ==
  ASSUME IInv, AttemptsInv, NEW q \in Request, NEW slot, req' = [req EXCEPT ![q] = slot],
         slot.rows \subseteq req[q].rows \/ (Selected(slot.rows) /\ UNCHANGED jobs),
         slot.pc = "claim" =>
           /\ slot.rows = {} /\ UNCHANGED jobs
           /\ slot.seen = jobs[slot.job].attempts /\ slot.seen < MaxAttempts
  PROVE  QueueSlotsStep /\ req'[q] = slot
<1>1. \A i \in Request : req'[i] = IF i = q THEN slot ELSE req[i]
  BY DEF IInv, QueueOK
<1> QED BY <1>1 DEF QueueSlotsStep, AttemptsInv, RowsOK

LEMMA RuntimeSlotMove ==
  ASSUME IInv, AttemptsInv, NEW r \in RuntimeRequest, NEW slot, Goto(r, slot),
         slot.rows \subseteq wreq[r].rows \/ (Selected(slot.rows) /\ UNCHANGED jobs),
         slot.pc # "claim" \/ slot.rows = {}
  PROVE  RuntimeSlotsStep /\ wreq'[r] = slot
<1>1. \A i \in RuntimeRequest : wreq'[i] = IF i = r THEN slot ELSE wreq[i]
  BY DEF IInv, RuntimeOK, Goto
<1> QED BY <1>1 DEF RuntimeSlotsStep, AttemptsInv, RowsOK

LEMMA StillSlots ==
  ASSUME AttemptsInv
  PROVE  (UNCHANGED req => QueueSlotsStep) /\ (UNCHANGED wreq => RuntimeSlotsStep)
  BY DEF AttemptsInv, RowsOK, QueueSlotsStep, RuntimeSlotsStep

LEMMA StillTable ==
  ASSUME UNCHANGED jobs
  PROVE  \A j \in Job : RowStep(j)
  BY DEF RowStep, Kept

LEMMA OneRow ==
  ASSUME IInv, NEW j \in Job, NEW row, jobs' = [jobs EXCEPT ![j] = row]
  PROVE  jobs'[j] = row /\ \A i \in Job \ {j} : RowStep(i)
  BY DEF IInv, QueueOK, TableOK, RowStep, Kept

LEMMA RowFields ==
  ASSUME NEW row \in Queue!Row
  PROVE  /\ \A s : /\ Queue!Unleased(row, s).attempts = row.attempts
                   /\ Queue!Unleased(row, s).status = s
         /\ Queue!Retried(row).attempts = 0 /\ Queue!Retried(row).status = "pending"
  BY DEF Queue!Row, Queue!Unleased, Queue!Retried

LEMMA UnleasedSettles ==
  ASSUME IInv, NEW j \in Job, NEW s \in {"completed", "failed", "cancelled"},
         jobs' = [jobs EXCEPT ![j] = Queue!Unleased(jobs[j], s)]
  PROVE  \A i \in Job : RowStep(i)
<1>1. jobs'[j] = Queue!Unleased(jobs[j], s) /\ \A i \in Job \ {j} : RowStep(i)
  BY OneRow
<1>2. jobs[j] \in Queue!Row
  BY DEF IInv, QueueOK, TableOK
<1>3. Settled(j)
  BY <1>1, <1>2 DEF Settled, Queue!Unleased, Queue!Row
<1> QED BY <1>1, <1>3 DEF RowStep

LEMMA SweptRequeues ==
  ASSUME IInv, NEW x, x.job \in Job, x.requeue \in BOOLEAN,
         jobs' = [jobs EXCEPT ![x.job] = Queue!Swept(jobs[x.job], x.requeue)],
         x.requeue =>
           \/ \E q \in Request : Marks(req[q].rows, x.job) /\ ~ Marks(req'[q].rows, x.job)
           \/ \E r \in RuntimeRequest : Marks(wreq[r].rows, x.job) /\ ~ Marks(wreq'[r].rows, x.job)
  PROVE  \A i \in Job : RowStep(i)
<1>1. /\ jobs'[x.job] = Queue!Swept(jobs[x.job], x.requeue)
      /\ \A i \in Job \ {x.job} : RowStep(i)
  BY OneRow
<1>2. jobs[x.job] \in Queue!Row
  BY DEF IInv, QueueOK, TableOK
<1>3. /\ jobs'[x.job].attempts = jobs[x.job].attempts
      /\ jobs'[x.job].status = IF x.requeue THEN "pending" ELSE "failed"
  BY <1>1, <1>2, RowFields DEF Queue!Swept
<1>4. Settled(x.job) \/ Requeued(x.job)
  BY <1>3 DEF Settled, Requeued
<1> QED BY <1>1, <1>4 DEF RowStep

LEMMA Unmarked ==
  ASSUME NEW rows, Unique(rows), NEW x \in rows
  PROVE  ~ Marks(rows \ {x}, x.job)
  BY DEF Unique, Marks

LEMMA StaleRowsSelected == Selected(Queue!StaleRows)
<1>1. ASSUME NEW x \in Queue!StaleRows, NEW y \in Queue!StaleRows, x.job = y.job PROVE x = y
  BY <1>1 DEF Queue!StaleRows, Queue!StaleRow
<1>2. \A x \in Queue!StaleRows : x.requeue => jobs[x.job].attempts < MaxAttempts
  BY DEF Queue!StaleRows, Queue!StaleRow
<1> QED BY <1>1, <1>2 DEF Selected, Unique

LEMMA LeaseRowsSelected ==
  ASSUME NEW S
  PROVE  Selected(LeaseRows(S))
<1>1. \A x \in LeaseRows(S) :
        x = [job |-> x.job, worker |-> jobs[x.job].locked_by,
             requeue |-> jobs[x.job].attempts < MaxAttempts]
  BY DEF LeaseRows
<1>2. \A x \in LeaseRows(S) : x.requeue = (jobs[x.job].attempts < MaxAttempts)
  BY <1>1
<1>3. Unique(LeaseRows(S))
  BY <1>1 DEF Unique
<1> QED BY <1>2, <1>3 DEF Selected

LEMMA QueueEffect ==
  ASSUME MaxAttempts # 0, IInv, AttemptsInv, Queue!Next
  PROVE  QueueSlotsStep /\ \A i \in Job : RowStep(i)
<1> DEFINE Goal == QueueSlotsStep /\ \A i \in Job : RowStep(i)
<1>0. /\ \A q \in Request : req[q] \in Queue!Slot /\ Unique(req[q].rows)
      /\ \A j \in Job : jobs[j] \in Queue!Row
      /\ Queue!Idle.pc = "idle" /\ Queue!Idle.rows = {}
  BY DEF IInv, QueueOK, TableOK, AttemptsInv, RowsOK, Queue!Idle
<1>1. ASSUME NEW j \in Job, Queue!CreateIndexJob(j) PROVE Goal
  <2>1. jobs[j].status = "absent" /\ jobs[j].attempts = 0 /\ UNCHANGED req
    BY <1>1 DEF Queue!CreateIndexJob, Queue!Exists, AttemptsInv, FreshOK
  <2>2. jobs' = [jobs EXCEPT ![j] = [jobs[j] EXCEPT !.status = "pending"]]
    BY <1>1 DEF Queue!CreateIndexJob
  <2>3. /\ jobs'[j] = [jobs[j] EXCEPT !.status = "pending"]
        /\ \A i \in Job \ {j} : RowStep(i)
    BY <2>2, OneRow
  <2>4. Offered(j)
    BY <1>0, <2>1, <2>3 DEF Offered, Queue!Row
  <2> QED BY <2>1, <2>3, <2>4, StillSlots DEF RowStep
<1>2. ASSUME NEW j \in Job, Queue!MarkCompleted(j) \/ Queue!MarkFailed(j) PROVE Goal
  <2>1. PICK s \in {"completed", "failed"} :
          jobs' = [jobs EXCEPT ![j] = Queue!Unleased(jobs[j], s)] /\ UNCHANGED req
    BY <1>2 DEF Queue!MarkCompleted, Queue!MarkFailed, Queue!Write
  <2> QED BY <2>1, UnleasedSettles, StillSlots
<1>3. ASSUME NEW j \in Job, Queue!LeaseAges(j) PROVE Goal
  <2>1. jobs' = [jobs EXCEPT ![j] = [jobs[j] EXCEPT !.aged = TRUE]] /\ UNCHANGED req
    BY <1>3 DEF Queue!LeaseAges
  <2>2. jobs'[j] = [jobs[j] EXCEPT !.aged = TRUE] /\ \A i \in Job \ {j} : RowStep(i)
    BY <2>1, OneRow
  <2>3. Settled(j)
    BY <1>0, <1>3, <2>2 DEF Settled, Queue!LeaseAges, Queue!Row
  <2> QED BY <2>1, <2>2, <2>3, StillSlots DEF RowStep
<1>4. ASSUME NEW q \in Request, NEW w \in Worker, Queue!ClaimSelect(q, w) PROVE Goal
  <2>1. PICK j \in Job :
          /\ Queue!Claimable(j)
          /\ req' = [req EXCEPT ![q] = [Queue!Idle EXCEPT !.pc = "claim", !.job = j, !.worker = w,
                                                         !.seen = jobs[j].attempts]]
    BY <1>4 DEF Queue!ClaimSelect, Queue!Start, Job
  <2> DEFINE slot == [Queue!Idle EXCEPT !.pc = "claim", !.job = j, !.worker = w,
                                        !.seen = jobs[j].attempts]
  <2>2. slot.rows = {} /\ slot.job = j /\ slot.seen = jobs[j].attempts
    BY DEF Queue!Idle
  <2>3. UNCHANGED jobs /\ jobs[j].attempts < MaxAttempts
    BY <1>4, <2>1 DEF Queue!ClaimSelect, Queue!Claimable
  <2> HIDE DEF slot
  <2>4. req' = [req EXCEPT ![q] = slot]
    BY <2>1 DEF slot
  <2> QED BY <2>2, <2>3, <2>4, QueueSlotMove, StillTable
<1>5. ASSUME NEW q \in Request, Queue!ClaimCommit(q) PROVE Goal
  <2>1. PICK j \in Job : j = req[q].job /\ req[q].pc = "claim"
    BY <1>5 DEF Queue!ClaimCommit, IInv, QueueOK, ClaimsOK
  <2>2. /\ jobs' = [jobs EXCEPT ![j] = Queue!Leased(jobs[j], req[q].worker, req[q].seen + 1)]
        /\ req' = [req EXCEPT ![q] = Queue!Idle]
    BY <1>5, <2>1 DEF Queue!ClaimCommit, Queue!Finish
  <2>3. /\ jobs'[j] = Queue!Leased(jobs[j], req[q].worker, req[q].seen + 1)
        /\ \A i \in Job \ {j} : RowStep(i)
    BY <2>2, OneRow
  <2>4. QueueSlotsStep /\ req'[q] = Queue!Idle
    BY <1>0, <2>2, QueueSlotMove
  <2>5. jobs'[j].attempts = req[q].seen + 1 /\ jobs'[j].status = "processing"
    BY <1>0, <2>3 DEF Queue!Leased, Queue!Row
  <2>6. Committed(j)
    BY <1>0, <2>1, <2>4, <2>5 DEF Committed
  <2> QED BY <2>3, <2>4, <2>6 DEF RowStep
<1>6. ASSUME NEW q \in Request, NEW j \in Job, Queue!CancelCheck(q, j) \/ Queue!RetryCheck(q, j)
      PROVE  Goal
  <2>1. PICK pc \in {"cancel", "retry"} :
          req' = [req EXCEPT ![q] = [Queue!Idle EXCEPT !.pc = pc, !.job = j]]
    BY <1>6 DEF Queue!CancelCheck, Queue!RetryCheck, Queue!Start
  <2>2. /\ [Queue!Idle EXCEPT !.pc = pc, !.job = j].pc = pc
        /\ [Queue!Idle EXCEPT !.pc = pc, !.job = j].rows = {}
    BY DEF Queue!Idle
  <2>3. UNCHANGED jobs
    BY <1>6 DEF Queue!CancelCheck, Queue!RetryCheck
  <2> QED BY <2>1, <2>2, <2>3, QueueSlotMove, StillTable
<1>7. ASSUME NEW q \in Request, Queue!ReleaseSelect(q) PROVE Goal
  <2>1. /\ req' = [req EXCEPT ![q] = [Queue!Idle EXCEPT !.pc = "release", !.rows = Queue!StaleRows]]
        /\ UNCHANGED jobs
    BY <1>7 DEF Queue!ReleaseSelect, Queue!Start
  <2>2. /\ [Queue!Idle EXCEPT !.pc = "release", !.rows = Queue!StaleRows].pc = "release"
        /\ [Queue!Idle EXCEPT !.pc = "release", !.rows = Queue!StaleRows].rows = Queue!StaleRows
    BY DEF Queue!Idle
  <2> QED BY <2>1, <2>2, StaleRowsSelected, QueueSlotMove, StillTable
<1>8. ASSUME NEW q \in Request, Queue!CancelUpdate(q) PROVE Goal
  <2>1. /\ req[q].job \in Job /\ req' = [req EXCEPT ![q] = Queue!Idle]
        /\ jobs' = [jobs EXCEPT ![req[q].job] = Queue!Unleased(jobs[req[q].job], "cancelled")]
    BY <1>8 DEF Queue!CancelUpdate, Queue!Finish, Queue!Write, IInv, QueueOK, ClaimsOK
  <2>2. QueueSlotsStep
    BY <1>0, <2>1, QueueSlotMove
  <2> QED BY <2>1, <2>2, UnleasedSettles
<1>9. ASSUME NEW q \in Request, Queue!RetryUpdate(q) PROVE Goal
  <2>1. PICK j \in Job :
          /\ j = req[q].job /\ req' = [req EXCEPT ![q] = Queue!Idle] /\ rowlock[j] = NULL
          /\ jobs' = [jobs EXCEPT ![j] = Queue!Retried(jobs[j])]
    BY <1>9 DEF Queue!RetryUpdate, Queue!Finish, Queue!Write, Queue!Unlocked, IInv, QueueOK,
                ClaimsOK
  <2>2. QueueSlotsStep
    BY <1>0, <2>1, QueueSlotMove
  <2>3. jobs'[j] = Queue!Retried(jobs[j]) /\ \A i \in Job \ {j} : RowStep(i)
    BY <2>1, OneRow
  <2>4. Reset(j)
    BY <1>0, <2>1, <2>3, RowFields DEF Reset
  <2> QED BY <2>2, <2>3, <2>4 DEF RowStep
<1>10. ASSUME NEW q \in Request, Queue!ReleaseRow(q) PROVE Goal
  <2>1. PICK x \in req[q].rows :
          /\ jobs' = [jobs EXCEPT ![x.job] = Queue!Swept(jobs[x.job], x.requeue)]
          /\ \/ req[q].rows = {x} /\ req' = [req EXCEPT ![q] = Queue!Idle]
             \/ req' = [req EXCEPT ![q] = [req[q] EXCEPT !.rows = @ \ {x}]]
    BY <1>10 DEF Queue!ReleaseRow, Queue!Write, Queue!Finish
  <2>2. x.job \in Job /\ x.requeue \in BOOLEAN
    BY <1>0 DEF Queue!Slot, Queue!StaleRow, Job
  <2>3. PICK slot : /\ req' = [req EXCEPT ![q] = slot] /\ slot.rows = req[q].rows \ {x}
                    /\ slot.pc # "claim"
    <3>1. /\ [req[q] EXCEPT !.rows = @ \ {x}].rows = req[q].rows \ {x}
          /\ [req[q] EXCEPT !.rows = @ \ {x}].pc = "release"
      BY <1>0, <1>10 DEF Queue!ReleaseRow, Queue!Slot
    <3> QED BY <1>0, <2>1, <3>1
  <2>4. QueueSlotsStep /\ req'[q] = slot
    BY <2>3, QueueSlotMove
  <2>5. x.requeue => Marks(req[q].rows, x.job) /\ ~ Marks(req'[q].rows, x.job)
    BY <1>0, <2>3, <2>4, Unmarked DEF Marks
  <2>6. \A i \in Job : RowStep(i)
    BY <2>1, <2>2, <2>5, SweptRequeues
  <2> QED BY <2>4, <2>6
<1>11. ASSUME NEW q \in Request, Queue!Abort(q) PROVE Goal
  <2>1. UNCHANGED jobs /\ req' = [req EXCEPT ![q] = Queue!Idle]
    BY <1>11 DEF Queue!Abort, Queue!Finish
  <2> QED BY <1>0, <2>1, QueueSlotMove, StillTable
<1> QED
  BY <1>1, <1>2, <1>3, <1>4, <1>5, <1>6, <1>7, <1>8, <1>9, <1>10, <1>11
     DEF Queue!Next, Queue!JobStep, Queue!RequestStart, Queue!RequestStep, Job

LEMMA WorkerStepEffect ==
  ASSUME IInv, AttemptsInv, NEW r \in RuntimeRequest, WorkerStep(r)
  PROVE  RuntimeSlotsStep /\ \A i \in Job : RowStep(i)
<1> DEFINE Goal == RuntimeSlotsStep /\ \A i \in Job : RowStep(i)
<1>0. /\ wreq[r] \in Slot /\ SlotOK(wreq[r]) /\ \A j \in Job : jobs[j] \in Queue!Row
      /\ Idle.pc = "idle" /\ Idle.rows = {}
  BY DEF IInv, QueueOK, TableOK, RuntimeOK, SlotsOK, Idle
<1>1. \A pc \in {"claimed", "finished"} :
        /\ [wreq[r] EXCEPT !.pc = pc].pc = pc
        /\ [wreq[r] EXCEPT !.pc = pc].rows = wreq[r].rows
  BY <1>0 DEF Slot
<1>2. CASE ClaimTake(r) /\ UNCHANGED jobs
  <2>1. Goto(r, Idle) \/ Goto(r, [wreq[r] EXCEPT !.pc = "claimed"])
    BY <1>2 DEF ClaimTake
  <2> QED BY <1>0, <1>1, <1>2, <2>1, RuntimeSlotMove, StillTable
<1>3. ASSUME NEW j \in Job, ClaimTake(r), FirstInLine(j),
             jobs' = [jobs EXCEPT ![j] = Queue!Leased(@, wreq[r].worker, @.attempts + 1)],
             Goto(r, [wreq[r] EXCEPT !.pc = "claimed"])
      PROVE  Goal
  <2>1. /\ jobs'[j] = Queue!Leased(jobs[j], wreq[r].worker, jobs[j].attempts + 1)
        /\ \A i \in Job \ {j} : RowStep(i)
    BY <1>3, OneRow
  <2>2. jobs'[j].attempts = jobs[j].attempts + 1 /\ jobs'[j].status = "processing"
    BY <1>0, <2>1 DEF Queue!Leased, Queue!Row
  <2>3. RuntimeSlotsStep /\ wreq'[r].rows = wreq[r].rows
    BY <1>1, <1>3, RuntimeSlotMove
  <2>4. wreq[r].rows = {}
    BY <1>3 DEF ClaimTake, At, AttemptsInv, RowsOK
  <2>5. jobs[j].status = "pending" /\ rowlock[j] = NULL
    BY <1>3 DEF FirstInLine, Waiting, Queue!Unlocked
  <2>6. Taken(j)
    BY <2>2, <2>3, <2>4, <2>5 DEF Taken
  <2> QED BY <2>1, <2>3, <2>6 DEF RowStep
<1>4. CASE CompleteJob(r) \/ FailJob(r)
  <2>1. PICK s \in {"completed", "failed"} :
          /\ jobs' = [jobs EXCEPT ![wreq[r].job] = Queue!Unleased(jobs[wreq[r].job], s)]
          /\ Goto(r, [wreq[r] EXCEPT !.pc = "finished"])
    BY <1>4 DEF CompleteJob, FailJob, FinishJob, Queue!Write
  <2>2. wreq[r].job \in Job
    BY <1>0, <1>4 DEF SlotOK, CompleteJob, FailJob, At
  <2>3. \A i \in Job : RowStep(i)
    BY <2>1, <2>2, UnleasedSettles
  <2> QED BY <1>1, <2>1, <2>3, RuntimeSlotMove
<1>5. CASE ClaimCount(r) \/ FinishCount(r)
  <2>1. Goto(r, Idle) /\ UNCHANGED jobs
    BY <1>5 DEF ClaimCount, FinishCount
  <2> QED BY <1>0, <2>1, RuntimeSlotMove, StillTable
<1>6. CASE ClaimTake(r)
  BY <1>2, <1>3, <1>6 DEF ClaimTake
<1> QED BY <1>4, <1>5, <1>6 DEF WorkerStep

LEMMA EvictRestRows ==
  ASSUME NEW todo, NEW rows
  PROVE  EvictRest(todo, rows).rows = rows /\ EvictRest(todo, rows).pc # "claim"
  BY DEF EvictRest, Idle

\* A loop that releases a lease is done with it.
LEMMA ReleaseEffect ==
  ASSUME IInv, AttemptsInv, NEW r \in RuntimeRequest, NEW x \in wreq[r].rows,
         jobs' = [jobs EXCEPT ![x.job] = Queue!Swept(jobs[x.job], x.requeue)],
         NEW slot, Goto(r, slot), slot.rows = wreq[r].rows \ {x}, slot.pc # "claim"
  PROVE  RuntimeSlotsStep /\ \A i \in Job : RowStep(i)
<1>1. x.job \in Job /\ x.requeue \in BOOLEAN /\ Unique(wreq[r].rows)
  BY DEF IInv, RuntimeOK, Slot, LeaseRow, AttemptsInv, RowsOK
<1>2. RuntimeSlotsStep /\ wreq'[r] = slot
  BY RuntimeSlotMove
<1>3. x.requeue => Marks(wreq[r].rows, x.job) /\ ~ Marks(wreq'[r].rows, x.job)
  BY <1>1, <1>2, Unmarked DEF Marks
<1>4. \A i \in Job : RowStep(i)
  BY <1>1, <1>3, SweptRequeues
<1> QED BY <1>2, <1>4

LEMMA SweepEffect ==
  ASSUME IInv, AttemptsInv, NEW r \in RuntimeRequest, SweepStart(r) \/ SweepStep(r)
  PROVE  RuntimeSlotsStep /\ \A i \in Job : RowStep(i)
<1> DEFINE Goal == RuntimeSlotsStep /\ \A i \in Job : RowStep(i)
<1>0. wreq[r] \in Slot /\ Idle.pc = "idle" /\ Idle.rows = {}
  BY DEF IInv, RuntimeOK, Idle
<1>1. CASE EvictSelect(r)
  <2>1. UNCHANGED jobs /\ Goto(r, EvictRest(Unheard, {}))
    BY <1>1 DEF EvictSelect
  <2> QED BY <2>1, EvictRestRows, RuntimeSlotMove, StillTable
<1>2. CASE SweepSelect(r)
  <2>1. UNCHANGED jobs /\ Goto(r, [Idle EXCEPT !.pc = "sweep", !.rows = LeaseRows(Expired)])
    BY <1>2 DEF SweepSelect
  <2>2. /\ [Idle EXCEPT !.pc = "sweep", !.rows = LeaseRows(Expired)].pc = "sweep"
        /\ [Idle EXCEPT !.pc = "sweep", !.rows = LeaseRows(Expired)].rows = LeaseRows(Expired)
    BY DEF Idle
  <2> QED BY <2>1, <2>2, LeaseRowsSelected, RuntimeSlotMove, StillTable
<1>3. CASE EvictWorker(r)
  <2>1. UNCHANGED jobs /\ \E w : Goto(r, [wreq[r] EXCEPT !.pc = "evicted", !.worker = w,
                                                        !.todo = @ \ {w}])
    BY <1>3 DEF EvictWorker
  <2>2. \A w : /\ [wreq[r] EXCEPT !.pc = "evicted", !.worker = w, !.todo = @ \ {w}].pc = "evicted"
              /\ [wreq[r] EXCEPT !.pc = "evicted", !.worker = w, !.todo = @ \ {w}].rows
                   = wreq[r].rows
    BY <1>0 DEF Slot
  <2> QED BY <2>1, <2>2, RuntimeSlotMove, StillTable
<1>4. CASE EvictLeases(r)
  <2>1. UNCHANGED jobs /\ \E S : Goto(r, EvictRest(wreq[r].todo, LeaseRows(S)))
    BY <1>4 DEF EvictLeases
  <2> QED BY <2>1, EvictRestRows, LeaseRowsSelected, RuntimeSlotMove, StillTable
<1>5. CASE EvictRelease(r)
  <2>1. PICK x \in wreq[r].rows :
          /\ jobs' = [jobs EXCEPT ![x.job] = Queue!Swept(jobs[x.job], x.requeue)]
          /\ Goto(r, EvictRest(wreq[r].todo, wreq[r].rows \ {x}))
    BY <1>5 DEF EvictRelease, Queue!Write
  <2> QED BY <2>1, EvictRestRows, ReleaseEffect
<1>6. CASE SweepRelease(r)
  <2>1. PICK x \in wreq[r].rows :
          /\ jobs' = [jobs EXCEPT ![x.job] = Queue!Swept(jobs[x.job], x.requeue)]
          /\ Goto(r, [wreq[r] EXCEPT !.pc = "swept", !.worker = x.worker, !.rows = @ \ {x}])
    BY <1>6 DEF SweepRelease, Queue!Write
  <2>2. /\ [wreq[r] EXCEPT !.pc = "swept", !.worker = x.worker, !.rows = @ \ {x}].pc = "swept"
        /\ [wreq[r] EXCEPT !.pc = "swept", !.worker = x.worker, !.rows = @ \ {x}].rows
             = wreq[r].rows \ {x}
    BY <1>0 DEF Slot
  <2> QED BY <2>1, <2>2, ReleaseEffect
<1>7. CASE SweepCount(r)
  <2>1. /\ UNCHANGED jobs
        /\ Goto(r, Idle) \/ Goto(r, [wreq[r] EXCEPT !.pc = "sweep", !.worker = NULL])
    BY <1>7 DEF SweepCount
  <2>2. /\ [wreq[r] EXCEPT !.pc = "sweep", !.worker = NULL].pc = "sweep"
        /\ [wreq[r] EXCEPT !.pc = "sweep", !.worker = NULL].rows = wreq[r].rows
    BY <1>0 DEF Slot
  <2> QED BY <1>0, <2>1, <2>2, RuntimeSlotMove, StillTable
<1> QED BY <1>1, <1>2, <1>3, <1>4, <1>5, <1>6, <1>7 DEF SweepStart, SweepStep

LEMMA RuntimeEffect ==
  ASSUME IInv, AttemptsInv, [Next]_vars, ~ (Queue!Next /\ UNCHANGED runtimeVars)
  PROVE  RuntimeSlotsStep /\ \A i \in Job : RowStep(i)
<1>0. Idle.pc = "idle" /\ Idle.rows = {}
  BY DEF Idle
<1>1. CASE UNCHANGED vars
  BY <1>1, StillSlots, StillTable DEF vars
<1>2. ASSUME NEW w \in Worker, RegistryStep(w)
      PROVE  RuntimeSlotsStep /\ \A i \in Job : RowStep(i)
  <2>1. UNCHANGED <<jobs, wreq>>
    BY <1>2 DEF RegistryStep, Registration, RegisterWorker, StatusStep, HeartbeatWorker,
                PauseWorker, StopWorker,
                MarkWorkerStale, SetStatus, HeartbeatAges
  <2> QED BY <2>1, StillSlots, StillTable
<1>3. ASSUME NEW r \in RuntimeRequest, NEW w \in Worker, WorkerStart(r, w)
      PROVE  RuntimeSlotsStep /\ \A i \in Job : RowStep(i)
  <2>1. UNCHANGED jobs
    BY <1>3 DEF WorkerStart, ClaimCheck, CompleteCheck, FailCheck, FinishCheck
  <2>2. PICK slot : Goto(r, slot) /\ slot.rows = {}
    <3>1. /\ [Idle EXCEPT !.pc = "claim", !.worker = w].rows = {}
          /\ \A j, pc : [Idle EXCEPT !.pc = pc, !.worker = w, !.job = j].rows = {}
      BY DEF Idle
    <3>2. CASE ClaimCheck(r, w)
      BY <3>1, <3>2 DEF ClaimCheck
    <3>3. ASSUME NEW j \in Job, NEW pc, FinishCheck(r, w, j, pc)
          PROVE  \E slot : Goto(r, slot) /\ slot.rows = {}
      BY <3>1, <3>3 DEF FinishCheck
    <3> QED BY <1>3, <3>2, <3>3 DEF WorkerStart, CompleteCheck, FailCheck
  <2> QED BY <2>1, <2>2, RuntimeSlotMove, StillTable
<1>4. ASSUME NEW r \in RuntimeRequest, Abort(r)
      PROVE  RuntimeSlotsStep /\ \A i \in Job : RowStep(i)
  BY <1>0, <1>4, RuntimeSlotMove, StillTable DEF Abort
<1> QED
  BY <1>1, <1>2, <1>3, <1>4, WorkerStepEffect, SweepEffect DEF Next, RuntimeStep

LEMMA AttemptsInit == MaxAttempts # 0 /\ Init => AttemptsInv
<1> SUFFICES ASSUME MaxAttempts # 0, Init PROVE AttemptsInv
  OBVIOUS
<1>1. /\ \A j \in Job : jobs[j].status = "absent" /\ jobs[j].attempts = 0
      /\ \A q \in Request : req[q].pc = "idle" /\ req[q].rows = {}
      /\ \A r \in RuntimeRequest : wreq[r].pc = "idle" /\ wreq[r].rows = {}
  BY DEF Init, Queue!Init, Queue!Idle, Idle, Job
<1> QED BY <1>1 DEF AttemptsInv, RowsOK, Unique, SeenOK, FreshOK, OverrunOK

LEMMA AttemptsNext ==
  ASSUME MaxAttempts # 0, IInv, IInv', AttemptsInv, [Next]_vars
  PROVE  AttemptsInv'
<1>1. CASE Queue!Next /\ UNCHANGED runtimeVars
  <2>1. RuntimeSlotsStep
    BY <1>1, StillSlots DEF runtimeVars
  <2> QED BY <1>1, <2>1, QueueEffect, AttemptsStep
<1>2. CASE ~ (Queue!Next /\ UNCHANGED runtimeVars)
  <2>1. CASE Queue!Next
    BY <1>2, <2>1, QueueEffect, RuntimeEffect, AttemptsStep
  <2>2. CASE ~ Queue!Next
    <3>1. UNCHANGED req
      BY <2>2, UntouchedQueue
    <3> QED BY <1>2, <3>1, StillSlots, RuntimeEffect, AttemptsStep
  <2> QED BY <2>1, <2>2
<1> QED BY <1>1, <1>2

-----------------------------------------------------------------------------
(* The invariant and what follows from it. *)

LEMMA IInvNext ==
  ASSUME IInv, [Next]_vars
  PROVE  IInv' /\ \A i \in Job : Fair(i)
<1>1. CASE Queue!Next /\ UNCHANGED runtimeVars
  <2>1. QueueOK' /\ \A i \in Job : Fair(i)
    BY <1>1, QueueStep DEF IInv
  <2>2. RuntimeOK'
    BY <1>1 DEF runtimeVars, IInv, RuntimeOK, SlotsOK, SlotOK
  <2> QED BY <2>1, <2>2 DEF IInv
<1>2. CASE ~ (Queue!Next /\ UNCHANGED runtimeVars)
  <2>1. QueueOK' /\ \A i \in Job : Fair(i)
    <3>1. CASE Queue!Next
      BY <3>1, QueueStep DEF IInv
    <3>2. CASE ~ Queue!Next
      BY <3>2, RuntimeOnQueue
    <3> QED BY <3>1, <3>2
  <2>2. CASE UNCHANGED vars
    BY <2>1, <2>2 DEF vars, IInv, RuntimeOK, SlotsOK, SlotOK
  <2>3. ASSUME NEW w \in Worker, RegistryStep(w) PROVE RuntimeOK'
    BY <2>3, RegistryRuntime DEF IInv
  <2>4. ASSUME NEW r \in RuntimeRequest, NEW w \in Worker, WorkerStart(r, w) PROVE RuntimeOK'
    BY <2>4, WorkerStartRuntime DEF IInv
  <2>5. ASSUME NEW r \in RuntimeRequest, SweepStart(r) \/ RuntimeStep(r) \/ Abort(r)
        PROVE  RuntimeOK'
    BY <2>5, WorkerStepRuntime, SweepStartRuntime, SweepStepRuntime, AbortRuntime
       DEF IInv, RuntimeStep
  <2> QED BY <1>2, <2>1, <2>2, <2>3, <2>4, <2>5 DEF Next, IInv
<1> QED BY <1>1, <1>2

LEMMA Invariance == Spec => []IInv
<1>1. IInv /\ [Next]_vars => IInv'
  BY IInvNext
<1> QED BY <1>1, InitIInv, PTL DEF Spec

(***************************************************************************)
(* The queue's rows, the registry and the slots of both services keep      *)
(* their types: no statement of either service writes a row that the       *)
(* other's code cannot read.                                               *)
(***************************************************************************)
THEOREM TypeCorrect == Spec => []TypeOK
<1>1. IInv => TypeOK
  BY DEF IInv, QueueOK, TableOK, RuntimeOK, KnownRow, TypeOK, Queue!TypeOK, Job
<1> QED BY <1>1, Invariance, PTL

(***************************************************************************)
(* With two services that write status and locked_by, a job is leased      *)
(* exactly while it is processing.                                         *)
(***************************************************************************)
THEOREM LeaseMatchesStatusHolds == Spec => []LeaseMatchesStatus
<1>1. IInv => LeaseMatchesStatus
  BY DEF IInv, QueueOK, TableOK, RowOK, LeaseMatchesStatus, Queue!LeaseMatchesStatus, Job
<1> QED BY <1>1, Invariance, PTL

(***************************************************************************)
(* A leased job is not given to another worker before its lease was taken  *)
(* back, whichever of the two services claims, sweeps or evicts: the       *)
(* runtime's claim takes no row that the other's transaction has locked.   *)
(***************************************************************************)
THEOREM NoLeaseTheftHolds == Spec => NoLeaseTheft
<1>1. IInv /\ [Next]_vars
        => [\A j \in Queue!Job :
              (jobs[j].locked_by # NULL /\ jobs'[j].locked_by # NULL)
                => jobs'[j].locked_by = jobs[j].locked_by]_(Queue!vars)
  BY IInvNext DEF Fair, Job
<1> QED BY <1>1, Invariance, PTL DEF Spec, NoLeaseTheft, Queue!NoLeaseTheft

(***************************************************************************)
(* However many claims of a worker overlap, and whatever limits it is      *)
(* registered with meanwhile, its active_job_count exceeds the highest of  *)
(* them by less than the number of requests in flight.                     *)
(***************************************************************************)
THEOREM CountBoundedHolds == Spec => []CountBounded
<1>1. IInv /\ CountOK => CountBounded
  <2> SUFFICES ASSUME IInv, CountOK, NEW w \in Worker
               PROVE  workers[w].count < workers[w].peak + Cardinality(RuntimeRequest)
    BY DEF CountBounded
  <2>1. workers[w].count \in Nat /\ workers[w].peak \in Nat
    BY DEF IInv, RuntimeOK, KnownRow, WorkerRow
  <2> QED BY <2>1, ClaimsFinite DEF CountOK
<1>2. IInv /\ IInv' /\ CountOK /\ [Next]_vars => CountOK'
  BY CountNext
<1> QED BY <1>1, <1>2, CountInit, Invariance, PTL DEF Spec

\* The jobs of a project are allowed an attempt at all.
SomeAttempt == MaxAttempts # 0

(***************************************************************************)
(* If a job is allowed an attempt at all, sweeps that decided on attempts  *)
(* they had read and the runtime's claim, which does not look at them, can *)
(* overrun max_attempts by less than the number of requests in flight.     *)
(***************************************************************************)
THEOREM AttemptsOverrunBoundedHolds ==
  SomeAttempt => (Spec => []AttemptsOverrunBounded)
<1>1. IInv /\ AttemptsInv => AttemptsOverrunBounded
  <2> SUFFICES ASSUME IInv, AttemptsInv, NEW j \in Job
               PROVE  jobs[j].attempts
                        < MaxAttempts + Cardinality(Request) + Cardinality(RuntimeRequest)
    BY DEF AttemptsOverrunBounded
  <2>1. jobs[j].attempts \in Nat
    BY DEF IInv, QueueOK, TableOK, Queue!Row
  <2>2. /\ Cardinality(Request) \in Nat /\ Cardinality(RuntimeRequest) \in Nat
        /\ Cardinality(RuntimeRequest) # 0
        /\ Cardinality(QueueMarks(j)) \in Nat /\ Cardinality(RuntimeMarks(j)) \in Nat
    BY MarksFinite, FS_EmptySet, SlotsAssumption
  <2>3. jobs[j].attempts >= MaxAttempts => Reach(j) < MaxAttempts + Slots
    BY DEF AttemptsInv, OverrunOK
  <2>4. PICK n \in {0, 1} : Reach(j) = jobs[j].attempts + n + Cardinality(QueueMarks(j))
                                        + Cardinality(RuntimeMarks(j))
    BY DEF Reach
  <2> QED BY <2>1, <2>2, <2>3, <2>4 DEF Slots
<1>2. SomeAttempt /\ IInv /\ IInv' /\ AttemptsInv /\ [Next]_vars => SomeAttempt' /\ AttemptsInv'
  BY AttemptsNext DEF SomeAttempt
<1>3. SomeAttempt /\ Init => AttemptsInv
  BY AttemptsInit DEF SomeAttempt
<1> QED BY <1>1, <1>2, <1>3, Invariance, PTL DEF Spec

-----------------------------------------------------------------------------
(* The serial use: a worker waits for its answer before it asks again. *)

Quiet(w) == \A r \in RuntimeRequest :
              wreq[r].worker = w => wreq[r].pc \notin {"claimed", "finished"}

Room(w) == workers[w].count < workers[w].limit

\* A worker has one request at most, a report is about a job it holds, and only a claim
\* that the count has room for goes on.
TurnsOK ==
  \A r \in RuntimeRequest :
    /\ wreq[r].pc \in {"idle", "claim", "claimed", "complete", "fail", "finished"}
    /\ wreq[r].pc = "idle" <=> wreq[r].worker = NULL
    /\ wreq[r].pc # "idle" => \A q \in RuntimeRequest : wreq[q].worker = wreq[r].worker => q = r
    /\ wreq[r].pc \in {"complete", "fail"} => jobs[wreq[r].job].locked_by = wreq[r].worker
    /\ wreq[r].pc \in {"claim", "claimed"} => Room(wreq[r].worker)

\* What the count of w is, by where the request of w stands.
BalancedOK ==
  \A w \in Worker :
    /\ workers[w].count <= workers[w].peak
    /\ Quiet(w) => workers[w].count = Cardinality(LeasesOf(w))
    /\ \A r \in RuntimeRequest : wreq[r].worker = w =>
         /\ wreq[r].pc = "claimed" => workers[w].count + 1 = Cardinality(LeasesOf(w))
         /\ wreq[r].pc = "finished" => workers[w].count = Cardinality(LeasesOf(w)) + 1

SerialInv == IInv /\ TurnsOK /\ BalancedOK

LEMMA LeasesFinite ==
  ASSUME NEW w
  PROVE  /\ IsFiniteSet(LeasesOf(w)) /\ Cardinality(LeasesOf(w)) \in Nat
         /\ IsFiniteSet(LeasesOf(w)') /\ Cardinality(LeasesOf(w)') \in Nat
<1>1. IsFiniteSet(Job)
  BY FS_Interval DEF Job, Queue!Job
<1>2. LeasesOf(w) \subseteq Job /\ LeasesOf(w)' \subseteq Job
  BY DEF LeasesOf
<1> QED BY <1>1, <1>2, FS_Subset, FS_CardinalityType

LEMMA SerialInit == Init => SerialInv
<1> SUFFICES ASSUME Init PROVE SerialInv
  OBVIOUS
<1>1. TurnsOK
  BY DEF Init, TurnsOK, Idle
<1>2. ASSUME NEW w \in Worker PROVE LeasesOf(w) = {}
  BY DEF Init, Queue!Init, LeasesOf, Job
<1>3. BalancedOK
  <2>1. ASSUME NEW w \in Worker
        PROVE  /\ workers[w].count = 0 /\ workers[w].peak = 0
               /\ Cardinality(LeasesOf(w)) = 0
    BY <1>2, FS_EmptySet DEF Init
  <2>2. \A r \in RuntimeRequest : wreq[r].pc = "idle"
    BY DEF Init, Idle
  <2> QED BY <2>1, <2>2 DEF BalancedOK
<1> QED BY <1>1, <1>3, InitIInv DEF SerialInv

LEMMA SerialIsNext == [SerialNext]_vars => [Next]_vars
<1>1. ASSUME NEW j \in Job, Queue!CreateIndexJob(j), UNCHANGED runtimeVars PROVE Next
  BY <1>1 DEF Next, Queue!Next, Queue!JobStep, Job
<1>2. ASSUME NEW r \in RuntimeRequest, WorkerStep(r) \/ \E w \in Worker : WorkerStart(r, w)
      PROVE  Next
  BY <1>2 DEF Next, RuntimeStep
<1>3. ASSUME NEW w \in Worker, StatusStep(w) \/ Registration(w) PROVE Next
  BY <1>3 DEF Next, RegistryStep
<1> QED BY <1>1, <1>2, <1>3 DEF SerialNext

\* The leases of the workers when one row changes hands.
LEMMA LeasesMove ==
  ASSUME IInv, NEW j \in Job, NEW row, jobs' = [jobs EXCEPT ![j] = row], NEW w \in Worker
  PROVE  LeasesOf(w)' = IF row.locked_by = w THEN LeasesOf(w) \union {j} ELSE LeasesOf(w) \ {j}
  BY DEF IInv, QueueOK, TableOK, LeasesOf

\* A step that changes no lease, no count, the slot of nobody and no limit under a request.
LEMMA SerialStutter ==
  ASSUME SerialInv, UNCHANGED wreq,
         \A w \in Worker :
           /\ LeasesOf(w)' = LeasesOf(w) /\ workers'[w].count = workers[w].count
           /\ workers[w].count <= workers[w].peak => workers[w].count <= workers'[w].peak
           /\ Silent(w) \/ workers'[w].limit = workers[w].limit,
         \A j \in Job : jobs'[j].locked_by = jobs[j].locked_by
  PROVE  TurnsOK' /\ BalancedOK'
<1>1. \A r \in RuntimeRequest :
        /\ wreq[r].pc \in {"complete", "fail"} => wreq[r].job \in Job
        /\ wreq[r].pc \in {"claim", "claimed"} => wreq[r].worker \in Worker
  BY DEF SerialInv, IInv, RuntimeOK, SlotsOK, SlotOK
<1>2. \A r \in RuntimeRequest :
        wreq[r].pc \in {"claim", "claimed"} => Room(wreq[r].worker)'
  BY <1>1 DEF SerialInv, TurnsOK, Room, Silent
<1>3. TurnsOK'
  BY <1>1, <1>2 DEF SerialInv, TurnsOK
<1>4. BalancedOK'
  BY DEF SerialInv, BalancedOK, Quiet
<1> QED BY <1>3, <1>4

\* A step of the request r of the worker v: the others' balance is left alone.
LEMMA SerialMove ==
  ASSUME SerialInv, NEW r \in RuntimeRequest, NEW v \in Worker, NEW slot, Goto(r, slot),
         wreq[r].worker = v \/ (wreq[r].pc = "idle" /\ Silent(v)),
         slot.worker = v \/ (slot.worker = NULL /\ slot.pc = "idle"),
         slot.pc = "idle" <=> slot.worker = NULL,
         slot.pc \in {"idle", "claim", "claimed", "complete", "fail", "finished"},
         slot.pc \in {"complete", "fail"} => jobs'[slot.job].locked_by = v,
         slot.pc \in {"claim", "claimed"} => workers'[v].count < workers[v].limit,
         \A w \in Worker :
           workers'[w].limit = workers[w].limit /\ workers'[w].peak = workers[w].peak,
         \A w \in Worker \ {v} : LeasesOf(w)' = LeasesOf(w) /\ workers'[w].count = workers[w].count,
         workers'[v].count <= workers[v].peak,
         slot.pc \notin {"claimed", "finished"} => workers'[v].count = Cardinality(LeasesOf(v)'),
         slot.pc = "claimed" => workers'[v].count + 1 = Cardinality(LeasesOf(v)'),
         slot.pc = "finished" => workers'[v].count = Cardinality(LeasesOf(v)') + 1,
         \A j \in Job : jobs[j].locked_by \in Worker \ {v} => jobs'[j].locked_by = jobs[j].locked_by
  PROVE  TurnsOK' /\ BalancedOK'
<1>1. /\ \A q \in RuntimeRequest : wreq'[q] = IF q = r THEN slot ELSE wreq[q]
      /\ \A q \in RuntimeRequest \ {r} : wreq[q].worker # v
  BY DEF SerialInv, IInv, RuntimeOK, Goto, Silent, TurnsOK
<1>2. \A q \in RuntimeRequest :
        /\ wreq[q].pc \in {"complete", "fail"} => wreq[q].job \in Job
        /\ wreq[q].pc # "idle" => wreq[q].worker \in Worker
  BY DEF SerialInv, IInv, RuntimeOK, SlotsOK, SlotOK, TurnsOK
<1>3. TurnsOK'
  <2> SUFFICES ASSUME NEW q \in RuntimeRequest
               PROVE
    /\ wreq'[q].pc \in {"idle", "claim", "claimed", "complete", "fail", "finished"}
    /\ wreq'[q].pc = "idle" <=> wreq'[q].worker = NULL
    /\ wreq'[q].pc # "idle" =>
         \A i \in RuntimeRequest : wreq'[i].worker = wreq'[q].worker => i = q
    /\ wreq'[q].pc \in {"complete", "fail"} => jobs'[wreq'[q].job].locked_by = wreq'[q].worker
    /\ wreq'[q].pc \in {"claim", "claimed"} =>
         workers'[wreq'[q].worker].count < workers'[wreq'[q].worker].limit
    BY DEF TurnsOK, Room
  <2>1. CASE q = r
    <3>1. slot.pc \in {"claim", "claimed"} => slot.worker = v
      OBVIOUS
    <3> QED BY <1>1, <2>1, <3>1
  <2>2. CASE q # r
    <3>1. wreq'[q] = wreq[q] /\ wreq[q].worker # v
      BY <1>1, <2>2
    <3>2. wreq[q].pc # "idle" =>
            \A i \in RuntimeRequest : wreq'[i].worker = wreq'[q].worker => i = q
      BY <1>1, <1>2, <3>1 DEF SerialInv, TurnsOK
    <3>3. wreq[q].pc \in {"complete", "fail"} =>
            jobs'[wreq[q].job].locked_by = jobs[wreq[q].job].locked_by
      BY <1>2, <3>1 DEF SerialInv, TurnsOK
    <3>4. wreq[q].pc # "idle" =>
            /\ workers'[wreq[q].worker].count = workers[wreq[q].worker].count
            /\ workers'[wreq[q].worker].limit = workers[wreq[q].worker].limit
      BY <1>2, <3>1
    <3> QED BY <3>1, <3>2, <3>3, <3>4 DEF SerialInv, TurnsOK, Room
  <2> QED BY <2>1, <2>2
<1>4. BalancedOK'
  <2> SUFFICES ASSUME NEW w \in Worker
               PROVE
    /\ workers'[w].count <= workers'[w].peak
    /\ (\A q \in RuntimeRequest : wreq'[q].worker = w => wreq'[q].pc \notin {"claimed", "finished"})
         => workers'[w].count = Cardinality(LeasesOf(w)')
    /\ \A q \in RuntimeRequest : wreq'[q].worker = w =>
         /\ wreq'[q].pc = "claimed" => workers'[w].count + 1 = Cardinality(LeasesOf(w)')
         /\ wreq'[q].pc = "finished" => workers'[w].count = Cardinality(LeasesOf(w)') + 1
    BY DEF BalancedOK, Quiet, LeasesOf
  <2>1. CASE w = v
    BY <1>1, <2>1
  <2>2. CASE w # v
    <3>1. \A q \in RuntimeRequest :
            wreq'[q].worker = w => wreq'[q] = wreq[q]
      BY <1>1, <2>2
    <3>2. \A q \in RuntimeRequest :
            wreq[q].worker = w => wreq'[q] = wreq[q]
      BY <1>1, <2>2, QueueAssumption DEF SerialInv, TurnsOK
    <3>3. /\ workers'[w].count = workers[w].count
          /\ Cardinality(LeasesOf(w)') = Cardinality(LeasesOf(w))
      <4>1. w \in Worker \ {v}
        BY <2>2
      <4>2. LeasesOf(w)' = LeasesOf(w) /\ workers'[w].count = workers[w].count
        BY <4>1
      <4>3. Cardinality(LeasesOf(w)') = Cardinality(LeasesOf(w))
        BY <4>2
      <4> QED BY <4>2, <4>3
    <3>4. /\ workers[w].count <= workers[w].peak
          /\ (\A q \in RuntimeRequest :
                wreq[q].worker = w => wreq[q].pc \notin {"claimed", "finished"})
               => workers[w].count = Cardinality(LeasesOf(w))
          /\ \A q \in RuntimeRequest : wreq[q].worker = w =>
               /\ wreq[q].pc = "claimed" => workers[w].count + 1 = Cardinality(LeasesOf(w))
               /\ wreq[q].pc = "finished" => workers[w].count = Cardinality(LeasesOf(w)) + 1
      BY DEF SerialInv, BalancedOK, Quiet
    <3> QED BY <3>1, <3>2, <3>3, <3>4
  <2> QED BY <2>1, <2>2
<1> QED BY <1>3, <1>4

LEMMA SerialStep ==
  ASSUME SerialInv, [SerialNext]_vars
  PROVE  TurnsOK' /\ BalancedOK'
<1> DEFINE Goal == TurnsOK' /\ BalancedOK'
<1>0. /\ \A j \in Job : jobs[j] \in Queue!Row
      /\ \A r \in RuntimeRequest : wreq[r] \in Slot /\ SlotOK(wreq[r])
      /\ \A w \in Worker : workers[w] \in KnownRow /\ workers[w].count \in Nat
      /\ \A w \in Worker : /\ workers[w].limit \in Int /\ workers[w].peak \in Nat
                           /\ workers[w].limit <= workers[w].peak
  BY DEF SerialInv, IInv, QueueOK, TableOK, RuntimeOK, SlotsOK, KnownRow, WorkerRow
<1>1. CASE UNCHANGED vars
  BY <1>1, SerialStutter DEF vars, LeasesOf
<1>2. ASSUME NEW j \in Job, Queue!CreateIndexJob(j), UNCHANGED runtimeVars PROVE Goal
  <2>1. jobs' = [jobs EXCEPT ![j] = [jobs[j] EXCEPT !.status = "pending"]] /\ UNCHANGED workers
    BY <1>2 DEF Queue!CreateIndexJob, runtimeVars
  <2>2. \A i \in Job : jobs'[i].locked_by = jobs[i].locked_by
    BY <1>0, <2>1, OneRow DEF SerialInv, Queue!Row
  <2>3. \A w \in Worker : LeasesOf(w)' = LeasesOf(w)
    BY <2>2 DEF LeasesOf
  <2> QED BY <1>2, <2>1, <2>2, <2>3, SerialStutter DEF runtimeVars
<1>3. ASSUME NEW v \in Worker, StatusStep(v) PROVE Goal
  <2>1. UNCHANGED <<jobs, wreq>>
    BY <1>3 DEF StatusStep, HeartbeatWorker, PauseWorker, StopWorker, MarkWorkerStale,
                SetStatus, HeartbeatAges
  <2>2. \A w \in Worker : /\ workers'[w].count = workers[w].count
                          /\ workers'[w].limit = workers[w].limit
                          /\ workers'[w].peak = workers[w].peak
    BY <1>0, <1>3 DEF SerialInv, IInv, RuntimeOK, KnownRow, WorkerRow, StatusStep,
                      HeartbeatWorker, PauseWorker, StopWorker, MarkWorkerStale, SetStatus,
                      HeartbeatAges
  <2> QED BY <2>1, <2>2, SerialStutter DEF LeasesOf
<1>6. ASSUME NEW v \in Worker, Silent(v), NEW limit \in Limit, RegisterWorker(v, limit)
      PROVE  Goal
  <2>1. UNCHANGED <<jobs, wreq>> /\ limit \in Int
    BY <1>6, LimitAssumption DEF RegisterWorker
  <2>2. \A w \in Worker : /\ workers'[w].count = workers[w].count
                          /\ w # v => workers'[w].limit = workers[w].limit
                          /\ workers'[w].peak = IF w = v /\ limit > workers[w].peak
                                                THEN limit ELSE workers[w].peak
    BY <1>0, <1>6 DEF SerialInv, IInv, RuntimeOK, KnownRow, WorkerRow, RegisterWorker

   <2>3. \A w \in Worker :
          workers[w].count <= workers[w].peak => workers[w].count <= workers'[w].peak
    BY <1>0, <2>1, <2>2
  <2>4. \A w \in Worker : Silent(w) \/ workers'[w].limit = workers[w].limit
    BY <1>6, <2>2
  <2>5. \A w \in Worker : LeasesOf(w)' = LeasesOf(w)
    BY <2>1 DEF LeasesOf
  <2> QED BY <2>1, <2>2, <2>3, <2>4, <2>5, SerialStutter
<1>4. ASSUME NEW r \in RuntimeRequest, NEW v \in Worker, Silent(v), WorkerStart(r, v) PROVE Goal
  <2>1. UNCHANGED <<jobs, workers>> /\ wreq[r].pc = "idle"
    BY <1>4 DEF WorkerStart, ClaimCheck, CompleteCheck, FailCheck, FinishCheck, Free
  <2>2. /\ \A w \in Worker : LeasesOf(w)' = LeasesOf(w)
        /\ workers[v].count <= workers[v].peak /\ workers[v].count = Cardinality(LeasesOf(v))
    BY <1>4, <2>1 DEF LeasesOf, Silent, SerialInv, BalancedOK, Quiet
  <2>3. v # NULL
    OBVIOUS
  <2>4. CASE ClaimCheck(r, v)
    <3> DEFINE slot == [Idle EXCEPT !.pc = "claim", !.worker = v]
    <3>1. slot.pc = "claim" /\ slot.worker = v
      BY DEF Idle
    <3>2. Goto(r, slot) /\ workers[v].count < workers[v].limit
      BY <2>4 DEF ClaimCheck
    <3> HIDE DEF slot
    <3> QED BY <1>4, <2>1, <2>2, <2>3, <3>1, <3>2, SerialMove
  <2>5. ASSUME NEW j \in Job, NEW pc \in {"complete", "fail"}, FinishCheck(r, v, j, pc)
        PROVE  Goal
    <3> DEFINE slot == [Idle EXCEPT !.pc = pc, !.worker = v, !.job = j]
    <3>1. slot.pc = pc /\ slot.worker = v /\ slot.job = j
      BY DEF Idle
    <3>2. Goto(r, slot) /\ jobs[j].locked_by = v
      BY <2>5 DEF FinishCheck
    <3> HIDE DEF slot
    <3> QED BY <1>4, <2>1, <2>2, <2>3, <3>1, <3>2, SerialMove
  <2> QED BY <1>4, <2>4, <2>5 DEF WorkerStart, CompleteCheck, FailCheck
<1>5. ASSUME NEW r \in RuntimeRequest, WorkerStep(r) PROVE Goal
  <2>1. PICK v \in Worker : v = wreq[r].worker /\ v # NULL
    BY <1>0, <1>5 DEF WorkerStep, ClaimTake, ClaimCount, CompleteJob, FailJob, FinishCount, At,
                      SlotOK
  <2>2. \A q \in RuntimeRequest : wreq[q].worker = v => q = r
    BY <2>1 DEF SerialInv, TurnsOK
  <2>3. Idle.pc = "idle" /\ Idle.worker = NULL
    BY DEF Idle
  <2>4. CASE ClaimTake(r) /\ UNCHANGED jobs /\ Goto(r, Idle)
    <3>1. UNCHANGED workers /\ wreq[r].pc = "claim"
      BY <2>4 DEF ClaimTake, At
    <3>2. /\ \A w \in Worker : LeasesOf(w)' = LeasesOf(w)
          /\ workers[v].count <= workers[v].peak /\ workers[v].count = Cardinality(LeasesOf(v))
      BY <2>2, <2>4, <3>1 DEF LeasesOf, SerialInv, BalancedOK, Quiet
    <3> QED BY <2>1, <2>3, <2>4, <3>1, <3>2, SerialMove
  <2>5. ASSUME NEW j \in Job, ClaimTake(r), FirstInLine(j),
               jobs' = [jobs EXCEPT ![j] = Queue!Leased(@, wreq[r].worker, @.attempts + 1)],
               Goto(r, [wreq[r] EXCEPT !.pc = "claimed"])
        PROVE  Goal
    <3> DEFINE slot == [wreq[r] EXCEPT !.pc = "claimed"]
               row == Queue!Leased(jobs[j], v, jobs[j].attempts + 1)
    <3>1. slot.pc = "claimed" /\ slot.worker = v
      BY <1>0, <2>1 DEF Slot
    <3>2. UNCHANGED workers /\ wreq[r].pc = "claim" /\ Goto(r, slot)
          /\ jobs' = [jobs EXCEPT ![j] = row]
      BY <2>1, <2>5 DEF ClaimTake, At
    <3>3. row.locked_by = v /\ jobs[j].locked_by = NULL
      BY <1>0, <2>5 DEF Queue!Leased, Queue!Row, FirstInLine, Waiting, SerialInv, IInv, QueueOK,
                        TableOK, RowOK
    <3> HIDE DEF slot, row
    <3>4. /\ LeasesOf(v)' = LeasesOf(v) \union {j} /\ j \notin LeasesOf(v)
          /\ \A w \in Worker \ {v} : LeasesOf(w)' = LeasesOf(w)
      <4>1. IInv /\ jobs' = [jobs EXCEPT ![j] = row]
        BY <3>2 DEF SerialInv
      <4>2. \A w \in Worker :
              LeasesOf(w)' = IF row.locked_by = w THEN LeasesOf(w) \union {j} ELSE LeasesOf(w) \ {j}
        BY <4>1, LeasesMove
      <4>3. \A w \in Worker : j \notin LeasesOf(w)
        BY <3>3, QueueAssumption DEF LeasesOf
      <4> QED BY <3>3, <4>2, <4>3
    <3>5. /\ workers[v].count = Cardinality(LeasesOf(v)) /\ workers[v].count < workers[v].limit
      BY <2>1, <2>2, <3>2 DEF SerialInv, BalancedOK, Quiet, TurnsOK, Room
    <3>6. workers'[v].count + 1 = Cardinality(LeasesOf(v)')
      <4>1. Cardinality(LeasesOf(v)') = Cardinality(LeasesOf(v)) + 1
        BY <3>4, LeasesFinite, FS_AddElement
      <4>2. UNCHANGED workers
        BY <3>2
      <4> QED BY <3>5, <4>1, <4>2
    <3>7. \A i \in Job :
            jobs[i].locked_by \in Worker \ {v} => jobs'[i].locked_by = jobs[i].locked_by
      BY <3>2, <3>3 DEF SerialInv, IInv, QueueOK, TableOK
    <3>8. /\ workers'[v].count < workers[v].limit /\ workers'[v].count <= workers[v].peak
          /\ UNCHANGED workers
          /\ \A w \in Worker \ {v} :
               LeasesOf(w)' = LeasesOf(w) /\ workers'[w].count = workers[w].count
      BY <1>0, <3>2, <3>4, <3>5
    <3>9. v # NULL /\ wreq[r].worker = v /\ Goto(r, slot)
      BY <2>1, <3>2
    <3> QED BY <3>1, <3>6, <3>7, <3>8, <3>9, SerialMove
  <2>6. CASE ClaimCount(r)
    <3>1. /\ UNCHANGED jobs /\ Goto(r, Idle) /\ wreq[r].pc = "claimed"
          /\ workers' = [workers EXCEPT ![v].count = @ + 1]
      BY <2>1, <2>6 DEF ClaimCount, At
    <3>2. /\ workers'[v].count = workers[v].count + 1
          /\ \A w \in Worker \ {v} : workers'[w].count = workers[w].count
          /\ \A w \in Worker :
               workers'[w].limit = workers[w].limit /\ workers'[w].peak = workers[w].peak
      BY <1>0, <3>1 DEF SerialInv, IInv, RuntimeOK, KnownRow, WorkerRow
    <3>3. \A w \in Worker : LeasesOf(w)' = LeasesOf(w)
      BY <3>1 DEF LeasesOf
    <3>4. /\ workers[v].count + 1 = Cardinality(LeasesOf(v)) /\ workers[v].count < workers[v].limit
      BY <2>1, <3>1 DEF SerialInv, BalancedOK, TurnsOK, Room
    <3>5. workers'[v].count <= workers[v].peak /\ workers'[v].count = Cardinality(LeasesOf(v)')
      BY <1>0, <3>2, <3>3, <3>4
    <3> QED BY <2>1, <2>3, <3>1, <3>2, <3>3, <3>5, SerialMove
  <2>7. CASE CompleteJob(r) \/ FailJob(r)
    <3> DEFINE slot == [wreq[r] EXCEPT !.pc = "finished"]
    <3>1. PICK j \in Job, s \in {"completed", "failed"} :
            /\ j = wreq[r].job /\ jobs[j].locked_by = v
            /\ jobs' = [jobs EXCEPT ![j] = Queue!Unleased(jobs[j], s)] /\ Goto(r, slot)
            /\ UNCHANGED workers /\ wreq[r].pc \in {"complete", "fail"}
      <4>1. wreq[r].pc \in {"complete", "fail"}
        BY <2>7 DEF CompleteJob, FailJob, At
      <4>2. wreq[r].job \in Job /\ jobs[wreq[r].job].locked_by = v
        BY <1>0, <2>1, <4>1 DEF SlotOK, SerialInv, TurnsOK
      <4> QED BY <2>7, <4>1, <4>2 DEF CompleteJob, FailJob, FinishJob, Queue!Write
    <3>2. slot.pc = "finished" /\ slot.worker = v
      BY <1>0, <2>1 DEF Slot
    <3>3. Queue!Unleased(jobs[j], s).locked_by = NULL
      BY <1>0 DEF Queue!Unleased, Queue!Row
    <3> HIDE DEF slot
    <3>4. /\ LeasesOf(v)' = LeasesOf(v) \ {j} /\ j \in LeasesOf(v)
          /\ \A w \in Worker \ {v} : LeasesOf(w)' = LeasesOf(w)
      <4> DEFINE row == Queue!Unleased(jobs[j], s)
      <4>1. IInv /\ jobs' = [jobs EXCEPT ![j] = row] /\ row.locked_by = NULL
        BY <3>1, <3>3 DEF SerialInv
      <4> HIDE DEF row
      <4>2. \A w \in Worker :
              LeasesOf(w)' = IF row.locked_by = w THEN LeasesOf(w) \union {j} ELSE LeasesOf(w) \ {j}
        BY <4>1, LeasesMove
      <4>3. NULL \notin Worker
        BY QueueAssumption
      <4>4. \A w \in Worker : j \in LeasesOf(w) <=> w = v
        BY <3>1 DEF LeasesOf
      <4> QED BY <4>1, <4>2, <4>3, <4>4
    <3>5. workers[v].count = Cardinality(LeasesOf(v)) /\ workers[v].count <= workers[v].peak
      BY <2>2, <3>1 DEF SerialInv, BalancedOK, Quiet
    <3>6. workers'[v].count = Cardinality(LeasesOf(v)') + 1
      <4>1. Cardinality(LeasesOf(v)') = Cardinality(LeasesOf(v)) - 1
        BY <3>4, LeasesFinite, FS_RemoveElement
      <4>2. Cardinality(LeasesOf(v)) \in Nat
        BY LeasesFinite
      <4> QED BY <3>1, <3>5, <4>1, <4>2
    <3>7. \A i \in Job :
            jobs[i].locked_by \in Worker \ {v} => jobs'[i].locked_by = jobs[i].locked_by
      BY <3>1 DEF SerialInv, IInv, QueueOK, TableOK
    <3> QED BY <2>1, <3>1, <3>2, <3>4, <3>5, <3>6, <3>7, SerialMove
  <2>8. CASE FinishCount(r)
    <3>1. UNCHANGED jobs /\ Goto(r, Idle) /\ wreq[r].pc = "finished" /\ Discount(v)
      BY <2>1, <2>8 DEF FinishCount, At
    <3>2. /\ workers[v].count = Cardinality(LeasesOf(v)) + 1 /\ workers[v].count <= workers[v].peak
      BY <2>1, <3>1 DEF SerialInv, BalancedOK
    <3>3. \A w \in Worker : LeasesOf(w)' = LeasesOf(w)
      BY <3>1 DEF LeasesOf
    <3>4. /\ workers'[v].count = workers[v].count - 1
          /\ \A w \in Worker \ {v} : workers'[w].count = workers[w].count
          /\ \A w \in Worker :
               workers'[w].limit = workers[w].limit /\ workers'[w].peak = workers[w].peak
      <4>1. workers[v].count # 0
        BY <1>0, <3>2, LeasesFinite
      <4> QED BY <1>0, <3>1, <4>1 DEF Discount, SerialInv, IInv, RuntimeOK, KnownRow, WorkerRow
    <3>5. workers'[v].count <= workers[v].peak /\ workers'[v].count = Cardinality(LeasesOf(v)')
      BY <1>0, <3>2, <3>3, <3>4, LeasesFinite
    <3> QED BY <2>1, <2>3, <3>1, <3>3, <3>4, <3>5, SerialMove
  <2>9. CASE ClaimTake(r)
    BY <2>4, <2>5, <2>9 DEF ClaimTake
  <2> QED BY <1>5, <2>6, <2>7, <2>8, <2>9 DEF WorkerStep
<1> QED BY <1>1, <1>2, <1>3, <1>4, <1>5, <1>6 DEF SerialNext, Registration

LEMMA SerialInvariance == SerialSpec => []SerialInv
<1>1. SerialInv /\ [SerialNext]_vars => SerialInv'
  BY SerialStep, SerialIsNext, IInvNext DEF SerialInv
<1> QED BY <1>1, SerialInit, PTL DEF SerialSpec

\* What the serial use keeps, as the count and the limit.
LEMMA SerialCounts == SerialInv => CountMatchesLeases
<1> SUFFICES ASSUME SerialInv, NEW w \in Worker
             PROVE  workers[w].count + Cardinality(InFlight(w, "claimed"))
                      = Cardinality(LeasesOf(w)) + Cardinality(InFlight(w, "finished"))
  BY DEF CountMatchesLeases
<1>0. workers[w].count \in Nat /\ Cardinality(LeasesOf(w)) \in Nat
  BY LeasesFinite DEF SerialInv, IInv, RuntimeOK, KnownRow, WorkerRow
<1>1. CASE Quiet(w)
  <2>1. InFlight(w, "claimed") = {} /\ InFlight(w, "finished") = {}
    BY <1>1 DEF Quiet, InFlight
  <2> QED BY <1>0, <1>1, <2>1, FS_EmptySet DEF SerialInv, BalancedOK
<1>2. ASSUME NEW r \in RuntimeRequest, wreq[r].worker = w,
             wreq[r].pc \in {"claimed", "finished"}
      PROVE  workers[w].count + Cardinality(InFlight(w, "claimed"))
               = Cardinality(LeasesOf(w)) + Cardinality(InFlight(w, "finished"))
  <2>1. InFlight(w, wreq[r].pc) = {r}
    BY <1>2 DEF InFlight, SerialInv, TurnsOK
  <2>2. \A pc \in {"claimed", "finished"} : pc # wreq[r].pc => InFlight(w, pc) = {}
    BY <1>2 DEF InFlight, SerialInv, TurnsOK
  <2>3. CASE wreq[r].pc = "claimed"
    <3>1. InFlight(w, "claimed") = {r} /\ InFlight(w, "finished") = {}
      BY <2>1, <2>2, <2>3
    <3>2. Cardinality(InFlight(w, "claimed")) = 1 /\ Cardinality(InFlight(w, "finished")) = 0
      BY <3>1, FS_EmptySet, FS_Singleton
    <3> QED BY <1>0, <1>2, <2>3, <3>2 DEF SerialInv, BalancedOK
  <2>4. CASE wreq[r].pc = "finished"
    <3>1. InFlight(w, "finished") = {r} /\ InFlight(w, "claimed") = {}
      BY <2>1, <2>2, <2>4
    <3>2. Cardinality(InFlight(w, "finished")) = 1 /\ Cardinality(InFlight(w, "claimed")) = 0
      BY <3>1, FS_EmptySet, FS_Singleton
    <3> QED BY <1>0, <1>2, <2>4, <3>2 DEF SerialInv, BalancedOK
  <2> QED BY <1>2, <2>3, <2>4
<1> QED BY <1>1, <1>2 DEF Quiet

\* A worker that waits for its answers takes no more than its limit.
LEMMA SerialLimit == SerialInv => ConcurrencyLimit
<1> SUFFICES ASSUME SerialInv, NEW w \in Worker
             PROVE  /\ Cardinality(LeasesOf(w)) <= workers[w].peak
                    /\ \A r \in InFlight(w, "claimed") :
                         Cardinality(LeasesOf(w)) <= workers[w].limit
  BY DEF ConcurrencyLimit
<1>0. /\ workers[w].count \in Nat /\ Cardinality(LeasesOf(w)) \in Nat
      /\ workers[w].peak \in Nat /\ workers[w].limit \in Int /\ workers[w].limit <= workers[w].peak
      /\ workers[w].count <= workers[w].peak
  BY LeasesFinite DEF SerialInv, IInv, RuntimeOK, KnownRow, WorkerRow, BalancedOK
<1>1. ASSUME NEW r \in RuntimeRequest, wreq[r].worker = w, wreq[r].pc = "claimed"
      PROVE  Cardinality(LeasesOf(w)) <= workers[w].limit
  BY <1>0, <1>1 DEF SerialInv, BalancedOK, TurnsOK, Room
<1>2. ASSUME NEW r \in RuntimeRequest, wreq[r].worker = w, wreq[r].pc = "finished"
      PROVE  Cardinality(LeasesOf(w)) <= workers[w].peak
  BY <1>0, <1>2 DEF SerialInv, BalancedOK
<1>3. ASSUME Quiet(w)
      PROVE  Cardinality(LeasesOf(w)) <= workers[w].peak
  BY <1>0, <1>3 DEF SerialInv, BalancedOK
<1>4. Cardinality(LeasesOf(w)) <= workers[w].peak
  BY <1>0, <1>1, <1>2, <1>3 DEF Quiet
<1> QED BY <1>1, <1>4 DEF InFlight

(***************************************************************************)
(* Workers that wait for each answer: active_job_count is the number of    *)
(* jobs the worker holds, but for the request between the job's update and *)
(* the count's, for any number of workers and jobs.                        *)
(***************************************************************************)
THEOREM CountMatchesLeasesHolds == SerialSpec => []CountMatchesLeases
BY SerialCounts, SerialInvariance, PTL

(***************************************************************************)
(* Workers that wait for each answer are never taken beyond the limit in   *)
(* force by a claim, and never hold more jobs than the highest limit they  *)
(* were registered with.                                                   *)
(***************************************************************************)
THEOREM ConcurrencyLimitHolds == SerialSpec => []ConcurrencyLimit
BY SerialLimit, SerialInvariance, PTL

(***************************************************************************)
(* The two uses side by side, chosen at the start: the runs that are       *)
(* serial keep the count and the limit, whatever the others do to theirs.  *)
(***************************************************************************)
THEOREM SerialCountExactHolds == RuntimeSpec => []SerialCountExact
<1> DEFINE Inv == use = "serial" => SerialInv
<1>1. RuntimeInit => Inv
  BY SerialInit DEF RuntimeInit
<1>2. Inv /\ [RuntimeNext]_<<vars, use>> => Inv'
  <2> SUFFICES ASSUME Inv, [RuntimeNext]_<<vars, use>>, use' = "serial"
               PROVE  SerialInv'
    OBVIOUS
  <2>1. use = "serial" /\ [SerialNext]_vars
    BY DEF RuntimeNext
  <2> QED
    BY <2>1, SerialStep, SerialIsNext, IInvNext DEF SerialInv
<1>3. Inv => SerialCountExact
  BY SerialCounts, SerialLimit DEF SerialCountExact
<1> QED
  BY <1>1, <1>2, <1>3, PTL DEF RuntimeSpec
=============================================================================
