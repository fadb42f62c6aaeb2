--------------------------- MODULE IndexJobsProofs ---------------------------
(***************************************************************************)
(* What holds of IndexJobs for every number of jobs, workers and requests  *)
(* in flight and every max_attempts.                                       *)
(*                                                                         *)
(* The invariants of the table are not inductive alone: ClaimCommit writes *)
(* a value computed from an earlier read, so they need that the row lock   *)
(* has kept the row as it was read (LockedRowIsStable), and that the claim *)
(* still holds the lock (SlotOK).                                          *)
(***************************************************************************)
EXTENDS IndexJobs, TLAPS

\* The part of the invariants that speaks of one row.
RowOK(row) ==
  /\ row.status = "processing" <=> row.locked_by # NULL
  /\ row.attempts <= MaxAttempts
  /\ row.status = "processing" => row.attempts >= 1

\* What a request in flight knows: whom it works for, and that a claim owns its row.
SlotOK ==
  \A r \in Request :
    /\ req[r].pc \in {"claim", "cancel", "retry"} => req[r].job \in Job
    /\ req[r].pc = "claim" =>
         /\ req[r].worker \in Worker
         /\ rowlock[req[r].job] = r
         /\ req[r].seen < MaxAttempts

TableOK == \A j \in Job : RowOK(jobs[j])

IInv == TypeOK /\ SlotOK /\ LockedRowIsStable /\ TableOK

-----------------------------------------------------------------------------
(* The rows the handlers write. *)

LEMMA LeasedRow ==
  ASSUME NEW row \in Row, NEW w \in Worker, NEW n \in Nat
  PROVE  /\ Leased(row, w, n) \in Row
         /\ Leased(row, w, n).status = "processing"
         /\ Leased(row, w, n).locked_by = w
         /\ Leased(row, w, n).attempts = n
BY DEF Leased, Row, Status

LEMMA UnleasedRow ==
  ASSUME NEW row \in Row, NEW s \in Status
  PROVE  /\ Unleased(row, s) \in Row
         /\ Unleased(row, s).status = s
         /\ Unleased(row, s).locked_by = NULL
         /\ Unleased(row, s).attempts = row.attempts
BY DEF Unleased, Row, Status

LEMMA RetriedRow ==
  ASSUME NEW row \in Row
  PROVE  /\ Retried(row) \in Row
         /\ Retried(row).status = "pending"
         /\ Retried(row).locked_by = NULL
         /\ Retried(row).attempts = 0
BY DEF Retried, Unleased, Row, Status

LEMMA CreatedRow ==
  ASSUME NEW row \in Row
  PROVE  LET new == [row EXCEPT !.status = "pending"] IN
         /\ new \in Row
         /\ new.status = "pending"
         /\ new.locked_by = row.locked_by
         /\ new.attempts = row.attempts
BY DEF Row, Status

LEMMA AgedRow ==
  ASSUME NEW row \in Row
  PROVE  LET new == [row EXCEPT !.aged = TRUE] IN
         /\ new \in Row
         /\ new.status = row.status
         /\ new.locked_by = row.locked_by
         /\ new.attempts = row.attempts
BY DEF Row, Status

\* What a sweep writes is a row without a lease that keeps its attempts.
LEMMA SweptRow ==
  ASSUME NEW row \in Row, NEW requeue \in BOOLEAN
  PROVE  /\ Swept(row, requeue) \in Row
         /\ Swept(row, requeue).status \in {"pending", "failed"}
         /\ Swept(row, requeue).locked_by = NULL
         /\ Swept(row, requeue).attempts = row.attempts
BY UnleasedRow DEF Swept, Status

-----------------------------------------------------------------------------
LEMMA InitIInv == Init => IInv
<1> USE JobsAssumption, NullAssumption
<1> SUFFICES ASSUME Init PROVE IInv
  OBVIOUS
<1>1. TypeOK
  BY DEF Init, TypeOK, Row, Status, Slot, Idle, StaleRow
<1>2. SlotOK /\ LockedRowIsStable /\ TableOK
  BY DEF Init, SlotOK, LockedRowIsStable, TableOK, RowOK, Idle
<1> QED
  BY <1>1, <1>2 DEF IInv

\* A statement that leaves a proper row in place of an unlocked one disturbs no claim.
LEMMA WriteKeeps ==
  ASSUME IInv, NEW j \in Job, NEW row \in Row, RowOK(row), Write(j, row),
         UNCHANGED rowlock
  PROVE  /\ jobs' \in [Job -> Row]
         /\ TableOK'
         /\ \A i \in Job : rowlock[i] # NULL => jobs'[i] = jobs[i]
BY DEF IInv, TypeOK, Write, Unlocked, TableOK

\* Two ways of moving a slot: none of them touches a claim.
LEMMA SlotsKeep ==
  ASSUME IInv, UNCHANGED rowlock,
         \A i \in Job : rowlock[i] # NULL => jobs'[i] = jobs[i],
         req' \in [Request -> Slot],
         \A r \in Request : \/ req'[r] = req[r]
                            \/ /\ req[r].pc # "claim" /\ req'[r].pc # "claim"
                               /\ req'[r].pc \in {"cancel", "retry"} => req'[r].job \in Job
  PROVE  SlotOK' /\ LockedRowIsStable'
<1>1. SlotOK'
  BY DEF IInv, SlotOK
<1>2. LockedRowIsStable'
  BY DEF IInv, LockedRowIsStable, TypeOK
<1> QED
  BY <1>1, <1>2

LEMMA JobStepIInv ==
  ASSUME IInv, NEW j \in Job, JobStep(j)
  PROVE  IInv'
<1> USE JobsAssumption
<1>0. jobs[j] \in Row /\ RowOK(jobs[j]) /\ UNCHANGED <<rowlock, req>>
  BY DEF IInv, TypeOK, TableOK, JobStep, CreateIndexJob, MarkCompleted, MarkFailed, LeaseAges
<1>1. PICK row \in Row : RowOK(row) /\ jobs' = [jobs EXCEPT ![j] = row]
                         /\ (rowlock[j] # NULL => row.status = "pending" /\ row.attempts = jobs[j].attempts)
  <2>1. CASE CreateIndexJob(j)
    <3> DEFINE new == [jobs[j] EXCEPT !.status = "pending"]
    <3>1. new \in Row /\ RowOK(new) /\ new.status = "pending" /\ new.attempts = jobs[j].attempts
      BY <1>0, <2>1, CreatedRow DEF CreateIndexJob, Exists, RowOK
    <3> QED
      BY <2>1, <3>1 DEF CreateIndexJob, IInv, TypeOK
  <2>2. CASE MarkCompleted(j)
    <3>1. Unleased(jobs[j], "completed") \in Row /\ RowOK(Unleased(jobs[j], "completed"))
      BY <1>0, UnleasedRow DEF RowOK, Status
    <3> QED
      BY <2>2, <3>1 DEF MarkCompleted, Write, Unlocked
  <2>3. CASE MarkFailed(j)
    <3>1. Unleased(jobs[j], "failed") \in Row /\ RowOK(Unleased(jobs[j], "failed"))
      BY <1>0, UnleasedRow DEF RowOK, Status
    <3> QED
      BY <2>3, <3>1 DEF MarkFailed, Write, Unlocked
  <2>4. CASE LeaseAges(j)
    <3> DEFINE new == [jobs[j] EXCEPT !.aged = TRUE]
    <3>1. new \in Row /\ RowOK(new)
      BY <1>0, AgedRow DEF RowOK
    <3>2. rowlock[j] = NULL
      BY <2>4 DEF LeaseAges, IInv, LockedRowIsStable
    <3> QED
      BY <2>4, <3>1, <3>2 DEF LeaseAges, IInv, TypeOK
  <2> QED
    BY <2>1, <2>2, <2>3, <2>4 DEF JobStep
<1>2. TypeOK' /\ TableOK'
  BY <1>0, <1>1 DEF IInv, TypeOK, TableOK
<1>3. SlotOK'
  BY <1>0 DEF IInv, SlotOK
<1>4. LockedRowIsStable'
  BY <1>0, <1>1 DEF IInv, LockedRowIsStable, TypeOK
<1> QED
  BY <1>2, <1>3, <1>4 DEF IInv

LEMMA ClaimSelectIInv ==
  ASSUME IInv, NEW r \in Request, NEW w \in Worker, ClaimSelect(r, w)
  PROVE  IInv'
<1> USE JobsAssumption, NullAssumption
<1>1. PICK j \in Job : /\ Claimable(j)
                       /\ rowlock' = [rowlock EXCEPT ![j] = r]
                       /\ Start(r, [Idle EXCEPT !.pc = "claim", !.job = j, !.worker = w,
                                                !.seen = jobs[j].attempts])
  BY DEF ClaimSelect
<1> DEFINE slot == [Idle EXCEPT !.pc = "claim", !.job = j, !.worker = w,
                                !.seen = jobs[j].attempts]
<1>2. jobs[j] \in Row /\ jobs[j].attempts \in Nat
  BY DEF IInv, TypeOK, Row
<1>3. slot \in Slot /\ slot.pc = "claim" /\ slot.job = j /\ slot.worker = w
      /\ slot.seen = jobs[j].attempts
  BY <1>2 DEF Slot, Idle
<1> HIDE DEF slot
<1>4. req' = [req EXCEPT ![r] = slot] /\ UNCHANGED jobs /\ req[r].pc = "idle"
  BY <1>1 DEF Start, slot, ClaimSelect, Free
<1>5. TypeOK' /\ TableOK'
  BY <1>1, <1>3, <1>4 DEF IInv, TypeOK, TableOK
<1>6. SlotOK'
  BY <1>1, <1>3, <1>4 DEF IInv, TypeOK, SlotOK, Claimable, Unlocked
<1>7. LockedRowIsStable'
  BY <1>1, <1>3, <1>4 DEF IInv, TypeOK, LockedRowIsStable, Claimable
<1> QED
  BY <1>5, <1>6, <1>7 DEF IInv

LEMMA ClaimCommitIInv ==
  ASSUME IInv, NEW r \in Request, ClaimCommit(r)
  PROVE  IInv'
<1> USE JobsAssumption, NullAssumption
<1> DEFINE j == req[r].job
           w == req[r].worker
           row == Leased(jobs[j], w, req[r].seen + 1)
<1>1. j \in Job /\ w \in Worker /\ req[r].seen \in Nat /\ req[r].seen < MaxAttempts
      /\ rowlock[j] = r /\ jobs[j] \in Row
  BY DEF ClaimCommit, IInv, SlotOK, TypeOK, Slot
<1>2. row \in Row /\ row.status = "processing" /\ row.locked_by = w
      /\ row.attempts = req[r].seen + 1
  BY <1>1, LeasedRow
<1>3. RowOK(row)
  BY <1>1, <1>2 DEF RowOK
<1>4. jobs' = [jobs EXCEPT ![j] = row] /\ rowlock' = [rowlock EXCEPT ![j] = NULL]
      /\ req' = [req EXCEPT ![r] = Idle]
  BY DEF ClaimCommit, Finish
<1> HIDE DEF j, w, row
<1>5. Idle \in Slot /\ Idle.pc = "idle"
  BY DEF Idle, Slot
<1>6. TypeOK' /\ TableOK'
  BY <1>1, <1>2, <1>3, <1>4, <1>5 DEF IInv, TypeOK, TableOK
<1>7. \A q \in Request : q # r /\ req[q].pc = "claim" => req[q].job # j
  BY <1>1 DEF IInv, SlotOK
<1>8. SlotOK'
  BY <1>1, <1>4, <1>5, <1>7 DEF IInv, TypeOK, SlotOK
<1>9. LockedRowIsStable'
  BY <1>1, <1>4, <1>5 DEF IInv, TypeOK, LockedRowIsStable, j
<1> QED
  BY <1>6, <1>8, <1>9 DEF IInv

\* Cancel and retry read, check and take a slot; they change no row.
LEMMA CheckIInv ==
  ASSUME IInv, NEW r \in Request, NEW j \in Job, CancelCheck(r, j) \/ RetryCheck(r, j)
  PROVE  IInv'
<1> USE JobsAssumption, NullAssumption
<1>1. PICK pc \in {"cancel", "retry"} :
        req' = [req EXCEPT ![r] = [Idle EXCEPT !.pc = pc, !.job = j]]
  BY DEF CancelCheck, RetryCheck, Start
<1> DEFINE slot == [Idle EXCEPT !.pc = pc, !.job = j]
<1>2. slot \in Slot /\ slot.pc = pc /\ slot.job = j
  BY DEF Slot, Idle
<1> HIDE DEF slot
<1>3. req' = [req EXCEPT ![r] = slot] /\ UNCHANGED <<jobs, rowlock>> /\ req[r].pc = "idle"
  BY <1>1 DEF slot, CancelCheck, RetryCheck, Free
<1>4. TypeOK' /\ TableOK'
  BY <1>2, <1>3 DEF IInv, TypeOK, TableOK
<1>5. SlotOK' /\ LockedRowIsStable'
  BY <1>2, <1>3, <1>4, SlotsKeep DEF IInv, TypeOK
<1> QED
  BY <1>4, <1>5 DEF IInv

LEMMA ReleaseSelectIInv ==
  ASSUME IInv, NEW r \in Request, ReleaseSelect(r)
  PROVE  IInv'
<1> USE JobsAssumption, NullAssumption
<1>1. StaleRows \in SUBSET StaleRow
  BY DEF StaleRows
<1> DEFINE slot == [Idle EXCEPT !.pc = "release", !.rows = StaleRows]
<1>2. slot \in Slot /\ slot.pc = "release"
  BY <1>1 DEF Slot, Idle
<1> HIDE DEF slot
<1>3. req' = [req EXCEPT ![r] = slot] /\ UNCHANGED <<jobs, rowlock>> /\ req[r].pc = "idle"
  BY DEF slot, ReleaseSelect, Start, Free
<1>4. TypeOK' /\ TableOK'
  BY <1>2, <1>3 DEF IInv, TypeOK, TableOK
<1>5. SlotOK' /\ LockedRowIsStable'
  BY <1>2, <1>3, <1>4, SlotsKeep DEF IInv, TypeOK
<1> QED
  BY <1>4, <1>5 DEF IInv

\* The second statement of a cancel or a retry writes a row without a lease.
LEMMA UpdateIInv ==
  ASSUME IInv, NEW r \in Request, CancelUpdate(r) \/ RetryUpdate(r)
  PROVE  IInv'
<1> USE JobsAssumption, NullAssumption
<1>1. req[r].job \in Job /\ jobs[req[r].job] \in Row /\ RowOK(jobs[req[r].job])
  BY DEF CancelUpdate, RetryUpdate, IInv, SlotOK, TypeOK, TableOK
<1>2. PICK row \in Row : RowOK(row) /\ Write(req[r].job, row)
  <2>1. CASE CancelUpdate(r)
    BY <1>1, <2>1, UnleasedRow DEF CancelUpdate, RowOK, Status
  <2>2. CASE RetryUpdate(r)
    BY <1>1, <2>2, RetriedRow DEF RetryUpdate, RowOK
  <2> QED
    BY <2>1, <2>2
<1>3. UNCHANGED rowlock /\ req' = [req EXCEPT ![r] = Idle] /\ req[r].pc \in {"cancel", "retry"}
  BY DEF CancelUpdate, RetryUpdate, Finish
<1>4. Idle \in Slot /\ Idle.pc = "idle"
  BY DEF Idle, Slot
<1>5. /\ jobs' \in [Job -> Row] /\ TableOK'
      /\ \A i \in Job : rowlock[i] # NULL => jobs'[i] = jobs[i]
  BY <1>1, <1>2, <1>3, WriteKeeps
<1>6. TypeOK'
  BY <1>3, <1>4, <1>5 DEF IInv, TypeOK
<1>7. SlotOK' /\ LockedRowIsStable'
  BY <1>3, <1>4, <1>5, <1>6, SlotsKeep DEF IInv, TypeOK
<1> QED
  BY <1>5, <1>6, <1>7 DEF IInv

LEMMA ReleaseRowIInv ==
  ASSUME IInv, NEW r \in Request, ReleaseRow(r)
  PROVE  IInv'
<1> USE JobsAssumption, NullAssumption
<1>1. PICK stale \in req[r].rows :
        /\ Write(stale.job, Swept(jobs[stale.job], stale.requeue))
        /\ \/ req' = [req EXCEPT ![r] = Idle]
           \/ req' = [req EXCEPT ![r].rows = @ \ {stale}]
  BY DEF ReleaseRow, Finish
<1>2. stale.job \in Job /\ stale.requeue \in BOOLEAN
  BY DEF IInv, TypeOK, Slot, StaleRow
<1> DEFINE row == Swept(jobs[stale.job], stale.requeue)
<1>3. row \in Row /\ RowOK(row)
  BY <1>2, SweptRow DEF IInv, TypeOK, TableOK, RowOK
<1> HIDE DEF row
<1>4. UNCHANGED rowlock /\ req[r].pc = "release" /\ req[r] \in Slot
  BY DEF ReleaseRow, IInv, TypeOK
<1>5. /\ jobs' \in [Job -> Row] /\ TableOK'
      /\ \A i \in Job : rowlock[i] # NULL => jobs'[i] = jobs[i]
  BY <1>1, <1>2, <1>3, <1>4, WriteKeeps DEF row
<1>6. PICK slot \in Slot : req' = [req EXCEPT ![r] = slot] /\ slot.pc \in {"idle", "release"}
  <2> DEFINE rest == [req[r] EXCEPT !.rows = @ \ {stale}]
  <2>1. rest \in Slot /\ rest.pc = "release"
    BY <1>4 DEF Slot
  <2>2. Idle \in Slot /\ Idle.pc = "idle"
    BY DEF Idle, Slot
  <2> QED
    BY <1>1, <2>1, <2>2
<1>7. TypeOK'
  BY <1>4, <1>5, <1>6 DEF IInv, TypeOK
<1>8. SlotOK' /\ LockedRowIsStable'
  BY <1>4, <1>5, <1>6, <1>7, SlotsKeep DEF IInv, TypeOK
<1> QED
  BY <1>5, <1>7, <1>8 DEF IInv

LEMMA AbortIInv ==
  ASSUME IInv, NEW r \in Request, Abort(r)
  PROVE  IInv'
<1> USE JobsAssumption, NullAssumption
<1>1. Idle \in Slot /\ Idle.pc = "idle"
  BY DEF Idle, Slot
<1>2. TypeOK' /\ TableOK'
  BY <1>1 DEF Abort, Finish, IInv, TypeOK, TableOK
<1>3. SlotOK'
  BY <1>1 DEF Abort, Finish, IInv, TypeOK, SlotOK
<1>4. LockedRowIsStable'
  BY <1>1 DEF Abort, Finish, IInv, TypeOK, LockedRowIsStable
<1> QED
  BY <1>2, <1>3, <1>4 DEF IInv

LEMMA NextIInv == IInv /\ [Next]_vars => IInv'
<1> SUFFICES ASSUME IInv, [Next]_vars PROVE IInv'
  OBVIOUS
<1>1. CASE UNCHANGED vars
  BY <1>1 DEF vars, IInv, TypeOK, SlotOK, LockedRowIsStable, TableOK
<1>2. ASSUME NEW j \in Job, JobStep(j) PROVE IInv'
  BY <1>2, JobStepIInv
<1>3. ASSUME NEW r \in Request, RequestStart(r) PROVE IInv'
  BY <1>3, ClaimSelectIInv, CheckIInv, ReleaseSelectIInv DEF RequestStart
<1>4. ASSUME NEW r \in Request, RequestStep(r) PROVE IInv'
  BY <1>4, ClaimCommitIInv, UpdateIInv, ReleaseRowIInv DEF RequestStep
<1>5. ASSUME NEW r \in Request, Abort(r) PROVE IInv'
  BY <1>5, AbortIInv
<1> QED
  BY <1>1, <1>2, <1>3, <1>4, <1>5 DEF Next

THEOREM Invariance == Spec => []IInv
BY InitIInv, NextIInv, PTL DEF Spec

-----------------------------------------------------------------------------
(* The results. *)

\* Every reachable state of the queue is well typed.
THEOREM TypeCorrect == Spec => []TypeOK
<1>1. IInv => TypeOK
  BY DEF IInv
<1> QED
  BY <1>1, Invariance, PTL

\* A lease is on a row exactly while the row is processing, for every interleaving of
\* the seven handlers that write status and locked_by.
THEOREM LeaseMatchesStatusHolds == Spec => []LeaseMatchesStatus
<1>1. IInv => LeaseMatchesStatus
  BY DEF IInv, TableOK, RowOK, LeaseMatchesStatus
<1> QED
  BY <1>1, Invariance, PTL

\* No job is handed out more than max_attempts times between two resets, whatever
\* sweeps and retries act on stale reads.
THEOREM AttemptsWithinLimitHolds == Spec => []AttemptsWithinLimit
<1>1. IInv => AttemptsWithinLimit
  BY DEF IInv, TableOK, RowOK, AttemptsWithinLimit
<1> QED
  BY <1>1, Invariance, PTL

\* A row under a claim's lock is as the claim read it until the claim ends.
THEOREM LockedRowIsStableHolds == Spec => []LockedRowIsStable
<1>1. IInv => LockedRowIsStable
  BY DEF IInv
<1> QED
  BY <1>1, Invariance, PTL

-----------------------------------------------------------------------------
(* What a step may do to a row: three cases cover every handler. *)

\* The row is closed or offered (again): no lease, and the same attempts or none.
Unleases(j, row) ==
  /\ row.status # "processing" /\ row.locked_by = NULL
  /\ \/ row.attempts = jobs[j].attempts
     \/ row.attempts = 0 /\ row.status = "pending"

\* Only the clock has moved.
Ages(j, row) ==
  /\ row.status = jobs[j].status
  /\ row.locked_by = jobs[j].locked_by
  /\ row.attempts = jobs[j].attempts

\* A pending job with attempts left goes to a worker, at the cost of one attempt.
Grants(j, row) ==
  /\ jobs[j].status = "pending" /\ jobs[j].attempts < MaxAttempts
  /\ row.status = "processing" /\ row.locked_by \in Worker
  /\ row.attempts = jobs[j].attempts + 1

RowStep(j, row) ==
  /\ jobs' = [jobs EXCEPT ![j] = row]
  /\ Unleases(j, row) \/ Ages(j, row) \/ Grants(j, row)

LEMMA StepShape ==
  ASSUME IInv, Next
  PROVE  UNCHANGED jobs \/ \E j \in Job, row \in Row : RowStep(j, row)
<1> USE JobsAssumption, NullAssumption
<1>1. ASSUME NEW j \in Job, JobStep(j) PROVE \E row \in Row : RowStep(j, row)
  <2>0. jobs[j] \in Row /\ RowOK(jobs[j])
    BY DEF IInv, TypeOK, TableOK
  <2>1. CASE CreateIndexJob(j)
    <3> DEFINE new == [jobs[j] EXCEPT !.status = "pending"]
    <3>1. new \in Row /\ Unleases(j, new)
      BY <2>0, <2>1, CreatedRow DEF CreateIndexJob, Exists, RowOK, Unleases
    <3>2. jobs' = [jobs EXCEPT ![j] = new]
      BY <2>1 DEF CreateIndexJob, IInv, TypeOK
    <3> QED
      BY <3>1, <3>2 DEF RowStep
  <2>2. CASE MarkCompleted(j)
    BY <2>0, <2>2, UnleasedRow DEF MarkCompleted, Write, RowStep, Unleases, Status
  <2>3. CASE MarkFailed(j)
    BY <2>0, <2>3, UnleasedRow DEF MarkFailed, Write, RowStep, Unleases, Status
  <2>4. CASE LeaseAges(j)
    <3> DEFINE new == [jobs[j] EXCEPT !.aged = TRUE]
    <3>1. new \in Row /\ Ages(j, new)
      BY <2>0, AgedRow DEF Ages
    <3>2. jobs' = [jobs EXCEPT ![j] = new]
      BY <2>4 DEF LeaseAges, IInv, TypeOK
    <3> QED
      BY <3>1, <3>2 DEF RowStep
  <2> QED
    BY <1>1, <2>1, <2>2, <2>3, <2>4 DEF JobStep
<1>2. ASSUME NEW r \in Request, RequestStart(r) \/ Abort(r) PROVE UNCHANGED jobs
  BY <1>2 DEF RequestStart, ClaimSelect, CancelCheck, RetryCheck, ReleaseSelect, Abort
<1>3. ASSUME NEW r \in Request, ClaimCommit(r)
      PROVE \E j \in Job, row \in Row : RowStep(j, row)
  <2> DEFINE j == req[r].job
             n == req[r].seen + 1
             row == Leased(jobs[j], req[r].worker, n)
  <2>1. /\ j \in Job /\ req[r].worker \in Worker /\ req[r].seen \in Nat
        /\ req[r].seen < MaxAttempts /\ rowlock[j] = r /\ jobs[j] \in Row
    BY <1>3 DEF ClaimCommit, IInv, SlotOK, TypeOK, Slot
  <2>2. jobs[j].status = "pending" /\ jobs[j].attempts = req[r].seen
    BY <2>1 DEF IInv, LockedRowIsStable
  <2>3. n \in Nat /\ n = req[r].seen + 1
    BY <2>1
  <2> HIDE DEF n
  <2>4. /\ row \in Row /\ row.status = "processing" /\ row.locked_by \in Worker
        /\ row.attempts = n
    <3> DEFINE old == jobs[j]
               w == req[r].worker
    <3>1. old \in Row /\ w \in Worker /\ n \in Nat /\ row = Leased(old, w, n)
      BY <2>1, <2>3
    <3> HIDE DEF old, w, row
    <3> QED
      BY <3>1, LeasedRow
  <2>5. jobs' = [jobs EXCEPT ![j] = row]
    BY <1>3 DEF ClaimCommit, n
  <2> HIDE DEF j, row
  <2>6. Grants(j, row)
    BY <2>1, <2>2, <2>3, <2>4 DEF Grants
  <2> QED
    BY <2>1, <2>4, <2>5, <2>6 DEF RowStep
<1>4. ASSUME NEW r \in Request, CancelUpdate(r) \/ RetryUpdate(r) \/ ReleaseRow(r)
      PROVE \E j \in Job, row \in Row : RowStep(j, row)
  <2>1. CASE CancelUpdate(r)
    <3>1. req[r].job \in Job /\ jobs[req[r].job] \in Row
      BY <2>1 DEF CancelUpdate, IInv, SlotOK, TypeOK
    <3> QED
      BY <2>1, <3>1, UnleasedRow DEF CancelUpdate, Write, RowStep, Unleases, Status
  <2>2. CASE RetryUpdate(r)
    <3>1. req[r].job \in Job /\ jobs[req[r].job] \in Row
      BY <2>2 DEF RetryUpdate, IInv, SlotOK, TypeOK
    <3> QED
      BY <2>2, <3>1, RetriedRow DEF RetryUpdate, Write, RowStep, Unleases
  <2>3. CASE ReleaseRow(r)
    <3>1. PICK stale \in req[r].rows : Write(stale.job, Swept(jobs[stale.job], stale.requeue))
      BY <2>3 DEF ReleaseRow
    <3>2. stale.job \in Job /\ stale.requeue \in BOOLEAN /\ jobs[stale.job] \in Row
      BY DEF IInv, TypeOK, Slot, StaleRow
    <3> DEFINE row == Swept(jobs[stale.job], stale.requeue)
    <3>3. row \in Row /\ Unleases(stale.job, row)
      BY <3>2, SweptRow DEF Unleases
    <3> QED
      BY <3>1, <3>2, <3>3 DEF Write, RowStep
  <2> QED
    BY <1>4, <2>1, <2>2, <2>3
<1> QED
  BY <1>1, <1>2, <1>3, <1>4 DEF Next, RequestStep

\* No worker is handed a job another worker still holds.
THEOREM NoLeaseTheftHolds == Spec => NoLeaseTheft
<1>1. ASSUME IInv, [Next]_vars
      PROVE  [\A j \in Job :
               (jobs[j].locked_by # NULL /\ jobs'[j].locked_by # NULL)
                 => jobs'[j].locked_by = jobs[j].locked_by]_vars
  <2>1. CASE UNCHANGED jobs
    BY <2>1
  <2>2. ASSUME NEW j \in Job, NEW row \in Row, RowStep(j, row)
        PROVE \A i \in Job : (jobs[i].locked_by # NULL /\ jobs'[i].locked_by # NULL)
                 => jobs'[i].locked_by = jobs[i].locked_by
    BY <1>1, <2>2 DEF RowStep, Unleases, Ages, Grants, IInv, TypeOK, TableOK, RowOK
  <2>3. CASE UNCHANGED vars
    BY <2>3
  <2> QED
    BY <1>1, <2>1, <2>2, <2>3, StepShape
<1> QED
  BY <1>1, Invariance, PTL DEF Spec, NoLeaseTheft

\* A job that starts processing has spent exactly one attempt, and no other step adds one.
THEOREM EveryClaimCountedHolds == Spec => EveryClaimCounted
<1>1. ASSUME IInv, [Next]_vars
      PROVE  [\A j \in Job :
               (jobs[j].status # "processing" /\ jobs'[j].status = "processing")
                 <=> jobs'[j].attempts = jobs[j].attempts + 1]_vars
  <2> DEFINE Counted(j) ==
        (jobs[j].status # "processing" /\ jobs'[j].status = "processing")
          <=> jobs'[j].attempts = jobs[j].attempts + 1
  <2>0. \A j \in Job : jobs[j] \in Row /\ jobs[j].attempts \in Nat
    BY <1>1 DEF IInv, TypeOK, Row
  <2>1. CASE UNCHANGED jobs
    BY <2>0, <2>1
  <2>2. ASSUME NEW j \in Job, NEW row \in Row, RowStep(j, row)
        PROVE \A i \in Job : Counted(i)
    <3>1. \A i \in Job : jobs'[i] = IF i = j THEN row ELSE jobs[i]
      BY <1>1, <2>2 DEF RowStep, IInv, TypeOK
    <3>2. Counted(j)
      BY <2>0, <2>2, <3>1 DEF RowStep, Unleases, Ages, Grants
    <3>3. \A i \in Job \ {j} : Counted(i)
      BY <2>0, <3>1
    <3> QED
      BY <3>2, <3>3
  <2>3. CASE UNCHANGED vars
    BY <2>3
  <2> QED
    BY <1>1, <2>1, <2>2, <2>3, StepShape
<1> QED
  BY <1>1, Invariance, PTL DEF Spec, EveryClaimCounted

-----------------------------------------------------------------------------
(* Refinement: IndexJobService implements the lease book of JobLeases. *)

LEMMA InitRefines == Init => Leases!Init
<1> SUFFICES ASSUME Init PROVE Leases!Init
  OBVIOUS
<1>1. \A j \in Job : /\ jobs[j].status = "absent" /\ jobs[j].locked_by = NULL
                     /\ jobs[j].attempts = 0
  BY DEF Init
<1>2. MaxAttempts - 0 = MaxAttempts
  BY JobsAssumption
<1> QED
  BY <1>1, <1>2 DEF Leases!Init

LEMMA StepRefines == IInv /\ [Next]_vars => [Leases!Next]_(Leases!leases)
<1> USE JobsAssumption, NullAssumption
<1> SUFFICES ASSUME IInv, [Next]_vars PROVE [Leases!Next]_(Leases!leases)
  OBVIOUS
<1> DEFINE open == {j \in Job : jobs[j].status = "pending"}
           holder == [j \in Job |-> jobs[j].locked_by]
           left == [j \in Job |-> MaxAttempts - jobs[j].attempts]
<1>0. jobs \in [Job -> Row] /\ \A j \in Job : jobs[j].attempts \in Nat
  BY DEF IInv, TypeOK, Row
<1>1. CASE UNCHANGED jobs
  BY <1>1 DEF Leases!leases
<1>2. ASSUME NEW j \in Job, NEW row \in Row, RowStep(j, row)
      PROVE  [Leases!Next]_(Leases!leases)
  <2>1. jobs' = [jobs EXCEPT ![j] = row] /\ row.attempts \in Nat
    BY <1>2 DEF RowStep, Row
  <2>2. /\ \A i \in Job \ {j} : jobs'[i] = jobs[i]
        /\ jobs'[j] = row
    BY <1>0, <2>1
  <2>3. holder' = [holder EXCEPT ![j] = row.locked_by]
    BY <1>0, <2>1
  <2>4. left' = [left EXCEPT ![j] = MaxAttempts - row.attempts]
    BY <1>0, <2>1
  <2>5. open' = IF row.status = "pending" THEN open \union {j} ELSE open \ {j}
    BY <1>0, <2>1
  <2>6. CASE Unleases(j, row)
    <3>1. row.locked_by = NULL
      BY <2>6 DEF Unleases
    <3>2. CASE row.attempts = jobs[j].attempts
      <4>1. left' = left
        BY <1>0, <2>4, <3>2
      <4>2. Leases!Close(j) \/ Leases!Offer(j)
        BY <2>3, <2>5, <3>1, <4>1 DEF Leases!Close, Leases!Offer
      <4> QED
        BY <4>2 DEF Leases!Next
    <3>3. CASE row.attempts = 0 /\ row.status = "pending"
      <4>1. MaxAttempts - row.attempts = MaxAttempts
        BY <3>3
      <4>2. Leases!Offer(j)
        BY <2>3, <2>4, <2>5, <3>1, <3>3, <4>1 DEF Leases!Offer
      <4> QED
        BY <4>2 DEF Leases!Next
    <3> QED
      BY <2>6, <3>2, <3>3 DEF Unleases
  <2>7. CASE Ages(j, row)
    <3>1. open' = open /\ holder' = holder /\ left' = left
      BY <1>0, <2>2, <2>7 DEF Ages
    <3> QED
      BY <3>1 DEF Leases!leases
  <2>8. CASE Grants(j, row)
    <3>1. j \in open /\ left[j] > 0 /\ open' = open \ {j}
      BY <1>0, <2>5, <2>8 DEF Grants
    <3>2. left' = [left EXCEPT ![j] = @ - 1]
      <4>1. MaxAttempts - row.attempts = (MaxAttempts - jobs[j].attempts) - 1
        BY <1>0, <2>8 DEF Grants
      <4> QED
        BY <2>4, <4>1
    <3>3. Leases!Grant(j, row.locked_by)
      BY <2>3, <3>1, <3>2 DEF Leases!Grant
    <3> QED
      BY <2>8, <3>3 DEF Leases!Next, Grants
  <2> QED
    BY <1>2, <2>6, <2>7, <2>8 DEF RowStep
<1>3. CASE UNCHANGED vars
  BY <1>1, <1>3 DEF vars
<1> QED
  BY <1>1, <1>2, <1>3, StepShape

\* Every behaviour of the service's routes is one the abstract lease book allows.
THEOREM ImplementsLeasesHolds == Spec => ImplementsLeases
BY InitRefines, StepRefines, Invariance, PTL DEF Spec, ImplementsLeases, Leases!Spec
=============================================================================
