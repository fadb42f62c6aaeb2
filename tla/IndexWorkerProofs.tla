------------------------- MODULE IndexWorkerProofs -------------------------
(***************************************************************************)
(* What holds of IndexWorker for every number of jobs, workers and         *)
(* operators.                                                              *)
(*                                                                         *)
(* The queue's own invariant is not proved again: a step of the worker     *)
(* processes is a step of the queue or leaves it alone, and NextIInv of    *)
(* IndexJobsProofs, instantiated with the slots of workers and operators,  *)
(* carries it over.  The rest relates a process to the rows it works on.   *)
(***************************************************************************)
EXTENDS MCIndexWorker, TLAPS

Proven == INSTANCE IndexJobsProofs WITH Request <- Worker \union Operator

\* What a process holds a job for.
Works == {"claimed", "work", "completed", "failing"}

\* A worker's slot only ever holds its own claim, and it waits for the reply or has died.
OwnClaims ==
  \A w \in Worker :
    /\ req[w].pc \in {"idle", "claim"}
    /\ req[w].pc = "claim" => req[w].worker = w /\ proc[w].pc \in {"claim", "exited"}

\* Nobody claims on behalf of an operator.
OperatorsDoNotClaim == \A o \in Operator : req[o].pc # "claim"

ProcessOK ==
  /\ proc \in [Worker -> Process]
  /\ stopping \in SUBSET Worker
  /\ \A w \in Worker : proc[w].pc \in Works => proc[w].job \in Job

IInv ==
  Proven!IInv /\ ProcessOK /\ OwnClaims /\ OperatorsDoNotClaim /\ LeaseHolderKnows

\* The row says that the job is leased to the worker or, if the worker has reported or may
\* have, that it has completed it.
Owns(w, j) ==
  \/ jobs[j].status = "processing" /\ jobs[j].locked_by = w /\ proc[w].pc # "completed"
  \/ /\ jobs[j].status = "completed" /\ verdict[j] = w
     /\ proc[w].pc \in {"completed", "failing"}

\* A worker owns the job it has in hand, unless an operator has written it meanwhile.
Ownership ==
  /\ verdict \in [Job -> Worker \union {NULL}]
  /\ taken \in SUBSET Job
  /\ \A w \in Worker :
       /\ proc[w].job # NULL => proc[w].pc \in Works
       /\ proc[w].pc \in Works /\ proc[w].job \notin taken => Owns(w, proc[w].job)

-----------------------------------------------------------------------------
(* A step of the processes, seen from the queue. *)

LEMMA SameTable ==
  /\ Queue!TypeOK <=> Proven!TypeOK
  /\ Queue!Init <=> Proven!Init
  /\ Queue!Job = Proven!Job
BY DEF Queue!TypeOK, Queue!Init, Queue!Job, Queue!Row, Queue!Status, Queue!Slot,
       Queue!StaleRow, Queue!Idle,
       Proven!TypeOK, Proven!Init, Proven!Job, Proven!Row, Proven!Status, Proven!Slot,
       Proven!StaleRow, Proven!Idle

LEMMA SameJobStep ==
  ASSUME NEW j \in Job
  PROVE  /\ Queue!CreateIndexJob(j) <=> Proven!CreateIndexJob(j)
         /\ Queue!MarkCompleted(j) <=> Proven!MarkCompleted(j)
         /\ Queue!MarkFailed(j) <=> Proven!MarkFailed(j)
         /\ Queue!LeaseAges(j) <=> Proven!LeaseAges(j)
<1>1. Queue!CreateIndexJob(j) <=> Proven!CreateIndexJob(j)
  BY DEF Queue!CreateIndexJob, Queue!Exists, Queue!Job,
         Proven!CreateIndexJob, Proven!Exists, Proven!Job
<1>2. Queue!MarkCompleted(j) <=> Proven!MarkCompleted(j)
  BY DEF Queue!MarkCompleted, Queue!Exists, Queue!Write, Queue!Unlocked, Queue!Unleased,
         Proven!MarkCompleted, Proven!Exists, Proven!Write, Proven!Unlocked, Proven!Unleased
<1>3. Queue!MarkFailed(j) <=> Proven!MarkFailed(j)
  BY DEF Queue!MarkFailed, Queue!Exists, Queue!Write, Queue!Unlocked, Queue!Unleased,
         Proven!MarkFailed, Proven!Exists, Proven!Write, Proven!Unlocked, Proven!Unleased
<1>4. Queue!LeaseAges(j) <=> Proven!LeaseAges(j)
  BY DEF Queue!LeaseAges, Proven!LeaseAges
<1> QED
  BY <1>1, <1>2, <1>3, <1>4

LEMMA SameClaim ==
  ASSUME NEW r \in Worker \union Operator, NEW w \in Worker
  PROVE  Queue!ClaimSelect(r, w) <=> Proven!ClaimSelect(r, w)
BY DEF Queue!ClaimSelect, Queue!Free, Queue!Claimable, Queue!Unlocked, Queue!Start,
       Queue!Idle, Queue!Job,
       Proven!ClaimSelect, Proven!Free, Proven!Claimable, Proven!Unlocked, Proven!Start,
       Proven!Idle, Proven!Job

LEMMA SameCheck ==
  ASSUME NEW r \in Worker \union Operator, NEW j \in Job
  PROVE  /\ Queue!CancelCheck(r, j) <=> Proven!CancelCheck(r, j)
         /\ Queue!RetryCheck(r, j) <=> Proven!RetryCheck(r, j)
<1>1. Queue!CancelCheck(r, j) <=> Proven!CancelCheck(r, j)
  BY DEF Queue!CancelCheck, Queue!Free, Queue!Exists, Queue!Start, Queue!Idle,
         Proven!CancelCheck, Proven!Free, Proven!Exists, Proven!Start, Proven!Idle
<1>2. Queue!RetryCheck(r, j) <=> Proven!RetryCheck(r, j)
  BY DEF Queue!RetryCheck, Queue!Free, Queue!Exists, Queue!Start, Queue!Idle,
         Proven!RetryCheck, Proven!Free, Proven!Exists, Proven!Start, Proven!Idle
<1> QED
  BY <1>1, <1>2

LEMMA SameStep ==
  ASSUME NEW r \in Worker \union Operator
  PROVE  /\ Queue!ReleaseSelect(r) <=> Proven!ReleaseSelect(r)
         /\ Queue!ClaimCommit(r) <=> Proven!ClaimCommit(r)
         /\ Queue!CancelUpdate(r) <=> Proven!CancelUpdate(r)
         /\ Queue!RetryUpdate(r) <=> Proven!RetryUpdate(r)
         /\ Queue!ReleaseRow(r) <=> Proven!ReleaseRow(r)
         /\ Queue!Abort(r) <=> Proven!Abort(r)
<1>1. Queue!ReleaseSelect(r) <=> Proven!ReleaseSelect(r)
  BY DEF Queue!ReleaseSelect, Queue!Free, Queue!StaleRows, Queue!StaleRow, Queue!Start,
         Queue!Idle, Queue!Job,
         Proven!ReleaseSelect, Proven!Free, Proven!StaleRows, Proven!StaleRow, Proven!Start,
         Proven!Idle, Proven!Job
<1>2. Queue!ClaimCommit(r) <=> Proven!ClaimCommit(r)
  BY DEF Queue!ClaimCommit, Queue!Leased, Queue!Finish, Queue!Idle,
         Proven!ClaimCommit, Proven!Leased, Proven!Finish, Proven!Idle
<1>3. Queue!CancelUpdate(r) <=> Proven!CancelUpdate(r)
  BY DEF Queue!CancelUpdate, Queue!Write, Queue!Unlocked, Queue!Unleased, Queue!Finish,
         Queue!Idle,
         Proven!CancelUpdate, Proven!Write, Proven!Unlocked, Proven!Unleased, Proven!Finish,
         Proven!Idle
<1>4. Queue!RetryUpdate(r) <=> Proven!RetryUpdate(r)
  BY DEF Queue!RetryUpdate, Queue!Write, Queue!Unlocked, Queue!Retried, Queue!Unleased,
         Queue!Finish, Queue!Idle,
         Proven!RetryUpdate, Proven!Write, Proven!Unlocked, Proven!Retried, Proven!Unleased,
         Proven!Finish, Proven!Idle
<1>5. Queue!ReleaseRow(r) <=> Proven!ReleaseRow(r)
  BY DEF Queue!ReleaseRow, Queue!Write, Queue!Unlocked, Queue!Swept, Queue!Unleased,
         Queue!Finish, Queue!Idle,
         Proven!ReleaseRow, Proven!Write, Proven!Unlocked, Proven!Swept, Proven!Unleased,
         Proven!Finish, Proven!Idle
<1>6. Queue!Abort(r) <=> Proven!Abort(r)
  BY DEF Queue!Abort, Queue!Free, Queue!Finish, Queue!Idle, Queue!Job,
         Proven!Abort, Proven!Free, Proven!Finish, Proven!Idle, Proven!Job
<1> QED
  BY <1>1, <1>2, <1>3, <1>4, <1>5, <1>6

\* No process steps around the queue: all it does to the table is a step of IndexJobs.
LEMMA QueueSteps == ProcessOK /\ [Next]_vars => [Proven!Next]_(Proven!vars)
<1> USE SameTable DEF Job
<1> DEFINE Slots == Worker \union Operator
<1> SUFFICES ASSUME ProcessOK, [Next]_vars PROVE Proven!Next \/ UNCHANGED Proven!vars
  OBVIOUS
<1>1. ASSUME NEW w \in Worker, WorkerStep(w) \/ WorkerMishap(w)
      PROVE  Proven!Next \/ UNCHANGED Proven!vars
  <2>1. w \in Slots
    OBVIOUS
  <2>3. CASE Claim(w)
    BY <2>1, <2>3, SameClaim DEF Claim, Proven!Next, Proven!RequestStart
  <2>4. CASE ClaimServed(w)
    BY <2>1, <2>4, SameStep DEF ClaimServed, Proven!Next, Proven!RequestStep
  <2>5. CASE ClaimFails(w)
    BY <2>1, <2>5, SameStep DEF ClaimFails, Proven!Next
  <2>6. CASE Complete(w) \/ Fail(w)
    <3> DEFINE j == proc[w].job
    <3>1. j \in Job
      BY <2>6 DEF Complete, Fail, At, ProcessOK, Works
    <3> QED
      BY <2>6, <3>1, SameJobStep DEF Complete, Fail, Proven!Next, Proven!JobStep
  <2>7. CASE UNCHANGED queueVars
    BY <2>7 DEF queueVars, Proven!vars
  <2> QED
    BY <1>1, <2>3, <2>4, <2>5, <2>6, <2>7
       DEF WorkerStep, WorkerMishap, ClaimReply, CompleteReply, ReportFailure, Stop,
           LoopEnds, Crash, queueVars
<1>2. ASSUME NEW o \in Operator, OperatorStep(o)
      PROVE  Proven!Next \/ UNCHANGED Proven!vars
  <2>1. o \in Slots
    OBVIOUS
  <2>2. ASSUME NEW j \in Job
        PROVE  Queue!CancelCheck(o, j) \/ Queue!RetryCheck(o, j) => Proven!Next
    <3>1. (Queue!CancelCheck(o, j) <=> Proven!CancelCheck(o, j))
          /\ (Queue!RetryCheck(o, j) <=> Proven!RetryCheck(o, j))
      BY <2>1, SameCheck
    <3> QED
      BY <2>1, <3>1 DEF Proven!Next, Proven!RequestStart
  <2> QED
    BY <1>2, <2>1, <2>2, SameStep
       DEF OperatorStep, Proven!Next, Proven!RequestStart, Proven!RequestStep
<1>3. CASE Environment
  BY <1>3, SameJobStep DEF Environment, Proven!Next, Proven!JobStep
<1>4. CASE UNCHANGED vars
  BY <1>4 DEF vars, Proven!vars
<1> QED
  BY <1>1, <1>2, <1>3, <1>4 DEF Next

-----------------------------------------------------------------------------
(* What a step of the queue does to the lease of a row. *)


\* No statement but a claim's gives a row a lease: it keeps the one it has or drops it.
KeepsOrFrees == \A j \in Job : jobs'[j].locked_by \in {NULL, jobs[j].locked_by}

LEMMA TableTyped ==
  ASSUME IInv
  PROVE  /\ jobs \in [Job -> Queue!Row]
         /\ req \in [Worker \union Operator -> Queue!Slot]
         /\ NULL \notin Worker
BY SameTable, QueueAssumption DEF IInv, Proven!IInv, Queue!TypeOK, Job

LEMMA CreateOrAge ==
  ASSUME IInv, NEW j \in Job, Queue!CreateIndexJob(j) \/ Queue!LeaseAges(j)
  PROVE  /\ UNCHANGED req
         /\ \A i \in Job :
              /\ jobs'[i].locked_by = jobs[i].locked_by
              /\ jobs[i].status # "absent" => jobs'[i].status = jobs[i].status
BY TableTyped
   DEF Queue!CreateIndexJob, Queue!Exists, Queue!LeaseAges, Queue!Row

LEMMA Mark ==
  ASSUME IInv, NEW j \in Job, Queue!MarkCompleted(j) \/ Queue!MarkFailed(j)
  PROVE  /\ UNCHANGED req
         /\ jobs'[j].locked_by = NULL
         /\ Queue!MarkCompleted(j) => jobs'[j].status = "completed"
         /\ \A i \in Job \ {j} : jobs'[i] = jobs[i]
BY TableTyped
   DEF Queue!MarkCompleted, Queue!MarkFailed, Queue!Write, Queue!Unleased, Queue!Row

\* A claim that commits finds the row as it was selected, and gives it to its worker.
LEMMA ClaimGrants ==
  ASSUME IInv, NEW w \in Worker, Queue!ClaimCommit(w)
  PROVE  /\ req' = [req EXCEPT ![w] = Queue!Idle]
         /\ req[w].job \in Job /\ req[w].worker = w
         /\ jobs[req[w].job].status = "pending"
         /\ jobs'[req[w].job].locked_by = w
         /\ jobs'[req[w].job].status = "processing"
         /\ \A i \in Job \ {req[w].job} : jobs'[i] = jobs[i]
<1> DEFINE j == req[w].job
<1>1. req[w].pc = "claim" /\ w \in Worker \union Operator
  BY DEF Queue!ClaimCommit
<1>2. j \in Job /\ rowlock[j] = w /\ req[w].worker = w
  BY <1>1 DEF IInv, Proven!IInv, Proven!SlotOK, Proven!Job, Job, Queue!Job, OwnClaims
<1>3. jobs[j].status = "pending"
  BY <1>2, TableTyped
     DEF IInv, Proven!IInv, Proven!LockedRowIsStable, Proven!Job, Job, Queue!Job
<1>4. jobs' = [jobs EXCEPT ![j] = Queue!Leased(@, w, req[w].seen + 1)]
  BY <1>2 DEF Queue!ClaimCommit
<1>5. jobs'[j] = Queue!Leased(jobs[j], w, req[w].seen + 1)
  BY <1>2, <1>4, TableTyped
<1>6. jobs'[j].locked_by = w /\ jobs'[j].status = "processing"
  BY <1>2, <1>5, TableTyped DEF Queue!Leased, Queue!Row
<1> QED
  BY <1>2, <1>3, <1>4, <1>6, TableTyped DEF Queue!ClaimCommit, Queue!Finish

LEMMA ClaimStarts ==
  ASSUME IInv, NEW w \in Worker, Queue!ClaimSelect(w, w)
  PROVE  /\ UNCHANGED jobs
         /\ \A r \in (Worker \union Operator) \ {w} : req'[r] = req[r]
         /\ req'[w].pc = "claim" /\ req'[w].worker = w
BY TableTyped DEF Queue!ClaimSelect, Queue!Start, Queue!Idle, Queue!Slot

\* What an operator does: rows keep their lease or lose it, workers' slots are let alone,
\* and a row is written only from the operator's own slot.
LEMMA OperatorActs ==
  ASSUME IInv, NEW o \in Operator, OperatorStep(o)
  PROVE  /\ KeepsOrFrees
         /\ \A r \in (Worker \union Operator) \ {o} : req'[r] = req[r]
         /\ req'[o].pc # "claim"
         /\ jobs' # jobs => req'[o] # req[o]
         /\ UNCHANGED <<proc, stopping>>
<1>0. /\ o \in Worker \union Operator /\ req[o].pc # "claim"
      /\ req[o] \in Queue!Slot
  BY TableTyped DEF IInv, OperatorsDoNotClaim
<1>1. CASE \E j \in Job : Queue!CancelCheck(o, j) \/ Queue!RetryCheck(o, j)
  BY <1>0, <1>1, TableTyped
     DEF OperatorStep, KeepsOrFrees, Queue!CancelCheck, Queue!RetryCheck, Queue!Start,
         Queue!Idle
<1>2. CASE Queue!ReleaseSelect(o)
  BY <1>0, <1>2, TableTyped
     DEF OperatorStep, KeepsOrFrees, Queue!ReleaseSelect, Queue!Start, Queue!Idle
<1>3. CASE Queue!Abort(o)
  BY <1>0, <1>3, TableTyped
     DEF OperatorStep, KeepsOrFrees, Queue!Abort, Queue!Finish, Queue!Idle
<1>4. CASE Queue!CancelUpdate(o) \/ Queue!RetryUpdate(o)
  <2>1. req[o].job \in Job /\ req[o].pc \in {"cancel", "retry"}
    BY <1>0, <1>4
       DEF Queue!CancelUpdate, Queue!RetryUpdate, IInv, Proven!IInv, Proven!SlotOK,
           Proven!Job, Job, Queue!Job
  <2>2. req' = [req EXCEPT ![o] = Queue!Idle] /\ Queue!Idle.pc = "idle"
    BY <1>4 DEF Queue!CancelUpdate, Queue!RetryUpdate, Queue!Finish, Queue!Idle
  <2>3. KeepsOrFrees
    BY <1>4, <2>1, TableTyped
       DEF Queue!CancelUpdate, Queue!RetryUpdate, Queue!Write, Queue!Retried,
           Queue!Unleased, Queue!Row, KeepsOrFrees
  <2> QED
    BY <1>0, <2>1, <2>2, <2>3, TableTyped DEF OperatorStep
<1>5. CASE Queue!ReleaseRow(o)
  <2>1. PICK row \in req[o].rows :
          /\ Queue!Write(row.job, Queue!Swept(jobs[row.job], row.requeue))
          /\ \/ req[o].rows = {row} /\ req' = [req EXCEPT ![o] = Queue!Idle]
             \/ req' = [req EXCEPT ![o].rows = @ \ {row}]
    BY <1>5 DEF Queue!ReleaseRow, Queue!Finish
  <2>2. row.job \in Job
    BY <1>0, <2>1 DEF Queue!Slot, Queue!StaleRow, Job, Queue!Job
  <2>3. KeepsOrFrees
    BY <2>1, <2>2, TableTyped DEF Queue!Write, Queue!Swept, Queue!Unleased, Queue!Row,
       KeepsOrFrees
  <2>4. req'[o].pc # "claim" /\ req'[o].rows = req[o].rows \ {row}
    BY <1>0, <2>1, TableTyped DEF Queue!Idle, Queue!Slot
  <2>5. \A r \in (Worker \union Operator) \ {o} : req'[r] = req[r]
    BY <2>1, TableTyped
  <2> QED
    BY <1>5, <2>1, <2>3, <2>4, <2>5 DEF OperatorStep
<1> QED
  BY <1>1, <1>2, <1>3, <1>4, <1>5 DEF OperatorStep

-----------------------------------------------------------------------------
LEMMA InitIInv == Init => IInv
<1> USE QueueAssumption
<1> SUFFICES ASSUME Init PROVE IInv
  OBVIOUS
<1>1. Proven!IInv
  BY SameTable, Proven!InitIInv DEF Init
<1>2. ProcessOK
  BY DEF Init, ProcessOK, Process, Works
<1>3. OwnClaims /\ OperatorsDoNotClaim
  BY DEF Init, Queue!Init, Queue!Idle, OwnClaims, OperatorsDoNotClaim
<1>4. LeaseHolderKnows
  BY DEF Init, Queue!Init, Job, LeaseHolderKnows
<1> QED
  BY <1>1, <1>2, <1>3, <1>4 DEF IInv

LEMMA InitOwnership == Init => Ownership
<1> SUFFICES ASSUME Init PROVE Ownership
  OBVIOUS
<1>1. \A w \in Worker : proc[w].pc = "poll" /\ proc[w].job = NULL
  BY DEF Init
<1> QED
  BY <1>1 DEF Init, Ownership, Works

\* The processes' part of the invariant.
Knowledge == ProcessOK /\ OwnClaims /\ OperatorsDoNotClaim /\ LeaseHolderKnows

\* The slots are as they were, and leases are at most lost.
LEMMA QueueQuiet ==
  ASSUME IInv, UNCHANGED <<req, proc, stopping>>, KeepsOrFrees
  PROVE  Knowledge'
<1>1. ProcessOK' /\ OwnClaims' /\ OperatorsDoNotClaim'
  BY DEF IInv, ProcessOK, OwnClaims, OperatorsDoNotClaim, At, Process, Job, Queue!Job
<1>2. LeaseHolderKnows'
  BY TableTyped DEF IInv, LeaseHolderKnows, KeepsOrFrees, At, Job, Queue!Job
<1> QED
  BY <1>1, <1>2 DEF Knowledge

\* One process moves on its own: it may forget its job only without a lease, or dying.
LEMMA ProcessMoves ==
  ASSUME IInv, NEW w \in Worker, NEW p \in Process,
         proc' = [proc EXCEPT ![w] = p], UNCHANGED stopping, KeepsOrFrees,
         req' = req \/ req' = [req EXCEPT ![w] = Queue!Idle],
         p.pc \in Works => p.job \in Job,
         req[w].pc = "claim" => p.pc = "exited",
         \A j \in Job : jobs'[j].locked_by = w =>
           p.pc = "exited" \/ (p.pc \in {"claimed", "work", "failing"} /\ p.job = j)
  PROVE  Knowledge'
<1>0. /\ proc \in [Worker -> Process] /\ proc' \in [Worker -> Process] /\ proc'[w] = p
      /\ \A v \in Worker \ {w} : proc'[v] = proc[v]
  BY DEF IInv, ProcessOK
<1>1. ProcessOK'
  BY <1>0 DEF IInv, ProcessOK, Process, Job, Queue!Job
<1>2. OwnClaims' /\ OperatorsDoNotClaim'
  <2>1. Queue!Idle.pc = "idle"
    BY DEF Queue!Idle
  <2> QED
    BY <1>0, <2>1, TableTyped DEF IInv, OwnClaims, OperatorsDoNotClaim
<1>3. LeaseHolderKnows'
  <2> SUFFICES ASSUME NEW j \in Job, NEW v \in Worker, jobs'[j].locked_by = v
               PROVE  \/ proc'[v].pc = "exited"
                      \/ proc'[v].pc \in {"claimed", "work", "failing"} /\ proc'[v].job = j
    BY DEF LeaseHolderKnows, At, Job, Queue!Job
  <2>1. CASE v = w
    BY <1>0, <2>1
  <2>2. CASE v # w
    <3>1. jobs[j].locked_by = v
      BY TableTyped DEF KeepsOrFrees
    <3> QED
      BY <1>0, <2>2, <3>1 DEF IInv, LeaseHolderKnows, At
  <2> QED
    BY <2>1, <2>2
<1> QED
  BY <1>1, <1>2, <1>3 DEF Knowledge

\* The process goes on with its job, holding no lease on any other.
LEMMA ProcessGoesOn ==
  ASSUME IInv, NEW w \in Worker, NEW pc \in {"work", "completed", "failing"},
         proc[w].pc \in Works,
         proc' = [proc EXCEPT ![w].pc = pc], UNCHANGED stopping, KeepsOrFrees, UNCHANGED req,
         \A j \in Job : jobs'[j].locked_by = w => pc # "completed" /\ proc[w].job = j
  PROVE  Knowledge'
<1> DEFINE p == [proc[w] EXCEPT !.pc = pc]
<1>1. proc[w] \in Process /\ proc[w].job \in Job
  BY DEF IInv, ProcessOK
<1>2. p \in Process /\ p.pc = pc /\ p.job = proc[w].job
  BY <1>1 DEF Process
<1>3. req[w].pc # "claim"
  BY DEF IInv, OwnClaims, Works
<1>4. proc' = [proc EXCEPT ![w] = p] /\ (req' = req \/ req' = [req EXCEPT ![w] = Queue!Idle])
  OBVIOUS
<1> HIDE DEF p
<1>5. \A j \in Job : jobs'[j].locked_by = w =>
        p.pc = "exited" \/ (p.pc \in {"claimed", "work", "failing"} /\ p.job = j)
  BY <1>2
<1>6. /\ p.pc \in Works => p.job \in Job
      /\ req[w].pc = "claim" => p.pc = "exited"
  BY <1>1, <1>2, <1>3
<1>7. p \in Process
  BY <1>2
<1> QED
  BY <1>4, <1>5, <1>6, <1>7, ProcessMoves

\* The process lets go of its job: alive it has no lease and no claim under way.
LEMMA ProcessLetsGo ==
  ASSUME IInv, NEW w \in Worker, NEW pc \in {"poll", "stopped", "exited"},
         proc' = [proc EXCEPT ![w] = [pc |-> pc, job |-> NULL]], UNCHANGED stopping,
         KeepsOrFrees, req' = req \/ req' = [req EXCEPT ![w] = Queue!Idle],
         pc # "exited" => proc[w].pc \in {"poll", "completed"}
  PROVE  Knowledge'
<1> DEFINE p == [pc |-> pc, job |-> NULL]
<1>1. p \in Process /\ p.pc = pc /\ p.pc \notin Works
  BY DEF Process, Works
<1>2. req[w].pc = "claim" => pc = "exited"
  BY DEF IInv, OwnClaims
<1>3. ASSUME NEW j \in Job, jobs'[j].locked_by = w PROVE pc = "exited"
  <2>1. jobs[j].locked_by = w
    BY <1>3, TableTyped DEF KeepsOrFrees
  <2> QED
    BY <2>1 DEF IInv, LeaseHolderKnows, At
<1>4. proc' = [proc EXCEPT ![w] = p]
  OBVIOUS
<1> HIDE DEF p
<1>5. \A j \in Job : jobs'[j].locked_by = w =>
        p.pc = "exited" \/ (p.pc \in {"claimed", "work", "failing"} /\ p.job = j)
  BY <1>1, <1>3
<1>6. /\ p.pc \in Works => p.job \in Job
      /\ req[w].pc = "claim" => p.pc = "exited"
  BY <1>1, <1>2
<1> QED
  BY <1>1, <1>4, <1>5, <1>6, ProcessMoves

LEMMA WorkerStepKnowledge ==
  ASSUME IInv, NEW w \in Worker, WorkerStep(w) \/ WorkerMishap(w)
  PROVE  Knowledge'
<1>0. /\ proc \in [Worker -> Process] /\ proc[w] \in Process /\ stopping \in SUBSET Worker
      /\ w \in Worker \union Operator
  BY DEF IInv, ProcessOK
<1>1. UNCHANGED jobs => KeepsOrFrees
  BY DEF KeepsOrFrees
<1>2. \A j \in Job : jobs[j].locked_by = w =>
        \/ proc[w].pc = "exited"
        \/ proc[w].pc \in {"claimed", "work", "failing"} /\ proc[w].job = j
  BY DEF IInv, LeaseHolderKnows, At
<1>3. /\ req[w].pc \in {"idle", "claim"}
      /\ req[w].pc = "claim" => proc[w].pc \in {"claim", "exited"}
  BY DEF IInv, OwnClaims
<1>4. proc[w].pc \in Works => proc[w].job \in Job
  BY DEF IInv, ProcessOK
<1>10. CASE Claim(w)
  <2>1. /\ proc[w].pc = "poll" /\ Queue!ClaimSelect(w, w) /\ UNCHANGED stopping
        /\ proc' = [proc EXCEPT ![w].pc = "claim"]
    BY <1>10 DEF Claim, At, Goto
  <2>2. /\ proc' \in [Worker -> Process] /\ proc'[w].pc = "claim"
        /\ \A v \in Worker \ {w} : proc'[v] = proc[v]
    BY <1>0, <2>1 DEF Process
  <2>3. /\ UNCHANGED jobs /\ req'[w].pc = "claim" /\ req'[w].worker = w
        /\ \A v \in Worker \ {w} : req'[v] = req[v]
        /\ \A o \in Operator : req'[o] = req[o]
    BY <2>1, ClaimStarts, OperatorAssumption
  <2>4. ProcessOK'
    BY <1>0, <2>1, <2>2 DEF IInv, ProcessOK, Works, Process, Job, Queue!Job
  <2>5. OwnClaims' /\ OperatorsDoNotClaim'
    BY <2>2, <2>3 DEF IInv, OwnClaims, OperatorsDoNotClaim
  <2>6. LeaseHolderKnows'
    BY <1>2, <2>1, <2>2, <2>3 DEF IInv, LeaseHolderKnows, At, Job, Queue!Job
  <2> QED
    BY <2>4, <2>5, <2>6 DEF Knowledge
<1>11. CASE ClaimServed(w)
  <2> DEFINE j == req[w].job
             served == [pc |-> "claimed", job |-> j]
  <2>1. /\ Queue!ClaimCommit(w) /\ req[w].pc = "claim" /\ UNCHANGED stopping
        /\ proc' = IF At(w, "claim") THEN [proc EXCEPT ![w] = served] ELSE proc
    BY <1>11 DEF ClaimServed, Queue!ClaimCommit
  <2>2. /\ j \in Job /\ jobs'[j].locked_by = w
        /\ req' = [req EXCEPT ![w] = Queue!Idle] /\ Queue!Idle.pc = "idle"
        /\ \A i \in Job \ {j} : jobs'[i] = jobs[i]
    BY <2>1, ClaimGrants DEF Queue!Idle
  <2>3. proc[w].pc \in {"claim", "exited"}
    BY <1>3, <2>1
  <2>4. /\ proc' \in [Worker -> Process]
        /\ \A v \in Worker \ {w} : proc'[v] = proc[v]
        /\ proc'[w].pc = "exited" \/ proc'[w] = served
    BY <1>0, <2>1, <2>2, <2>3 DEF At, Process
  <2>5. ProcessOK'
    BY <1>0, <2>1, <2>2, <2>4 DEF IInv, ProcessOK, Works, Process, Job, Queue!Job
  <2>6. OwnClaims' /\ OperatorsDoNotClaim'
    BY <2>2, <2>4, TableTyped, OperatorAssumption DEF IInv, OwnClaims, OperatorsDoNotClaim
  <2>7. ASSUME NEW i \in Job \ {j}, jobs'[i].locked_by = w PROVE proc'[w].pc = "exited"
    <3>1. proc[w].pc = "exited"
      BY <1>2, <2>2, <2>3, <2>7
    <3> QED
      BY <2>1, <3>1 DEF At
  <2>8. LeaseHolderKnows'
    BY <2>2, <2>4, <2>7 DEF IInv, LeaseHolderKnows, At, Job, Queue!Job
  <2> QED
    BY <2>5, <2>6, <2>8 DEF Knowledge
<1>12. CASE ClaimFails(w)
  <2>1. /\ proc' = [proc EXCEPT ![w] = [pc |-> "exited", job |-> NULL]]
        /\ UNCHANGED stopping /\ UNCHANGED jobs /\ req' = [req EXCEPT ![w] = Queue!Idle]
    BY <1>12 DEF ClaimFails, Exit, Queue!Abort, Queue!Finish
  <2> QED
    BY <1>1, <2>1, ProcessLetsGo
<1>13. CASE ClaimReply(w)
  <2>1. /\ proc' = [proc EXCEPT ![w].pc = "work"] /\ UNCHANGED stopping /\ UNCHANGED req
        /\ UNCHANGED jobs /\ proc[w].pc = "claimed"
    BY <1>13 DEF ClaimReply, Goto, At, queueVars
  <2>2. \A j \in Job : jobs'[j].locked_by = w => proc[w].job = j
    BY <1>2, <2>1
  <2> QED
    BY <1>1, <2>1, <2>2, ProcessGoesOn DEF Works
<1>14. CASE Complete(w)
  <2>1. /\ proc' = [proc EXCEPT ![w].pc = "completed"] /\ UNCHANGED stopping
        /\ proc[w].pc = "work" /\ Queue!MarkCompleted(proc[w].job) /\ proc[w].job \in Job
    BY <1>4, <1>14 DEF Complete, Goto, At, Works
  <2>2. /\ UNCHANGED req /\ jobs'[proc[w].job].locked_by = NULL
        /\ \A i \in Job \ {proc[w].job} : jobs'[i] = jobs[i]
    BY <2>1, Mark
  <2>3. KeepsOrFrees /\ \A i \in Job : jobs'[i].locked_by # w
    BY <1>2, <2>1, <2>2, TableTyped DEF KeepsOrFrees
  <2> QED
    BY <2>1, <2>2, <2>3, ProcessGoesOn DEF Works
<1>15. CASE CompleteReply(w)
  <2>1. /\ proc' = [proc EXCEPT ![w] = [pc |-> "poll", job |-> NULL]]
        /\ UNCHANGED stopping /\ UNCHANGED req /\ UNCHANGED jobs /\ proc[w].pc = "completed"
    BY <1>15 DEF CompleteReply, At, queueVars
  <2> QED
    BY <1>1, <2>1, ProcessLetsGo
<1>16. CASE ReportFailure(w)
  <2>1. /\ proc' = [proc EXCEPT ![w].pc = "failing"] /\ UNCHANGED stopping /\ UNCHANGED req
        /\ UNCHANGED jobs /\ proc[w].pc \in {"work", "completed"}
    BY <1>16 DEF ReportFailure, Goto, At, queueVars
  <2>2. \A j \in Job : jobs'[j].locked_by = w => proc[w].job = j
    BY <1>2, <2>1
  <2> QED
    BY <1>1, <2>1, <2>2, ProcessGoesOn DEF Works
<1>17. CASE Fail(w)
  <2>1. /\ proc' = [proc EXCEPT ![w] = [pc |-> "exited", job |-> NULL]]
        /\ UNCHANGED stopping
        /\ Queue!MarkFailed(proc[w].job) /\ proc[w].job \in Job
    BY <1>4, <1>17 DEF Fail, Exit, At, Works
  <2>2. /\ UNCHANGED req /\ jobs'[proc[w].job].locked_by = NULL
        /\ \A i \in Job \ {proc[w].job} : jobs'[i] = jobs[i]
    BY <2>1, Mark
  <2>3. KeepsOrFrees
    BY <2>2 DEF KeepsOrFrees
  <2> QED
    BY <2>1, <2>2, <2>3, ProcessLetsGo
<1>18. CASE Stop(w)
  <2>1. UNCHANGED <<jobs, req, proc>> /\ stopping' \in SUBSET Worker
    BY <1>0, <1>18 DEF Stop, queueVars
  <2> QED
    BY <2>1 DEF Knowledge, IInv, ProcessOK, OwnClaims, OperatorsDoNotClaim,
       LeaseHolderKnows, At, Process, Job, Queue!Job
<1>19. CASE LoopEnds(w)
  <2>1. /\ proc' = [proc EXCEPT ![w] = [pc |-> "stopped", job |-> NULL]]
        /\ UNCHANGED stopping /\ UNCHANGED req /\ UNCHANGED jobs /\ proc[w].pc = "poll"
    BY <1>19 DEF LoopEnds, Exit, At, queueVars
  <2> QED
    BY <1>1, <2>1, ProcessLetsGo
<1>20. CASE Crash(w)
  <2>1. /\ proc' = [proc EXCEPT ![w] = [pc |-> "exited", job |-> NULL]]
        /\ UNCHANGED stopping /\ UNCHANGED req /\ UNCHANGED jobs
    BY <1>20 DEF Crash, Exit, queueVars
  <2> QED
    BY <1>1, <2>1, ProcessLetsGo
<1> QED
  BY <1>10, <1>11, <1>12, <1>13, <1>14, <1>15, <1>16, <1>17, <1>18, <1>19, <1>20
     DEF WorkerStep, WorkerMishap

LEMMA NextIInv == IInv /\ [Next]_vars => IInv'
<1> SUFFICES ASSUME IInv, [Next]_vars PROVE IInv'
  OBVIOUS
<1>1. Proven!IInv'
  BY QueueSteps, Proven!NextIInv, QueueAssumption DEF IInv
<1>2. Knowledge'
  <2>1. ASSUME NEW w \in Worker, WorkerStep(w) \/ WorkerMishap(w) PROVE Knowledge'
    BY <2>1, WorkerStepKnowledge
  <2>2. ASSUME NEW o \in Operator, OperatorStep(o) PROVE Knowledge'
    <3>1. /\ KeepsOrFrees /\ UNCHANGED <<proc, stopping>> /\ req'[o].pc # "claim"
          /\ \A r \in (Worker \union Operator) \ {o} : req'[r] = req[r]
      BY <2>2, OperatorActs
    <3>2. \A w \in Worker : req'[w] = req[w]
      BY <3>1, OperatorAssumption
    <3>3. ProcessOK' /\ OwnClaims' /\ OperatorsDoNotClaim'
      BY <3>1, <3>2
         DEF IInv, ProcessOK, OwnClaims, OperatorsDoNotClaim, Process, Job, Queue!Job
    <3>4. LeaseHolderKnows'
      BY <3>1, TableTyped DEF IInv, LeaseHolderKnows, KeepsOrFrees, At, Job, Queue!Job
    <3> QED
      BY <3>3, <3>4 DEF Knowledge
  <2>3. CASE Environment
    <3>1. KeepsOrFrees /\ UNCHANGED <<req, proc, stopping>>
      BY <2>3, CreateOrAge DEF Environment, KeepsOrFrees
    <3> QED
      BY <3>1, QueueQuiet
  <2>4. CASE UNCHANGED vars
    BY <2>4, QueueQuiet DEF vars, KeepsOrFrees
  <2> QED
    BY <2>1, <2>2, <2>3, <2>4 DEF Next
<1> QED
  BY <1>1, <1>2 DEF IInv, Knowledge

-----------------------------------------------------------------------------
(* Whose job it is. *)

\* A job that two workers have in hand has been written by an operator.
LEMMA OneOwner ==
  ASSUME IInv, Ownership, NEW v \in Worker, NEW w \in Worker, v # w,
         proc[v].job # NULL, proc[v].job = proc[w].job
  PROVE  proc[v].job \in taken
BY DEF Ownership, Owns

\* One process moves, and no row changes but that of the job it has in hand.
LEMMA OwnershipKept ==
  ASSUME IInv, Ownership, NEW w \in Worker, NEW p \in Process,
         proc' = [proc EXCEPT ![w] = p],
         p.job # NULL => p.pc \in Works,
         p.pc \in Works => p.job = proc[w].job,
         verdict' \in [Job -> Worker \union {NULL}], UNCHANGED taken,
         \A j \in Job \ {proc[w].job} : jobs'[j] = jobs[j] /\ verdict'[j] = verdict[j],
         p.pc \in Works /\ p.job \notin taken =>
           \/ /\ jobs'[p.job].status = "processing" /\ jobs'[p.job].locked_by = w
              /\ p.pc # "completed"
           \/ /\ jobs'[p.job].status = "completed" /\ verdict'[p.job] = w
              /\ p.pc \in {"completed", "failing"}
  PROVE  Ownership'
<1>0. /\ proc \in [Worker -> Process] /\ proc'[w] = p
      /\ \A v \in Worker \ {w} : proc'[v] = proc[v]
      /\ \A v \in Worker : proc[v].pc \in Works => proc[v].job \in Job
      /\ NULL \notin Job
  BY QueueAssumption DEF IInv, ProcessOK, Job, Queue!Job
<1>1. (taken \in SUBSET Job)'
  BY DEF Ownership, Job, Queue!Job
<1>2. (verdict \in [Job -> Worker \union {NULL}])'
  BY DEF Job, Queue!Job
<1>3. ASSUME NEW v \in Worker \ {w}, proc[v].pc \in Works, proc[v].job \notin taken
      PROVE  Owns(v, proc[v].job)'
  <2>1. proc[v].job \in Job \ {proc[w].job}
    BY <1>0, <1>3, OneOwner
  <2>2. Owns(v, proc[v].job)
    BY <1>3 DEF Ownership
  <2> QED
    BY <1>0, <2>1, <2>2 DEF Owns
<1>4. p.pc \in Works /\ p.job \notin taken => Owns(w, p.job)'
  BY <1>0 DEF Owns
<1>5. ASSUME NEW v \in Worker
      PROVE  /\ (proc[v].job # NULL => proc[v].pc \in Works)'
             /\ (proc[v].pc \in Works /\ proc[v].job \notin taken => Owns(v, proc[v].job))'
  <2>1. CASE v = w
    BY <1>0, <1>4, <2>1 DEF Owns
  <2>2. CASE v # w
    BY <1>0, <1>3, <2>2 DEF Ownership, Owns
  <2> QED
    BY <2>1, <2>2
<1> QED
  BY <1>1, <1>2, <1>5 DEF Ownership

\* No process moves, and no row of a job in hand changes status or lease without being taken.
LEMMA OwnershipQuiet ==
  ASSUME IInv, Ownership, UNCHANGED <<proc, verdict>>, taken \subseteq taken',
         taken' \in SUBSET Job,
         \A w \in Worker : proc[w].pc \in Works /\ proc[w].job \notin taken' =>
           /\ jobs'[proc[w].job].status = jobs[proc[w].job].status
           /\ jobs'[proc[w].job].locked_by = jobs[proc[w].job].locked_by
  PROVE  Ownership'
<1>1. (verdict \in [Job -> Worker \union {NULL}] /\ taken \in SUBSET Job)'
  BY DEF Ownership, Job, Queue!Job
<1>2. ASSUME NEW w \in Worker
      PROVE  /\ (proc[w].job # NULL => proc[w].pc \in Works)'
             /\ (proc[w].pc \in Works /\ proc[w].job \notin taken => Owns(w, proc[w].job))'
  BY DEF Ownership, Owns
<1> QED
  BY <1>1, <1>2 DEF Ownership

\* A claim is granted on a pending row: nobody owns it, and whoever still has the job in
\* hand has been deprived of it.
LEMMA ServedOwnership ==
  ASSUME IInv, Ownership, NEW w \in Worker, ClaimServed(w)
  PROVE  Ownership'
<1> DEFINE j == req[w].job
           served == [pc |-> "claimed", job |-> j]
<1>1. /\ Queue!ClaimCommit(w) /\ req[w].pc = "claim"
      /\ proc' = IF At(w, "claim") THEN [proc EXCEPT ![w] = served] ELSE proc
      /\ taken' = IF \E v \in Worker : Has(v, j) THEN taken ELSE taken \ {j}
      /\ UNCHANGED verdict
  BY DEF ClaimServed, Queue!ClaimCommit
<1>2. /\ j \in Job /\ jobs[j].status = "pending"
      /\ jobs'[j].locked_by = w /\ jobs'[j].status = "processing"
      /\ \A i \in Job \ {j} : jobs'[i] = jobs[i]
  BY <1>1, ClaimGrants
<1>3. proc \in [Worker -> Process] /\ proc[w].pc \in {"claim", "exited"}
  BY <1>1 DEF IInv, ProcessOK, OwnClaims
<1>4. proc[w].job = NULL /\ proc[w].pc \notin Works /\ j # NULL
  BY <1>2, <1>3, QueueAssumption DEF Ownership, Works, Job, Queue!Job
<1>5. /\ \A v \in Worker \ {w} : proc'[v] = proc[v]
      /\ proc'[w] = served \/ proc'[w] = proc[w]
  BY <1>1, <1>3 DEF At
<1>6. ASSUME NEW v \in Worker, proc[v].pc \in Works, proc[v].job \notin taken'
      PROVE  proc[v].job \notin taken /\ proc[v].job \in Job \ {j} /\ v # w
  <2>1. proc[v].job \in Job
    BY <1>6 DEF IInv, ProcessOK
  <2>2. proc[v].job \notin taken
    BY <1>1, <1>6 DEF Has
  <2>3. Owns(v, proc[v].job)
    BY <1>6, <2>2 DEF Ownership
  <2> QED
    BY <1>2, <1>4, <1>6, <2>1, <2>2, <2>3 DEF Owns
<1>7. \A v \in Worker : Has(v, j) => proc[v].pc \in Works
  BY <1>4 DEF Has, Ownership
<1>8. (verdict \in [Job -> Worker \union {NULL}] /\ taken \in SUBSET Job)'
  BY <1>1 DEF Ownership, Job, Queue!Job
<1> HIDE DEF j
<1>9. ASSUME NEW v \in Worker
      PROVE  /\ (proc[v].job # NULL => proc[v].pc \in Works)'
             /\ (proc[v].pc \in Works /\ proc[v].job \notin taken => Owns(v, proc[v].job))'
  <2>1. CASE v = w /\ proc'[w] = served
    BY <1>2, <2>1 DEF Owns, Works
  <2>2. CASE proc'[v] = proc[v]
    <3>1. ASSUME proc[v].pc \in Works, proc[v].job \notin taken'
          PROVE  Owns(v, proc[v].job)'
      BY <1>1, <1>2, <1>6, <2>2, <3>1 DEF Ownership, Owns
    <3> QED
      BY <2>2, <3>1 DEF Ownership, Owns
  <2> QED
    BY <1>5, <2>1, <2>2
<1> QED
  BY <1>8, <1>9 DEF Ownership

LEMMA WorkerStepOwnership ==
  ASSUME IInv, Ownership, NEW w \in Worker, WorkerStep(w) \/ WorkerMishap(w)
  PROVE  Ownership'
<1> DEFINE Untouched ==
             \A j \in Job \ {proc[w].job} : jobs'[j] = jobs[j] /\ verdict'[j] = verdict[j]
           p == proc'[w]
<1>0. /\ proc \in [Worker -> Process] /\ proc[w] \in Process
      /\ proc[w].pc \in Works => proc[w].job \in Job
      /\ proc[w].job # NULL => proc[w].pc \in Works
      /\ verdict \in [Job -> Worker \union {NULL}]
  BY DEF IInv, ProcessOK, Ownership
<1>1. CASE Claim(w)
  <2>1. /\ proc' = [proc EXCEPT ![w].pc = "claim"] /\ proc[w].pc = "poll"
        /\ UNCHANGED <<jobs, verdict, taken>>
    BY <1>1 DEF Claim, Goto, At, history, Queue!ClaimSelect
  <2>2. p = [proc[w] EXCEPT !.pc = "claim"] /\ proc' = [proc EXCEPT ![w] = p]
    BY <1>0, <2>1
  <2>3. p \in Process /\ p.pc = "claim" /\ p.job = NULL /\ p.pc \notin Works
    BY <1>0, <2>1, <2>2 DEF Process, Works
  <2> HIDE DEF p
  <2> QED
    BY <1>0, <2>1, <2>2, <2>3, OwnershipKept
<1>2. CASE ClaimServed(w)
  BY <1>2, ServedOwnership
<1>3. CASE ClaimReply(w) \/ ReportFailure(w)
  <2> DEFINE pc == IF ClaimReply(w) THEN "work" ELSE "failing"
  <2>1. /\ proc' = [proc EXCEPT ![w].pc = pc] /\ UNCHANGED <<jobs, verdict, taken>>
        /\ pc \in {"work", "failing"} /\ proc[w].pc \in {"claimed", "work", "completed"}
        /\ pc = "work" => proc[w].pc = "claimed"
    BY <1>3 DEF ClaimReply, ReportFailure, Goto, At, queueVars, history
  <2> HIDE DEF pc
  <2>2. p = [proc[w] EXCEPT !.pc = pc] /\ proc' = [proc EXCEPT ![w] = p]
    BY <1>0, <2>1
  <2>3. p \in Process /\ p.pc = pc /\ p.job = proc[w].job
    BY <1>0, <2>1, <2>2 DEF Process
  <2> HIDE DEF p
  <2>4. p.job \notin taken => Owns(w, p.job)
    BY <2>1, <2>3 DEF Ownership, Works
  <2>5. p.pc \in {"work", "failing"} /\ p.pc \in Works
    BY <2>1, <2>3 DEF Works
  <2>6. p.job \notin taken =>
          \/ jobs'[p.job].status = "processing" /\ jobs'[p.job].locked_by = w
          \/ /\ jobs'[p.job].status = "completed" /\ verdict'[p.job] = w
             /\ p.pc = "failing"
    BY <2>1, <2>3, <2>4 DEF Owns
  <2> QED
    BY <1>0, <2>1, <2>2, <2>3, <2>5, <2>6, OwnershipKept
<1>4. CASE Complete(w)
  <2>1. /\ proc' = [proc EXCEPT ![w].pc = "completed"] /\ proc[w].pc = "work"
        /\ Queue!MarkCompleted(proc[w].job) /\ proc[w].job \in Job
        /\ verdict' = [verdict EXCEPT ![proc[w].job] = w] /\ UNCHANGED taken
    BY <1>0, <1>4 DEF Complete, Goto, At, Works
  <2>2. p = [proc[w] EXCEPT !.pc = "completed"] /\ proc' = [proc EXCEPT ![w] = p]
    BY <1>0, <2>1
  <2>3. p \in Process /\ p.pc = "completed" /\ p.job = proc[w].job
    BY <1>0, <2>1, <2>2 DEF Process
  <2> HIDE DEF p
  <2>4. /\ jobs'[p.job].status = "completed"
        /\ \A i \in Job \ {proc[w].job} : jobs'[i] = jobs[i]
    BY <2>1, <2>3, Mark
  <2>5. /\ verdict' \in [Job -> Worker \union {NULL}] /\ verdict'[p.job] = w
        /\ \A i \in Job \ {proc[w].job} : verdict'[i] = verdict[i]
    BY <1>0, <2>1, <2>3
  <2> QED
    BY <1>0, <2>1, <2>2, <2>3, <2>4, <2>5, OwnershipKept DEF Works
<1>5. CASE Fail(w)
  <2>1. /\ proc' = [proc EXCEPT ![w] = [pc |-> "exited", job |-> NULL]]
        /\ Queue!MarkFailed(proc[w].job) /\ proc[w].job \in Job
        /\ UNCHANGED <<verdict, taken>>
    BY <1>0, <1>5 DEF Fail, Exit, At, Works, history
  <2>2. p = [pc |-> "exited", job |-> NULL] /\ proc' = [proc EXCEPT ![w] = p]
    BY <1>0, <2>1
  <2>3. p \in Process /\ p.pc \notin Works /\ p.job = NULL
    BY <2>2 DEF Process, Works
  <2> HIDE DEF p
  <2>4. \A i \in Job \ {proc[w].job} : jobs'[i] = jobs[i]
    BY <2>1, Mark
  <2> QED
    BY <1>0, <2>1, <2>2, <2>3, <2>4, OwnershipKept
<1>6. CASE CompleteReply(w) \/ LoopEnds(w) \/ Crash(w) \/ ClaimFails(w)
  <2>1. PICK pc \in {"poll", "stopped", "exited"} :
          /\ proc' = [proc EXCEPT ![w] = [pc |-> pc, job |-> NULL]]
          /\ UNCHANGED <<jobs, verdict, taken>>
    BY <1>6
       DEF CompleteReply, LoopEnds, Crash, ClaimFails, Exit, queueVars, history, Queue!Abort
  <2>2. p = [pc |-> pc, job |-> NULL] /\ proc' = [proc EXCEPT ![w] = p]
    BY <1>0, <2>1
  <2>3. p \in Process /\ p.pc \notin Works /\ p.job = NULL
    BY <2>2 DEF Process, Works
  <2> HIDE DEF p
  <2> QED
    BY <1>0, <2>1, <2>2, <2>3, OwnershipKept
<1>7. CASE Stop(w)
  BY <1>7, OwnershipQuiet DEF Stop, Ownership, queueVars, history
<1> QED
  BY <1>1, <1>2, <1>3, <1>4, <1>5, <1>6, <1>7 DEF WorkerStep, WorkerMishap

LEMMA NextOwnership == IInv /\ Ownership /\ [Next]_vars => Ownership'
<1> SUFFICES ASSUME IInv, Ownership, [Next]_vars PROVE Ownership'
  OBVIOUS
<1>1. ASSUME NEW w \in Worker, WorkerStep(w) \/ WorkerMishap(w) PROVE Ownership'
  BY <1>1, WorkerStepOwnership
<1>2. ASSUME NEW o \in Operator, OperatorStep(o) PROVE Ownership'
  <2>1. UNCHANGED <<proc, verdict>>
    BY <1>2 DEF OperatorStep
  <2>2. taken' =
          taken \union {j \in Job : jobs'[j] # jobs[j] /\ \E w \in Worker : Has(w, j)}
    BY <1>2 DEF OperatorStep
  <2>3. ASSUME NEW w \in Worker, proc[w].pc \in Works, proc[w].job \notin taken'
        PROVE  jobs'[proc[w].job] = jobs[proc[w].job]
    BY <2>2, <2>3 DEF IInv, ProcessOK, Has
  <2> QED
    BY <2>1, <2>2, <2>3, OwnershipQuiet DEF Ownership
<1>3. CASE Environment
  <2>1. PICK i \in Job : Queue!CreateIndexJob(i) \/ Queue!LeaseAges(i)
    BY <1>3 DEF Environment
  <2>2. UNCHANGED <<proc, verdict, taken>>
    BY <1>3 DEF Environment, history
  <2>3. \A j \in Job :
          /\ jobs'[j].locked_by = jobs[j].locked_by
          /\ jobs[j].status # "absent" => jobs'[j].status = jobs[j].status
    BY <2>1, CreateOrAge
  <2>4. ASSUME NEW w \in Worker, proc[w].pc \in Works, proc[w].job \notin taken
        PROVE  proc[w].job \in Job /\ jobs[proc[w].job].status # "absent"
    BY <2>4 DEF IInv, ProcessOK, Ownership, Owns
  <2> QED
    BY <2>2, <2>3, <2>4, OwnershipQuiet DEF Ownership
<1>4. CASE UNCHANGED vars
  BY <1>4, OwnershipQuiet DEF vars, Ownership
<1> QED
  BY <1>1, <1>2, <1>3, <1>4 DEF Next

THEOREM Invariance == Spec => [](IInv /\ Ownership)
BY InitIInv, NextIInv, InitOwnership, NextOwnership, PTL DEF Spec

-----------------------------------------------------------------------------
(* The results. *)

\* Queue, processes and slots of the composed system are well typed at every moment.
THEOREM TypeCorrect == Spec => []TypeOK
<1>1. IInv /\ Ownership => TypeOK
  BY SameTable DEF IInv, Proven!IInv, ProcessOK, Ownership, TypeOK
<1> QED
  BY <1>1, Invariance, PTL

\* The loop never goes back to claiming while its worker still holds a lease: only the
\* death of a process leaves a lease nobody works on.
THEOREM LeaseHolderKnowsHolds == Spec => []LeaseHolderKnows
<1>1. IInv => LeaseHolderKnows
  BY DEF IInv
<1> QED
  BY <1>1, Invariance, PTL

\* Only the worker whose report has completed a job may report its failure after all, or
\* one that had the job in hand when an operator wrote it; no claim and no death takes the
\* status "completed" from a job.
THEOREM OnlyOwnVerdictOverturnedHolds == Spec => OnlyOwnVerdictOverturned
<1> DEFINE Reopened(j) == jobs[j].status = "completed" /\ jobs'[j].status # "completed"
           Why(j) == \/ \E w \in Worker :
                          /\ At(w, "failing") /\ Has(w, j) /\ proc'[w] # proc[w]
                          /\ verdict[j] = w \/ j \in taken
                     \/ \E o \in Operator : req'[o] # req[o]
<1>1. ASSUME IInv, Ownership, [Next]_vars PROVE [\A j \in Job : Reopened(j) => Why(j)]_vars
  <2> SUFFICES ASSUME NEW j \in Job, Next, Reopened(j) PROVE Why(j)
    BY <1>1
  <2>1. ASSUME NEW w \in Worker, WorkerStep(w) \/ WorkerMishap(w) PROVE Why(j)
    <3>1. jobs' # jobs
      OBVIOUS
    <3>2. CASE ClaimServed(w)
      <4>1. Queue!ClaimCommit(w)
        BY <3>2 DEF ClaimServed
      <4>2. /\ jobs[req[w].job].status = "pending"
            /\ \A i \in Job \ {req[w].job} : jobs'[i] = jobs[i]
        BY <1>1, <4>1, ClaimGrants
      <4> QED
        BY <4>2
    <3>3. CASE Complete(w)
      <4>1. Queue!MarkCompleted(proc[w].job) /\ proc[w].job \in Job
        BY <1>1, <3>3 DEF Complete, At, IInv, ProcessOK, Works
      <4>2. /\ jobs'[proc[w].job].status = "completed"
            /\ \A i \in Job \ {proc[w].job} : jobs'[i] = jobs[i]
        BY <1>1, <4>1, Mark
      <4> QED
        BY <4>2
    <3>4. CASE Fail(w)
      <4>1. At(w, "failing") /\ Queue!MarkFailed(proc[w].job) /\ proc[w].job \in Job
        BY <1>1, <3>4 DEF Fail, At, IInv, ProcessOK, Works
      <4>2. \A i \in Job \ {proc[w].job} : jobs'[i] = jobs[i]
        BY <1>1, <4>1, Mark
      <4>3. j = proc[w].job
        BY <4>2
      <4>4. verdict[j] = w \/ j \in taken
        BY <1>1, <4>1, <4>3 DEF Ownership, Owns, Works, At
      <4>5. proc'[w] # proc[w]
        BY <1>1, <3>4 DEF Fail, At, Exit, IInv, ProcessOK
      <4> QED
        BY <4>1, <4>3, <4>4, <4>5 DEF Has
    <3>5. ~ (ClaimServed(w) \/ Complete(w) \/ Fail(w)) => UNCHANGED jobs
      BY <2>1
         DEF WorkerStep, WorkerMishap, Claim, ClaimReply, CompleteReply, LoopEnds,
             ClaimFails, ReportFailure, Stop, Crash, queueVars, Queue!ClaimSelect, Queue!Abort
    <3> QED
      BY <3>1, <3>2, <3>3, <3>4, <3>5
  <2>2. ASSUME NEW o \in Operator, OperatorStep(o) PROVE Why(j)
    <3>1. jobs' # jobs => req'[o] # req[o]
      BY <1>1, <2>2, OperatorActs
    <3> QED
      BY <3>1
  <2>3. CASE Environment
    <3>1. PICK i \in Job : Queue!CreateIndexJob(i) \/ Queue!LeaseAges(i)
      BY <2>3 DEF Environment
    <3>2. jobs[j].status # "absent" => jobs'[j].status = jobs[j].status
      BY <1>1, <3>1, CreateOrAge
    <3> QED
      BY <3>2
  <2> QED
    BY <2>1, <2>2, <2>3 DEF Next
<1> QED
  BY <1>1, Invariance, PTL DEF Spec, OnlyOwnVerdictOverturned

\* The queue keeps the promise of the abstract lease book when it is the worker processes
\* that use it, with their deaths, lost replies and repeated reports.
THEOREM ImplementsLeasesHolds == Spec => Proven!ImplementsLeases
<1>1. Init => Proven!Leases!Init
  BY SameTable, Proven!InitRefines, QueueAssumption DEF Init
<1>2. IInv /\ [Next]_vars => [Proven!Leases!Next]_(Proven!Leases!leases)
  BY QueueSteps, Proven!StepRefines, QueueAssumption DEF IInv
<1> QED
  BY <1>1, <1>2, Invariance, PTL DEF Spec, Proven!ImplementsLeases, Proven!Leases!Spec

-----------------------------------------------------------------------------
(* Workers alone. *)

OperatorsIdle == \A o \in Operator : req[o].pc = "idle"

\* Nobody but the workers has written a job since it was claimed.
AloneInv == alone => taken = {} /\ OperatorsIdle

LEMMA NextAlone ==
  IInv /\ AloneInv /\ [WorkersNext]_<<vars, alone>> => AloneInv'
<1> SUFFICES ASSUME IInv, AloneInv, [WorkersNext]_<<vars, alone>>, alone' PROVE AloneInv'
  BY DEF AloneInv
<1>1. CASE UNCHANGED <<vars, alone>>
  BY <1>1 DEF vars, AloneInv, OperatorsIdle
<1>2. CASE WorkersNext
  <2>1. /\ Next /\ alone
        /\ \A o \in Operator : req'[o] = req[o]
    BY <1>2 DEF WorkersNext
  <2>2. taken = {} /\ OperatorsIdle
    BY <2>1 DEF AloneInv
  <2>3. OperatorsIdle'
    BY <2>1, <2>2 DEF OperatorsIdle
  <2>4. ASSUME NEW w \in Worker, WorkerStep(w) \/ WorkerMishap(w) PROVE taken' = {}
    BY <2>2, <2>4
       DEF WorkerStep, WorkerMishap, Claim, ClaimServed, ClaimReply, Complete, CompleteReply,
           Fail, LoopEnds, ClaimFails, ReportFailure, Stop, Crash, history
  <2>5. ASSUME NEW o \in Operator, OperatorStep(o) PROVE taken' = {}
    <3>1. UNCHANGED jobs
      BY <2>1, <2>5, OperatorActs
    <3> QED
      BY <2>2, <2>5, <3>1 DEF OperatorStep
  <2>6. Environment => taken' = {}
    BY <2>2 DEF Environment, history
  <2> QED
    BY <2>1, <2>3, <2>4, <2>5, <2>6 DEF Next, AloneInv
<1> QED
  BY <1>1, <1>2

\* As long as no operator interferes, two workers never have the same job, whichever of
\* them die and whichever replies are lost.
THEOREM AloneOneWorkerPerJobHolds == WorkersSpec => []AloneOneWorkerPerJob
<1>1. WorkersInit => IInv /\ Ownership /\ AloneInv
  <2>1. Init => taken = {} /\ OperatorsIdle
    BY DEF Init, Queue!Init, Queue!Idle, OperatorsIdle
  <2> QED
    BY <2>1, InitIInv, InitOwnership DEF WorkersInit, AloneInv
<1>2. IInv /\ Ownership /\ AloneInv /\ [WorkersNext]_<<vars, alone>>
        => IInv' /\ Ownership' /\ AloneInv'
  <2>1. [WorkersNext]_<<vars, alone>> => [Next]_vars
    BY DEF WorkersNext
  <2> QED
    BY <2>1, NextIInv, NextOwnership, NextAlone
<1>3. IInv /\ Ownership /\ AloneInv => AloneOneWorkerPerJob
  BY OneOwner DEF AloneInv, AloneOneWorkerPerJob, OneWorkerPerJob
<1> QED
  BY <1>1, <1>2, <1>3, PTL DEF WorkersSpec
=============================================================================
