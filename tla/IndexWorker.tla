----------------------------- MODULE IndexWorker -----------------------------
(***************************************************************************)
(* The index worker processes (workers/index-worker.ts) at work on the     *)
(* queue of IndexJobs.                                                     *)
(*                                                                         *)
(* A worker is a loop of HTTP calls: claim, process, report.  The service  *)
(* handles a claim in the slot of the worker that sent it; a reply still   *)
(* on its way is a program counter, since it may be lost.  Any failed call *)
(* but one ends the process: run() does not catch what runOnce() throws.   *)
(* Only a failure between the claim's reply and the report's is caught, to *)
(* report the job as failed before the process ends all the same.          *)
(***************************************************************************)
EXTENDS Naturals

CONSTANTS
  NumJobs, Worker, MaxAttempts, NULL,   \* as in IndexJobs
  Operator     \* slots for cancel, retry and sweep requests of others

ASSUME OperatorAssumption == Worker \intersect Operator = {}
ASSUME QueueAssumption ==
  /\ NumJobs \in Nat /\ MaxAttempts \in Nat
  /\ NULL \notin Worker \union Operator /\ NULL \notin Nat

VARIABLES
  jobs, rowlock, req,  \* the queue
  proc,                \* the worker processes
  stopping,            \* the workers that have been told to stop
  verdict,             \* history: the worker whose report last completed each job
  taken                \* history: jobs that an operator wrote while a worker had them

Queue == INSTANCE IndexJobs WITH Request <- Worker \union Operator

Job == Queue!Job

queueVars == <<jobs, rowlock, req>>
history == <<verdict, taken>>
vars == <<jobs, rowlock, req, proc, stopping, verdict, taken>>

\* "claimed" and "completed": the service has done its part and the reply is under way.
\* "stopped": the loop has ended; "exited": the process has died or thrown.
Process == [pc: {"poll", "claim", "claimed", "work", "completed", "failing",
                 "stopped", "exited"},
            job: Job \union {NULL}]

TypeOK ==
  /\ Queue!TypeOK
  /\ proc \in [Worker -> Process]
  /\ stopping \in SUBSET Worker
  /\ verdict \in [Job -> Worker \union {NULL}]
  /\ taken \in SUBSET Job

Init ==
  /\ Queue!Init
  /\ proc = [w \in Worker |-> [pc |-> "poll", job |-> NULL]]
  /\ stopping = {}
  /\ verdict = [j \in Job |-> NULL]
  /\ taken = {}

-----------------------------------------------------------------------------
At(w, pc) == proc[w].pc = pc

Goto(w, pc) == proc' = [proc EXCEPT ![w].pc = pc] /\ UNCHANGED stopping

\* The process has ended; it takes its knowledge of the job with it.
Exit(w, pc) == proc' = [proc EXCEPT ![w] = [pc |-> pc, job |-> NULL]] /\ UNCHANGED stopping

\* The process has the job in hand.
Has(w, j) == proc[w].job = j

Alive(w) == proc[w].pc \notin {"stopped", "exited"}

\* The loop asks for a job.  With none to claim the reply is null and it asks again.
Claim(w) ==
  /\ At(w, "poll")
  /\ w \notin stopping
  /\ Queue!ClaimSelect(w, w)
  /\ Goto(w, "claim")
  /\ UNCHANGED history

\* The service commits the claim; a worker that has died in between never hears of it.
ClaimServed(w) ==
  /\ Queue!ClaimCommit(w)
  /\ proc' = IF At(w, "claim")
               THEN [proc EXCEPT ![w] = [pc |-> "claimed", job |-> req[w].job]]
               ELSE proc
  /\ taken' = IF \E v \in Worker : Has(v, req[w].job) THEN taken ELSE taken \ {req[w].job}
  /\ UNCHANGED <<stopping, verdict>>

\* The handler fails or the API dies: the transaction is rolled back, the call throws.
ClaimFails(w) ==
  /\ Queue!Abort(w)
  /\ Exit(w, "exited")
  /\ UNCHANGED history

ClaimReply(w) ==
  /\ At(w, "claimed")
  /\ Goto(w, "work")
  /\ UNCHANGED <<queueVars, history>>

\* Slip: runOnce returns without having reported.
Complete_Forgets(w) ==
  /\ At(w, "work")
  /\ proc' = [proc EXCEPT ![w] = [pc |-> "poll", job |-> NULL]]
  /\ UNCHANGED <<queueVars, stopping, history>>

\* processJob has succeeded and the service has done the complete request.
Complete(w) ==
  /\ At(w, "work")
  /\ Queue!MarkCompleted(proc[w].job)
  /\ verdict' = [verdict EXCEPT ![proc[w].job] = w]
  /\ Goto(w, "completed")
  /\ UNCHANGED taken

\* The reply arrives: back to the loop.
CompleteReply(w) ==
  /\ At(w, "completed")
  /\ proc' = [proc EXCEPT ![w] = [pc |-> "poll", job |-> NULL]]
  /\ UNCHANGED <<queueVars, stopping, history>>

\* A file cannot be read, the complete request fails, or its reply is lost: caught.
ReportFailure(w) ==
  /\ proc[w].pc \in {"work", "completed"}
  /\ Goto(w, "failing")
  /\ UNCHANGED <<queueVars, history>>

\* The service does the fail request; the error is thrown again and ends the process.
Fail(w) ==
  /\ At(w, "failing")
  /\ Queue!MarkFailed(proc[w].job)
  /\ Exit(w, "exited")
  /\ UNCHANGED history

\* SIGINT, SIGTERM
Stop(w) ==
  /\ Alive(w)
  /\ stopping' = stopping \union {w}
  /\ UNCHANGED <<queueVars, proc, history>>

\* The flag is looked at between two runs of runOnce.
LoopEnds(w) ==
  /\ w \in stopping
  /\ At(w, "poll")
  /\ Exit(w, "stopped")
  /\ UNCHANGED <<queueVars, history>>

\* The process is killed, or a call outside the try block fails or loses its reply.
Crash(w) ==
  /\ Alive(w)
  /\ Exit(w, "exited")
  /\ UNCHANGED <<queueVars, history>>

\* What the worker and the service do by themselves, if nothing goes wrong.
WorkerStep(w) ==
  \/ Claim(w) \/ ClaimServed(w) \/ ClaimReply(w)
  \/ Complete(w) \/ CompleteReply(w)
  \/ Fail(w) \/ LoopEnds(w)

WorkerMishap(w) == ClaimFails(w) \/ ReportFailure(w) \/ Stop(w) \/ Crash(w)

OperatorStep(o) ==
  /\ \/ \E j \in Job : Queue!CancelCheck(o, j) \/ Queue!RetryCheck(o, j)
     \/ Queue!ReleaseSelect(o)
     \/ Queue!CancelUpdate(o) \/ Queue!RetryUpdate(o) \/ Queue!ReleaseRow(o)
     \/ Queue!Abort(o)
  /\ taken' = taken \union {j \in Job : jobs'[j] # jobs[j] /\ \E w \in Worker : Has(w, j)}
  /\ UNCHANGED <<proc, stopping, verdict>>

Environment ==
  /\ \E j \in Job : Queue!CreateIndexJob(j) \/ Queue!LeaseAges(j)
  /\ UNCHANGED <<proc, stopping, history>>

Next ==
  \/ \E w \in Worker : WorkerStep(w) \/ WorkerMishap(w)
  \/ \E o \in Operator : OperatorStep(o)
  \/ Environment

Spec == Init /\ [][Next]_vars

(***************************************************************************)
(* A live process goes on: the loop polls for as long as it is not         *)
(* stopped, and the service answers it.  Nothing obliges a process to die, *)
(* a call to fail or an operator to act.                                   *)
(***************************************************************************)
FairSpec == Spec /\ \A w \in Worker : WF_vars(WorkerStep(w))

-----------------------------------------------------------------------------
(* Properties *)

\* A leased job is the one its worker is working on, or its worker is dead: whatever
\* operators do, the loop never goes back to claiming while it still holds a lease.
LeaseHolderKnows ==
  \A j \in Job, w \in Worker : jobs[j].locked_by = w =>
    \/ At(w, "exited")
    \/ proc[w].pc \in {"claimed", "work", "failing"} /\ proc[w].job = j

\* Without operators, two workers never have the same job: the claims share nothing but
\* the row lock.
OneWorkerPerJob ==
  \A v, w \in Worker :
    v # w /\ proc[v].job # NULL /\ proc[w].job # NULL => proc[v].job # proc[w].job

\* A report of failure overturns a completion only if it is the same worker's, which has
\* lost the reply, or if an operator has written the job while a worker had it in hand:
\* a swept worker may fail what its successor has completed.  Else only an operator takes
\* a job out of "completed".
OnlyOwnVerdictOverturned ==
  [][\A j \in Job :
       jobs[j].status = "completed" /\ jobs'[j].status # "completed"
         => \/ \E w \in Worker :
                 /\ At(w, "failing") /\ Has(w, j) /\ proc'[w] # proc[w]
                 /\ verdict[j] = w \/ j \in taken
            \/ \E o \in Operator : req'[o] # req[o]]_vars

\* Without operators, a pending job is claimed in the end, unless no worker is left.
PendingIsServed ==
  \A j \in Job :
    jobs[j].status = "pending" ~>
      jobs[j].status # "pending" \/ \A w \in Worker : ~ Alive(w)

\* Without operators, a claimed job is finished in the end, unless its worker has died.
ClaimedIsFinished ==
  \A j \in Job :
    jobs[j].status = "processing" ~>
      \/ jobs[j].status \in {"completed", "failed"}
      \/ \E w \in Worker : jobs[j].locked_by = w /\ At(w, "exited")
=============================================================================
