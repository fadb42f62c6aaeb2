---------------------------- MODULE MCRuntimeUse ----------------------------
(* Three uses of WorkerRuntime for TLC, of which one is chosen at the start: workers     *)
(* that wait for their answers, with all the jobs and limits; the composition of the two *)
(* services without discipline, with one job, one limit and one runtime request at a     *)
(* time; and the runtime by itself with all its requests and limits, but one worker.     *)
EXTENDS MCWorkerRuntime

VARIABLE use

RuntimeInit == Init /\ use \in {"serial", "services", "limits"}

\* The serial use runs no sweep: nothing reads how fresh a heartbeat is, and a claim
\* treats every inactive worker alike.
PausedOnly ==
  \A w \in Worker :
    /\ workers'[w].status \in {"absent", "active", "paused"}
    /\ workers'[w].fresh = (workers'[w].status # "absent")

RuntimeNext ==
  /\ UNCHANGED use
  /\ \/ use = "serial" /\ SerialNext /\ PausedOnly
     \/ use = "services" /\ Next /\ OneJob /\ OneLimit /\ OneRequest /\ NoneStale
     \/ use = "limits" /\ Next /\ OneJob /\ OneWorker /\ QueueIdle

RuntimeSpec == RuntimeInit /\ [][RuntimeNext]_<<vars, use>>

\* Workers that wait for each answer: active_job_count is the number of jobs the worker
\* holds, but for requests between the two updates; a claim takes it to max_concurrency
\* at most, and a registration that lowers that takes nothing back.
SerialCountExact == use = "serial" => CountMatchesLeases /\ ConcurrencyLimit
=============================================================================
