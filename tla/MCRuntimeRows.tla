---------------------------- MODULE MCRuntimeRows ----------------------------
(* Three uses of WorkerRuntime for TLC, of which one is chosen at the start: several     *)
(* runtime requests at a time on one job of one worker, one request of each service on   *)
(* all the jobs of one worker, or one of the runtime's on all the jobs and workers.      *)
(* No bound stops a step that the fairness speaks of.                                    *)
EXTENDS MCWorkerRuntime

VARIABLE use

RowsInit == Init /\ use \in {"requests", "jobs", "workers"}

\* There is no symmetry to make the workers one: name one of them.
FirstWorker == Only(CHOOSE w \in Worker : TRUE)

\* Nothing a sweep does tells a paused worker from an active one.
NonePaused == \A w \in Worker : workers'[w].status # "paused"

\* The one-statement routes: the runtime's reports end a job in the same states.
NoneMarked == ~ \E j \in Job : Queue!MarkCompleted(j) \/ Queue!MarkFailed(j)

RowsNext ==
  /\ UNCHANGED use
  /\ Next /\ NoneStale /\ NonePaused
  /\ \/ use = "requests" /\ OneJob /\ FirstWorker
     \/ use = "jobs" /\ FirstWorker /\ OneRequest /\ NoneMarked
     \/ use = "workers" /\ OneRequest /\ NoneMarked /\ QueueIdle

RowsSpec == RowsInit /\ [][RowsNext]_<<vars, use>> /\ Fairness
=============================================================================
