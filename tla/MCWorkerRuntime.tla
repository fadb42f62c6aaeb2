--------------------------- MODULE MCWorkerRuntime ---------------------------
(* Small instances of WorkerRuntime for TLC. *)
EXTENDS WorkerRuntime, TLC

\* Two workers and the request slots are interchangeable; jobs are not.
Symmetry ==
  Permutations(Worker) \union Permutations(Request) \union Permutations(RuntimeRequest)

\* The last job is urgent, the others are of the default priority.
LastIsHigh == [j \in 1..NumJobs |-> IF j = NumJobs THEN "high" ELSE "medium"]

(* Bounds on the uses that the runs choose between. *)

OneJob == \A j \in Job \ {1} : jobs'[j].status = "absent"

Only(w) ==
  \A v \in Worker \ {w} :
    /\ workers'[v].status = "absent" /\ \A j \in Job : jobs'[j].locked_by # v
    /\ \A r \in Request : req'[r].worker # v

OneWorker == \E w \in Worker : Only(w)

OneRequest == Cardinality({r \in RuntimeRequest : wreq'[r].pc # "idle"}) <= 1

\* The highest limit, or none yet.
OneLimit ==
  \A w \in Worker : workers'[w].limit = 0 \/ \A limit \in Limit : limit <= workers'[w].limit

\* IndexJobService, which touches no count, is called by its one-statement routes only.
QueueIdle == \A r \in Request : req'[r].pc = "idle"

\* Everything treats a worker that is marked stale as it treats a stopped one.
NoneStale == \A w \in Worker : workers'[w].status # "stale"
=============================================================================
