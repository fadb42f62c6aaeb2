---------------------------- MODULE MCIndexWorker ----------------------------
(* The index workers for TLC: alone with all the jobs, or together with operators and    *)
(* few jobs, which is chosen at the start.                                                *)
EXTENDS IndexWorker, TLC

CONSTANT NumOperated   \* jobs there are when operators act

VARIABLE alone

WorkersInit == Init /\ alone \in BOOLEAN

WorkersNext ==
  /\ Next
  /\ UNCHANGED alone
  /\ IF alone THEN \A o \in Operator : UNCHANGED req[o]
     ELSE \A j \in Job : j > NumOperated => UNCHANGED jobs[j]

WorkersSpec ==
  /\ WorkersInit /\ [][WorkersNext]_<<vars, alone>>
  /\ \A w \in Worker : WF_<<vars, alone>>(WorkerStep(w) /\ UNCHANGED alone)

\* Two workers without operators: see the properties of IndexWorker.
AloneOneWorkerPerJob == alone => OneWorkerPerJob
AlonePendingIsServed == alone => PendingIsServed
AloneClaimedIsFinished == alone => ClaimedIsFinished
=============================================================================
