SPECIFICATION WorkersSpec
CONSTANTS
  NumJobs = 3
  NumOperated = 1
  Worker = {w1, w2}
  Operator = {o1, o2}
  MaxAttempts = 2
  NULL = NULL
INVARIANTS
  LeaseHolderKnows
  AloneOneWorkerPerJob
PROPERTIES
  OnlyOwnVerdictOverturned
  AlonePendingIsServed
  AloneClaimedIsFinished
CHECK_DEADLOCK FALSE
