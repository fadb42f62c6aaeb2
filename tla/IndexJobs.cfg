SPECIFICATION Spec
CONSTANTS
  NumJobs = 2
  Worker = {w1, w2}
  Request = {r1, r2, r3}
  MaxAttempts = 2
  NULL = NULL
SYMMETRY Symmetry
INVARIANTS
  TypeOK
  LeaseMatchesStatus
  AttemptsWithinLimit
PROPERTIES
  NoLeaseTheft
  ImplementsLeases
