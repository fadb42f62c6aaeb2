SPECIFICATION RuntimeSpec
CONSTANTS
  NumJobs = 3
  Worker = {w1, w2}
  Request = {q1}
  MaxAttempts = 2
  NULL = NULL
  RuntimeRequest = {r1, r2}
  Limit = {1, 2}
  Priority <- LastIsHigh
SYMMETRY Symmetry
INVARIANTS
  TypeOK
  AttemptsOverrunBounded
  CountBounded
  SerialCountExact
PROPERTIES
  NoLeaseTheft
CHECK_DEADLOCK FALSE
