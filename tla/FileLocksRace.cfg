SPECIFICATION Spec
CONSTANTS
  NumLocks = 2
  Path = {p1}
  Worker = {w1}
  Request = {r1, r2}
  SeesDue = FALSE
  NULL = NULL
INVARIANT Exclusive
CHECK_DEADLOCK FALSE
