SPECIFICATION Spec
CONSTANTS
  NumLocks = 3
  Path = {p1, p2}
  Worker = {w1}
  Request = {r1}
  SeesDue = FALSE
  NULL = NULL
SYMMETRY Symmetry
INVARIANT Exclusive
CHECK_DEADLOCK FALSE
