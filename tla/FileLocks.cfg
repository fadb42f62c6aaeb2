SPECIFICATION FairSpec
CONSTANTS
  NumLocks = 2
  Path = {p1}
  Worker = {w1}
  Request = {r1, r2}
  SeesDue = TRUE
  NULL = NULL
INVARIANT TypeOK
PROPERTIES
  EndedStaysEnded
  EveryRequestEnds
CHECK_DEADLOCK FALSE
