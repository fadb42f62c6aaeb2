SPECIFICATION GraphSpec
CONSTANTS
  Fact <- MCFact
  HandEdge = {}
  SyncRequest = {y1}
INVARIANT SyncedRelationsExist
CHECK_DEADLOCK FALSE
