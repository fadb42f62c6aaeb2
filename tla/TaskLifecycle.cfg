SPECIFICATION MCTaskSpec
CONSTANTS
  Client = {c1, c2}
  TaskRequest = {r1, r2, r3}
  FirstStatus = {"failed"}
  Asked = {"archive"}
  Forced = {"start"}
  Patched = {"archived", "cancelled", ""}
  None = None
INVARIANTS
  TaskTypeOK
  AtomicWhilePoolLasts
  HistoryExplainsStatus
PROPERTIES
  ArchivedIsFinal
  EveryTaskRequestEnds
CHECK_DEADLOCK FALSE
