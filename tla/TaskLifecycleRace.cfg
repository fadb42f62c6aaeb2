SPECIFICATION MCTaskSpec
CONSTANTS
  Client = {c1}
  TaskRequest = {r1, r2, r3}
  FirstStatus = {"failed"}
  Asked = {"archive", "retry"}
  Forced = {"start"}
  Patched = {"cancelled"}
  None = None
INVARIANT AnsweredIsRecorded
CHECK_DEADLOCK FALSE
