CONSTANTS
  NULL = NULL
  MAX_PROCS = 7
  MAX_PORTS = 6
  MAX_READY_QUEUES = 8
  MAX_KEYB_BUFFER = 2
  Keys = {"home", "tab"}
  Patient = TRUE
  NullWord = 9
  Data = {0, 1, 2, 3, 4, 5, 6}
  Calls = {"start", "wait", "poll"}
SPECIFICATION KSpec
INVARIANTS WaitersAreRecorded KeysGoToTheFocus
PROPERTIES ReadsReturnKeys
