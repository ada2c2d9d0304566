CONSTANTS
  NULL = NULL
  MAX_PROCS = 6
  MAX_PORTS = 6
  MAX_READY_QUEUES = 8
  MAX_KEYB_BUFFER = 2
  Keys = {"a", "tab", "arrow"}
  Patient = FALSE
  NullWord = 9
  Data = {0, 1, 2, 3, 4, 5}
  Calls = {"wait", "update"}
SPECIFICATION KSpec
INVARIANTS NoWindowNoKey
