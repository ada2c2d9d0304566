CONSTANTS
  NULL = NULL
  MAX_PROCS = 6
  MAX_PORTS = 6
  MAX_READY_QUEUES = 8
  MAX_KEYB_BUFFER = 2
  Keys = {"a", "arrow"}
  Patient = TRUE
  NullWord = 9
  Data = {0, 1, 2, 3, 4, 5}
  Calls = {"wait", "poll", "update"}
SPECIFICATION KSpec
INVARIANTS KeybIsSound
PROPERTIES PollsReturn
