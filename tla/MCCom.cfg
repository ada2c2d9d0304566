CONSTANTS
  NULL = NULL
  MAX_PROCS = 6
  MAX_PORTS = 6
  MAX_READY_QUEUES = 8
  Lengths = {0, 1, 2}
  Data = {0, 1, 2, 3, 4, 5}
SPECIFICATION CSpec
INVARIANTS ComIsSound OneRequestAtATime
PROPERTIES AnswersAreComplete EveryRequestEnds
