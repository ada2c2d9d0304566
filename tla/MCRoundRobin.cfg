CONSTANTS
  NULL = NULL
  MAX_PROCS = 6
  MAX_PORTS = 5
  MAX_READY_QUEUES = 8
  Ticks = {1}
  Data = {1}
SPECIFICATION TSpec
PROPERTIES RoundRobin
