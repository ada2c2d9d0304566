CONSTANTS
  KeepsResults = FALSE
  NULL = NULL
  MAX_PROCS = 3
  MAX_PORTS = 2
  MAX_READY_QUEUES = 2
  Data = {0}
  Payload <- MCPayload
  Priorities = {1}
  Calls = {"create_process", "resign", "become_zombie",
           "wait_for_interrupt", "isr_timer"}
SPECIFICATION GSpec
INVARIANTS ZombieNeverRuns
