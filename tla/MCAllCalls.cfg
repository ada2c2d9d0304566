CONSTANTS
  KeepsResults = FALSE
  NULL = NULL
  MAX_PROCS = 3
  MAX_PORTS = 4
  MAX_READY_QUEUES = 2
  Data = {0, 2}
  Payload <- MCPayload
  Priorities = {0, 1, 2}
  Calls = {"create_port", "create_process", "resign", "become_zombie",
           "open_port", "close_port", "send", "message", "receive", "reply",
           "wait_for_interrupt", "isr_timer", "isr_com1", "isr_keyb"}
SPECIFICATION GSpec
INVARIANTS GTypeOK NeverIdle WaitersAreRegistered RingsHoldTheReady NoLostWakeup
PROPERTIES ImplementsRendezvous DispatchesHighest
