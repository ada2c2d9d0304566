CONSTANTS
  KeepsResults = FALSE
  NULL = NULL
  MAX_PROCS = 4
  MAX_PORTS = 3
  MAX_READY_QUEUES = 2
  Data = {0, 2, 3}
  Payload <- MCPayload
  Priorities = {1}
  Calls = {"create_process", "send", "message", "receive", "reply",
           "isr_timer"}
SPECIFICATION GSpec
INVARIANTS BlockedListsAreQueues EverySenderGetsAReply
PROPERTIES ImplementsRendezvous
