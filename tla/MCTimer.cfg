CONSTANTS
  NULL = NULL
  MAX_PROCS = 6
  MAX_PORTS = 5
  MAX_READY_QUEUES = 8
  Ticks = {0, 1, 2}
  Data = {0, 1, 2}
SPECIFICATION TSpec
INVARIANTS TimerIsSound ProgramsLeaveTheTimerIdle SleepersAreCounted
PROPERTIES SleepsLongEnough EverySleepEnds
