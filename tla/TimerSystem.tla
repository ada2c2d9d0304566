----------------------------- MODULE TimerSystem -----------------------------
(***************************************************************************)
(* The timer service with programs of priority 5 (that of the shell, train *)
(* and pong processes) that compute and sleep, from the boot process's     *)
(* call of init_timer on.  The boot process then starts a program for      *)
(* every PCB that is left and becomes a zombie.                            *)
(***************************************************************************)
EXTENDS Timer

CONSTANT Ticks        \* the arguments of sleep()

(* They are ints, so there is a longest sleep. *)
ASSUME TicksAssumption ==
  Ticks \subseteq Nat /\ \E n \in Ticks : \A m \in Ticks : m <= n

(* kernel.h has room for more than the boot, null and timer processes, the *)
(* priorities 0 .. 7, and a port for every process but the boot process.   *)
ASSUME RoomAssumption ==
  MAX_PROCS >= 4 /\ MAX_READY_QUEUES >= 8 /\ MAX_PORTS >= MAX_PROCS - 1

VARIABLES
  request,   \* ticks a program has asked to sleep for, NULL when it is awake
  elapsed    \* timer interrupts since, up to LongestSleep

timerSystemVars == <<vars, received, progVars, timerVars, request, elapsed>>

LongestSleep == CHOOSE n \in Ticks : \A m \in Ticks : m <= n

TInit == /\ ProgramsInit("init_timer")
         /\ TimerInit
         /\ request = [p \in Proc |-> NULL]
         /\ elapsed = [p \in Proc |-> 0]

(* A sleeper that has been made ready is awake. *)
Awake == /\ request' = [p \in Proc |-> IF rq'.state[p] = "READY" THEN NULL
                                       ELSE request[p]]
         /\ elapsed' = [p \in Proc |-> IF rq'.state[p] = "READY" THEN 0
                                       ELSE elapsed[p]]

BootProgram(p) ==
  /\ \/ init_timer(p, "create_programs")
     \/ /\ Runs(p, "create_programs") /\ next_free_pcb # NULL
        /\ Create(p, "program", 5, "create_programs")
        /\ UNCHANGED timerVars
     \/ /\ Runs(p, "create_programs") /\ next_free_pcb = NULL
        /\ Dies(p)
        /\ UNCHANGED timerVars
  /\ UNCHANGED <<request, elapsed>>

(* A program computes, which changes nothing here, or sleeps. *)
Sleep(p) == \E n \in Ticks :
  /\ Runs(p, "program")
  /\ sleep(p, n, "program")
  /\ request' = [request EXCEPT ![p] = n]
  /\ UNCHANGED elapsed

TimerNotifier(p) == timer_notifier(p) /\ UNCHANGED <<request, elapsed>>
TimerProcess(p) == timer_process(p) /\ Awake
Return(p) == Continue(p) /\ UNCHANGED <<timerVars, request, elapsed>>

Tick == /\ isr_timer
        /\ elapsed' = [p \in Proc |->
                         IF request[p] # NULL /\ elapsed[p] < LongestSleep
                         THEN elapsed[p] + 1 ELSE elapsed[p]]
        /\ UNCHANGED <<received, progVars, timerVars, request>>

Loop == Loops /\ UNCHANGED <<timerVars, request, elapsed>>

Step(p) == BootProgram(p) \/ TimerNotifier(p) \/ TimerProcess(p) \/ Return(p)

TNext == (\E p \in Proc : Step(p) \/ Sleep(p)) \/ Tick \/ Loop

(* The timer interrupts for ever.  A process runs at least one instruction *)
(* each time it is dispatched, and a step is finitely many instructions,   *)
(* so one that is dispatched again and again takes its step.               *)
Fairness == WF_timerSystemVars(Tick) /\ \A p \in Proc : SF_timerSystemVars(Step(p))

TSpec == TInit /\ [][TNext]_timerSystemVars /\ Fairness

-----------------------------------------------------------------------------
(* Properties *)

TimerTypeOK ==
  /\ timer_port \in Port \cup {NULL}
  /\ ticks_left \in [Proc -> 0 .. LongestSleep]
  /\ timer_i \in 0 .. MAX_PROCS
  /\ request \in [Proc -> Ticks \cup {NULL}]

(* No call of timer.c panics: the timer process replies only to processes  *)
(* that wait for it, and is alone in waiting for the timer.  The exception *)
(* is the boot race: create_process makes the timer process ready before   *)
(* its result is in timer_port, and the notifier sends to a null port,     *)
(* ipc.c:118 assert(dest_port->magic == MAGIC_PORT).                       *)
TimerNeverPanics == halt # "no" => halt = "Failed assertion" /\ timer_port = NULL

(* The service keeps its types and never stops the machine. *)
TimerIsSound == TimerTypeOK /\ TimerNeverPanics

(* No tick is lost while a program computes: the notifier waits for the    *)
(* interrupt and the timer process for its message.                        *)
ProgramsLeaveTheTimerIdle ==
  halt = "no" /\ at[active_proc] = "program" =>
    \E n \in Proc :
      /\ interrupt_table[TIMER_IRQ] = n /\ rq.state[n] = "INTR_BLOCKED"
      /\ rq.state[port[timer_port].owner] = "RECEIVE_BLOCKED"

(* A sleeper's count is the ticks it asked for, less those the timer       *)
(* process has counted, which are never more than have come; and once the  *)
(* timer process is done with a message, whoever waits for it has a count. *)
SleepersAreCounted ==
  \A p \in Proc :
    /\ ticks_left[p] # 0 =>
         /\ request[p] # NULL /\ rq.state[p] = "REPLY_BLOCKED"
         /\ ticks_left[p] <= request[p]
         /\ request[p] - ticks_left[p] <= elapsed[p]
    /\ at[p] = "program" /\ rq.state[p] = "REPLY_BLOCKED" /\ ticks_left[p] = 0 =>
         \/ request[p] = 0
         \/ \E t \in Proc : at[t] = "timer_message" /\ rq.state[t] = "READY"

(* sleep(n) does not return before n timer interrupts. *)
SleepsLongEnough ==
  [][\A p \in Proc : request[p] # NULL /\ request'[p] = NULL
                       => elapsed[p] >= request[p]]_timerSystemVars

(* sleep(n) returns, for n > 0, whatever the interrupts interrupt. *)
EverySleepEnds ==
  \A p \in Proc : (request[p] # NULL /\ request[p] # 0)
                    ~> (request[p] = NULL \/ halt # "no")

(* dispatch.c:107 "Within one priority level round robin is used": of two  *)
(* programs of the same priority that stay ready, neither runs again and   *)
(* again while the other never does.                                       *)
RoundRobin ==
  \A p, q \in Proc :
    (/\ <>[](at[p] = "program" /\ rq.state[p] = "READY")
     /\ <>[](at[q] = "program" /\ rq.state[q] = "READY")
     /\ []<>(active_proc = p))
    => []<>(active_proc = q)

=============================================================================
