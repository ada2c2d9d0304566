-------------------------------- MODULE Timer --------------------------------
(***************************************************************************)
(* The timer service (timer.c): a notifier of priority 7 that turns timer  *)
(* interrupts into messages, a process of priority 6 that counts ticks for *)
(* the sleepers, and sleep() for the programs.  The data of a message is   *)
(* the num_of_ticks of the Timer_Message it points to, NULL for a tick.    *)
(***************************************************************************)
EXTENDS Programs

VARIABLES
  timer_port,   \* the global variable, NULL until init_timer assigns it
  ticks_left,   \* of timer_process: the ticks each PCB has still to sleep
  timer_i       \* of timer_process: the i of its loop over ticks_left

timerVars == <<timer_port, ticks_left, timer_i>>

TimerInit == /\ timer_port = NULL
             /\ ticks_left = [p \in Proc |-> 0]
             /\ timer_i = 0

(* A bug: the notifier sends and waits for a reply nobody gives. *)
timer_notifier_sending(p) ==
  /\ \/ Runs(p, "timer_notifier") /\ Waits(p, TIMER_IRQ, "notify_tick")
     \/ /\ Runs(p, "notify_tick")
        /\ Sends(p, timer_port, NULL, "timer_notifier")
  /\ UNCHANGED timerVars

(* timer_notifier: an endless loop of two calls. *)
timer_notifier(p) ==
  /\ \/ Runs(p, "timer_notifier") /\ Waits(p, TIMER_IRQ, "notify_tick")
     \/ /\ Runs(p, "notify_tick")
        /\ Messages(p, timer_port, NULL, "timer_notifier")
  /\ UNCHANGED timerVars

(* Bugs of the loop over ticks_left: a PCB that does not sleep is replied  *)
(* to; a sleeper wakes one tick early; the PCB after one that was replied  *)
(* to is skipped; the loop begins again after a reply.                     *)
Due_unset(p)   == ticks_left[p] <= 1
Due_early(p)   == ticks_left[p] \in {1, 2}
Due_skipped(p) == ticks_left[p] = 1 /\ (timer_i = 0 \/ p > timer_i)

Decremented_again(first, last) ==
  [p \in Proc |-> IF p <= last /\ ticks_left[p] # 0
                  THEN ticks_left[p] - 1 ELSE ticks_left[p]]

(* p is a sleeper whose last tick this is. *)
Due(p) == ticks_left[p] = 1

Decremented(first, last) ==
  [p \in Proc |-> IF p \in first .. last /\ ticks_left[p] # 0
                  THEN ticks_left[p] - 1 ELSE ticks_left[p]]

(* One turn of the loop over ticks_left: up to the next sleeper whose last *)
(* tick this is, and the reply to it; or to the end of the array.          *)
timer_tick(p) ==
  /\ Runs(p, "tick")
  /\ LET due == {q \in Proc : q >= timer_i /\ Due(q)} IN
     \/ \E q \in due :
          /\ \A r \in due : q <= r
          /\ ticks_left' = Decremented(timer_i, q)
          /\ timer_i' = q + 1
          /\ Replies(p, q, "tick")
     \/ /\ due = {}
        /\ ticks_left' = Decremented(timer_i, MAX_PROCS - 1)
        /\ timer_i' = 0
        /\ Computes(p, "timer_receive")
  /\ UNCHANGED timer_port

timer_process(p) ==
  \/ /\ Runs(p, "timer_process")
     /\ Create(p, "timer_notifier", 7, "timer_receive")
     /\ UNCHANGED timerVars
  \/ /\ Runs(p, "timer_receive")
     /\ Receives(p, "timer_message")
     /\ UNCHANGED timerVars
  \/ /\ Runs(p, "timer_message")
     /\ \/ Message(p) = NULL /\ Computes(p, "tick") /\ UNCHANGED ticks_left
        \/ /\ Message(p) # NULL /\ Computes(p, "timer_receive")
           /\ ticks_left' = [ticks_left EXCEPT ![Sender(p)] = Message(p)]
     /\ UNCHANGED <<timer_port, timer_i>>
  \/ timer_tick(p)

(* sleep(ticks): returns when the timer process replies. *)
sleep(p, ticks, next) == Sends(p, timer_port, ticks, next) /\ UNCHANGED timerVars

(* init_timer, called at label init_timer: the assignment to timer_port is *)
(* made after create_process has returned, with interrupts enabled.        *)
init_timer(p, next) ==
  \/ /\ Runs(p, "init_timer")
     /\ Create(p, "timer_process", 6, "assign_timer_port")
     /\ UNCHANGED timerVars
  \/ /\ Runs(p, "assign_timer_port")
     /\ timer_port' = Returned(p)
     /\ Forget(p)
     /\ Jump(p, "resign_timer")
     /\ UNCHANGED <<vars, received, ticks_left, timer_i>>
  \/ /\ Runs(p, "resign_timer")
     /\ Resigns(p, next)
     /\ UNCHANGED timerVars

=============================================================================
