----------------------------- MODULE TimerProofs -----------------------------
(***************************************************************************)
(* The timer service (timer.c) on the kernel, with any number of programs  *)
(* that sleep for any times: it never stops the machine, loses no tick     *)
(* while programs compute, and lets nobody sleep too short.                *)
(*                                                                         *)
(* What the programs do is what the general client of the kernel may do,   *)
(* so the invariant of the kernel holds: K.  The port a process waits on   *)
(* and the senders a process has still to reply to, which GeneralClient    *)
(* keeps in variables, can be told here from the state.                    *)
(***************************************************************************)
EXTENDS TimerSystem, TLAPS

(* The boot process creates the timer process first, which creates the     *)
(* notifier before a program exists; every program sends to the one port.  *)
Service == 2
Notifier == 3
ServicePort == 1

SentTo == [p \in Proc |->
             IF rq.state[p] \in {"SEND_BLOCKED", "MESSAGE_BLOCKED", "REPLY_BLOCKED"}
             THEN ServicePort ELSE NULL]

(* The message of s is in the PCB of the timer process. *)
InPcb(s) == /\ pc[Service] = "receive" /\ rq.state[Service] = "READY"
            /\ param_proc[Service] = s
ToReply == [p \in Proc |->
              {s \in Proc : /\ p = Service /\ rq.state[s] = "REPLY_BLOCKED"
                            /\ ~InPcb(s)}]

K == INSTANCE KernelProofs WITH
  Data <- Ticks \cup {NULL},
  Payload <- [p \in Proc |-> Ticks \cup {NULL}],
  Priorities <- {5, 6, 7},
  Calls <- {"create_process", "resign", "become_zombie", "send", "message",
            "receive", "reply", "wait_for_interrupt", "isr_timer"},
  KeepsResults <- TRUE,
  halt <- "no", waits_on <- SentTo, clients <- ToReply

-----------------------------------------------------------------------------
(* The invariant *)

Places == {"init_timer", "assign_timer_port", "resign_timer", "create_programs",
           "dead", "loop", "none", "timer_process", "timer_receive",
           "timer_message", "tick", "timer_notifier", "notify_tick", "program"}

Typed ==
  /\ at \in [Proc -> Places]
  /\ ret = [p \in Proc |-> ret[p]]
  /\ timer_port \in {NULL, ServicePort}
  /\ ticks_left \in [Proc -> 0 .. LongestSleep]
  /\ timer_i \in 0 .. MAX_PROCS
  /\ request \in [Proc -> Ticks \cup {NULL}]
  /\ elapsed \in [Proc -> 0 .. LongestSleep]

Exists(p) == pc[p] \notin {"free", "embryo"}

(* The stages of the start, and where each process can be. *)
BootStages ==
  /\ rq.state[Boot] = IF at[Boot] = "dead" THEN "ZOMBIE" ELSE "READY"
  /\ timer_port = IF at[Boot] \in {"init_timer", "assign_timer_port"} THEN NULL
                  ELSE ServicePort
  /\ \/ at[Boot] = "init_timer" /\ pc[Boot] = "user"
        /\ pc[Service] = "free" /\ next_free_port = 1
     \/ at[Boot] = "assign_timer_port" /\ pc[Boot] = "create_port"
        /\ new_proc[Boot] = Service /\ pc[Service] = "embryo" /\ next_free_port = 1
     \/ at[Boot] = "assign_timer_port" /\ pc[Boot] = "create_ready"
        /\ new_proc[Boot] = Service /\ pc[Service] = "embryo" /\ next_free_port = 2
     \/ at[Boot] = "assign_timer_port" /\ pc[Boot] = "user"
        /\ ret[Boot] = ServicePort /\ Exists(Service)
     \/ at[Boot] \in {"resign_timer", "create_programs"} /\ pc[Boot] = "user"
        /\ Exists(Service)
     \/ at[Boot] = "create_programs" /\ pc[Boot] \in {"create_port", "create_ready"}
        /\ new_proc[Boot] > Notifier /\ Exists(Service) /\ Exists(Notifier)
     \/ at[Boot] = "dead" /\ pc[Boot] \in {"zombie_remove", "zombie_resign", "zombie_loop"}
        /\ Exists(Service) /\ Exists(Notifier)

ServiceStages ==
  /\ pc[Service] # "receive" => rq.state[Service] = "READY"
  /\ \/ pc[Service] = "free" /\ at[Service] = "none" /\ pc[Notifier] = "free"
     \/ pc[Service] = "embryo" /\ at[Service] = "timer_process"
        /\ pc[Notifier] = "free"
     \/ pc[Service] = "user" /\ at[Service] = "timer_process"
        /\ pc[Notifier] = "free" /\ next_free_port = 2
     \/ pc[Service] = "create_port" /\ at[Service] = "timer_receive"
        /\ new_proc[Service] = Notifier /\ pc[Notifier] = "embryo" /\ next_free_port = 2
     \/ pc[Service] = "create_ready" /\ at[Service] = "timer_receive"
        /\ new_proc[Service] = Notifier /\ pc[Notifier] = "embryo" /\ next_free_port = 3
     \/ pc[Service] = "user" /\ at[Service] \in {"timer_receive", "timer_message", "tick"}
        /\ Exists(Notifier)
     \/ pc[Service] = "receive" /\ at[Service] = "timer_message" /\ Exists(Notifier)

NotifierStages ==
  \/ pc[Notifier] = "free" /\ at[Notifier] = "none"
  \/ pc[Notifier] = "embryo" /\ at[Notifier] = "timer_notifier"
  \/ pc[Notifier] = "user" /\ at[Notifier] = "timer_notifier"
     /\ rq.state[Notifier] \in {"READY", "MESSAGE_BLOCKED"}
  \/ pc[Notifier] = "wait_for_interrupt" /\ at[Notifier] = "notify_tick"
  \/ pc[Notifier] = "user" /\ at[Notifier] = "notify_tick"
     /\ rq.state[Notifier] = "READY"

ProgramStages ==
  /\ pc[NullProcess] = "user" /\ at[NullProcess] = "loop"
  /\ \A p \in Proc : p > Notifier =>
       /\ pc[p] # "free" => /\ Exists(Notifier)
                            /\ at[Boot] \in {"create_programs", "dead"}
       /\ \/ pc[p] = "free" /\ at[p] = "none"
          \/ pc[p] = "embryo" /\ at[p] = "program"
          \/ pc[p] = "user" /\ at[p] = "program"
             /\ rq.state[p] \in {"READY", "REPLY_BLOCKED"}

(* Every process but the boot process gets one port. *)
CreatedBelow == IF next_free_pcb = NULL THEN MAX_PROCS ELSE next_free_pcb

PortsAreLeft ==
  /\ next_free_port <= CreatedBelow - 1
  /\ \A p \in Proc : pc[p] = "create_port" => next_free_port <= CreatedBelow - 2
  /\ Exists(Service) => next_free_port >= 2
  /\ next_free_port = 1 => ports[Service] = <<>>
  /\ next_free_port >= 2 =>
       /\ ports[Service] = <<ServicePort>>
       /\ port[ServicePort].owner = Service /\ port[ServicePort].open

HavePriorities ==
  /\ rq.priority[Boot] = 1 /\ rq.priority[NullProcess] = 0
  /\ pc[Service] # "free" => rq.priority[Service] = 6
  /\ pc[Notifier] # "free" => rq.priority[Notifier] = 7
  /\ \A p \in Proc : p > Notifier /\ pc[p] # "free" => rq.priority[p] = 5

(* Nobody runs while the service has something to do: only before the      *)
(* boot process has called resign() can it be ready and not run.           *)
Busy(p) == Exists(p) /\ rq.state[p] = "READY"
ServiceFirst ==
  \/ active_proc \in {Service, Notifier}
  \/ active_proc = Boot /\ at[Boot] \in {"init_timer", "assign_timer_port", "resign_timer"}
  \/ ~Busy(Service) /\ ~Busy(Notifier)

OnlyTheTimerIsAwaited ==
  \A irq \in Irq : interrupt_table[irq] # NULL => irq = TIMER_IRQ

(* What the timer process has received, or finds in its PCB: a tick, or    *)
(* the request of a program that waits and has no count yet.               *)
IsMessage(s, data) ==
  \/ s = Notifier /\ data = NULL
  \/ /\ s \in Proc /\ rq.state[s] = "REPLY_BLOCKED"
     /\ data = request[s] /\ data \in Ticks /\ ticks_left[s] = 0

HasMessage == at[Service] = "timer_message" /\ rq.state[Service] = "READY"
Messenger == IF pc[Service] = "receive" THEN param_proc[Service] ELSE received[Service][1]
Content == IF pc[Service] = "receive" THEN param_data[Service] ELSE received[Service][2]

MessagesAreRight ==
  /\ param_data[Notifier] = NULL
  /\ HasMessage => IsMessage(Messenger, Content)

(* The ticks that p has still to be told of: one that the notifier has     *)
(* seen, and one that the timer process knows of.                          *)
NotifierHasTick == \/ at[Notifier] = "notify_tick" /\ rq.state[Notifier] = "READY"
                   \/ rq.state[Notifier] = "MESSAGE_BLOCKED"
ServiceHasTick(p) == \/ at[Service] = "tick" /\ p >= timer_i
                     \/ HasMessage /\ Content = NULL
OneIf(b) == IF b THEN 1 ELSE 0
UnderWay(p) == OneIf(NotifierHasTick) + OneIf(ServiceHasTick(p))

Counted(p) == IF ticks_left[p] = 0 THEN 0 ELSE request[p] - ticks_left[p]

SleepersKnown ==
  \A p \in Proc :
    /\ request[p] # NULL <=> rq.state[p] = "REPLY_BLOCKED"
    /\ request[p] = NULL => elapsed[p] = 0
    /\ ticks_left[p] # 0 => request[p] # NULL /\ ticks_left[p] <= request[p]
    /\ request[p] # NULL /\ ticks_left[p] = 0 =>
         request[p] = 0 \/ (HasMessage /\ Messenger = p)

TicksHaveCome ==
  \A p \in Proc : request[p] # NULL =>
    \/ Counted(p) + UnderWay(p) <= elapsed[p]
    \/ elapsed[p] = LongestSleep

LoopBegins == at[Service] # "tick" => timer_i = 0

Inv ==
  /\ Typed
  /\ BootStages /\ ServiceStages /\ NotifierStages /\ ProgramStages
  /\ PortsAreLeft /\ HavePriorities
  /\ ServiceFirst
  /\ OnlyTheTimerIsAwaited
  /\ MessagesAreRight
  /\ SleepersKnown
  /\ TicksHaveCome
  /\ LoopBegins
  /\ TimerNeverPanics

TimerInv == K!IInv /\ Inv

-----------------------------------------------------------------------------
(* The kernel under these programs *)

LEMMA KernelConstants ==
  /\ K!ProgramsAssumption
  /\ MAX_PROCS \in Nat /\ MAX_PROCS >= 4 /\ MAX_PORTS >= MAX_PROCS - 1
  /\ {0, 1, 2, 3} \subseteq Proc /\ Proc \subseteq Int
  /\ {5, 6, 7} \subseteq Priority
  /\ {0, 1} \subseteq Port /\ NULL \notin Int
  /\ Boot = 0 /\ NullProcess = 1
BY SizesAssumption, RoomAssumption, PortsAssumption, NullAssumption
   DEF K!ProgramsAssumption, K!AllCalls, K!Proc, Proc, Priority, Port, Boot, NullProcess

LEMMA SameSets ==
  /\ K!Proc = Proc /\ K!Port = Port /\ K!Priority = Priority
  /\ K!ProcOrNull = ProcOrNull /\ K!States = States /\ K!Labels = Labels
  /\ K!QueueRecord = QueueRecord /\ K!Irq = Irq
  /\ K!Programs = Proc \ {NullProcess} /\ K!NullProcess = NullProcess
  /\ K!Boot = Boot
BY DEF K!Proc, Proc, K!Port, Port, K!Priority, Priority, K!ProcOrNull,
       ProcOrNull, K!States, States, K!Labels, Labels, K!CallLabels, CallLabels,
       K!QueueRecord, QueueRecord, K!Irq, Irq, K!TIMER_IRQ, TIMER_IRQ,
       K!KEYB_IRQ, KEYB_IRQ, K!COM1_IRQ, COM1_IRQ, K!Programs, K!NullProcess,
       NullProcess, K!Boot, Boot

LEMMA SameRings ==
  ASSUME NEW q, NEW p
  PROVE  /\ K!add_ready_queue(q, p) = add_ready_queue(q, p)
         /\ K!remove_ready_queue(q, p) = remove_ready_queue(q, p)
         /\ K!dispatcher(q, p) = dispatcher(q, p)
BY DEF K!add_ready_queue, add_ready_queue, K!remove_ready_queue,
       remove_ready_queue, K!dispatcher, dispatcher, K!MostSignificantBit,
       MostSignificantBit

(* A call that does not panic is a step of the kernel's actions. *)
LEMMA SameCalls ==
  ASSUME NEW p, halt' = halt
  PROVE  /\ \A prio : create_process(p, prio) => K!create_process(p, prio)
         /\ create_process_port(p) => K!create_process_port(p)
         /\ create_process_ready(p) => K!create_process_ready(p)
         /\ resign_call(p) => K!resign_call(p)
         /\ become_zombie(p) => K!become_zombie(p)
         /\ zombie_remove(p) => K!zombie_remove(p)
         /\ zombie_resign(p) => K!zombie_resign(p)
         /\ zombie_loop(p) => K!zombie_loop(p)
<1> USE SameRings DEF vars, schedVars, ipcVars, portVars, procVars, K!vars, K!schedVars,
        K!ipcVars, K!portVars, K!procVars, At, K!At, Goto, K!Goto, Panic, K!Panic,
        resign, K!resign
<1>1. ASSUME NEW prio, create_process(p, prio) PROVE K!create_process(p, prio)
  BY <1>1 DEF create_process, K!create_process
<1>2. create_process_port(p) => K!create_process_port(p)
  BY DEF create_process_port, K!create_process_port, create_new_port,
         K!create_new_port, PortFull, K!PortFull
<1>3. create_process_ready(p) => K!create_process_ready(p)
  BY DEF create_process_ready, K!create_process_ready
<1>4. /\ resign_call(p) => K!resign_call(p)
      /\ become_zombie(p) => K!become_zombie(p)
      /\ zombie_remove(p) => K!zombie_remove(p)
      /\ zombie_resign(p) => K!zombie_resign(p)
      /\ zombie_loop(p) => K!zombie_loop(p)
  BY DEF resign_call, K!resign_call, become_zombie, K!become_zombie,
         zombie_remove, K!zombie_remove, zombie_resign, K!zombie_resign,
         zombie_loop, K!zombie_loop
<1> QED  BY <1>1, <1>2, <1>3, <1>4

LEMMA SameMessageCalls ==
  ASSUME NEW p, halt' = halt
  PROVE  /\ \A po, data : send(p, po, data) => K!send(p, po, data)
         /\ \A po, data : message(p, po, data) => K!message(p, po, data)
         /\ receive(p) => K!receive(p)
         /\ receive_return(p) => K!receive_return(p)
         /\ \A s : reply(p, s) => K!reply(p, s)
<1> USE SameRings DEF vars, schedVars, ipcVars, portVars, procVars, K!vars, K!schedVars,
        K!ipcVars, K!portVars, K!procVars, At, K!At, Goto, K!Goto, Panic, K!Panic,
        resign, K!resign
<1>1. /\ \A po : CanDeliver(po) = K!CanDeliver(po)
      /\ \A dest : Deliver(p, dest) = K!Deliver(p, dest)
      /\ \A po : add_to_send_blocked_list(po, p) = K!add_to_send_blocked_list(po, p)
      /\ Pending(p) = K!Pending(p)
  BY DEF CanDeliver, K!CanDeliver, Deliver, K!Deliver, Pending, K!Pending,
         add_to_send_blocked_list, K!add_to_send_blocked_list
<1>2. ASSUME NEW po, NEW data, send(p, po, data) PROVE K!send(p, po, data)
  BY <1>1, <1>2 DEF send, K!send
<1>3. ASSUME NEW po, NEW data, message(p, po, data) PROVE K!message(p, po, data)
  BY <1>1, <1>3, SMTT(30) DEF message, K!message
<1>4. receive(p) => K!receive(p)
  <2>1. /\ K!Pending(p) = Pending(p)
        /\ \A q, x : K!add_ready_queue(q, x) = add_ready_queue(q, x)
    BY <1>1
  <2>2. ASSUME receive_pending(p) PROVE K!receive_pending(p)
    <3>1. PICK k \in K!Pending(p) : receive_pending(p)!(k)
      BY <2>1, <2>2 DEF receive_pending
    <3> QED  BY <2>1, <3>1 DEF K!receive_pending
  <2>3. receive_block(p) => K!receive_block(p)
    BY <1>1, SameSets DEF receive_block, K!receive_block
  <2> QED  BY <2>2, <2>3 DEF receive, K!receive
<1>5. receive_return(p) => K!receive_return(p)
  BY DEF receive_return, K!receive_return
<1>6. ASSUME NEW s, reply(p, s) PROVE K!reply(p, s)
  BY <1>6 DEF reply, K!reply
<1> QED  BY <1>2, <1>3, <1>4, <1>5, <1>6

LEMMA SameInterruptCalls ==
  ASSUME NEW p, halt' = halt
  PROVE  /\ \A irq : wait_for_interrupt(p, irq) => K!wait_for_interrupt(p, irq)
         /\ wait_for_interrupt_return(p) => K!wait_for_interrupt_return(p)
         /\ isr_timer => K!isr_timer
         /\ null_process => K!null_process
<1> USE SameRings DEF vars, schedVars, ipcVars, portVars, procVars, K!vars, K!schedVars,
        K!ipcVars, K!portVars, K!procVars, At, K!At, Goto, K!Goto, Panic, K!Panic,
        resign, K!resign
<1>1. ASSUME NEW irq, wait_for_interrupt(p, irq) PROVE K!wait_for_interrupt(p, irq)
  BY <1>1 DEF wait_for_interrupt, K!wait_for_interrupt
<1>2. wait_for_interrupt_return(p) => K!wait_for_interrupt_return(p)
  BY SameSets DEF wait_for_interrupt_return, K!wait_for_interrupt_return
<1>3. isr_timer => K!isr_timer
  BY DEF isr_timer, K!isr_timer, InterruptsEnabled, K!InterruptsEnabled,
         CallLabels, K!CallLabels, TIMER_IRQ, K!TIMER_IRQ
<1>4. null_process => K!null_process
  BY DEF null_process, K!null_process, NullProcess, K!NullProcess
<1> QED  BY <1>1, <1>2, <1>3, <1>4

(* What the lists and rings hold beside the state and the priority. *)
LEMMA StateOf ==
  ASSUME NEW q \in QueueRecord, NEW p \in Proc
  PROVE  /\ add_ready_queue(q, p).state = [q.state EXCEPT ![p] = "READY"]
         /\ add_ready_queue(q, p).priority = q.priority
         /\ remove_ready_queue(q, p).state = q.state
         /\ remove_ready_queue(q, p).priority = q.priority
BY DEF QueueRecord, add_ready_queue, remove_ready_queue

(* The ready queues after a send to a process that waits. *)
Sent(q, p, dest) ==
  remove_ready_queue(add_ready_queue([q EXCEPT !.state[p] = "REPLY_BLOCKED"], dest), p)

LEMMA SendStateOf ==
  ASSUME NEW q \in QueueRecord, NEW p \in Proc, NEW d \in Proc, p # d
  PROVE  LET r == Sent(q, p, d)
         IN  /\ r.state[d] = "READY" /\ r.state[p] = "REPLY_BLOCKED"
             /\ r.priority = q.priority
             /\ \A x \in Proc : x # d /\ x # p => r.state[x] = q.state[x]
<1> DEFINE b == [q EXCEPT !.state[p] = "REPLY_BLOCKED"]
           a == add_ready_queue(b, d)
           r == remove_ready_queue(a, p)
<1>1. /\ b \in QueueRecord /\ b.priority = q.priority
      /\ b.state = [q.state EXCEPT ![p] = "REPLY_BLOCKED"]
  BY DEF QueueRecord, States
<1> HIDE DEF b
<1>2. a = [ready_queue |-> a.ready_queue, ready_procs |-> a.ready_procs, next |-> a.next,
           prev |-> a.prev, state |-> a.state, priority |-> a.priority]
  BY <1>1 DEF QueueRecord, add_ready_queue
<1>3. a.state = [b.state EXCEPT ![d] = "READY"] /\ a.priority = b.priority
  BY <1>1, StateOf
<1> HIDE DEF a
<1>4. r.state = a.state /\ r.priority = a.priority
  BY ONLY <1>2 DEF remove_ready_queue
<1> HIDE DEF r
<1>5. Sent(q, p, d) = r
  BY DEF Sent, a, b, r
<1>6. q.state \in [Proc -> States]
  BY DEF QueueRecord
<1> QED  BY <1>1, <1>3, <1>4, <1>5, <1>6

LEMMA KernelTypes ==
  ASSUME K!IInv
  PROVE  /\ rq \in QueueRecord /\ active_proc \in Proc
         /\ next_free_pcb \in ProcOrNull /\ next_free_port \in 0 .. MAX_PORTS
         /\ param_proc \in [Proc -> ProcOrNull]
         /\ param_data \in [Proc -> Ticks \cup {NULL}]
         /\ next_blocked \in [Proc -> ProcOrNull]
         /\ ports \in [Proc -> Seq(Port)]
         /\ port \in [Port -> [open : BOOLEAN, owner : ProcOrNull,
                               blocked_list_head : ProcOrNull,
                               blocked_list_tail : ProcOrNull]]
         /\ interrupt_table \in [Irq -> ProcOrNull]
         /\ pc \in [Proc -> Labels] /\ new_proc \in [Proc -> ProcOrNull]
BY SameSets DEF K!IInv, K!GTypeOK, K!TypeOK

LEMMA KernelPlaces ==
  ASSUME K!IInv
  PROVE  /\ \A p \in Proc :
              /\ pc[p] = "user" => rq.state[p] \in
                   {"READY", "SEND_BLOCKED", "MESSAGE_BLOCKED", "REPLY_BLOCKED"}
              /\ pc[p] = "receive" => rq.state[p] \in {"READY", "RECEIVE_BLOCKED"}
              /\ pc[p] = "wait_for_interrupt" =>
                   rq.state[p] \in {"READY", "INTR_BLOCKED"}
              /\ pc[p] \in {"zombie_remove", "zombie_resign", "zombie_loop"} =>
                   rq.state[p] = "ZOMBIE"
              /\ pc[p] \in {"create_port", "create_ready", "embryo", "free"} =>
                   rq.state[p] = "READY"
         /\ pc[active_proc] \notin {"embryo", "free"}
         /\ \/ rq.state[active_proc] = "READY"
            \/ pc[active_proc] \in {"zombie_remove", "zombie_resign", "zombie_loop"}
         /\ IF next_free_pcb = NULL THEN \A p \in Proc : pc[p] # "free"
            ELSE \A p \in Proc : pc[p] = "free" <=> p >= next_free_pcb
         /\ \A p \in Proc : pc[p] = "free" =>
              rq.next[p] = IF p = MAX_PROCS - 1 THEN NULL ELSE p + 1
         /\ \A p \in Proc : pc[p] \in {"create_port", "create_ready"} =>
              new_proc[p] \in Proc /\ pc[new_proc[p]] = "embryo"
<1> USE SameSets, KernelTypes DEF K!IInv
<1>1. \A p \in Proc :
              /\ pc[p] = "user" => rq.state[p] \in
                   {"READY", "SEND_BLOCKED", "MESSAGE_BLOCKED", "REPLY_BLOCKED"}
              /\ pc[p] = "receive" => rq.state[p] \in {"READY", "RECEIVE_BLOCKED"}
              /\ pc[p] = "wait_for_interrupt" =>
                   rq.state[p] \in {"READY", "INTR_BLOCKED"}
              /\ pc[p] \in {"zombie_remove", "zombie_resign", "zombie_loop"} =>
                   rq.state[p] = "ZOMBIE"
              /\ pc[p] \in {"create_port", "create_ready", "embryo", "free"} =>
                   rq.state[p] = "READY"
  <2> TAKE p \in Proc
  <2>1. rq.state[p] \in K!StatesAt(pc[p])
    BY DEF K!LabelsMatchStates
  <2>2. pc[p] \in {"user", "receive", "wait_for_interrupt", "zombie_remove",
                   "zombie_resign", "zombie_loop", "create_port", "create_ready",
                   "embryo", "free"}
    BY DEF Labels, CallLabels
  <2> QED  BY <2>1, <2>2 DEF K!StatesAt
<1>2. /\ pc[active_proc] \notin {"embryo", "free"}
      /\ \/ rq.state[active_proc] = "READY"
         \/ pc[active_proc] \in {"zombie_remove", "zombie_resign", "zombie_loop"}
  BY DEF K!ActiveIsReady, K!Queued
<1>3. /\ IF next_free_pcb = NULL THEN \A p \in Proc : pc[p] # "free"
         ELSE \A p \in Proc : pc[p] = "free" <=> p >= next_free_pcb
      /\ \A p \in Proc : pc[p] = "free" =>
           rq.next[p] = IF p = MAX_PROCS - 1 THEN NULL ELSE p + 1
      /\ \A p \in Proc : pc[p] \in {"create_port", "create_ready"} =>
           new_proc[p] \in Proc /\ pc[new_proc[p]] = "embryo"
  BY DEF K!FreeListIsFree, K!EmbryosHaveOneCreator, K!Creating
<1> QED  BY <1>1, <1>2, <1>3

(* Every action of the kernel keeps its invariant. *)
LEMMA KernelStep ==
  ASSUME K!IInv, K!GNext
  PROVE  K!IInv' /\ K!HighestStep
<1>1. K!IInv' /\ (K!HighestStep \/ UNCHANGED K!allVars)
  BY KernelConstants, SizesAssumption, NullAssumption, PortsAssumption, K!NextInv
<1>2. UNCHANGED K!allVars => K!HighestStep
  BY DEF K!allVars, K!vars, K!schedVars, K!HighestStep
<1> QED  BY <1>1, <1>2

(* A dispatch that finds the timer process or the notifier ready runs one. *)
LEMMA DispatchServesFirst ==
  ASSUME K!IInv', K!HighestStep, active_proc' = dispatcher(rq', active_proc),
         HavePriorities', Typed', BootStages'
  PROVE  ServiceFirst'
<1>1. \A p \in K!Queued' : rq'.priority[p] <= rq'.priority[active_proc']
  <2>1. rq' \in K!QueueRecord /\ K!RingsHoldTheReady' /\ K!Queued' # {}
    <3>1. rq' \in K!QueueRecord /\ K!RingsHoldTheReady' /\ K!LabelsMatchStates'
      BY DEF K!IInv, K!GTypeOK, K!TypeOK
    <3>2. K!NullProcess \in K!Queued'
      BY <3>1, SameSets, KernelConstants DEF K!LabelsMatchStates, K!Queued
    <3> QED  BY <3>1, <3>2
  <2>2. active_proc' = K!dispatcher(rq', active_proc)
    BY SameRings
  <2> QED  BY <2>1, <2>2, K!DispatchedHighest, KernelConstants, SizesAssumption,
              NullAssumption, PortsAssumption
<1>2. ASSUME NEW p \in {Service, Notifier}, Busy(p)' PROVE active_proc' \in {Service, Notifier}
  <2>1. p \in K!Queued'
    BY <1>2, KernelConstants, SameSets DEF Busy, Exists, K!Queued, Service, Notifier
  <2>2. rq'.priority[p] >= 6
    BY <1>2 DEF HavePriorities, Busy, Exists, Service, Notifier
  <2>3. active_proc' \in Proc /\ rq' \in QueueRecord /\ pc'[active_proc'] # "free"
    BY SameSets DEF K!IInv, K!GTypeOK, K!TypeOK, K!ActiveIsReady, K!Queued
  <2>4. rq'.priority[active_proc'] \in Int /\ rq'.priority[p] \in Int
    BY <2>3, <1>2, KernelConstants DEF QueueRecord, Service, Notifier, Priority
  <2>5. rq'.priority[active_proc'] >= 6
    BY <1>1, <2>1, <2>2, <2>4
  <2>6. active_proc' \in {Boot, NullProcess, Service, Notifier} \/ active_proc' > Notifier
    BY <2>3, KernelConstants DEF Proc, Service, Notifier
  <2> QED  BY <2>3, <2>5, <2>6 DEF HavePriorities
<1> QED  BY <1>2 DEF ServiceFirst

-----------------------------------------------------------------------------
(* The start *)

USE DEF Boot, NullProcess, Service, Notifier, ServicePort

LEMMA Processes ==
  /\ 0 \in Proc /\ 1 \in Proc /\ 2 \in Proc /\ 3 \in Proc
  /\ Proc \subseteq Int /\ NULL \notin Int
  /\ \A p \in Proc : p = 0 \/ p = 1 \/ p = 2 \/ p = 3 \/ p > 3
BY KernelConstants DEF Service, Notifier, Proc

(* Where a process is in its program tells which process it is. *)
LEMMA WhereTheyAre ==
  ASSUME TimerInv
  PROVE  /\ at[0] \in {"init_timer", "assign_timer_port", "resign_timer",
                       "create_programs", "dead"}
         /\ at[1] = "loop"
         /\ at[2] \in {"none", "timer_process", "timer_receive",
                       "timer_message", "tick"}
         /\ at[3] \in {"none", "timer_notifier", "notify_tick"}
         /\ \A p \in Proc : p > 3 => at[p] \in {"none", "program"}
<1> USE Processes
<1>1. /\ at[0] \in {"init_timer", "assign_timer_port", "resign_timer",
                       "create_programs", "dead"}
      /\ at[1] = "loop"
      /\ at[2] \in {"none", "timer_process", "timer_receive",
                          "timer_message", "tick"}
      /\ at[3] \in {"none", "timer_notifier", "notify_tick"}
  BY DEF TimerInv, Inv, BootStages, ServiceStages, NotifierStages, ProgramStages
<1>2. \A p \in Proc : p > 3 => at[p] \in {"none", "program"}
  BY DEF TimerInv, Inv, ProgramStages
<1> QED  BY <1>1, <1>2

(* A step that lets the counts, the messages and the notifier alone. *)
LEMMA CountsAreKept ==
  ASSUME TimerInv,
         UNCHANGED <<request, elapsed, ticks_left, timer_i, received,
                     param_proc, param_data>>,
         at'[Service] = "tick" <=> at[Service] = "tick",
         HasMessage' <=> HasMessage, HasMessage => pc'[Service] = pc[Service],
         NotifierHasTick' <=> NotifierHasTick,
         \A p \in Proc : rq'.state[p] = "REPLY_BLOCKED" <=> rq.state[p] = "REPLY_BLOCKED"
  PROVE  MessagesAreRight' /\ SleepersKnown' /\ TicksHaveCome' /\ LoopBegins'
<1> USE DEF TimerInv, Inv
<1>1. HasMessage => Messenger' = Messenger /\ Content' = Content
  BY DEF Messenger, Content
<1>2. \A p \in Proc : UnderWay(p)' = UnderWay(p) /\ Counted(p)' = Counted(p)
  BY <1>1 DEF UnderWay, Counted, ServiceHasTick
<1>3. MessagesAreRight'
  BY <1>1 DEF MessagesAreRight, IsMessage
<1>4. SleepersKnown'
  BY <1>1 DEF SleepersKnown
<1>5. TicksHaveCome' /\ LoopBegins'
  BY <1>2 DEF TicksHaveCome, LoopBegins
<1> QED  BY <1>3, <1>4, <1>5

LEMMA NoPanicIsKept ==
  ASSUME TimerNeverPanics, halt' = halt, timer_port' = timer_port
  PROVE  TimerNeverPanics'
BY Zenon DEF TimerNeverPanics

(* The ports and counts of the senders, when nobody begins or ends to wait. *)
LEMMA SameWaiting ==
  ASSUME received' = received,
         \A p \in Proc : /\ rq'.state[p] \in {"SEND_BLOCKED", "MESSAGE_BLOCKED", "REPLY_BLOCKED"}
                              <=> rq.state[p] \in {"SEND_BLOCKED", "MESSAGE_BLOCKED", "REPLY_BLOCKED"}
                         /\ rq'.state[p] = "REPLY_BLOCKED" <=> rq.state[p] = "REPLY_BLOCKED"
                         /\ rq.state[p] = "REPLY_BLOCKED" => (InPcb(p)' <=> InPcb(p))
  PROVE  K!Unchanged
<1>1. SentTo' = SentTo
  BY DEF SentTo
<1>2. ToReply' = ToReply
  BY DEF ToReply
<1> QED  BY <1>1, <1>2 DEF K!Unchanged, K!NoResult, K!clientVars

(* p has created process f, as far as the first part of create_process goes. *)
Created(p, f, entry, prio, next) ==
  /\ K!IInv' /\ halt' = halt /\ active_proc' = active_proc
  /\ f \in Proc /\ f # p /\ \A q \in Proc : pc[q] = "free" <=> q >= f
  /\ pc'[p] = "create_port" /\ pc'[f] = "embryo"
  /\ \A q \in Proc : q # p /\ q # f => pc'[q] = pc[q]
  /\ at'[p] = next /\ at'[f] = entry /\ at' \in [Proc -> Places]
  /\ \A q \in Proc : q # p /\ q # f => at'[q] = at[q]
  /\ new_proc'[p] = f /\ \A q \in Proc : q # p => new_proc'[q] = new_proc[q]
  /\ \A q \in Proc : rq'.state[q] = rq.state[q]
  /\ rq'.priority[f] = prio
  /\ \A q \in Proc : q # f => rq'.priority[q] = rq.priority[q]
  /\ ports'[f] = <<>> /\ \A q \in Proc : q # f => ports'[q] = ports[q]
  /\ CreatedBelow = f /\ CreatedBelow' = f + 1
  /\ UNCHANGED <<param_proc, param_data, port, next_free_port,
                 interrupt_table, received, ret>>

LEMMA CreateStep ==
  ASSUME TimerInv, NEW p \in {Boot, Service}, NEW entry \in Places,
         NEW prio \in {5, 6, 7}, NEW next \in Places,
         Create(p, entry, prio, next), next_free_pcb # NULL
  PROVE  Created(p, next_free_pcb, entry, prio, next)
<1> DEFINE f == next_free_pcb
<1>1. /\ At(p, "user") /\ halt' = halt
      /\ next_free_pcb' = rq.next[next_free_pcb]
      /\ rq' = [rq EXCEPT !.state[next_free_pcb] = "READY",
                          !.priority[next_free_pcb] = prio]
      /\ ports' = [ports EXCEPT ![next_free_pcb] = <<>>]
      /\ new_proc' = [new_proc EXCEPT ![p] = next_free_pcb]
      /\ pc' = [pc EXCEPT ![p] = "create_port", ![next_free_pcb] = "embryo"]
      /\ UNCHANGED <<active_proc, ipcVars, next_free_port, interrupt_table,
                     received, ret>>
  <2>1. create_process(p, prio) /\ UNCHANGED <<received, ret>>
    BY DEF Create
  <2>2. ~(prio >= MAX_READY_QUEUES)
    BY RoomAssumption, SizesAssumption
  <2> QED  BY ONLY <2>1, <2>2, next_free_pcb # NULL DEF create_process
<1>2. /\ rq \in QueueRecord /\ pc \in [Proc -> Labels] /\ next_free_pcb \in ProcOrNull
      /\ new_proc \in [Proc -> ProcOrNull] /\ ports \in [Proc -> Seq(Port)]
      /\ at \in [Proc -> Places]
  BY KernelTypes DEF TimerInv, Inv, Typed
<1>3. /\ f \in Proc /\ p \in Proc /\ pc[f] = "free" /\ f # p
      /\ rq.state[f] = "READY"
      /\ rq.next[f] = IF f = MAX_PROCS - 1 THEN NULL ELSE f + 1
      /\ \A q \in Proc : pc[q] = "free" <=> q >= f
  BY <1>1, <1>2, Processes, KernelPlaces DEF TimerInv, ProcOrNull, At
<1>4. /\ pc'[p] = "create_port" /\ pc'[f] = "embryo"
      /\ \A q \in Proc : q # p /\ q # f => pc'[q] = pc[q]
      /\ new_proc'[p] = f /\ \A q \in Proc : q # p => new_proc'[q] = new_proc[q]
      /\ ports'[f] = <<>> /\ \A q \in Proc : q # f => ports'[q] = ports[q]
  BY <1>1, <1>2, <1>3
<1>5. /\ \A q \in Proc : rq'.state[q] = rq.state[q]
      /\ rq'.priority[f] = prio
      /\ \A q \in Proc : q # f => rq'.priority[q] = rq.priority[q]
  BY <1>1, <1>2, <1>3 DEF QueueRecord
<1>6. /\ at'[p] = next /\ at'[f] = entry /\ at' \in [Proc -> Places]
      /\ \A q \in Proc : q # p /\ q # f => at'[q] = at[q]
  <2>1. at' = [q \in Proc |-> CASE q = p -> next
                               [] q = next_free_pcb -> entry
                               [] OTHER -> at[q]]
    BY DEF Create
  <2> QED  BY ONLY <1>2, <1>3, <2>1, entry \in Places, next \in Places
<1>7. K!IInv'
  <2>1. K!Unchanged
    <3>1. \A q \in Proc : InPcb(q)' <=> InPcb(q)
      BY <1>1, <1>3, <1>4, <1>5, Processes DEF InPcb, ipcVars, At
    <3> QED  BY <1>1, <1>5, <3>1, SameWaiting
  <2>2. K!create_process(p, prio)
    BY <1>1, SameCalls DEF Create
  <2>3. K!CreateProcess(p) /\ p \in K!Programs
    BY <2>1, <2>2, SameSets, <1>3 DEF K!CreateProcess
  <2> QED  BY <2>3, KernelStep DEF K!GNext, K!Call, TimerInv
<1>8. CreatedBelow = f /\ CreatedBelow' = f + 1
  BY <1>1, <1>3, Processes, SizesAssumption DEF CreatedBelow, Proc
<1> QED  BY <1>1, <1>3, <1>4, <1>5, <1>6, <1>7, <1>8 DEF ipcVars, Created

(* The boot process creates the timer process. *)
LEMMA InitTimerInv ==
  ASSUME TimerInv, Runs(Boot, "init_timer"),
         Create(Boot, "timer_process", 6, "assign_timer_port"),
         UNCHANGED <<timerVars, request, elapsed>>
  PROVE  TimerInv'
<1> USE Processes
<1>1. pc[0] = "user" /\ at[0] = "init_timer" /\ active_proc = 0
  BY DEF Runs, At
<1>2. /\ pc[2] = "free" /\ next_free_port = 1 /\ timer_port = NULL
      /\ pc[3] = "free" /\ at[2] = "none" /\ at[3] = "none"
      /\ pc[1] = "user" /\ rq.state[0] = "READY" /\ rq.state[2] = "READY"
  BY <1>1 DEF TimerInv, Inv, BootStages, ServiceStages, NotifierStages, ProgramStages
<1>3. 2 = next_free_pcb
  BY <1>2, KernelPlaces, KernelTypes DEF TimerInv, ProcOrNull, Proc
<1>4. Created(0, 2, "timer_process", 6, "assign_timer_port")
  <2>1. "timer_process" \in Places /\ "assign_timer_port" \in Places
    BY DEF Places
  <2> QED  BY <1>3, <2>1, CreateStep
<1>5. \A q \in Proc : q # 0 /\ q # 1 => pc[q] = "free"
  BY <1>4 DEF Created
<1>6. UNCHANGED <<timer_port, ticks_left, timer_i, request, elapsed>>
  BY DEF timerVars
<1> USE DEF TimerInv, Inv, Created
<1>7. Typed'
  BY <1>4, <1>6 DEF Typed
<1>8. BootStages'
  BY <1>2, <1>4, <1>6 DEF BootStages
<1>9. ServiceStages' /\ NotifierStages'
  BY <1>2, <1>4 DEF ServiceStages, NotifierStages
<1>10. ProgramStages'
  <2>1. \A q \in Proc : q > 3 => pc'[q] = "free" /\ at'[q] = "none"
    BY <1>4, <1>5 DEF ProgramStages
  <2>2. pc'[1] = "user" /\ at'[1] = "loop"
    BY <1>2, <1>4 DEF ProgramStages
  <2> QED  BY <2>1, <2>2 DEF ProgramStages
<1>11. PortsAreLeft'
  BY <1>2, <1>4, <1>5 DEF PortsAreLeft, Exists
<1>12. HavePriorities'
  BY <1>2, <1>4, <1>5 DEF HavePriorities
<1>13. ServiceFirst' /\ OnlyTheTimerIsAwaited' /\ TimerNeverPanics'
  BY <1>1, <1>4, <1>6 DEF ServiceFirst, OnlyTheTimerIsAwaited, TimerNeverPanics
<1>14. MessagesAreRight' /\ SleepersKnown' /\ TicksHaveCome' /\ LoopBegins'
  BY <1>2, <1>4, <1>6, CountsAreKept DEF HasMessage, NotifierHasTick
<1> QED  BY <1>4, <1>7, <1>8, <1>9, <1>10, <1>11, <1>12, <1>13, <1>14

(* The boot process creates a program: the service waits, so it is there. *)
LEMMA ServiceExists ==
  ASSUME TimerInv, active_proc = 0, at[0] \in {"create_programs", "dead"}
  PROVE  /\ Exists(Service) /\ Exists(Notifier) /\ ~Busy(Service) /\ ~Busy(Notifier)
         /\ pc[2] = "receive" /\ pc[3] \in {"user", "wait_for_interrupt"}
<1> USE Processes DEF TimerInv, Inv
<1>1. ~Busy(Service) /\ ~Busy(Notifier)
  BY DEF ServiceFirst
<1>2. Exists(Service)
  BY DEF BootStages
<1>3. pc[2] = "receive" /\ Exists(Notifier)
  BY <1>1, <1>2 DEF ServiceStages, Busy, Exists
<1> QED  BY <1>1, <1>2, <1>3 DEF NotifierStages, Exists

LEMMA CreateProgramInv ==
  ASSUME TimerInv, Runs(Boot, "create_programs"), next_free_pcb # NULL,
         Create(Boot, "program", 5, "create_programs"),
         UNCHANGED <<timerVars, request, elapsed>>
  PROVE  TimerInv'
<1> USE Processes
<1>1. pc[0] = "user" /\ at[0] = "create_programs" /\ active_proc = 0
  BY DEF Runs, At
<1>2. /\ Exists(Service) /\ Exists(Notifier) /\ ~Busy(Service) /\ ~Busy(Notifier)
      /\ pc[2] = "receive" /\ pc[3] \in {"user", "wait_for_interrupt"}
  BY <1>1, ServiceExists
<1>3. PICK f : /\ f = next_free_pcb
               /\ Created(0, f, "program", 5, "create_programs")
  <2>1. /\ "program" \in Places /\ "create_programs" \in Places
        /\ 0 \in {Boot, Service} /\ 5 \in {5, 6, 7}
    BY DEF Places
  <2>2. Created(0, next_free_pcb, "program", 5, "create_programs")
    BY <2>1, CreateStep
  <2> QED  BY <2>2
<1>4. f > 3
  <2>1. pc[0] # "free" /\ pc[1] # "free" /\ pc[2] # "free" /\ pc[3] # "free"
    BY <1>1, <1>2 DEF Exists, TimerInv, Inv, ProgramStages
  <2>2. f \in Proc /\ \A q \in Proc : pc[q] = "free" <=> q >= f
    BY <1>3 DEF Created
  <2>3. f # 0 /\ f # 1 /\ f # 2 /\ f # 3
    BY <2>1, <2>2
  <2> QED  BY <2>2, <2>3
<1>5. UNCHANGED <<timer_port, ticks_left, timer_i, request, elapsed>>
  BY DEF timerVars
<1> HIDE DEF Created
<1>6. /\ pc'[0] = "create_port" /\ at'[0] = "create_programs" /\ new_proc'[0] = f
      /\ pc'[f] = "embryo" /\ at'[f] = "program" /\ rq'.priority[f] = 5
      /\ \A q \in Proc : q # 0 /\ q # f => pc'[q] = pc[q] /\ at'[q] = at[q]
      /\ \A q \in Proc : q # f => /\ rq'.priority[q] = rq.priority[q]
                                  /\ ports'[q] = ports[q]
      /\ \A q \in Proc : rq'.state[q] = rq.state[q]
      /\ \A q \in Proc : q # 0 => new_proc'[q] = new_proc[q]
      /\ UNCHANGED <<param_proc, param_data, port, next_free_port,
                     interrupt_table, received, ret, halt, active_proc>>
      /\ at' \in [Proc -> Places] /\ CreatedBelow = f /\ CreatedBelow' = f + 1
      /\ K!IInv' /\ f \in Proc
  BY <1>3 DEF Created
<1> USE DEF TimerInv, Inv
<1>7. Typed' /\ OnlyTheTimerIsAwaited' /\ TimerNeverPanics'
  BY <1>5, <1>6 DEF Typed, OnlyTheTimerIsAwaited, TimerNeverPanics
<1>8. BootStages'
  BY <1>1, <1>2, <1>4, <1>5, <1>6 DEF BootStages, Exists
<1>9. ServiceStages' /\ NotifierStages'
  BY <1>4, <1>6 DEF ServiceStages, NotifierStages, Exists
<1>10. ProgramStages'
  BY <1>2, <1>4, <1>6 DEF ProgramStages, Exists
<1>11. PortsAreLeft'
  <2>1. next_free_port \in Int
    BY KernelTypes
  <2>2. next_free_port <= f - 1
    BY <1>6 DEF PortsAreLeft
  <2>3. next_free_port' <= CreatedBelow' - 2
    BY <1>6, <2>1, <2>2
  <2> QED  BY <1>4, <1>6, <2>1, <2>3 DEF PortsAreLeft, Exists
<1>12. HavePriorities'
  BY <1>4, <1>6 DEF HavePriorities
<1>13. ServiceFirst'
  BY <1>1, <1>2, <1>4, <1>6 DEF ServiceFirst, Busy, Exists
<1>14. MessagesAreRight' /\ SleepersKnown' /\ TicksHaveCome' /\ LoopBegins'
  BY <1>4, <1>5, <1>6, CountsAreKept DEF HasMessage, NotifierHasTick
<1> QED  BY <1>6, <1>7, <1>8, <1>9, <1>10, <1>11, <1>12, <1>13, <1>14

(* The timer process creates the notifier. *)
LEMMA CreateNotifierInv ==
  ASSUME TimerInv, Runs(Service, "timer_process"),
         Create(Service, "timer_notifier", 7, "timer_receive"),
         UNCHANGED <<timerVars, request, elapsed>>
  PROVE  TimerInv'
<1> USE Processes
<1>1. pc[2] = "user" /\ at[2] = "timer_process" /\ active_proc = 2
  BY DEF Runs, At
<1>2. /\ pc[3] = "free" /\ at[3] = "none" /\ next_free_port = 2
      /\ rq.state[2] = "READY" /\ pc[1] = "user"
      /\ Exists(Service) /\ ~Exists(Notifier)
  BY <1>1 DEF TimerInv, Inv, ServiceStages, NotifierStages, ProgramStages, Exists
<1>3. 3 = next_free_pcb
  BY <1>1, <1>2, KernelPlaces, KernelTypes DEF TimerInv, ProcOrNull, Proc
<1>4. Created(2, 3, "timer_notifier", 7, "timer_receive")
  <2>1. "timer_notifier" \in Places /\ "timer_receive" \in Places
    BY DEF Places
  <2> QED  BY <1>3, <2>1, CreateStep
<1>5. /\ pc'[2] = "create_port" /\ at'[2] = "timer_receive" /\ new_proc'[2] = 3
      /\ pc'[3] = "embryo" /\ at'[3] = "timer_notifier" /\ rq'.priority[3] = 7
      /\ \A q \in Proc : q # 2 /\ q # 3 => pc'[q] = pc[q] /\ at'[q] = at[q]
      /\ \A q \in Proc : q # 3 => /\ rq'.priority[q] = rq.priority[q]
                                  /\ ports'[q] = ports[q]
      /\ \A q \in Proc : rq'.state[q] = rq.state[q]
      /\ \A q \in Proc : q # 2 => new_proc'[q] = new_proc[q]
      /\ UNCHANGED <<param_proc, param_data, port, next_free_port,
                     interrupt_table, received, ret, halt, active_proc>>
      /\ at' \in [Proc -> Places] /\ CreatedBelow' = 4
      /\ \A q \in Proc : pc[q] = "free" <=> q >= 3
      /\ K!IInv'
  BY <1>4 DEF Created
<1>6. UNCHANGED <<timer_port, ticks_left, timer_i, request, elapsed>>
  BY DEF timerVars
<1>7. \A q \in Proc : q > 3 => pc[q] = "free"
  BY <1>5
<1> USE DEF TimerInv, Inv
<1>8. Typed' /\ OnlyTheTimerIsAwaited' /\ TimerNeverPanics'
  BY <1>5, <1>6 DEF Typed, OnlyTheTimerIsAwaited, TimerNeverPanics
<1>9. BootStages'
  BY <1>2, <1>5, <1>6 DEF BootStages, Exists
<1>10. ServiceStages' /\ NotifierStages'
  BY <1>2, <1>5 DEF ServiceStages, NotifierStages
<1>11. ProgramStages'
  BY <1>2, <1>5, <1>7 DEF ProgramStages
<1>12. PortsAreLeft'
  BY <1>2, <1>5 DEF PortsAreLeft, Exists
<1>13. HavePriorities'
  BY <1>1, <1>5, <1>7 DEF HavePriorities
<1>14. ServiceFirst'
  BY <1>1, <1>5 DEF ServiceFirst
<1>15. MessagesAreRight' /\ SleepersKnown' /\ TicksHaveCome' /\ LoopBegins'
  BY <1>1, <1>2, <1>5, <1>6, CountsAreKept DEF HasMessage, NotifierHasTick
<1> QED  BY <1>5, <1>8, <1>9, <1>10, <1>11, <1>12, <1>13, <1>14, <1>15

(* Where a process is inside of a call tells which process it is. *)
LEMMA CallersAre ==
  ASSUME TimerInv, NEW p \in Proc
  PROVE  /\ pc[p] \in {"create_port", "create_ready"} => p = 0 \/ p = 2
         /\ pc[p] \in {"zombie_remove", "zombie_resign", "zombie_loop"} => p = 0
         /\ pc[p] = "receive" => p = 2
         /\ pc[p] = "wait_for_interrupt" => p = 3
<1> USE Processes DEF TimerInv, Inv
<1>1. p = 0 => pc[p] \notin {"receive", "wait_for_interrupt"}
  BY DEF BootStages
<1>2. p = 1 => pc[p] = "user"
  BY DEF ProgramStages
<1>3. p = 2 => pc[p] \notin {"wait_for_interrupt", "zombie_remove",
                             "zombie_resign", "zombie_loop"}
  BY DEF ServiceStages
<1>4. p = 3 => pc[p] \in {"free", "embryo", "user", "wait_for_interrupt"}
  BY DEF NotifierStages
<1>5. p > 3 => pc[p] \in {"free", "embryo", "user"}
  BY DEF ProgramStages
<1> QED  BY <1>1, <1>2, <1>3, <1>4, <1>5

(* The second part of create_process: process f gets port po. *)
Ported(p, f, po) ==
  /\ K!IInv' /\ halt' = halt /\ active_proc' = active_proc
  /\ f = new_proc[p] /\ f \in Proc /\ pc[f] = "embryo" /\ pc[p] = "create_port"
  /\ po = next_free_port /\ po \in Port /\ next_free_port' = po + 1
  /\ pc'[p] = "create_ready" /\ \A q \in Proc : q # p => pc'[q] = pc[q]
  /\ port'[po].owner = f /\ port'[po].open
  /\ \A x \in Port : x # po => port'[x] = port[x]
  /\ ports'[f] = <<po>> \o ports[f] /\ \A q \in Proc : q # f => ports'[q] = ports[q]
  /\ CreatedBelow' = CreatedBelow
  /\ UNCHANGED <<rq, new_proc, param_proc, param_data, interrupt_table,
                 received, at, ret>>

LEMMA PortStep ==
  ASSUME TimerInv, NEW p \in Proc, create_process_port(p),
         UNCHANGED <<received, at, ret>>
  PROVE  Ported(p, new_proc[p], next_free_port)
<1> DEFINE f == new_proc[p]
           po == next_free_port
<1>1. /\ rq \in QueueRecord /\ pc \in [Proc -> Labels] /\ next_free_pcb \in ProcOrNull
      /\ ports \in [Proc -> Seq(Port)] /\ po \in Int /\ po >= 0
      /\ port \in [Port -> [open : BOOLEAN, owner : ProcOrNull,
                            blocked_list_head : ProcOrNull,
                            blocked_list_tail : ProcOrNull]]
  BY KernelTypes DEF TimerInv
<1>2. At(p, "create_port") /\ pc[p] = "create_port"
  BY DEF create_process_port, At
<1>3. f \in Proc /\ pc[f] = "embryo"
  BY <1>2, KernelPlaces DEF TimerInv
<1>4. po \in Port /\ po < MAX_PORTS
  <2>1. po <= CreatedBelow - 2
    BY <1>2 DEF TimerInv, Inv, PortsAreLeft
  <2>2. CreatedBelow \in Int /\ CreatedBelow <= MAX_PROCS
    BY <1>1, Processes, SizesAssumption DEF CreatedBelow, ProcOrNull, Proc
  <2> QED  BY <1>1, <2>1, <2>2, RoomAssumption, SizesAssumption, PortsAssumption DEF Port
<1>5. /\ create_new_port(f) /\ Goto(p, "create_ready")
      /\ UNCHANGED <<schedVars, param_proc, param_data, next_blocked,
                     procVars, interrupt_table, halt>>
  <2>1. po # MAX_PORTS
    BY <1>4, PortsAssumption
  <2> QED  BY <2>1 DEF create_process_port, PortFull
<1>6. /\ pc'[p] = "create_ready" /\ \A q \in Proc : q # p => pc'[q] = pc[q]
      /\ next_free_port' = po + 1
      /\ port'[po].owner = f /\ port'[po].open
      /\ \A x \in Port : x # po => port'[x] = port[x]
      /\ ports'[f] = <<po>> \o ports[f]
      /\ \A q \in Proc : q # f => ports'[q] = ports[q]
  BY <1>1, <1>3, <1>4, <1>5 DEF create_new_port, Goto
<1>7. UNCHANGED <<rq, active_proc, param_proc, param_data, next_free_pcb,
                  new_proc, interrupt_table, halt, received, at, ret>>
  BY <1>5 DEF schedVars, procVars
<1>8. K!IInv'
  <2>1. \A q \in Proc : InPcb(q)' <=> InPcb(q)
    BY <1>2, <1>6, <1>7, Processes DEF InPcb
  <2>2. K!Unchanged
    BY <1>7, <2>1, SameWaiting
  <2>3. K!create_process_port(p)
    BY <1>7, SameCalls
  <2>4. p # 1
    BY <1>2, CallersAre
  <2>5. K!CreateProcessPort(p) /\ p \in K!Programs
    BY <2>2, <2>3, <2>4, SameSets DEF K!CreateProcessPort
  <2> QED  BY <2>5, KernelStep DEF K!GNext, K!Call, TimerInv
<1>9. CreatedBelow' = CreatedBelow
  BY <1>7 DEF CreatedBelow
<1> QED  BY <1>2, <1>3, <1>4, <1>6, <1>7, <1>8, <1>9 DEF Ported

(* The last part: process f is put on a ready queue. *)
Started(p, f) ==
  /\ K!IInv' /\ halt' = halt /\ active_proc' = active_proc
  /\ f = new_proc[p] /\ f \in Proc /\ f # p /\ pc[f] = "embryo" /\ pc[p] = "create_ready"
  /\ pc'[p] = "user" /\ pc'[f] = "user"
  /\ \A q \in Proc : q # p /\ q # f => pc'[q] = pc[q]
  /\ \A q \in Proc : rq'.state[q] = rq.state[q] /\ rq'.priority[q] = rq.priority[q]
  /\ \A q \in Proc : q # p => new_proc'[q] = new_proc[q]
  /\ ret' = [ret EXCEPT ![p] = Head(ports[f])]
  /\ CreatedBelow' = CreatedBelow
  /\ UNCHANGED <<param_proc, param_data, port, ports, next_free_port,
                 interrupt_table, received, at>>

LEMMA StartStep ==
  ASSUME TimerInv, NEW p \in Proc, create_process_ready(p),
         ret' = [ret EXCEPT ![p] = Head(ports[new_proc[p]])],
         UNCHANGED <<received, at>>
  PROVE  Started(p, new_proc[p])
<1> DEFINE f == new_proc[p]
<1>1. /\ rq \in QueueRecord /\ pc \in [Proc -> Labels] /\ new_proc \in [Proc -> ProcOrNull]
  BY KernelTypes DEF TimerInv
<1>2. At(p, "create_ready") /\ pc[p] = "create_ready"
  BY DEF create_process_ready, At
<1>3. f \in Proc /\ pc[f] = "embryo" /\ f # p /\ rq.state[f] = "READY"
  BY <1>2, KernelPlaces DEF TimerInv
<1>4. /\ pc'[p] = "user" /\ pc'[f] = "user"
      /\ \A q \in Proc : q # p /\ q # f => pc'[q] = pc[q]
      /\ \A q \in Proc : q # p => new_proc'[q] = new_proc[q]
  BY <1>1, <1>3 DEF create_process_ready
<1>5. \A q \in Proc : rq'.state[q] = rq.state[q] /\ rq'.priority[q] = rq.priority[q]
  <2>1. rq' = add_ready_queue(rq, f)
    BY DEF create_process_ready
  <2>2. rq'.state = [rq.state EXCEPT ![f] = "READY"] /\ rq'.priority = rq.priority
    BY <1>1, <1>3, <2>1, StateOf
  <2> QED  BY <1>1, <1>3, <2>2 DEF QueueRecord
<1>6. UNCHANGED <<active_proc, param_proc, param_data, port, ports,
                  next_free_port, next_free_pcb, interrupt_table, halt, received>>
  BY DEF create_process_ready, ipcVars, portVars
<1>7. K!IInv'
  <2>1. \A q \in Proc : InPcb(q)' <=> InPcb(q)
    BY <1>2, <1>3, <1>4, <1>5, <1>6, Processes DEF InPcb
  <2>2. K!Unchanged
    BY <1>5, <1>6, <2>1, SameWaiting
  <2>3. K!create_process_ready(p)
    BY <1>6, SameCalls
  <2>4. p # 1
    BY <1>2, CallersAre
  <2>5. K!CreateProcessReady(p) /\ p \in K!Programs
    BY <2>2, <2>3, <2>4, SameSets DEF K!CreateProcessReady
  <2> QED  BY <2>5, KernelStep DEF K!GNext, K!Call, TimerInv
<1>8. CreatedBelow' = CreatedBelow
  BY <1>6 DEF CreatedBelow
<1> QED  BY <1>2, <1>3, <1>4, <1>5, <1>6, <1>7, <1>8 DEF Started

(* Whose create_process it is. *)
LEMMA Creations ==
  ASSUME TimerInv, NEW p \in Proc, pc[p] \in {"create_port", "create_ready"},
         active_proc = p
  PROVE  /\ \/ p = 0 /\ at[0] = "assign_timer_port" /\ new_proc[0] = 2
               /\ pc[2] = "embryo" /\ at[2] = "timer_process" /\ pc[3] = "free"
               /\ next_free_port = IF pc[0] = "create_port" THEN 1 ELSE 2
            \/ p = 0 /\ at[0] = "create_programs" /\ new_proc[0] > 3
               /\ pc[2] = "receive" /\ pc[3] \in {"user", "wait_for_interrupt"}
               /\ ~Busy(Service) /\ ~Busy(Notifier)
            \/ p = 2 /\ at[2] = "timer_receive" /\ new_proc[2] = 3
               /\ pc[3] = "embryo" /\ at[3] = "timer_notifier" /\ pc[0] = "user"
               /\ next_free_port = IF pc[2] = "create_port" THEN 2 ELSE 3
         /\ \A q \in Proc : q # p => pc[q] \notin {"create_port", "create_ready"}
<1> USE Processes DEF TimerInv, Inv
<1>1. p = 0 \/ p = 2
  BY CallersAre
<1>2. CASE p = 0
  <2>1. \/ at[0] = "assign_timer_port" /\ new_proc[0] = 2 /\ pc[2] = "embryo"
           /\ next_free_port = IF pc[0] = "create_port" THEN 1 ELSE 2
        \/ at[0] = "create_programs" /\ new_proc[0] > 3
    BY <1>2 DEF BootStages
  <2>2. CASE at[0] = "assign_timer_port"
    <3>1. pc[2] = "embryo" /\ at[2] = "timer_process" /\ pc[3] = "free"
      BY <2>1, <2>2 DEF ServiceStages
    <3> QED  BY <1>2, <2>1, <2>2, <3>1, CallersAre
  <2>3. CASE at[0] = "create_programs"
    <3>1. /\ pc[2] = "receive" /\ pc[3] \in {"user", "wait_for_interrupt"}
          /\ ~Busy(Service) /\ ~Busy(Notifier)
      BY <1>2, <2>3, ServiceExists
    <3> QED  BY <1>2, <2>1, <2>3, <3>1, CallersAre
  <2> QED  BY <2>1, <2>2, <2>3
<1>3. CASE p = 2
  <2>1. /\ at[2] = "timer_receive" /\ new_proc[2] = 3 /\ pc[3] = "embryo"
        /\ next_free_port = IF pc[2] = "create_port" THEN 2 ELSE 3
    BY <1>3 DEF ServiceStages
  <2>2. at[3] = "timer_notifier"
    BY <2>1 DEF NotifierStages
  <2>3. pc[0] \notin {"create_port", "create_ready"}
    BY <1>3, <2>1 DEF BootStages, Exists
  <2>4. pc[0] = "user"
    BY <1>3, <2>1, <2>3 DEF BootStages, Exists
  <2> QED  BY <1>3, <2>1, <2>2, <2>4, CallersAre
<1> QED  BY <1>1, <1>2, <1>3

LEMMA CreateProcessPortInv ==
  ASSUME TimerInv, NEW p \in Proc, create_process_port(p),
         UNCHANGED <<received, at, ret, timerVars, request, elapsed>>
  PROVE  TimerInv'
<1> USE Processes
<1>1. PICK f, po : Ported(p, f, po)
  BY PortStep
<1>2. active_proc = p /\ pc[p] = "create_port"
  BY DEF create_process_port, At
<1>3. UNCHANGED <<timer_port, ticks_left, timer_i, request, elapsed>>
  BY DEF timerVars
<1>4. /\ \/ p = 0 /\ at[0] = "assign_timer_port" /\ f = 2 /\ po = 1
            /\ pc[2] = "embryo" /\ at[2] = "timer_process" /\ pc[3] = "free"
         \/ p = 0 /\ at[0] = "create_programs" /\ f > 3
            /\ pc[2] = "receive" /\ pc[3] \in {"user", "wait_for_interrupt"}
            /\ ~Busy(Service) /\ ~Busy(Notifier)
         \/ p = 2 /\ at[2] = "timer_receive" /\ f = 3 /\ po = 2
            /\ pc[3] = "embryo" /\ at[3] = "timer_notifier" /\ pc[0] = "user"
      /\ \A q \in Proc : q # p => pc[q] \notin {"create_port", "create_ready"}
  BY <1>1, <1>2, Creations DEF Ported
<1>5. /\ next_free_port <= CreatedBelow - 2 /\ po >= 1
      /\ CreatedBelow \in Int /\ next_free_port \in Int
  <2>1. CreatedBelow \in Int /\ next_free_port \in Int
    <3>1. next_free_pcb \in ProcOrNull /\ next_free_port \in 0 .. MAX_PORTS
      BY KernelTypes DEF TimerInv
    <3> QED  BY <3>1, SizesAssumption DEF CreatedBelow, ProcOrNull
  <2>2. po = next_free_port
    BY <1>1 DEF Ported
  <2>3. po >= 1
    <3>1. CASE p = 0 /\ at[0] = "create_programs"
      <4>1. Exists(Service)
        BY <1>4, <3>1 DEF Exists
      <4> QED  BY <2>1, <2>2, <4>1 DEF TimerInv, Inv, PortsAreLeft
    <3> QED  BY <1>4, <3>1
  <2>4. next_free_port <= CreatedBelow - 2
    BY <1>2 DEF TimerInv, Inv, PortsAreLeft
  <2> QED  BY <2>1, <2>2, <2>3, <2>4
<1>6. /\ f = new_proc[p] /\ f \in Proc /\ pc[f] = "embryo"
      /\ po = next_free_port /\ po \in Port /\ next_free_port' = po + 1
      /\ pc'[p] = "create_ready" /\ \A q \in Proc : q # p => pc'[q] = pc[q]
      /\ port'[po].owner = f /\ port'[po].open
      /\ \A x \in Port : x # po => port'[x] = port[x]
      /\ ports'[f] = <<po>> \o ports[f] /\ \A q \in Proc : q # f => ports'[q] = ports[q]
      /\ CreatedBelow' = CreatedBelow
      /\ UNCHANGED <<rq, new_proc, param_proc, param_data, interrupt_table,
                     received, at, ret, halt, active_proc>>
      /\ K!IInv'
  BY <1>1 DEF Ported
<1> USE DEF TimerInv, Inv
<1>7. Typed' /\ OnlyTheTimerIsAwaited' /\ TimerNeverPanics'
  BY <1>3, <1>6 DEF Typed, OnlyTheTimerIsAwaited, TimerNeverPanics
<1>8. BootStages'
  BY <1>3, <1>4, <1>6 DEF BootStages, Exists
<1>9. ServiceStages'
  BY <1>4, <1>6 DEF ServiceStages, Exists
<1>10. NotifierStages' /\ ProgramStages'
  BY <1>4, <1>6 DEF NotifierStages, ProgramStages, Exists
<1>11. PortsAreLeft'
  <2>1. next_free_port' <= CreatedBelow' - 1 /\ next_free_port' >= 2
    BY <1>5, <1>6
  <2>2. \A q \in Proc : pc'[q] # "create_port"
    BY <1>4, <1>6
  <2>3. CASE f = 2
    <3>1. ports'[2] = <<1>>
      BY <1>4, <1>6, <2>3 DEF PortsAreLeft
    <3> QED  BY <1>4, <1>6, <2>1, <2>2, <2>3, <3>1 DEF PortsAreLeft
  <2>4. CASE f # 2
    <3>1. po >= 2
      BY <1>4, <1>5, <1>6, <2>4 DEF PortsAreLeft, Exists
    <3>2. ports'[2] = ports[2] /\ port'[1] = port[1]
      BY <1>6, <2>4, <3>1, KernelConstants
    <3> QED  BY <1>6, <2>1, <2>2, <3>1, <3>2 DEF PortsAreLeft
  <2> QED  BY <2>3, <2>4
<1>12. HavePriorities' /\ ServiceFirst'
  <2>1. \A q \in Proc : pc'[q] = "free" <=> pc[q] = "free"
    BY <1>2, <1>6
  <2>2. HavePriorities'
    BY <1>6, <2>1 DEF HavePriorities
  <2>3. ServiceFirst'
    BY <1>2, <1>4, <1>6 DEF ServiceFirst, Busy, Exists
  <2> QED  BY <2>2, <2>3
<1>13. MessagesAreRight' /\ SleepersKnown' /\ TicksHaveCome' /\ LoopBegins'
  BY <1>3, <1>4, <1>6, CountsAreKept DEF HasMessage, NotifierHasTick
<1> QED  BY <1>6, <1>7, <1>8, <1>9, <1>10, <1>11, <1>12, <1>13

LEMMA CreateProcessReadyInv ==
  ASSUME TimerInv, NEW p \in Proc, create_process_ready(p),
         ret' = [ret EXCEPT ![p] = Head(ports[new_proc[p]])],
         UNCHANGED <<received, at, timerVars, request, elapsed>>
  PROVE  TimerInv'
<1> USE Processes
<1>1. PICK f : Started(p, f)
  BY StartStep
<1>2. active_proc = p /\ pc[p] = "create_ready"
  BY DEF create_process_ready, At
<1>3. UNCHANGED <<timer_port, ticks_left, timer_i, request, elapsed>>
  BY DEF timerVars
<1>4. /\ \/ p = 0 /\ at[0] = "assign_timer_port" /\ f = 2 /\ next_free_port = 2
            /\ pc[2] = "embryo" /\ at[2] = "timer_process" /\ pc[3] = "free"
         \/ p = 0 /\ at[0] = "create_programs" /\ f > 3
            /\ pc[2] = "receive" /\ pc[3] \in {"user", "wait_for_interrupt"}
            /\ ~Busy(Service) /\ ~Busy(Notifier)
         \/ p = 2 /\ at[2] = "timer_receive" /\ f = 3 /\ next_free_port = 3
            /\ pc[3] = "embryo" /\ at[3] = "timer_notifier" /\ pc[0] = "user"
      /\ \A q \in Proc : q # p => pc[q] \notin {"create_port", "create_ready"}
  BY <1>1, <1>2, Creations DEF Started
<1>5. /\ f \in Proc /\ f # p /\ pc[f] = "embryo"
      /\ pc'[p] = "user" /\ pc'[f] = "user"
      /\ \A q \in Proc : q # p /\ q # f => pc'[q] = pc[q]
      /\ \A q \in Proc : rq'.state[q] = rq.state[q] /\ rq'.priority[q] = rq.priority[q]
      /\ \A q \in Proc : q # p => new_proc'[q] = new_proc[q]
      /\ CreatedBelow' = CreatedBelow
      /\ UNCHANGED <<param_proc, param_data, port, ports, next_free_port,
                     interrupt_table, received, at, halt, active_proc>>
      /\ K!IInv'
  BY <1>1 DEF Started
<1>6. rq.state[f] = "READY"
  BY <1>5, KernelPlaces DEF TimerInv
<1>7. ret' = [q \in Proc |-> ret'[q]] /\ (f = 2 => ret'[0] = 1)
  <2>1. ret' = [ret EXCEPT ![p] = Head(ports[f])] /\ ret = [q \in Proc |-> ret[q]]
    BY <1>1 DEF Started, TimerInv, Inv, Typed
  <2>2. f = 2 => ports[2] = <<1>>
    BY <1>4, <1>5 DEF TimerInv, Inv, PortsAreLeft
  <2>3. f = 2 => ret'[0] = 1
    BY <1>4, <2>1, <2>2
  <2> QED  BY <2>1, <2>3
<1> USE DEF TimerInv, Inv
<1>8. Typed' /\ OnlyTheTimerIsAwaited' /\ TimerNeverPanics'
  <2>1. Typed' /\ OnlyTheTimerIsAwaited'
    BY <1>3, <1>5, <1>7 DEF Typed, OnlyTheTimerIsAwaited
  <2>2. TimerNeverPanics'
    BY <1>3, <1>5, NoPanicIsKept
  <2> QED  BY <2>1, <2>2
<1>9. BootStages'
  BY <1>3, <1>4, <1>5, <1>7 DEF BootStages, Exists
<1>10. ServiceStages'
  BY <1>4, <1>5, <1>6 DEF ServiceStages, Exists
<1>11. NotifierStages'
  BY <1>4, <1>5, <1>6 DEF NotifierStages
<1>12. ProgramStages'
  BY <1>4, <1>5, <1>6 DEF ProgramStages, Exists
<1>13. PortsAreLeft'
  BY <1>2, <1>4, <1>5 DEF PortsAreLeft, Exists
<1>14. HavePriorities' /\ ServiceFirst'
  <2>1. \A q \in Proc : pc'[q] = "free" <=> pc[q] = "free"
    BY <1>2, <1>5
  <2>2. HavePriorities'
    BY <1>5, <2>1 DEF HavePriorities
  <2>3. ServiceFirst'
    BY <1>2, <1>4, <1>5 DEF ServiceFirst, Busy, Exists
  <2> QED  BY <2>2, <2>3
<1>15. MessagesAreRight' /\ SleepersKnown' /\ TicksHaveCome' /\ LoopBegins'
  BY <1>3, <1>4, <1>5, CountsAreKept DEF HasMessage, NotifierHasTick
<1> QED  BY <1>5, <1>8, <1>9, <1>10, <1>11, <1>12, <1>13, <1>14, <1>15

(* A step of the program alone, or a panic. *)
LEMMA KernelStutter ==
  ASSUME K!IInv,
         UNCHANGED <<rq, active_proc, param_proc, param_data, next_blocked, port,
                     ports, next_free_port, next_free_pcb, new_proc,
                     interrupt_table, pc, received>>
  PROVE  K!IInv'
<1>1. SentTo' = SentTo
  BY DEF SentTo
<1>2. ToReply' = ToReply
  BY DEF ToReply, InPcb
<1>3. UNCHANGED K!allVars
  BY <1>1, <1>2 DEF K!allVars, K!vars, K!schedVars, K!ipcVars, K!portVars,
     K!procVars, K!clientVars
<1> QED  BY <1>3, K!NextInv, KernelConstants, SizesAssumption, NullAssumption,
            PortsAssumption

(* init_timer assigns its result. *)
LEMMA AssignInv ==
  ASSUME TimerInv, Runs(Boot, "assign_timer_port"),
         timer_port' = Returned(Boot), Forget(Boot), Jump(Boot, "resign_timer"),
         UNCHANGED <<vars, received, ticks_left, timer_i, request, elapsed>>
  PROVE  TimerInv'
<1> USE Processes
<1>1. pc[0] = "user" /\ at[0] = "assign_timer_port" /\ active_proc = 0
  BY DEF Runs, At
<1>2. ret[0] = 1 /\ Exists(Service) /\ halt = "no" /\ rq.state[0] = "READY"
  BY <1>1 DEF TimerInv, Inv, BootStages, Runs, At
<1>3. /\ timer_port' = 1 /\ at'[0] = "resign_timer"
      /\ \A q \in Proc : q # 0 => at'[q] = at[q]
      /\ at' \in [Proc -> Places] /\ ret' = [q \in Proc |-> ret'[q]]
  BY <1>2 DEF TimerInv, Inv, Typed, Returned, Forget, Jump, Places
<1>4. UNCHANGED <<rq, active_proc, param_proc, param_data, next_blocked, port,
                  ports, next_free_port, next_free_pcb, new_proc,
                  interrupt_table, halt, pc, received, ticks_left, timer_i,
                  request, elapsed>>
  BY DEF vars, schedVars, ipcVars, portVars, procVars
<1>5. K!IInv'
  BY <1>4, KernelStutter DEF TimerInv
<1> USE DEF TimerInv, Inv
<1>6. Typed' /\ OnlyTheTimerIsAwaited' /\ TimerNeverPanics'
  BY <1>2, <1>3, <1>4 DEF Typed, OnlyTheTimerIsAwaited, TimerNeverPanics
<1>7. BootStages'
  BY <1>1, <1>2, <1>3, <1>4 DEF BootStages, Exists
<1>8. ServiceStages' /\ NotifierStages' /\ ProgramStages'
  <2>1. ServiceStages' /\ NotifierStages'
    BY <1>3, <1>4 DEF ServiceStages, NotifierStages, Exists
  <2>2. ProgramStages'
    BY <1>1, <1>3, <1>4 DEF ProgramStages, Exists
  <2> QED  BY <2>1, <2>2
<1>9. PortsAreLeft' /\ HavePriorities'
  BY <1>4 DEF PortsAreLeft, HavePriorities, CreatedBelow, Exists
<1>10. ServiceFirst'
  BY <1>1, <1>3, <1>4 DEF ServiceFirst
<1>11. MessagesAreRight' /\ SleepersKnown' /\ TicksHaveCome' /\ LoopBegins'
  BY <1>3, <1>4, CountsAreKept DEF HasMessage, NotifierHasTick
<1> QED  BY <1>5, <1>6, <1>7, <1>8, <1>9, <1>10, <1>11

LEMMA ResignTimerInv ==
  ASSUME TimerInv, Runs(Boot, "resign_timer"), Resigns(Boot, "create_programs"),
         UNCHANGED <<timerVars, request, elapsed>>
  PROVE  TimerInv'
<1> USE Processes
<1>1. pc[0] = "user" /\ at[0] = "resign_timer" /\ active_proc = 0
  BY DEF Runs, At
<1>2. /\ at'[0] = "create_programs" /\ at' \in [Proc -> Places]
      /\ \A q \in Proc : q # 0 => at'[q] = at[q]
  BY DEF TimerInv, Inv, Typed, Resigns, Jump, Places
<1>3. /\ UNCHANGED <<rq, param_proc, param_data, next_blocked, port,
                     ports, next_free_port, next_free_pcb, new_proc,
                     interrupt_table, halt, pc, received, ret, timer_port,
                     ticks_left, timer_i, request, elapsed>>
      /\ active_proc' = dispatcher(rq', active_proc)
  BY DEF Resigns, resign_call, resign, ipcVars, portVars, procVars, timerVars
<1>4. K!IInv' /\ K!HighestStep
  <2>1. K!Unchanged
    BY <1>3, SameWaiting DEF InPcb
  <2>2. K!resign_call(0)
    BY <1>3, SameCalls DEF Resigns
  <2>3. K!Resign(0) /\ 0 \in K!Programs
    BY <2>1, <2>2, SameSets DEF K!Resign
  <2> QED  BY <2>3, KernelStep DEF K!GNext, K!Call, TimerInv
<1> USE DEF TimerInv, Inv
<1>5. Typed' /\ OnlyTheTimerIsAwaited' /\ TimerNeverPanics'
  BY <1>2, <1>3 DEF Typed, OnlyTheTimerIsAwaited, TimerNeverPanics
<1>6. BootStages'
  BY <1>1, <1>2, <1>3 DEF BootStages, Exists
<1>7. ServiceStages' /\ NotifierStages' /\ ProgramStages'
  BY <1>2, <1>3 DEF ServiceStages, NotifierStages, ProgramStages, Exists
<1>8. PortsAreLeft' /\ HavePriorities'
  BY <1>3 DEF PortsAreLeft, HavePriorities, CreatedBelow, Exists
<1>9. ServiceFirst'
  BY <1>3, <1>4, <1>5, <1>6, <1>8, DispatchServesFirst
<1>10. MessagesAreRight' /\ SleepersKnown' /\ TicksHaveCome' /\ LoopBegins'
  BY <1>2, <1>3, CountsAreKept DEF HasMessage, NotifierHasTick
<1> QED  BY <1>4, <1>5, <1>6, <1>7, <1>8, <1>9, <1>10

LEMMA DiesInv ==
  ASSUME TimerInv, Runs(Boot, "create_programs"), next_free_pcb = NULL, Dies(Boot),
         UNCHANGED <<timerVars, request, elapsed>>
  PROVE  TimerInv'
<1> USE Processes
<1>1. pc[0] = "user" /\ at[0] = "create_programs" /\ active_proc = 0
  BY DEF Runs, At
<1>2. /\ Exists(Service) /\ Exists(Notifier) /\ ~Busy(Service) /\ ~Busy(Notifier)
      /\ pc[2] = "receive" /\ pc[3] \in {"user", "wait_for_interrupt"}
  BY <1>1, ServiceExists
<1>3. /\ rq \in QueueRecord /\ pc \in [Proc -> Labels]
  BY KernelTypes DEF TimerInv
<1>4. /\ at'[0] = "dead" /\ at' \in [Proc -> Places]
      /\ \A q \in Proc : q # 0 => at'[q] = at[q]
  BY DEF TimerInv, Inv, Typed, Dies, Jump, Places
<1>5. /\ rq'.state[0] = "ZOMBIE" /\ pc'[0] = "zombie_remove"
      /\ \A q \in Proc : q # 0 => rq'.state[q] = rq.state[q] /\ pc'[q] = pc[q]
      /\ rq'.priority = rq.priority
  BY <1>3 DEF Dies, become_zombie, Goto, QueueRecord
<1>6. UNCHANGED <<active_proc, param_proc, param_data, next_blocked, port,
                  ports, next_free_port, next_free_pcb, new_proc,
                  interrupt_table, halt, received, ret, timer_port,
                  ticks_left, timer_i, request, elapsed>>
  BY DEF Dies, become_zombie, ipcVars, portVars, procVars, timerVars
<1>7. rq.state[0] = "READY"
  BY <1>1 DEF TimerInv, Inv, BootStages
<1>8. K!IInv'
  <2>1. K!Unchanged
    <3>1. \A q \in Proc : InPcb(q)' <=> InPcb(q)
      BY <1>5, <1>6 DEF InPcb
    <3> QED  BY <1>5, <1>6, <1>7, <3>1, SameWaiting
  <2>2. K!become_zombie(0)
    BY <1>6, SameCalls DEF Dies
  <2>3. K!BecomeZombie(0) /\ 0 \in K!Programs
    BY <2>1, <2>2, SameSets DEF K!BecomeZombie
  <2> QED  BY <2>3, KernelStep DEF K!GNext, K!Call, TimerInv
<1> USE DEF TimerInv, Inv
<1>9. Typed' /\ OnlyTheTimerIsAwaited' /\ TimerNeverPanics'
  BY <1>4, <1>6 DEF Typed, OnlyTheTimerIsAwaited, TimerNeverPanics
<1>10. BootStages'
  BY <1>1, <1>2, <1>4, <1>5, <1>6 DEF BootStages, Exists
<1>11. ServiceStages' /\ NotifierStages' /\ ProgramStages'
  BY <1>4, <1>5, <1>6 DEF ServiceStages, NotifierStages, ProgramStages, Exists
<1>12. PortsAreLeft' /\ HavePriorities'
  <2>1. CreatedBelow' = CreatedBelow
    BY <1>6 DEF CreatedBelow
  <2>2. \A q \in Proc : /\ pc'[q] = "create_port" => pc[q] = "create_port"
                        /\ pc'[q] = "free" <=> pc[q] = "free"
    BY <1>1, <1>5
  <2>3. Exists(Service)'
    BY <1>2, <1>5 DEF Exists
  <2>4. PortsAreLeft'
    BY <1>2, <1>6, <2>1, <2>2 DEF PortsAreLeft
  <2>5. HavePriorities
    BY DEF HavePriorities
  <2>6. HavePriorities'
    BY ONLY <1>5, <2>2, <2>5, Processes DEF HavePriorities
  <2> QED  BY ONLY <2>4, <2>6
<1>13. ServiceFirst'
  BY <1>2, <1>5 DEF ServiceFirst, Busy, Exists
<1>14. MessagesAreRight' /\ SleepersKnown' /\ TicksHaveCome' /\ LoopBegins'
  BY <1>4, <1>5, <1>6, <1>7, CountsAreKept DEF HasMessage, NotifierHasTick
<1> QED  BY <1>8, <1>9, <1>10, <1>11, <1>12, <1>13, <1>14

LEMMA ZombieRemoveInv ==
  ASSUME TimerInv, NEW p \in Proc, zombie_remove(p),
         UNCHANGED <<received, at, ret, timerVars, request, elapsed>>
  PROVE  TimerInv'
<1> USE Processes
<1>1. p = 0 /\ pc[0] = "zombie_remove"
  BY CallersAre DEF zombie_remove, At
<1>2. /\ rq \in QueueRecord /\ pc \in [Proc -> Labels]
  BY KernelTypes DEF TimerInv
<1>3. /\ pc'[0] = "zombie_resign" /\ \A q \in Proc : q # 0 => pc'[q] = pc[q]
      /\ rq'.state = rq.state /\ rq'.priority = rq.priority
  BY <1>1, <1>2, StateOf DEF zombie_remove, Goto
<1>4. UNCHANGED <<active_proc, param_proc, param_data, next_blocked, port,
                  ports, next_free_port, next_free_pcb, new_proc,
                  interrupt_table, halt, received, at, ret, timer_port,
                  ticks_left, timer_i, request, elapsed>>
  BY DEF zombie_remove, ipcVars, portVars, procVars, timerVars
<1>5. K!IInv'
  <2>1. \A q \in Proc : InPcb(q)' <=> InPcb(q)
    BY <1>3, <1>4 DEF InPcb
  <2>2. K!Unchanged
    BY <1>3, <1>4, <2>1, SameWaiting
  <2>3. K!zombie_remove(0)
    BY <1>1, <1>4, SameCalls
  <2>4. K!ZombieRemove(0) /\ 0 \in K!Programs
    BY <2>2, <2>3, SameSets DEF K!ZombieRemove
  <2> QED  BY <2>4, KernelStep DEF K!GNext, K!Call, TimerInv
<1> USE DEF TimerInv, Inv
<1>6. at[0] = "dead" /\ Exists(Service) /\ Exists(Notifier)
  BY <1>1 DEF BootStages
<1>7. Typed' /\ OnlyTheTimerIsAwaited' /\ TimerNeverPanics'
  BY <1>4 DEF Typed, OnlyTheTimerIsAwaited, TimerNeverPanics
<1>8. BootStages'
  BY <1>3, <1>4, <1>6 DEF BootStages, Exists
<1>9. ServiceStages' /\ NotifierStages' /\ ProgramStages'
  <2>1. ServiceStages' /\ NotifierStages'
    BY <1>3, <1>4 DEF ServiceStages, NotifierStages, Exists
  <2>2. ProgramStages'
    BY <1>3, <1>4, <1>6 DEF ProgramStages, Exists
  <2> QED  BY <2>1, <2>2
<1>10. PortsAreLeft' /\ HavePriorities'
  <2>1. CreatedBelow' = CreatedBelow
    BY <1>4 DEF CreatedBelow
  <2>2. \A q \in Proc : /\ pc'[q] = "create_port" => pc[q] = "create_port"
                        /\ pc'[q] = "free" <=> pc[q] = "free"
    BY <1>1, <1>3
  <2>3. PortsAreLeft'
    BY <1>4, <1>6, <2>1, <2>2 DEF PortsAreLeft
  <2> QED  BY <1>3, <2>2, <2>3 DEF HavePriorities
<1>11. ServiceFirst'
  BY <1>3, <1>4, <1>6 DEF ServiceFirst, Busy, Exists
<1>12. MessagesAreRight' /\ SleepersKnown' /\ TicksHaveCome' /\ LoopBegins'
  BY <1>3, <1>4, CountsAreKept DEF HasMessage, NotifierHasTick
<1> QED  BY <1>5, <1>7, <1>8, <1>9, <1>10, <1>11, <1>12

LEMMA ZombieResignInv ==
  ASSUME TimerInv, NEW p \in Proc, zombie_resign(p),
         UNCHANGED <<received, at, ret, timerVars, request, elapsed>>
  PROVE  TimerInv'
<1> USE Processes
<1>1. p = 0 /\ pc[0] = "zombie_resign"
  BY CallersAre DEF zombie_resign, At
<1>2. pc \in [Proc -> Labels]
  BY KernelTypes DEF TimerInv
<1>3. pc'[0] = "zombie_loop" /\ \A q \in Proc : q # 0 => pc'[q] = pc[q]
  BY <1>1, <1>2 DEF zombie_resign, Goto
<1>4. /\ UNCHANGED <<rq, param_proc, param_data, next_blocked, port,
                  ports, next_free_port, next_free_pcb, new_proc,
                  interrupt_table, halt, received, at, ret, timer_port,
                  ticks_left, timer_i, request, elapsed>>
      /\ active_proc' = dispatcher(rq', active_proc)
  BY DEF zombie_resign, resign, ipcVars, portVars, procVars, timerVars
<1>5. K!IInv' /\ K!HighestStep
  <2>1. \A q \in Proc : InPcb(q)' <=> InPcb(q)
    BY <1>3, <1>4 DEF InPcb
  <2>2. K!Unchanged
    BY <1>4, <2>1, SameWaiting
  <2>3. K!zombie_resign(0)
    BY <1>1, <1>4, SameCalls
  <2>4. K!ZombieResign(0) /\ 0 \in K!Programs
    BY <2>2, <2>3, SameSets DEF K!ZombieResign
  <2> QED  BY <2>4, KernelStep DEF K!GNext, K!Call, TimerInv
<1> USE DEF TimerInv, Inv
<1>6. at[0] = "dead" /\ Exists(Service) /\ Exists(Notifier)
  BY <1>1 DEF BootStages
<1>7. Typed' /\ OnlyTheTimerIsAwaited' /\ TimerNeverPanics'
  BY <1>4 DEF Typed, OnlyTheTimerIsAwaited, TimerNeverPanics
<1>8. BootStages'
  BY <1>3, <1>4, <1>6 DEF BootStages, Exists
<1>9. ServiceStages' /\ NotifierStages' /\ ProgramStages'
  <2>1. ServiceStages' /\ NotifierStages'
    BY <1>3, <1>4 DEF ServiceStages, NotifierStages, Exists
  <2>2. ProgramStages'
    BY <1>3, <1>4, <1>6 DEF ProgramStages, Exists
  <2> QED  BY <2>1, <2>2
<1>10. PortsAreLeft' /\ HavePriorities'
  <2>1. CreatedBelow' = CreatedBelow
    BY <1>4 DEF CreatedBelow
  <2>2. \A q \in Proc : /\ pc'[q] = "create_port" => pc[q] = "create_port"
                        /\ pc'[q] = "free" <=> pc[q] = "free"
    BY <1>1, <1>3
  <2>3. PortsAreLeft'
    BY <1>4, <1>6, <2>1, <2>2 DEF PortsAreLeft
  <2> QED  BY <1>4, <2>2, <2>3 DEF HavePriorities
<1>11. ServiceFirst'
  BY <1>4, <1>5, <1>7, <1>8, <1>10, DispatchServesFirst
<1>12. MessagesAreRight' /\ SleepersKnown' /\ TicksHaveCome' /\ LoopBegins'
  BY <1>3, <1>4, CountsAreKept DEF HasMessage, NotifierHasTick
<1> QED  BY <1>5, <1>7, <1>8, <1>9, <1>10, <1>11, <1>12

(* A step that changes nothing but halt. *)
LEMMA NothingChanges ==
  ASSUME TimerInv,
         UNCHANGED <<schedVars, ipcVars, portVars, procVars, interrupt_table, pc,
                     received, progVars, timerVars, request, elapsed>>
  PROVE  TimerNeverPanics' => TimerInv'
<1>1. UNCHANGED <<rq, active_proc, param_proc, param_data, next_blocked, port,
                  ports, next_free_port, next_free_pcb, new_proc,
                  interrupt_table, pc, received, at, ret, timer_port,
                  ticks_left, timer_i, request, elapsed>>
  BY DEF schedVars, ipcVars, portVars, procVars, progVars, timerVars
<1>2. K!IInv'
  BY <1>1, KernelStutter DEF TimerInv
<1> USE DEF TimerInv, Inv
<1>3. Typed' /\ OnlyTheTimerIsAwaited'
  BY <1>1 DEF Typed, OnlyTheTimerIsAwaited
<1>4. BootStages' /\ ServiceStages' /\ NotifierStages' /\ ProgramStages'
  BY <1>1 DEF BootStages, ServiceStages, NotifierStages, ProgramStages, Exists
<1>5. PortsAreLeft' /\ HavePriorities' /\ ServiceFirst'
  BY <1>1 DEF PortsAreLeft, CreatedBelow, HavePriorities, ServiceFirst, Busy, Exists
<1>6. MessagesAreRight' /\ SleepersKnown' /\ TicksHaveCome' /\ LoopBegins'
  BY <1>1, CountsAreKept DEF HasMessage, NotifierHasTick
<1> QED  BY <1>2, <1>3, <1>4, <1>5, <1>6

(* The machine may stop. *)
LEMMA HaltInv ==
  ASSUME TimerInv, halt' = halt \/ (halt' = "Failed assertion" /\ timer_port = NULL),
         UNCHANGED <<schedVars, ipcVars, portVars, procVars, interrupt_table, pc,
                     received, progVars, timerVars, request, elapsed>>
  PROVE  TimerInv'
<1>1. timer_port' = timer_port
  BY Zenon DEF timerVars
<1>2. TimerNeverPanics'
  BY <1>1, Zenon DEF TimerNeverPanics, TimerInv, Inv
<1> QED  BY <1>2, NothingChanges, Zenon

-----------------------------------------------------------------------------
(* The service at work *)

(* A call that creates no process and gets no port. *)
Running == {"user", "receive", "wait_for_interrupt"}

LEMMA StartIsKept ==
  ASSUME TimerInv,
         UNCHANGED <<timer_port, next_free_port, next_free_pcb, ports, new_proc, ret>>,
         at'[0] = at[0], rq'.state[0] = rq.state[0], rq'.priority = rq.priority,
         port'[1].owner = port[1].owner, port'[1].open = port[1].open,
         \A q \in Proc : pc'[q] = pc[q] \/ (q # 0 /\ pc[q] \in Running /\ pc'[q] \in Running)
  PROVE  BootStages' /\ PortsAreLeft' /\ HavePriorities'
<1> USE Processes DEF TimerInv, Inv
<1>1. \A q \in Proc : /\ Exists(q)' <=> Exists(q)
                      /\ pc'[q] = "free" <=> pc[q] = "free"
                      /\ pc'[q] = "embryo" <=> pc[q] = "embryo"
                      /\ pc'[q] = "create_port" <=> pc[q] = "create_port"
  BY DEF Exists, Running
<1>2. pc'[0] = pc[0] /\ CreatedBelow' = CreatedBelow
  BY DEF CreatedBelow
<1>3. pc'[2] = "embryo" <=> pc[2] = "embryo"
  BY <1>1 DEF Running
<1>4. BootStages'
  BY <1>1, <1>2, <1>3 DEF BootStages
<1>5. PortsAreLeft'
  BY <1>1, <1>2 DEF PortsAreLeft, Running
<1>6. HavePriorities'
  BY <1>1 DEF HavePriorities, Running
<1> QED  BY <1>4, <1>5, <1>6

LEMMA TypesAreKept ==
  ASSUME TimerInv, at' \in [Proc -> Places],
         UNCHANGED <<ret, timer_port, ticks_left, timer_i, request, elapsed, halt>>
  PROVE  Typed' /\ TimerNeverPanics'
<1>1. Typed /\ TimerNeverPanics
  BY DEF TimerInv, Inv
<1>2. Typed'
  BY <1>1 DEF Typed
<1>3. TimerNeverPanics'
  BY <1>1, NoPanicIsKept
<1> QED  BY <1>2, <1>3

(* The port of the service, once it is known. *)
LEMMA TheService ==
  ASSUME TimerInv, timer_port # NULL
  PROVE  /\ timer_port = 1 /\ Exists(Service) /\ 1 \in K!Known
         /\ port[1].owner = 2 /\ port[1].open /\ ports[2] = <<1>>
<1> USE Processes DEF TimerInv, Inv
<1>1. timer_port = 1 /\ Exists(Service)
  BY DEF BootStages, Typed
<1>2. port[1].owner = 2 /\ port[1].open /\ ports[2] = <<1>>
  BY <1>1 DEF PortsAreLeft
<1>3. 1 \in K!Known
  BY <1>1, <1>2, SameSets, KernelConstants DEF K!Known, Exists
<1> QED  BY <1>1, <1>2, <1>3

(* A step of the timer process that replies to nobody wakes nobody. *)
LEMMA NobodyWakes ==
  ASSUME TimerInv, Awake,
         \A p \in Proc : rq'.state[p] = "READY" => rq.state[p] # "REPLY_BLOCKED"
  PROVE  UNCHANGED <<request, elapsed>>
<1>1. /\ request = [p \in Proc |-> request[p]] /\ elapsed = [p \in Proc |-> elapsed[p]]
      /\ \A p \in Proc : rq.state[p] # "REPLY_BLOCKED" => request[p] = NULL /\ elapsed[p] = 0
  BY DEF TimerInv, Inv, Typed, SleepersKnown
<1> QED  BY <1>1 DEF Awake

(* The notifier waits for the timer, which nobody else does. *)
LEMMA NotifierWaitsInv ==
  ASSUME TimerInv, NEW p \in Proc, Runs(p, "timer_notifier"),
         Waits(p, TIMER_IRQ, "notify_tick"),
         UNCHANGED <<timerVars, request, elapsed>>
  PROVE  TimerInv'
<1> USE Processes
<1>1. p = 3 /\ pc[3] = "user" /\ at[3] = "timer_notifier" /\ active_proc = 3
  BY WhereTheyAre DEF Runs, At
<1>2. /\ rq \in QueueRecord /\ pc \in [Proc -> Labels]
      /\ interrupt_table \in [Irq -> ProcOrNull]
  BY KernelTypes DEF TimerInv
<1>3. rq.state[3] = "READY"
  BY <1>1, KernelPlaces DEF TimerInv
<1>4. interrupt_table[TIMER_IRQ] = NULL
  <2>1. ASSUME NEW n \in Proc, interrupt_table[TIMER_IRQ] = n PROVE FALSE
    <3>1. pc[n] = "wait_for_interrupt"
      BY <2>1, SameSets DEF TimerInv, K!IInv, K!WaitersAreRegistered, Irq, TIMER_IRQ
    <3> QED  BY <1>1, <3>1, CallersAre
  <2> QED  BY <1>2, <2>1 DEF Irq, ProcOrNull
<1>5. /\ interrupt_table' = [interrupt_table EXCEPT ![TIMER_IRQ] = 3]
      /\ resign([remove_ready_queue(rq, 3) EXCEPT !.state[3] = "INTR_BLOCKED"])
      /\ Goto(3, "wait_for_interrupt")
      /\ UNCHANGED <<ipcVars, portVars, procVars, halt>>
      /\ Jump(3, "notify_tick") /\ UNCHANGED <<received, ret>>
  <2>1. wait_for_interrupt(3, TIMER_IRQ) /\ Jump(3, "notify_tick") /\ UNCHANGED <<received, ret>>
    BY <1>1 DEF Waits
  <2> QED  BY ONLY <1>4, <2>1 DEF wait_for_interrupt
<1>6. /\ pc'[3] = "wait_for_interrupt" /\ \A q \in Proc : q # 3 => pc'[q] = pc[q]
      /\ at'[3] = "notify_tick" /\ \A q \in Proc : q # 3 => at'[q] = at[q]
      /\ at' \in [Proc -> Places]
  BY <1>2, <1>5 DEF Goto, Jump, TimerInv, Inv, Typed, Places
<1>7. /\ rq'.state[3] = "INTR_BLOCKED" /\ \A q \in Proc : q # 3 => rq'.state[q] = rq.state[q]
      /\ rq'.priority = rq.priority
      /\ active_proc' = dispatcher(rq', active_proc)
  <2>1. rq' = [remove_ready_queue(rq, 3) EXCEPT !.state[3] = "INTR_BLOCKED"]
    BY <1>5 DEF resign
  <2>2. /\ rq'.state[3] = "INTR_BLOCKED" /\ rq'.priority = rq.priority
        /\ \A q \in Proc : q # 3 => rq'.state[q] = rq.state[q]
    BY ONLY <1>2, <2>1, Processes DEF QueueRecord, remove_ready_queue
  <2> QED  BY <1>5, <2>2 DEF resign
<1>8. UNCHANGED <<param_proc, param_data, next_blocked, port, ports, next_free_port,
                  next_free_pcb, new_proc, halt, received, ret, timer_port,
                  ticks_left, timer_i, request, elapsed>>
  BY <1>5 DEF ipcVars, portVars, procVars, timerVars

<1>9. K!IInv' /\ K!HighestStep
  <2>1. \A q \in Proc : InPcb(q)' <=> InPcb(q)
    BY <1>6, <1>7, <1>8 DEF InPcb
  <2>2. K!Unchanged
    BY <1>3, <1>7, <1>8, <2>1, SameWaiting
  <2>3. K!wait_for_interrupt(3, TIMER_IRQ)
    BY <1>1, <1>8, SameInterruptCalls DEF Waits
  <2>4. K!WaitForInterrupt(3) /\ 3 \in K!Programs
    BY <2>2, <2>3, SameSets DEF K!WaitForInterrupt, Irq
  <2> QED  BY <2>4, KernelStep DEF K!GNext, K!Call, TimerInv
<1>10. BootStages' /\ PortsAreLeft' /\ HavePriorities'
  <2>1. \A q \in Proc : pc'[q] = pc[q] \/ (q # 0 /\ pc[q] \in Running /\ pc'[q] \in Running)
    BY <1>1, <1>6 DEF Running
  <2> QED  BY <1>6, <1>7, <1>8, <2>1, StartIsKept
<1> USE DEF TimerInv, Inv
<1>11. Typed' /\ TimerNeverPanics'
  BY <1>6, <1>8, TypesAreKept
<1>12. OnlyTheTimerIsAwaited'
  BY <1>2, <1>5 DEF OnlyTheTimerIsAwaited
<1>13. ServiceStages' /\ NotifierStages' /\ ProgramStages'
  <2>1. ServiceStages'
    BY <1>1, <1>6, <1>7, <1>8 DEF ServiceStages, Exists
  <2>2. NotifierStages'
    BY <1>6 DEF NotifierStages
  <2>3. ProgramStages'
    BY <1>6, <1>7 DEF ProgramStages, Exists
  <2> QED  BY <2>1, <2>2, <2>3
<1>14. ServiceFirst'
  BY <1>7, <1>9, <1>10, <1>11, DispatchServesFirst
<1>15. MessagesAreRight' /\ SleepersKnown' /\ TicksHaveCome' /\ LoopBegins'
  <2>1. ~NotifierHasTick /\ ~NotifierHasTick'
    BY <1>1, <1>3, <1>6, <1>7 DEF NotifierHasTick
  <2>2. (HasMessage' <=> HasMessage) /\ pc'[2] = pc[2] /\ at'[2] = at[2]
    BY <1>6, <1>7 DEF HasMessage
  <2>3. \A q \in Proc : rq'.state[q] = "REPLY_BLOCKED" <=> rq.state[q] = "REPLY_BLOCKED"
    BY <1>3, <1>7
  <2> QED  BY <1>8, <2>1, <2>2, <2>3, CountsAreKept
<1> QED  BY <1>9, <1>10, <1>11, <1>12, <1>13, <1>14, <1>15

(* The notifier runs again after the interrupt. *)
LEMMA NotifierWokenInv ==
  ASSUME TimerInv, NEW p \in Proc, wait_for_interrupt_return(p),
         UNCHANGED <<received, at, ret, timerVars, request, elapsed>>
  PROVE  TimerInv'
<1> USE Processes
<1>1. p = 3 /\ pc[3] = "wait_for_interrupt" /\ active_proc = 3
  BY CallersAre DEF wait_for_interrupt_return, At
<1>2. /\ rq \in QueueRecord /\ pc \in [Proc -> Labels]
      /\ interrupt_table \in [Irq -> ProcOrNull]
  BY KernelTypes DEF TimerInv
<1>3. rq.state[3] = "READY"
  BY <1>1, KernelPlaces DEF TimerInv
<1>4. /\ pc'[3] = "user" /\ \A q \in Proc : q # 3 => pc'[q] = pc[q]
      /\ interrupt_table' = [irq \in Irq |-> IF interrupt_table[irq] = 3
                                             THEN NULL ELSE interrupt_table[irq]]
  BY <1>1, <1>2 DEF wait_for_interrupt_return, Goto
<1>5. UNCHANGED <<rq, active_proc, param_proc, param_data, next_blocked, port, ports,
                  next_free_port, next_free_pcb, new_proc, halt, received, at, ret,
                  timer_port, ticks_left, timer_i, request, elapsed>>
  BY DEF wait_for_interrupt_return, schedVars, ipcVars, portVars, procVars, timerVars
<1>6. K!IInv'
  <2>1. \A q \in Proc : InPcb(q)' <=> InPcb(q)
    BY <1>4, <1>5 DEF InPcb
  <2>2. K!Unchanged
    BY <1>5, <2>1, SameWaiting
  <2>3. K!wait_for_interrupt_return(3)
    BY <1>1, <1>5, SameInterruptCalls
  <2>4. K!WaitForInterruptReturn(3) /\ 3 \in K!Programs
    BY <2>2, <2>3, SameSets DEF K!WaitForInterruptReturn
  <2> QED  BY <2>4, KernelStep DEF K!GNext, K!Call, TimerInv
<1>7. BootStages' /\ PortsAreLeft' /\ HavePriorities'
  <2>1. \A q \in Proc : pc'[q] = pc[q] \/ (q # 0 /\ pc[q] \in Running /\ pc'[q] \in Running)
    BY <1>1, <1>4 DEF Running
  <2> QED  BY <1>5, <2>1, StartIsKept
<1> USE DEF TimerInv, Inv
<1>8. at[3] = "notify_tick"
  BY <1>1 DEF NotifierStages
<1>9. Typed' /\ TimerNeverPanics' /\ OnlyTheTimerIsAwaited'
  <2>1. at' \in [Proc -> Places]
    BY <1>5 DEF Typed
  <2> QED  BY <1>4, <1>5, <2>1, TypesAreKept DEF OnlyTheTimerIsAwaited
<1>10. ServiceStages' /\ NotifierStages' /\ ProgramStages'
  <2>1. ServiceStages'
    BY <1>1, <1>4, <1>5 DEF ServiceStages, Exists
  <2>2. NotifierStages'
    BY <1>3, <1>4, <1>5, <1>8 DEF NotifierStages
  <2>3. ProgramStages'
    BY <1>1, <1>4, <1>5 DEF ProgramStages, Exists
  <2> QED  BY <2>1, <2>2, <2>3
<1>11. ServiceFirst'
  BY <1>1, <1>5 DEF ServiceFirst
<1>12. MessagesAreRight' /\ SleepersKnown' /\ TicksHaveCome' /\ LoopBegins'
  <2>1. pc'[2] = pc[2]
    BY <1>4
  <2> QED  BY <1>5, <2>1, CountsAreKept DEF HasMessage, NotifierHasTick
<1> QED  BY <1>6, <1>7, <1>9, <1>10, <1>11, <1>12

LEMMA CountTypes ==
  ASSUME Typed
  PROVE  /\ LongestSleep \in Ticks /\ LongestSleep \in Nat /\ Ticks \subseteq Nat
         /\ \A n \in Ticks : n <= LongestSleep
         /\ \A p \in Proc : /\ ticks_left[p] \in Int /\ ticks_left[p] >= 0
                            /\ ticks_left[p] <= LongestSleep
                            /\ elapsed[p] \in Int /\ elapsed[p] >= 0
                            /\ elapsed[p] <= LongestSleep
                            /\ request[p] # NULL => request[p] \in Ticks /\ request[p] \in Nat
                            /\ request[p] # NULL => Counted(p) \in Int
                            /\ UnderWay(p) \in Int
<1>1. /\ LongestSleep \in Ticks /\ LongestSleep \in Nat /\ Ticks \subseteq Nat
      /\ \A n \in Ticks : n <= LongestSleep
  BY TicksAssumption DEF LongestSleep
<1>2. ASSUME NEW p \in Proc
      PROVE  /\ ticks_left[p] \in Int /\ ticks_left[p] >= 0
             /\ ticks_left[p] <= LongestSleep
             /\ elapsed[p] \in Int /\ elapsed[p] >= 0
             /\ elapsed[p] <= LongestSleep
             /\ request[p] # NULL => request[p] \in Ticks /\ request[p] \in Nat
             /\ request[p] # NULL => Counted(p) \in Int
             /\ UnderWay(p) \in Int
  <2>1. /\ ticks_left[p] \in 0 .. LongestSleep
        /\ elapsed[p] \in 0 .. LongestSleep
        /\ request[p] # NULL => request[p] \in Ticks /\ request[p] \in Nat
    BY <1>1 DEF Typed
  <2>2. request[p] # NULL => Counted(p) \in Int
    BY <2>1, <1>1 DEF Counted
  <2>3. UnderWay(p) \in Int
    BY DEF UnderWay, OneIf
  <2>4. /\ ticks_left[p] \in Int /\ ticks_left[p] >= 0
        /\ ticks_left[p] <= LongestSleep
        /\ elapsed[p] \in Int /\ elapsed[p] >= 0
        /\ elapsed[p] <= LongestSleep
    BY ONLY <1>1, <2>1
  <2> QED  BY ONLY <2>1, <2>2, <2>3, <2>4
<1> QED  BY ONLY <1>1, <1>2

(* The timer interrupt: it makes the notifier ready if that waits for it.  *)
LEMMA TickInv ==
  ASSUME TimerInv, isr_timer,
         elapsed' = [p \in Proc |->
                       IF request[p] # NULL /\ elapsed[p] < LongestSleep
                       THEN elapsed[p] + 1 ELSE elapsed[p]],
         UNCHANGED <<received, progVars, timerVars, request>>
  PROVE  TimerInv'
<1> USE Processes
<1>1. /\ rq \in QueueRecord /\ interrupt_table \in [Irq -> ProcOrNull]
  BY KernelTypes DEF TimerInv
<1>2. /\ UNCHANGED <<param_proc, param_data, next_blocked, port, ports, next_free_port,
                     next_free_pcb, new_proc, interrupt_table, halt, pc, received, at,
                     ret, timer_port, ticks_left, timer_i, request>>
      /\ active_proc' = dispatcher(rq', active_proc)
      /\ halt = "no"
  BY DEF isr_timer, resign, ipcVars, portVars, procVars, progVars, timerVars,
         InterruptsEnabled
<1>3. /\ \A q \in Proc : q # 3 => rq'.state[q] = rq.state[q]
      /\ rq'.priority = rq.priority
      /\ \/ rq'.state[3] = rq.state[3]
         \/ /\ rq.state[3] = "INTR_BLOCKED" /\ pc[3] = "wait_for_interrupt"
            /\ rq'.state[3] = "READY"
  <2>1. CASE rq' = rq
    BY <2>1
  <2>2. ASSUME NEW n, n = interrupt_table[TIMER_IRQ], n # NULL,
               rq.state[n] = "INTR_BLOCKED", rq' = add_ready_queue(rq, n)
        PROVE  <1>3
    <3>1. n \in Proc
      BY <1>1, <2>2 DEF Irq, ProcOrNull
    <3>2. pc[n] = "wait_for_interrupt"
      BY <2>2, <3>1, SameSets DEF TimerInv, K!IInv, K!WaitersAreRegistered, Irq, TIMER_IRQ
    <3>3. n = 3
      BY <3>1, <3>2, CallersAre
    <3>4. rq'.state = [rq.state EXCEPT ![3] = "READY"] /\ rq'.priority = rq.priority
      BY <1>1, <2>2, <3>3, StateOf
    <3>5. rq.state \in [Proc -> States]
      BY <1>1 DEF QueueRecord
    <3>6. /\ rq'.state[3] = "READY"
          /\ \A q \in Proc : q # 3 => rq'.state[q] = rq.state[q]
      BY <3>4, <3>5
    <3> QED  BY <2>2, <3>2, <3>3, <3>4, <3>6
  <2> QED  BY <2>1, <2>2 DEF isr_timer, resign
<1>4. K!IInv' /\ K!HighestStep
  <2>1. K!Unchanged
    BY <1>2, <1>3, SameWaiting DEF InPcb
  <2>2. K!isr_timer
    BY <1>2, SameInterruptCalls
  <2> QED  BY <2>1, <2>2, KernelStep DEF K!GNext, K!Interrupt, K!IsrTimer, TimerInv
<1>5. BootStages' /\ PortsAreLeft' /\ HavePriorities'
  BY <1>2, <1>3, StartIsKept
<1> USE DEF TimerInv, Inv
<1>6. elapsed' \in [Proc -> 0 .. LongestSleep]
  BY CountTypes
<1>7. Typed'
  BY <1>2, <1>6 DEF Typed
<1>8. OnlyTheTimerIsAwaited' /\ TimerNeverPanics'
  BY <1>2 DEF OnlyTheTimerIsAwaited, TimerNeverPanics
<1>9. ServiceStages'
  BY <1>2, <1>3 DEF ServiceStages, Exists
<1>10. NotifierStages'
  BY <1>2, <1>3 DEF NotifierStages
<1>11. ProgramStages'
  BY <1>2, <1>3 DEF ProgramStages, Exists
<1>12. ServiceFirst'
  BY <1>2, <1>4, <1>5, <1>7, DispatchServesFirst
<1>13. MessagesAreRight' /\ LoopBegins' /\ (HasMessage' <=> HasMessage)
  <2>1. HasMessage' <=> HasMessage
    BY <1>2, <1>3 DEF HasMessage
  <2>2. Messenger' = Messenger /\ Content' = Content
    BY <1>2 DEF Messenger, Content
  <2>3. \A s, data : IsMessage(s, data) => IsMessage(s, data)'
    BY <1>2, <1>3 DEF IsMessage
  <2>4. MessagesAreRight'
    BY <1>2, <2>1, <2>2, <2>3 DEF MessagesAreRight
  <2> QED  BY <1>2, <2>1, <2>4 DEF LoopBegins
<1>14. SleepersKnown'
  <2>1. \A p \in Proc : rq'.state[p] = "REPLY_BLOCKED" <=> rq.state[p] = "REPLY_BLOCKED"
    BY <1>3
  <2>2. \A p \in Proc : request[p] = NULL => elapsed'[p] = elapsed[p]
    OBVIOUS
  <2>3. Messenger' = Messenger
    BY <1>2 DEF Messenger
  <2> QED  BY <1>2, <1>13, <2>1, <2>2, <2>3 DEF SleepersKnown
<1>15. TicksHaveCome'
  <2> SUFFICES ASSUME NEW p \in Proc, request[p] # NULL, elapsed'[p] # LongestSleep
               PROVE  Counted(p)' + UnderWay(p)' <= elapsed'[p]
    BY <1>2 DEF TicksHaveCome
  <2>1. /\ elapsed[p] < LongestSleep /\ elapsed'[p] = elapsed[p] + 1
        /\ elapsed[p] \in Int /\ Counted(p) \in Int /\ UnderWay(p) \in Int
    BY CountTypes
  <2>2. Counted(p)' = Counted(p)
    BY <1>2 DEF Counted
  <2>3. ServiceHasTick(p)' = ServiceHasTick(p)
    BY <1>2, <1>13 DEF ServiceHasTick, Content
  <2>4. UnderWay(p)' = UnderWay(p) \/ UnderWay(p)' = UnderWay(p) + 1
    <3>1. NotifierHasTick => NotifierHasTick'
      BY <1>2, <1>3 DEF NotifierHasTick
    <3> QED  BY <2>3, <3>1 DEF UnderWay, OneIf
  <2>5. Counted(p) + UnderWay(p) <= elapsed[p]
    BY <2>1 DEF TicksHaveCome
  <2> QED  BY <2>1, <2>2, <2>4, <2>5
<1> QED  BY <1>4, <1>5, <1>7, <1>8, <1>9, <1>10, <1>11, <1>12, <1>13, <1>14, <1>15

(* The sender of a call that the service may be waiting for. *)
LEMMA WaitsOnService ==
  ASSUME NEW p \in Proc, rq.state[p] = "READY",
         \A q \in Proc : q # p =>
           (rq'.state[q] \in {"SEND_BLOCKED", "MESSAGE_BLOCKED", "REPLY_BLOCKED"}
              <=> rq.state[q] \in {"SEND_BLOCKED", "MESSAGE_BLOCKED", "REPLY_BLOCKED"})
  PROVE  K!WaitsOn(p, 1)
<1>1. SentTo \in [Proc -> {1, NULL}] /\ SentTo' \in [Proc -> {1, NULL}]
  BY DEF SentTo
<1>2. \A q \in Proc : q # p => SentTo'[q] = SentTo[q]
  BY DEF SentTo
<1>3. SentTo'[p] = IF rq'.state[p] \in {"SEND_BLOCKED", "MESSAGE_BLOCKED", "REPLY_BLOCKED"}
                   THEN 1 ELSE SentTo[p]
  BY DEF SentTo
<1> QED  BY ONLY <1>1, <1>2, <1>3 DEF K!WaitsOn, K!SendStates

LEMMA SameClients ==
  ASSUME \A q \in Proc :
           /\ rq'.state[q] = "REPLY_BLOCKED" /\ ~InPcb(q)' =>
                rq.state[q] = "REPLY_BLOCKED" /\ ~InPcb(q)
           /\ rq.state[q] = "REPLY_BLOCKED" /\ ~InPcb(q) =>
                rq'.state[q] = "REPLY_BLOCKED" /\ ~InPcb(q)'
  PROVE  ToReply' = ToReply
BY DEF ToReply

(* The timer process waits for the message of the notifier. *)
LEMMA NotifierDeliversInv ==
  ASSUME TimerInv, Runs(Notifier, "notify_tick"), timer_port # NULL,
         CanDeliver(1), message(Notifier, 1, NULL), Jump(Notifier, "timer_notifier"),
         UNCHANGED <<received, ret, timerVars, request, elapsed>>
  PROVE  TimerInv'
<1> USE Processes
<1>1. /\ pc[3] = "user" /\ at[3] = "notify_tick" /\ active_proc = 3
      /\ port[1].owner = 2 /\ port[1].open /\ 1 \in K!Known
  BY TheService DEF Runs, At
<1>2. /\ rq \in QueueRecord /\ param_proc \in [Proc -> ProcOrNull]
      /\ param_data \in [Proc -> Ticks \cup {NULL}]
  BY KernelTypes DEF TimerInv
<1>3. rq.state[2] = "RECEIVE_BLOCKED" /\ rq.state[3] = "READY"
  BY <1>1, KernelPlaces DEF TimerInv, CanDeliver
<1>4. pc[2] = "receive" /\ at[2] = "timer_message" /\ Exists(Notifier)
  BY <1>3 DEF TimerInv, Inv, ServiceStages
<1>5. /\ at'[3] = "timer_notifier" /\ \A q \in Proc : q # 3 => at'[q] = at[q]
      /\ at' \in [Proc -> Places]
  BY DEF Jump, TimerInv, Inv, Typed, Places
<1>6. /\ param_proc' = [param_proc EXCEPT ![2] = 3]
      /\ param_data' = [param_data EXCEPT ![2] = NULL]
      /\ rq' = add_ready_queue(rq, 2)
      /\ active_proc' = dispatcher(rq', active_proc)
      /\ UNCHANGED <<next_blocked, port, portVars, procVars, interrupt_table, halt, pc>>
  BY <1>1 DEF message, Deliver, resign
<1>7. /\ param_proc'[2] = 3 /\ param_data'[2] = NULL
      /\ param_data'[3] = param_data[3]
  BY <1>2, <1>6
<1>8. /\ rq'.state[2] = "READY" /\ rq'.priority = rq.priority
      /\ \A q \in Proc : q # 2 => rq'.state[q] = rq.state[q]
  <2>1. rq'.state = [rq.state EXCEPT ![2] = "READY"] /\ rq'.priority = rq.priority
    BY <1>2, <1>6, StateOf
  <2> QED  BY <1>2, <2>1 DEF QueueRecord
<1>9. UNCHANGED <<next_blocked, port, ports, next_free_port, next_free_pcb, new_proc,
                  interrupt_table, halt, pc, received, ret, timer_port, ticks_left,
                  timer_i, request, elapsed>>
  BY <1>6 DEF portVars, procVars, timerVars
<1>10. K!IInv' /\ K!HighestStep
  <2>1. ToReply' = ToReply
    <3>1. \A q \in Proc : ~InPcb(q) /\ (InPcb(q)' => q = 3)
      BY <1>3, <1>7 DEF InPcb
    <3> QED  BY <1>3, <1>8, <3>1, SameClients
  <2>2. K!WaitsOn(3, 1)
    BY <1>3, <1>8, WaitsOnService
  <2>3. K!message(3, 1, NULL)
    BY <1>9, SameMessageCalls
  <2>4. K!Message(3) /\ 3 \in K!Programs
    BY <1>1, <1>9, <2>1, <2>2, <2>3, SameSets DEF K!Message, K!NoResult
  <2> QED  BY <2>4, KernelStep DEF K!GNext, K!Call, TimerInv
<1>11. BootStages' /\ PortsAreLeft' /\ HavePriorities'
  BY <1>5, <1>8, <1>9, StartIsKept
<1>12. Typed' /\ TimerNeverPanics'
  BY <1>5, <1>9, TypesAreKept
<1> USE DEF TimerInv, Inv
<1>13. OnlyTheTimerIsAwaited' /\ LoopBegins'
  BY <1>4, <1>5, <1>9 DEF OnlyTheTimerIsAwaited, LoopBegins
<1>14. ServiceStages'
  BY <1>1, <1>4, <1>5, <1>8, <1>9 DEF ServiceStages, Exists
<1>15. NotifierStages' /\ ProgramStages'
  <2>1. NotifierStages'
    BY <1>1, <1>3, <1>5, <1>8, <1>9 DEF NotifierStages
  <2>2. ProgramStages'
    BY <1>1, <1>5, <1>8, <1>9 DEF ProgramStages, Exists
  <2> QED  BY <2>1, <2>2
<1>16. ServiceFirst'
  BY <1>6, <1>10, <1>11, <1>12, DispatchServesFirst
<1>17. /\ ~HasMessage /\ HasMessage' /\ Messenger' = 3 /\ Content' = NULL
       /\ NotifierHasTick /\ ~NotifierHasTick'
  BY <1>1, <1>3, <1>4, <1>5, <1>7, <1>8, <1>9
     DEF HasMessage, Messenger, Content, NotifierHasTick
<1>18. MessagesAreRight'
  BY <1>7, <1>17 DEF MessagesAreRight, IsMessage
<1>19. SleepersKnown'
  <2>1. \A q \in Proc : rq'.state[q] = "REPLY_BLOCKED" <=> rq.state[q] = "REPLY_BLOCKED"
    BY <1>3, <1>8
  <2> QED  BY <1>9, <1>17, <2>1 DEF SleepersKnown
<1>20. TicksHaveCome'
  <2>1. \A q \in Proc : Counted(q)' = Counted(q)
    BY <1>9 DEF Counted
  <2>2. \A q : ServiceHasTick(q)' /\ ~ServiceHasTick(q)
    BY <1>4, <1>17 DEF ServiceHasTick
  <2>3. \A q : UnderWay(q)' = UnderWay(q)
    BY <1>17, <2>2 DEF UnderWay, OneIf
  <2> QED  BY <1>9, <2>1, <2>3 DEF TicksHaveCome
<1> QED  BY <1>10, <1>11, <1>12, <1>13, <1>14, <1>15, <1>16, <1>18, <1>19, <1>20

(* It does not: the notifier waits until its message is taken. *)
LEMMA NotifierBlocksInv ==
  ASSUME TimerInv, Runs(Notifier, "notify_tick"), timer_port # NULL,
         ~CanDeliver(1), message(Notifier, 1, NULL), Jump(Notifier, "timer_notifier"),
         UNCHANGED <<received, ret, timerVars, request, elapsed>>
  PROVE  TimerInv'
<1> USE Processes
<1>1. /\ pc[3] = "user" /\ at[3] = "notify_tick" /\ active_proc = 3
      /\ port[1].owner = 2 /\ port[1].open /\ 1 \in K!Known /\ 1 \in Port
  BY TheService, KernelConstants DEF Runs, At
<1>2. /\ rq \in QueueRecord
      /\ param_data \in [Proc -> Ticks \cup {NULL}]
      /\ port \in [Port -> [open : BOOLEAN, owner : ProcOrNull,
                            blocked_list_head : ProcOrNull,
                            blocked_list_tail : ProcOrNull]]
  BY KernelTypes DEF TimerInv
<1>3. rq.state[3] = "READY" /\ param_data[3] = NULL
  BY <1>1, KernelPlaces DEF TimerInv, Inv, MessagesAreRight
<1>4. /\ at'[3] = "timer_notifier" /\ \A q \in Proc : q # 3 => at'[q] = at[q]
      /\ at' \in [Proc -> Places]
  BY DEF Jump, TimerInv, Inv, Typed, Places
<1>5. /\ add_to_send_blocked_list(1, 3)
      /\ param_data' = [param_data EXCEPT ![3] = NULL]
      /\ rq' = [remove_ready_queue(rq, 3) EXCEPT !.state[3] = "MESSAGE_BLOCKED"]
      /\ active_proc' = dispatcher(rq', active_proc)
      /\ UNCHANGED <<portVars, procVars, interrupt_table, halt, pc>>
  BY DEF message, resign
<1>6. param_data' = param_data
  BY <1>2, <1>3, <1>5
<1>7. port'[1].owner = port[1].owner /\ port'[1].open = port[1].open
  <2>1. port[1] \in [open : BOOLEAN, owner : ProcOrNull,
                     blocked_list_head : ProcOrNull, blocked_list_tail : ProcOrNull]
    BY <1>1, <1>2
  <2>2. CASE port' = [port EXCEPT ![1].blocked_list_head = 3, ![1].blocked_list_tail = 3]
    <3>1. port'[1] = [port[1] EXCEPT !.blocked_list_head = 3, !.blocked_list_tail = 3]
      BY ONLY <1>1, <1>2, <2>2
    <3> QED  BY ONLY <2>1, <3>1
  <2>3. CASE port' = [port EXCEPT ![1].blocked_list_tail = 3]
    BY ONLY <1>1, <1>2, <2>1, <2>3
  <2> QED  BY <1>5, <2>2, <2>3 DEF add_to_send_blocked_list
<1>8. /\ rq'.state[3] = "MESSAGE_BLOCKED" /\ rq'.priority = rq.priority
      /\ \A q \in Proc : q # 3 => rq'.state[q] = rq.state[q]
  BY ONLY <1>2, <1>5, Processes DEF QueueRecord, remove_ready_queue
<1>9. UNCHANGED <<param_proc, param_data, ports, next_free_port, next_free_pcb, new_proc,
                  interrupt_table, halt, pc, received, ret, timer_port, ticks_left,
                  timer_i, request, elapsed>>
  BY <1>5, <1>6 DEF portVars, procVars, timerVars, add_to_send_blocked_list
<1>10. K!IInv' /\ K!HighestStep
  <2>1. ToReply' = ToReply
    <3>1. \A q \in Proc : InPcb(q)' <=> InPcb(q)
      BY <1>8, <1>9 DEF InPcb
    <3> QED  BY <1>3, <1>8, <3>1, SameClients
  <2>2. K!WaitsOn(3, 1)
    BY <1>3, <1>8, WaitsOnService
  <2>3. K!message(3, 1, NULL)
    BY <1>9, SameMessageCalls
  <2>4. K!Message(3) /\ 3 \in K!Programs
    BY <1>1, <1>9, <2>1, <2>2, <2>3, SameSets DEF K!Message, K!NoResult
  <2> QED  BY <2>4, KernelStep DEF K!GNext, K!Call, TimerInv
<1>11. BootStages' /\ PortsAreLeft' /\ HavePriorities'
  BY <1>4, <1>7, <1>8, <1>9, StartIsKept
<1>12. Typed' /\ TimerNeverPanics'
  BY <1>4, <1>9, TypesAreKept
<1> USE DEF TimerInv, Inv
<1>13. OnlyTheTimerIsAwaited'
  BY <1>9 DEF OnlyTheTimerIsAwaited
<1>14. ServiceStages'
  BY <1>4, <1>8, <1>9 DEF ServiceStages, Exists
<1>15. NotifierStages' /\ ProgramStages'
  <2>1. NotifierStages'
    BY <1>1, <1>4, <1>8, <1>9 DEF NotifierStages
  <2>2. ProgramStages'
    BY <1>1, <1>4, <1>8, <1>9 DEF ProgramStages, Exists
  <2> QED  BY <2>1, <2>2
<1>16. ServiceFirst'
  BY <1>5, <1>10, <1>11, <1>12, DispatchServesFirst
<1>17. MessagesAreRight' /\ SleepersKnown' /\ TicksHaveCome' /\ LoopBegins'
  <2>1. NotifierHasTick /\ NotifierHasTick'
    BY <1>1, <1>3, <1>8 DEF NotifierHasTick
  <2>2. (HasMessage' <=> HasMessage) /\ at'[2] = at[2]
    BY <1>4, <1>8 DEF HasMessage
  <2>3. \A q \in Proc : rq'.state[q] = "REPLY_BLOCKED" <=> rq.state[q] = "REPLY_BLOCKED"
    BY <1>3, <1>8
  <2> QED  BY <1>9, <2>1, <2>2, <2>3, CountsAreKept
<1> QED  BY <1>10, <1>11, <1>12, <1>13, <1>14, <1>15, <1>16, <1>17

(* A call with the null port: the boot race. *)
LEMMA NullPortInv ==
  ASSUME TimerInv, timer_port = NULL, PortAssertionFails,
         UNCHANGED <<timerVars, request, elapsed>>
  PROVE  TimerInv'
<1>1. UNCHANGED <<schedVars, ipcVars, portVars, procVars, interrupt_table, pc,
                  received, progVars>>
      /\ halt' = "Failed assertion"
  BY Zenon DEF PortAssertionFails, Panic
<1> QED  BY <1>1, HaltInv, Zenon

LEMMA NotifierInv ==
  ASSUME TimerInv, NEW p \in Proc, TimerNotifier(p)
  PROVE  TimerInv'
<1>1. UNCHANGED <<timerVars, request, elapsed>>
  BY DEF TimerNotifier, timer_notifier
<1>2. CASE Runs(p, "timer_notifier") /\ Waits(p, TIMER_IRQ, "notify_tick")
  BY <1>1, <1>2, NotifierWaitsInv
<1>3. CASE Runs(p, "notify_tick") /\ Messages(p, timer_port, NULL, "timer_notifier")
  <2>1. p = 3
    BY <1>3, WhereTheyAre, Processes DEF Runs
  <2>2. CASE timer_port = NULL /\ PortAssertionFails
    BY <1>1, <2>2, NullPortInv
  <2>3. CASE /\ timer_port # NULL /\ message(3, timer_port, NULL)
             /\ Jump(3, "timer_notifier") /\ UNCHANGED <<received, ret>>
    <3>1. timer_port = 1
      BY <2>3, TheService
    <3> QED  BY <1>1, <1>3, <2>1, <2>3, <3>1, NotifierDeliversInv, NotifierBlocksInv
  <2> QED  BY <1>3, <2>1, <2>2, <2>3 DEF Messages
<1> QED  BY <1>2, <1>3 DEF TimerNotifier, timer_notifier

(* Only the notifier is ever blocked in the list of the port of the service. *)
LEMMA TheList ==
  ASSUME TimerInv
  PROVE  IF rq.state[3] = "MESSAGE_BLOCKED" THEN port[1].blocked_list_head = 3
         ELSE port[1].blocked_list_head = NULL
<1> USE Processes DEF TimerInv, Inv
<1>1. ASSUME NEW s \in Proc, rq.state[s] \in {"SEND_BLOCKED", "MESSAGE_BLOCKED"}
      PROVE  s = 3 /\ rq.state[s] = "MESSAGE_BLOCKED"
  <2>1. s # 0
    BY <1>1 DEF BootStages
  <2>2. s # 1
    BY <1>1, SameSets DEF K!IInv, K!LabelsMatchStates
  <2>3. s # 2
    <3>1. pc[2] = "receive" => rq.state[2] \in {"READY", "RECEIVE_BLOCKED"}
      BY KernelPlaces
    <3> QED  BY <1>1, <3>1 DEF ServiceStages
  <2>4. ~(s > 3)
    <3>1. ASSUME s > 3, pc[s] \in {"free", "embryo"} PROVE FALSE
      BY <1>1, <3>1, KernelPlaces
    <3> QED  BY <1>1, <3>1 DEF ProgramStages
  <2>5. s = 3
    BY <2>1, <2>2, <2>3, <2>4
  <2>6. rq.state[3] \in {"READY", "INTR_BLOCKED"} \/ rq.state[3] = "MESSAGE_BLOCKED"
    BY KernelPlaces DEF NotifierStages
  <2> QED  BY <1>1, <2>5, <2>6
<1>2. K!BlockedOn(1) = IF rq.state[3] = "MESSAGE_BLOCKED" THEN {3} ELSE {}
  <2>1. K!BlockedOn(1) = {s \in Proc : rq.state[s] \in {"SEND_BLOCKED", "MESSAGE_BLOCKED"}}
    BY SameSets DEF K!BlockedOn, SentTo
  <2> QED  BY <1>1, <2>1
<1>3. K!ListHolds(next_blocked, port[1].blocked_list_head, port[1].blocked_list_tail,
                  K!BlockedOn(1))
  BY KernelConstants, SameSets DEF K!IInv, K!BlockedListsAreQueues
<1> QED  BY <1>2, <1>3 DEF K!ListHolds

(* A receiver that waits has nobody in its list. *)
LEMMA NobodyIsMissed ==
  ASSUME TimerInv, rq.state[2] = "RECEIVE_BLOCKED"
  PROVE  rq.state[3] # "MESSAGE_BLOCKED"
<1> USE Processes DEF TimerInv, Inv
<1>1. Exists(Service)
  BY DEF ServiceStages, Exists
<1>2. port[1].owner = 2 /\ port[1].open /\ 1 \in Port
  BY <1>1, KernelConstants DEF PortsAreLeft
<1>3. 1 \in K!Own(2)
  BY <1>2, SameSets DEF K!Own
<1>4. port[1].blocked_list_head = NULL
  BY <1>2, <1>3, SameSets DEF K!IInv, K!NoLostWakeup
<1> QED  BY <1>4, TheList

(* While a program runs, the service waits. *)
LEMMA ProgramRuns ==
  ASSUME TimerInv, NEW p \in Proc, active_proc = p, at[p] = "program"
  PROVE  /\ p > 3 /\ timer_port = 1
         /\ Exists(Service) /\ Exists(Notifier)
         /\ pc[2] = "receive" /\ at[2] = "timer_message"
         /\ rq.state[2] = "RECEIVE_BLOCKED"
         /\ pc[3] = "wait_for_interrupt" /\ rq.state[3] = "INTR_BLOCKED"
<1> USE Processes
<1>1. p > 3
  BY WhereTheyAre
<1>2. pc[p] # "free"
  BY KernelPlaces DEF TimerInv
<1> USE DEF TimerInv, Inv
<1>3. Exists(Notifier) /\ at[0] \in {"create_programs", "dead"}
  BY <1>1, <1>2 DEF ProgramStages
<1>4. timer_port = 1 /\ Exists(Service)
  BY <1>3 DEF BootStages
<1>5. rq.state[2] # "READY" /\ rq.state[3] # "READY"
  BY <1>1, <1>3, <1>4 DEF ServiceFirst, Busy
<1>6. pc[2] = "receive" /\ at[2] = "timer_message" /\ rq.state[2] = "RECEIVE_BLOCKED"
  BY <1>4, <1>5, KernelPlaces DEF ServiceStages, Exists
<1>7. pc[3] = "wait_for_interrupt" /\ rq.state[3] = "INTR_BLOCKED"
  BY <1>3, <1>5, <1>6, NobodyIsMissed, KernelPlaces DEF NotifierStages, Exists
<1> QED  BY <1>1, <1>3, <1>4, <1>6, <1>7

(* A program sends its request to the service, which waits for it. *)
LEMMA SleepInv ==
  ASSUME TimerInv, NEW p \in Proc, Sleep(p)
  PROVE  TimerInv'
<1> USE Processes
<1>1. PICK n \in Ticks : /\ Runs(p, "program") /\ sleep(p, n, "program")
                         /\ request' = [request EXCEPT ![p] = n]
                         /\ UNCHANGED elapsed
  BY DEF Sleep
<1>2. /\ pc[p] = "user" /\ at[p] = "program" /\ active_proc = p
  BY <1>1 DEF Runs, At
<1>3. /\ p > 3 /\ timer_port = 1 /\ Exists(Service) /\ Exists(Notifier)
      /\ pc[2] = "receive" /\ at[2] = "timer_message"
      /\ rq.state[2] = "RECEIVE_BLOCKED"
      /\ pc[3] = "wait_for_interrupt" /\ rq.state[3] = "INTR_BLOCKED"
  BY <1>2, ProgramRuns
<1>4. /\ rq \in QueueRecord /\ param_proc \in [Proc -> ProcOrNull]
      /\ param_data \in [Proc -> Ticks \cup {NULL}]
      /\ n \in Nat /\ n # NULL
  BY KernelTypes, TicksAssumption DEF TimerInv
<1>5. rq.state[p] = "READY" /\ request[p] = NULL /\ elapsed[p] = 0 /\ ticks_left[p] = 0
  <2>1. rq.state[p] = "READY"
    BY <1>2, KernelPlaces DEF TimerInv
  <2> QED  BY <2>1 DEF TimerInv, Inv, SleepersKnown
<1>6. /\ port[1].owner = 2 /\ port[1].open /\ 1 \in K!Known
  BY <1>3, TheService, KernelConstants
<1>7. send(p, 1, n) /\ Jump(p, "program") /\ UNCHANGED <<received, ret, timerVars>>
  BY <1>1, <1>3, KernelConstants DEF sleep, Sends
<1>8. at' = at
  BY <1>2, <1>7 DEF Jump, TimerInv, Inv, Typed
<1>9. /\ param_proc' = [param_proc EXCEPT ![2] = p]
      /\ param_data' = [param_data EXCEPT ![2] = n, ![p] = n]
      /\ rq' = remove_ready_queue(add_ready_queue([rq EXCEPT !.state[p] = "REPLY_BLOCKED"], 2), p)
      /\ active_proc' = dispatcher(rq', active_proc)
      /\ UNCHANGED <<next_blocked, port, portVars, procVars, interrupt_table, halt, pc>>
  BY <1>3, <1>6, <1>7 DEF send, CanDeliver, Deliver, resign
<1>10. /\ param_proc'[2] = p /\ param_data'[2] = n
       /\ param_data'[3] = param_data[3]
  BY <1>3, <1>4, <1>9
<1>11. /\ rq'.state[2] = "READY" /\ rq'.state[p] = "REPLY_BLOCKED"
       /\ rq'.priority = rq.priority
       /\ \A q \in Proc : q # 2 /\ q # p => rq'.state[q] = rq.state[q]
  <2>1. rq' = Sent(rq, p, 2) /\ p # 2
    BY <1>3, <1>9 DEF Sent
  <2> QED  BY <1>4, <2>1, SendStateOf
<1>12. UNCHANGED <<next_blocked, port, ports, next_free_port, next_free_pcb, new_proc,
                  interrupt_table, halt, pc, received, at, ret, timer_port, ticks_left,
                  timer_i, elapsed>>
  BY <1>1, <1>7, <1>8, <1>9 DEF portVars, procVars, timerVars
<1>13. /\ request'[p] = n /\ \A q \in Proc : q # p => request'[q] = request[q]
       /\ request' \in [Proc -> Ticks \cup {NULL}]
  BY <1>1 DEF TimerInv, Inv, Typed
<1>14. K!IInv' /\ K!HighestStep
  <2>1. ToReply' = ToReply
    <3>1. \A q \in Proc : ~InPcb(q) /\ (InPcb(q)' <=> q = p)
      BY <1>3, <1>10, <1>11, <1>12 DEF InPcb
    <3> QED  BY <1>3, <1>5, <1>11, <3>1, SameClients
  <2>2. K!WaitsOn(p, 1)
    BY <1>3, <1>5, <1>11, WaitsOnService
  <2>3. K!send(p, 1, n)
    BY <1>7, <1>12, SameMessageCalls
  <2>4. K!Send(p) /\ p \in K!Programs
    BY <1>3, <1>6, <1>12, <2>1, <2>2, <2>3, SameSets DEF K!Send, K!NoResult
  <2> QED  BY <2>4, KernelStep DEF K!GNext, K!Call, TimerInv
<1>15. BootStages' /\ PortsAreLeft' /\ HavePriorities'
  BY <1>3, <1>11, <1>12, StartIsKept
<1> USE DEF TimerInv, Inv
<1>16. Typed'
  BY <1>12, <1>13 DEF Typed
<1>17. OnlyTheTimerIsAwaited' /\ LoopBegins' /\ TimerNeverPanics'
  <2>1. OnlyTheTimerIsAwaited'
    BY <1>12 DEF OnlyTheTimerIsAwaited
  <2>2. LoopBegins'
    BY <1>12 DEF LoopBegins
  <2>3. TimerNeverPanics'
    BY <1>12, NoPanicIsKept
  <2> QED  BY <2>1, <2>2, <2>3
<1>18. ServiceStages'
  BY <1>3, <1>11, <1>12 DEF ServiceStages, Exists
<1>19. NotifierStages' /\ ProgramStages'
  <2>1. NotifierStages'
    BY <1>3, <1>11, <1>12 DEF NotifierStages
  <2>2. ProgramStages'
    BY <1>2, <1>3, <1>11, <1>12 DEF ProgramStages, Exists
  <2> QED  BY <2>1, <2>2
<1>20. ServiceFirst'
  BY <1>9, <1>14, <1>15, <1>16, DispatchServesFirst
<1>21. /\ ~HasMessage /\ HasMessage' /\ Messenger' = p /\ Content' = n
       /\ ~NotifierHasTick /\ ~NotifierHasTick'
  BY <1>3, <1>10, <1>11, <1>12 DEF HasMessage, Messenger, Content, NotifierHasTick
<1>22. MessagesAreRight'
  BY <1>5, <1>10, <1>11, <1>12, <1>13, <1>21 DEF MessagesAreRight, IsMessage
<1>23. SleepersKnown'
  <2> SUFFICES ASSUME NEW q \in Proc PROVE SleepersKnown!(q)'
    BY DEF SleepersKnown
  <2>1. CASE q = p
    BY <1>4, <1>5, <1>11, <1>12, <1>13, <1>21, <2>1
  <2>2. CASE q # p
    <3>1. rq'.state[q] = "REPLY_BLOCKED" <=> rq.state[q] = "REPLY_BLOCKED"
      BY <1>3, <1>11, <2>2
    <3> QED  BY <1>12, <1>13, <1>21, <2>2, <3>1 DEF SleepersKnown
  <2> QED  BY <2>1, <2>2
<1>24. TicksHaveCome'
  <2>1. \A q : ~ServiceHasTick(q)' /\ ~ServiceHasTick(q)
    BY <1>3, <1>4, <1>12, <1>21 DEF ServiceHasTick
  <2>2. \A q : UnderWay(q)' = 0 /\ UnderWay(q) = 0
    BY <1>21, <2>1 DEF UnderWay, OneIf
  <2>3. Counted(p)' = 0
    BY <1>5, <1>12 DEF Counted
  <2>4. \A q \in Proc : q # p => Counted(q)' = Counted(q)
    BY <1>12, <1>13 DEF Counted
  <2>5. Counted(p)' + UnderWay(p)' <= elapsed'[p]
    BY <1>5, <1>12, <2>2, <2>3
  <2> QED  BY <1>12, <1>13, <2>2, <2>4, <2>5 DEF TicksHaveCome
<1> QED  BY <1>14, <1>15, <1>16, <1>17, <1>18, <1>19, <1>20, <1>22, <1>23, <1>24

(* The timer process at work. *)
LEMMA ServiceRuns ==
  ASSUME TimerInv, At(2, "user"), at[2] \in {"timer_receive", "timer_message", "tick"}
  PROVE  /\ pc[2] = "user" /\ active_proc = 2 /\ halt = "no"
         /\ rq.state[2] = "READY" /\ Exists(Notifier) /\ Exists(Service)
         /\ 1 \in Port /\ ports[2] = <<1>> /\ port[1].owner = 2 /\ port[1].open
         /\ \A q \in Proc : ~InPcb(q)
<1> USE Processes DEF TimerInv, Inv
<1>1. pc[2] = "user" /\ active_proc = 2 /\ halt = "no"
  BY DEF At
<1>2. rq.state[2] = "READY" /\ Exists(Notifier) /\ Exists(Service)
  BY <1>1 DEF ServiceStages, Exists
<1>3. 1 \in Port /\ ports[2] = <<1>> /\ port[1].owner = 2 /\ port[1].open
  BY <1>2, KernelConstants DEF PortsAreLeft
<1>4. \A q \in Proc : ~InPcb(q)
  BY <1>1 DEF InPcb
<1> QED  BY <1>1, <1>2, <1>3, <1>4

(* The senders after a receive(). *)
LEMMA WaitsAfterReceive ==
  ASSUME \A q \in Proc :
           rq'.state[q] \in {"SEND_BLOCKED", "MESSAGE_BLOCKED", "REPLY_BLOCKED"} =>
             rq.state[q] \in {"SEND_BLOCKED", "MESSAGE_BLOCKED", "REPLY_BLOCKED"}
  PROVE  SentTo' = [s \in Proc |-> IF rq'.state[s] \in K!SendStates
                                   THEN SentTo[s] ELSE NULL]
BY DEF SentTo, K!SendStates

(* A step at which the timer process has no message, before and after. *)
LEMMA CountsWithoutMessage ==
  ASSUME TimerInv, UNCHANGED <<request, elapsed, ticks_left, timer_i>>,
         param_data'[3] = param_data[3], ~HasMessage, ~HasMessage',
         at'[2] = "tick" <=> at[2] = "tick",
         NotifierHasTick' <=> NotifierHasTick,
         \A p \in Proc : rq'.state[p] = "REPLY_BLOCKED" <=> rq.state[p] = "REPLY_BLOCKED"
  PROVE  MessagesAreRight' /\ SleepersKnown' /\ TicksHaveCome' /\ LoopBegins'
<1> USE DEF TimerInv, Inv
<1>1. \A p \in Proc : UnderWay(p)' = UnderWay(p) /\ Counted(p)' = Counted(p)
  BY DEF UnderWay, Counted, ServiceHasTick
<1>2. MessagesAreRight' /\ SleepersKnown'
  BY DEF MessagesAreRight, SleepersKnown
<1>3. TicksHaveCome' /\ LoopBegins'
  BY <1>1 DEF TicksHaveCome, LoopBegins
<1> QED  BY <1>2, <1>3

(* It waits for a message. *)
LEMMA ReceiveBlocksInv ==
  ASSUME TimerInv, Runs(Service, "timer_receive"), receive(2), receive_block(2),
         Jump(2, "timer_message"), UNCHANGED <<ret, timerVars>>, Awake
  PROVE  TimerInv' /\ UNCHANGED <<request, elapsed>>
<1> USE Processes
<1>1. /\ pc[2] = "user" /\ active_proc = 2 /\ at[2] = "timer_receive"
      /\ rq.state[2] = "READY" /\ Exists(Notifier) /\ Exists(Service)
      /\ ports[2] = <<1>> /\ \A q \in Proc : ~InPcb(q)
  BY ServiceRuns DEF Runs
<1>2. /\ rq \in QueueRecord /\ pc \in [Proc -> Labels]
      /\ param_data \in [Proc -> Ticks \cup {NULL}]
  BY KernelTypes DEF TimerInv
<1>3. /\ Pending(2) = {}
      /\ rq' = [remove_ready_queue(rq, 2) EXCEPT !.state[2] = "RECEIVE_BLOCKED"]
      /\ active_proc' = dispatcher(rq', active_proc)
      /\ param_data' = [param_data EXCEPT ![2] = NULL]
      /\ pc' = [pc EXCEPT ![2] = "receive"]
      /\ UNCHANGED <<param_proc, next_blocked, port>>
  BY DEF receive_block, resign, Goto
<1>4. UNCHANGED <<portVars, procVars, interrupt_table, halt>>
  <2>1. ports[2] # <<>>
    BY <1>1
  <2> QED  BY <2>1, Zenon DEF receive
<1>5. /\ rq'.state[2] = "RECEIVE_BLOCKED" /\ rq'.priority = rq.priority
      /\ \A q \in Proc : q # 2 => rq'.state[q] = rq.state[q]
  BY ONLY <1>2, <1>3, Processes DEF QueueRecord, remove_ready_queue
<1>6. /\ pc'[2] = "receive" /\ \A q \in Proc : q # 2 => pc'[q] = pc[q]
      /\ param_data'[3] = param_data[3]
      /\ at'[2] = "timer_message" /\ \A q \in Proc : q # 2 => at'[q] = at[q]
      /\ at' \in [Proc -> Places]
  BY <1>2, <1>3 DEF Jump, TimerInv, Inv, Typed, Places
<1>7. UNCHANGED <<request, elapsed>>
  BY <1>1, <1>5, NobodyWakes
<1>8. UNCHANGED <<param_proc, port, ports, next_free_port, next_free_pcb, new_proc,
                  interrupt_table, halt, ret, timer_port, ticks_left, timer_i>>
  BY <1>3, <1>4 DEF portVars, procVars, timerVars
<1>9. K!IInv' /\ K!HighestStep
  <2>1. ToReply' = ToReply
    <3>1. \A q \in Proc : ~InPcb(q)'
      BY <1>5 DEF InPcb
    <3> QED  BY <1>1, <1>5, <3>1, SameClients
  <2>2. SentTo' = [s \in Proc |-> IF rq'.state[s] \in K!SendStates THEN SentTo[s] ELSE NULL]
    BY <1>5, WaitsAfterReceive
  <2>3. K!receive(2) /\ K!Pending(2) = {}
    BY <1>3, <1>8, SameMessageCalls DEF K!Pending, Pending
  <2>4. ToReply' = [ToReply EXCEPT ![2] = IF K!Pending(2) = {} THEN @ ELSE @ \cup K!NewClient(2)]
    BY <2>1, <2>3 DEF ToReply
  <2>5. K!Receive(2) /\ 2 \in K!Programs
    BY <2>2, <2>3, <2>4, SameSets DEF K!Receive
  <2> QED  BY <2>5, KernelStep DEF K!GNext, K!Call, TimerInv
<1>10. BootStages' /\ PortsAreLeft' /\ HavePriorities'
  <2>1. \A q \in Proc : pc'[q] = pc[q] \/ (q # 0 /\ pc[q] \in Running /\ pc'[q] \in Running)
    BY <1>1, <1>6 DEF Running
  <2> QED  BY <1>5, <1>6, <1>8, <2>1, StartIsKept
<1>11. Typed' /\ TimerNeverPanics'
  BY <1>6, <1>7, <1>8, TypesAreKept
<1> USE DEF TimerInv, Inv
<1>12. OnlyTheTimerIsAwaited'
  BY <1>8 DEF OnlyTheTimerIsAwaited
<1>13. ServiceStages'
  BY <1>1, <1>6 DEF ServiceStages, Exists
<1>14. NotifierStages' /\ ProgramStages'
  <2>1. NotifierStages'
    BY <1>5, <1>6 DEF NotifierStages
  <2>2. ProgramStages'
    BY <1>5, <1>6 DEF ProgramStages, Exists
  <2> QED  BY <2>1, <2>2
<1>15. ServiceFirst'
  BY <1>3, <1>9, <1>10, <1>11, DispatchServesFirst
<1>16. MessagesAreRight' /\ SleepersKnown' /\ TicksHaveCome' /\ LoopBegins'
  <2>1. ~HasMessage /\ ~HasMessage' /\ (at'[2] = "tick" <=> at[2] = "tick")
    BY <1>1, <1>5, <1>6 DEF HasMessage
  <2>2. NotifierHasTick' <=> NotifierHasTick
    BY <1>5, <1>6 DEF NotifierHasTick
  <2>3. \A q \in Proc : rq'.state[q] = "REPLY_BLOCKED" <=> rq.state[q] = "REPLY_BLOCKED"
    BY <1>1, <1>5
  <2> QED  BY <1>6, <1>7, <1>8, <2>1, <2>2, <2>3, CountsWithoutMessage
<1> QED  BY <1>7, <1>9, <1>10, <1>11, <1>12, <1>13, <1>14, <1>15, <1>16

(* It takes the message of the notifier, which is blocked in its list. *)
LEMMA ReceiveTakesInv ==
  ASSUME TimerInv, Runs(Service, "timer_receive"), receive(2), receive_pending(2),
         Jump(2, "timer_message"), UNCHANGED <<ret, timerVars>>, Awake
  PROVE  TimerInv' /\ UNCHANGED <<request, elapsed>>
<1> USE Processes
<1>1. /\ pc[2] = "user" /\ active_proc = 2 /\ at[2] = "timer_receive"
      /\ rq.state[2] = "READY" /\ Exists(Notifier) /\ Exists(Service) /\ 1 \in Port
      /\ ports[2] = <<1>> /\ \A q \in Proc : ~InPcb(q)
  BY ServiceRuns DEF Runs
<1>2. /\ rq \in QueueRecord /\ received = [q \in Proc |-> received[q]]
      /\ port \in [Port -> [open : BOOLEAN, owner : ProcOrNull,
                            blocked_list_head : ProcOrNull,
                            blocked_list_tail : ProcOrNull]]
  BY KernelTypes, SameSets DEF TimerInv, K!IInv, K!GTypeOK, K!TypeOK
<1>3. /\ 1 \in Pending(2) /\ port[1].blocked_list_head # NULL
      /\ \A k \in Pending(2) : k = 1
  BY <1>1 DEF receive_pending, Pending
<1>4. port[1].blocked_list_head = 3 /\ rq.state[3] = "MESSAGE_BLOCKED" /\ param_data[3] = NULL
  BY <1>3, TheList DEF TimerInv, Inv, MessagesAreRight
<1>5. /\ received' = [received EXCEPT ![2] = <<3, param_data[3]>>]
      /\ port' = [port EXCEPT ![1].blocked_list_head = next_blocked[3],
                              ![1].blocked_list_tail =
                                IF next_blocked[3] = NULL THEN NULL ELSE @]
      /\ rq' = add_ready_queue(rq, 3)
      /\ UNCHANGED <<active_proc, param_proc, param_data, next_blocked, pc>>
  <2>1. PICK k \in Pending(2) : receive_pending(2)!(k)
    BY DEF receive_pending
  <2>2. k = 1 /\ ports[2][1] = 1
    BY <1>1, <1>3
  <2>3. "MESSAGE_BLOCKED" # "SEND_BLOCKED"
    OBVIOUS
  <2> QED  BY ONLY <1>4, <2>1, <2>2, <2>3
<1>6. UNCHANGED <<portVars, procVars, interrupt_table, halt>>
  <2>1. ports[2] # <<>>
    BY <1>1
  <2> QED  BY <2>1, Zenon DEF receive
<1>7. /\ rq'.state[3] = "READY" /\ rq'.priority = rq.priority
      /\ \A q \in Proc : q # 3 => rq'.state[q] = rq.state[q]
  <2>1. rq'.state = [rq.state EXCEPT ![3] = "READY"] /\ rq'.priority = rq.priority
    BY <1>2, <1>5, StateOf
  <2> QED  BY <1>2, <2>1 DEF QueueRecord
<1>8. /\ at'[2] = "timer_message" /\ \A q \in Proc : q # 2 => at'[q] = at[q]
      /\ at' \in [Proc -> Places]
  BY DEF Jump, TimerInv, Inv, Typed, Places
<1>9. received'[2] = <<3, NULL>>
  BY ONLY <1>2, <1>4, <1>5, Processes
<1>10. port'[1].owner = port[1].owner /\ port'[1].open = port[1].open
  BY ONLY <1>1, <1>2, <1>5
<1>11. UNCHANGED <<request, elapsed>>
  BY <1>4, <1>7, NobodyWakes
<1>12. UNCHANGED <<active_proc, param_proc, param_data, ports, next_free_port, next_free_pcb,
                   new_proc, interrupt_table, halt, pc, ret, timer_port, ticks_left, timer_i>>
  BY <1>5, <1>6 DEF portVars, procVars, timerVars
<1>13. K!IInv'
  <2>1. ToReply' = ToReply
    <3>1. \A q \in Proc : ~InPcb(q)'
      BY <1>1, <1>12 DEF InPcb
    <3> QED  BY <1>1, <1>4, <1>7, <3>1, SameClients
  <2>2. SentTo' = [s \in Proc |-> IF rq'.state[s] \in K!SendStates THEN SentTo[s] ELSE NULL]
    BY <1>7, WaitsAfterReceive
  <2>3. K!receive(2)
    BY <1>12, SameMessageCalls
  <2>4. K!NewClient(2) = {}
    BY <1>7, <1>9 DEF K!NewClient
  <2>5. ToReply' = [ToReply EXCEPT ![2] = IF K!Pending(2) = {} THEN @ ELSE @ \cup K!NewClient(2)]
    BY <2>1, <2>4 DEF ToReply
  <2>6. K!Receive(2) /\ 2 \in K!Programs
    BY <2>2, <2>3, <2>5, SameSets DEF K!Receive
  <2> QED  BY <2>6, KernelStep DEF K!GNext, K!Call, TimerInv
<1>14. BootStages' /\ PortsAreLeft' /\ HavePriorities'
  BY <1>7, <1>8, <1>10, <1>12, StartIsKept
<1>15. Typed' /\ TimerNeverPanics'
  BY <1>8, <1>11, <1>12, TypesAreKept
<1> USE DEF TimerInv, Inv
<1>16. OnlyTheTimerIsAwaited' /\ LoopBegins'
  BY <1>1, <1>8, <1>12 DEF OnlyTheTimerIsAwaited, LoopBegins
<1>17. ServiceStages'
  BY <1>1, <1>7, <1>8, <1>12 DEF ServiceStages, Exists
<1>18. at[3] = "timer_notifier" /\ pc[3] = "user"
  <2>1. pc[3] \notin {"free", "embryo", "wait_for_interrupt"}
    BY <1>4, KernelPlaces
  <2> QED  BY <1>4, <2>1 DEF NotifierStages
<1>19. NotifierStages' /\ ProgramStages'
  <2>1. NotifierStages'
    BY <1>7, <1>8, <1>12, <1>18 DEF NotifierStages
  <2>2. ProgramStages'
    BY <1>7, <1>8, <1>12 DEF ProgramStages, Exists
  <2> QED  BY <2>1, <2>2
<1>20. ServiceFirst'
  BY <1>1, <1>12 DEF ServiceFirst
<1>21. /\ ~HasMessage /\ HasMessage' /\ Messenger' = 3 /\ Content' = NULL
       /\ NotifierHasTick /\ ~NotifierHasTick'
  BY <1>1, <1>4, <1>7, <1>8, <1>9, <1>12, <1>18
     DEF HasMessage, Messenger, Content, NotifierHasTick
<1>22. MessagesAreRight'
  BY <1>4, <1>12, <1>21 DEF MessagesAreRight, IsMessage
<1>23. SleepersKnown'
  <2>1. \A q \in Proc : rq'.state[q] = "REPLY_BLOCKED" <=> rq.state[q] = "REPLY_BLOCKED"
    BY <1>4, <1>7
  <2> QED  BY <1>11, <1>12, <1>21, <2>1 DEF SleepersKnown
<1>24. TicksHaveCome'
  <2>1. \A q \in Proc : Counted(q)' = Counted(q)
    BY <1>11, <1>12 DEF Counted
  <2>2. \A q : ServiceHasTick(q)' /\ ~ServiceHasTick(q)
    BY <1>1, <1>21 DEF ServiceHasTick
  <2>3. \A q : UnderWay(q)' = UnderWay(q)
    BY <1>21, <2>2 DEF UnderWay, OneIf
  <2> QED  BY <1>11, <2>1, <2>3 DEF TicksHaveCome
<1> QED  BY <1>11, <1>13, <1>14, <1>15, <1>16, <1>17, <1>19, <1>20, <1>22, <1>23, <1>24

(* receive() returns: the message was left in the PCB. *)
LEMMA ReceivedInv ==
  ASSUME TimerInv, NEW p \in Proc, receive_return(p),
         UNCHANGED <<at, ret, timerVars, request, elapsed>>
  PROVE  TimerInv'
<1> USE Processes
<1>1. p = 2 /\ pc[2] = "receive" /\ active_proc = 2
  BY CallersAre DEF receive_return, At
<1>2. /\ pc \in [Proc -> Labels] /\ received = [q \in Proc |-> received[q]]
  BY KernelTypes, SameSets DEF TimerInv, K!IInv, K!GTypeOK, K!TypeOK
<1>3. rq.state[2] = "READY" /\ at[2] = "timer_message" /\ Exists(Notifier)
  BY <1>1, KernelPlaces DEF TimerInv, Inv, ServiceStages
<1>4. /\ pc'[2] = "user" /\ \A q \in Proc : q # 2 => pc'[q] = pc[q]
      /\ received'[2] = <<param_proc[2], param_data[2]>>
  BY <1>1, <1>2 DEF receive_return, Goto
<1>5. UNCHANGED <<rq, active_proc, param_proc, param_data, next_blocked, port, ports,
                  next_free_port, next_free_pcb, new_proc, interrupt_table, halt, at, ret,
                  timer_port, ticks_left, timer_i, request, elapsed>>
  BY DEF receive_return, schedVars, ipcVars, portVars, procVars, timerVars
<1>6. K!IInv'
  <2>1. SentTo' = SentTo
    BY <1>5 DEF SentTo
  <2>2. K!receive_return(2)
    BY <1>1, <1>5, SameMessageCalls
  <2>3. K!Own(2) = {po \in Port : port[po].owner = 2} /\ 1 \in K!Own(2)
    BY <1>1, KernelConstants, SameSets DEF K!Own, TimerInv, Inv, PortsAreLeft, Exists
  <2>4. K!NewClient(2) = {s \in Proc : s = param_proc[2] /\ rq.state[s] = "REPLY_BLOCKED"}
    <3>1. \A s \in Proc : rq.state[s] = "REPLY_BLOCKED" => SentTo[s] \in K!Own(2)
      BY <2>3 DEF SentTo
    <3> QED  BY <1>4, <1>5, <3>1, SameSets DEF K!NewClient
  <2>5. \A s \in Proc : InPcb(s) <=> s = param_proc[2]
    BY <1>1, <1>3 DEF InPcb
  <2>6. \A s \in Proc : ~InPcb(s)'
    BY <1>4 DEF InPcb
  <2>7. ToReply' = [ToReply EXCEPT ![2] = @ \cup K!NewClient(2)]
    <3>1. ToReply'[2] = ToReply[2] \cup K!NewClient(2)
      BY <1>5, <2>4, <2>5, <2>6 DEF ToReply
    <3>2. \A q \in Proc : q # 2 => ToReply'[q] = ToReply[q]
      BY DEF ToReply
    <3>3. /\ ToReply = [q \in Proc |-> ToReply[q]]
          /\ ToReply' = [q \in Proc |-> ToReply'[q]]
      BY DEF ToReply
    <3> HIDE DEF ToReply
    <3> QED  BY ONLY <3>1, <3>2, <3>3
  <2>8. K!ReceiveReturn(2) /\ 2 \in K!Programs
    BY <2>1, <2>2, <2>7, SameSets DEF K!ReceiveReturn
  <2> QED  BY <2>8, KernelStep DEF K!GNext, K!Call, TimerInv
<1>7. BootStages' /\ PortsAreLeft' /\ HavePriorities'
  <2>1. \A q \in Proc : pc'[q] = pc[q] \/ (q # 0 /\ pc[q] \in Running /\ pc'[q] \in Running)
    <3>1. pc[2] \in Running /\ pc'[2] \in Running /\ 2 # 0
      BY <1>1, <1>4 DEF Running
    <3> QED  BY <1>4, <3>1
  <2> QED  BY <1>5, <2>1, StartIsKept
<1> USE DEF TimerInv, Inv
<1>8. Typed' /\ TimerNeverPanics'
  <2>1. at' \in [Proc -> Places]
    BY <1>5 DEF Typed
  <2> QED  BY <1>5, <2>1, TypesAreKept
<1>9. OnlyTheTimerIsAwaited' /\ LoopBegins'
  BY <1>5 DEF OnlyTheTimerIsAwaited, LoopBegins
<1>10. ServiceStages'
  BY <1>1, <1>3, <1>4, <1>5 DEF ServiceStages, Exists
<1>11. NotifierStages' /\ ProgramStages'
  <2>1. NotifierStages'
    BY <1>4, <1>5 DEF NotifierStages
  <2>2. ProgramStages'
    BY <1>4, <1>5 DEF ProgramStages, Exists
  <2> QED  BY <2>1, <2>2
<1>12. ServiceFirst'
  BY <1>1, <1>5 DEF ServiceFirst
<1>13. /\ HasMessage /\ HasMessage' /\ Messenger' = Messenger /\ Content' = Content
       /\ (NotifierHasTick' <=> NotifierHasTick)
  BY <1>1, <1>3, <1>4, <1>5 DEF HasMessage, Messenger, Content, NotifierHasTick
<1>14. MessagesAreRight'
  BY <1>5, <1>13 DEF MessagesAreRight, IsMessage
<1>15. SleepersKnown'
  BY <1>5, <1>13 DEF SleepersKnown
<1>16. TicksHaveCome'
  <2>1. \A q \in Proc : Counted(q)' = Counted(q)
    BY <1>5 DEF Counted
  <2>2. \A q : ServiceHasTick(q)' <=> ServiceHasTick(q)
    BY <1>5, <1>13 DEF ServiceHasTick
  <2>3. \A q : UnderWay(q)' = UnderWay(q)
    BY <1>13, <2>2 DEF UnderWay, OneIf
  <2> QED  BY <1>5, <2>1, <2>3 DEF TicksHaveCome
<1> QED  BY <1>6, <1>7, <1>8, <1>9, <1>10, <1>11, <1>12, <1>14, <1>15, <1>16

(* Only programs wait for a reply. *)
LEMMA SleepersArePrograms ==
  ASSUME TimerInv, NEW q \in Proc, rq.state[q] = "REPLY_BLOCKED"
  PROVE  q > 3 /\ at[q] = "program" /\ pc[q] = "user"
<1> USE Processes DEF TimerInv, Inv
<1>1. q # 0
  BY DEF BootStages
<1>2. q # 1
  BY SameSets DEF K!IInv, K!LabelsMatchStates
<1>3. q # 2
  BY KernelPlaces DEF ServiceStages
<1>4. q # 3
  BY KernelPlaces DEF NotifierStages
<1>5. q > 3 /\ pc[q] \notin {"free", "embryo"}
  BY <1>1, <1>2, <1>3, <1>4, KernelPlaces
<1> QED  BY <1>5 DEF ProgramStages

(* A step of the timer process alone. *)
LEMMA ServiceComputes ==
  ASSUME TimerInv, At(2, "user"), at[2] \in {"timer_receive", "timer_message", "tick"},
         NEW next \in {"timer_receive", "tick"}, Computes(2, next), Awake,
         timer_port' = timer_port
  PROVE  /\ at'[2] = next /\ \A q \in Proc : q # 2 => at'[q] = at[q]
         /\ at' \in [Proc -> Places]
         /\ UNCHANGED <<rq, active_proc, param_proc, param_data, next_blocked, port,
                        ports, next_free_port, next_free_pcb, new_proc,
                        interrupt_table, halt, pc, received, ret, request, elapsed>>
         /\ K!IInv' /\ BootStages' /\ PortsAreLeft' /\ HavePriorities'
         /\ ServiceStages' /\ NotifierStages' /\ ProgramStages'
         /\ OnlyTheTimerIsAwaited' /\ ServiceFirst' /\ TimerNeverPanics'
<1> USE Processes
<1>1. /\ pc[2] = "user" /\ active_proc = 2
      /\ rq.state[2] = "READY" /\ Exists(Notifier) /\ Exists(Service)
  BY ServiceRuns
<1>2. /\ at'[2] = next /\ \A q \in Proc : q # 2 => at'[q] = at[q]
      /\ at' \in [Proc -> Places]
  BY DEF Computes, Jump, TimerInv, Inv, Typed, Places
<1>3. UNCHANGED <<rq, active_proc, param_proc, param_data, next_blocked, port,
                  ports, next_free_port, next_free_pcb, new_proc,
                  interrupt_table, halt, pc, received, ret>>
  BY DEF Computes, vars, schedVars, ipcVars, portVars, procVars
<1>4. UNCHANGED <<request, elapsed>>
  <2>1. \A q \in Proc : rq'.state[q] = "READY" => rq.state[q] # "REPLY_BLOCKED"
    BY <1>3
  <2> QED  BY <2>1, NobodyWakes
<1>5. K!IInv'
  BY <1>3, KernelStutter DEF TimerInv
<1>6. BootStages' /\ PortsAreLeft' /\ HavePriorities'
  BY <1>2, <1>3, StartIsKept
<1> USE DEF TimerInv, Inv
<1>7. ServiceStages' /\ NotifierStages'
  BY <1>1, <1>2, <1>3 DEF ServiceStages, NotifierStages, Exists
<1>8. ProgramStages'
  BY <1>2, <1>3 DEF ProgramStages, Exists
<1>9. OnlyTheTimerIsAwaited' /\ ServiceFirst'
  BY <1>1, <1>3 DEF OnlyTheTimerIsAwaited, ServiceFirst
<1>10. TimerNeverPanics'
  BY <1>3, NoPanicIsKept
<1> QED  BY <1>2, <1>3, <1>4, <1>5, <1>6, <1>7, <1>8, <1>9, <1>10

(* A tick has come: the loop over ticks_left begins. *)
LEMMA TickMessageInv ==
  ASSUME TimerInv, Runs(Service, "timer_message"), Message(2) = NULL,
         Computes(2, "tick"), UNCHANGED timerVars, Awake
  PROVE  TimerInv' /\ UNCHANGED <<request, elapsed>>
<1> USE Processes
<1>1. /\ pc[2] = "user" /\ at[2] = "timer_message" /\ rq.state[2] = "READY"
      /\ active_proc = 2 /\ At(2, "user")
  BY ServiceRuns DEF Runs
<1>2. UNCHANGED <<timer_port, ticks_left, timer_i>> /\ rq.state[3] # "REPLY_BLOCKED"
  BY SleepersArePrograms DEF timerVars
<1>3. /\ at'[2] = "tick" /\ at' \in [Proc -> Places]
      /\ \A q \in Proc : q # 2 => at'[q] = at[q]
      /\ UNCHANGED <<rq, param_data, halt, pc, received, ret, request, elapsed>>
      /\ K!IInv' /\ BootStages' /\ PortsAreLeft' /\ HavePriorities'
      /\ ServiceStages' /\ NotifierStages' /\ ProgramStages'
      /\ OnlyTheTimerIsAwaited' /\ ServiceFirst' /\ TimerNeverPanics'
  BY <1>1, <1>2, ServiceComputes
<1> USE DEF TimerInv, Inv
<1>4. Typed'
  BY <1>2, <1>3, TypesAreKept
<1>5. HasMessage /\ ~HasMessage' /\ Content = NULL
  BY <1>1, <1>3 DEF HasMessage, Content, Message
<1>6. MessagesAreRight' /\ LoopBegins'
  BY <1>3, <1>5 DEF MessagesAreRight, LoopBegins
<1>7. \A q \in Proc : request[q] # NULL => Messenger # q
  <2>1. NULL \notin Ticks
    <3>1. ASSUME NEW n \in Ticks PROVE n \in Int
      BY TicksAssumption
    <3> QED  BY <3>1
  <2>2. Messenger = 3
    BY <1>5, <2>1 DEF MessagesAreRight, IsMessage
  <2> QED  BY <1>2, <2>2 DEF SleepersKnown
<1>8. SleepersKnown'
  BY <1>2, <1>3, <1>7 DEF SleepersKnown
<1>9. TicksHaveCome'
  <2>1. \A q \in Proc : Counted(q)' = Counted(q)
    BY <1>2, <1>3 DEF Counted
  <2>2. \A q \in Proc : ServiceHasTick(q)' /\ ServiceHasTick(q)
    <3>1. timer_i = 0 /\ \A q \in Proc : q >= 0
      BY <1>1, SizesAssumption DEF LoopBegins, Proc
    <3> QED  BY <1>2, <1>3, <1>5, <3>1 DEF ServiceHasTick
  <2>3. NotifierHasTick' <=> NotifierHasTick
    BY <1>3 DEF NotifierHasTick
  <2>4. \A q \in Proc : UnderWay(q)' = UnderWay(q)
    BY <2>2, <2>3 DEF UnderWay, OneIf
  <2> QED  BY <1>3, <2>1, <2>4 DEF TicksHaveCome
<1> QED  BY <1>3, <1>4, <1>6, <1>8, <1>9

(* A request has come: the sender's count begins. *)
LEMMA RequestMessageInv ==
  ASSUME TimerInv, Runs(Service, "timer_message"), Message(2) # NULL,
         Computes(2, "timer_receive"),
         ticks_left' = [ticks_left EXCEPT ![Sender(2)] = Message(2)],
         UNCHANGED <<timer_port, timer_i>>, Awake
  PROVE  TimerInv' /\ UNCHANGED <<request, elapsed>>
<1> USE Processes
<1>1. /\ pc[2] = "user" /\ at[2] = "timer_message" /\ rq.state[2] = "READY"
      /\ active_proc = 2 /\ At(2, "user")
  BY ServiceRuns DEF Runs
<1>2. /\ at'[2] = "timer_receive" /\ at' \in [Proc -> Places]
      /\ \A q \in Proc : q # 2 => at'[q] = at[q]
      /\ UNCHANGED <<rq, param_data, halt, pc, received, ret, request, elapsed>>
      /\ K!IInv' /\ BootStages' /\ PortsAreLeft' /\ HavePriorities'
      /\ ServiceStages' /\ NotifierStages' /\ ProgramStages'
      /\ OnlyTheTimerIsAwaited' /\ ServiceFirst' /\ TimerNeverPanics'
  BY <1>1, ServiceComputes
<1> USE DEF TimerInv, Inv
<1>3. HasMessage /\ ~HasMessage' /\ Content = Message(2) /\ Messenger = Sender(2)
  BY <1>1, <1>2 DEF HasMessage, Content, Messenger, Message, Sender
<1>4. PICK s \in Proc : /\ s = Sender(2) /\ rq.state[s] = "REPLY_BLOCKED"
                        /\ Message(2) = request[s] /\ request[s] \in Ticks
                        /\ ticks_left[s] = 0
  BY <1>3 DEF MessagesAreRight, IsMessage
<1>5. /\ ticks_left \in [Proc -> 0 .. LongestSleep]
      /\ ticks_left'[s] = request[s] /\ request[s] \in Nat /\ request[s] # NULL
      /\ \A q \in Proc : q # s => ticks_left'[q] = ticks_left[q]
      /\ ticks_left' \in [Proc -> 0 .. LongestSleep]
  BY <1>4, CountTypes DEF Typed
<1>6. Typed'
  BY <1>2, <1>5 DEF Typed
<1>7. MessagesAreRight' /\ LoopBegins'
  BY <1>1, <1>2, <1>3 DEF MessagesAreRight, LoopBegins
<1>8. SleepersKnown'
  <2> SUFFICES ASSUME NEW q \in Proc PROVE SleepersKnown!(q)'
    BY DEF SleepersKnown
  <2>1. CASE q = s
    BY <1>2, <1>4, <1>5, <2>1 DEF SleepersKnown
  <2>2. CASE q # s
    BY <1>2, <1>3, <1>4, <1>5, <2>2 DEF SleepersKnown
  <2> QED  BY <2>1, <2>2
<1>9. TicksHaveCome'
  <2>1. \A q \in Proc : Counted(q)' = Counted(q)
    BY <1>2, <1>4, <1>5 DEF Counted
  <2>2. \A q : ~ServiceHasTick(q)' /\ ~ServiceHasTick(q)
    BY <1>1, <1>2, <1>3 DEF ServiceHasTick
  <2>3. NotifierHasTick' <=> NotifierHasTick
    BY <1>2 DEF NotifierHasTick
  <2>4. \A q \in Proc : UnderWay(q)' = UnderWay(q)
    BY <2>2, <2>3 DEF UnderWay, OneIf
  <2> QED  BY <1>2, <2>1, <2>4 DEF TicksHaveCome
<1> QED  BY <1>2, <1>6, <1>7, <1>8, <1>9

(* The processes whose last tick it is, from timer_i on. *)
DueNow == {q \in Proc : q >= timer_i /\ Due(q)}

(* The end of the loop: nobody is due any more. *)
LEMMA LoopEndsInv ==
  ASSUME TimerInv, Runs(Service, "tick"), DueNow = {},
         ticks_left' = Decremented(timer_i, MAX_PROCS - 1), timer_i' = 0,
         Computes(2, "timer_receive"), UNCHANGED timer_port, Awake
  PROVE  TimerInv' /\ UNCHANGED <<request, elapsed>>
<1> USE Processes
<1>1. /\ pc[2] = "user" /\ at[2] = "tick" /\ rq.state[2] = "READY"
      /\ active_proc = 2 /\ At(2, "user")
  BY ServiceRuns DEF Runs
<1>2. /\ at'[2] = "timer_receive" /\ at' \in [Proc -> Places]
      /\ \A q \in Proc : q # 2 => at'[q] = at[q]
      /\ UNCHANGED <<rq, param_data, halt, pc, received, ret, request, elapsed>>
      /\ K!IInv' /\ BootStages' /\ PortsAreLeft' /\ HavePriorities'
      /\ ServiceStages' /\ NotifierStages' /\ ProgramStages'
      /\ OnlyTheTimerIsAwaited' /\ ServiceFirst' /\ TimerNeverPanics'
  BY <1>1, ServiceComputes
<1> USE DEF TimerInv, Inv
<1>3. LongestSleep \in Nat /\ timer_i \in Nat
  BY CountTypes, SizesAssumption DEF Typed
<1>4. ASSUME NEW q \in Proc
      PROVE  /\ ticks_left[q] \in 0 .. LongestSleep /\ ticks_left[q] \in Int
             /\ ticks_left[q] = 0 => ticks_left'[q] = 0
             /\ ticks_left[q] # 0 /\ q < timer_i => ticks_left'[q] = ticks_left[q]
             /\ ticks_left[q] # 0 /\ ~(q < timer_i) =>
                  ticks_left[q] >= 2 /\ ticks_left'[q] = ticks_left[q] - 1
  <2>1. ticks_left[q] \in 0 .. LongestSleep /\ ticks_left[q] \in Int /\ ticks_left[q] >= 0
    BY CountTypes DEF Typed
  <2>2. /\ q \in Int /\ q <= MAX_PROCS - 1
        /\ ticks_left'[q] = IF q \in timer_i .. MAX_PROCS - 1 /\ ticks_left[q] # 0
                            THEN ticks_left[q] - 1 ELSE ticks_left[q]
    BY SizesAssumption DEF Decremented, Proc
  <2>3. q >= timer_i => ticks_left[q] # 1
    BY DEF DueNow, Due
  <2>4. MAX_PROCS \in Int
    BY SizesAssumption
  <2> QED  BY ONLY <1>3, <2>1, <2>2, <2>3, <2>4
<1>5. ticks_left' \in [Proc -> 0 .. LongestSleep]
  <2>1. ticks_left' = [q \in Proc |-> ticks_left'[q]]
    BY DEF Decremented
  <2>2. \A q \in Proc : ticks_left'[q] \in 0 .. LongestSleep
    BY <1>3, <1>4
  <2> QED  BY ONLY <2>1, <2>2
<1>6. Typed'
  BY <1>2, <1>5, SizesAssumption DEF Typed
<1>7. ~HasMessage /\ ~HasMessage'
  BY <1>1, <1>2 DEF HasMessage
<1>8. MessagesAreRight' /\ LoopBegins'
  BY <1>2, <1>7 DEF MessagesAreRight, LoopBegins
<1>9. SleepersKnown'
  <2> SUFFICES ASSUME NEW q \in Proc PROVE SleepersKnown!(q)'
    BY DEF SleepersKnown
  <2>1. ticks_left'[q] # 0 => ticks_left[q] # 0 /\ ticks_left'[q] <= ticks_left[q]
    BY <1>4
  <2>2. ticks_left'[q] = 0 => ticks_left[q] = 0
    BY <1>4
  <2>3. /\ request[q] # NULL <=> rq.state[q] = "REPLY_BLOCKED"
        /\ request[q] = NULL => elapsed[q] = 0
        /\ ticks_left[q] # 0 => request[q] # NULL /\ ticks_left[q] <= request[q]
        /\ request[q] # NULL /\ ticks_left[q] = 0 => request[q] = 0
    BY <1>7 DEF SleepersKnown
  <2>4. ticks_left'[q] # 0 => request[q] # NULL /\ ticks_left'[q] <= request[q]
    <3>1. request[q] # NULL => request[q] \in Int
      BY CountTypes
    <3> QED  BY <1>4, <2>1, <2>3, <3>1
  <2> QED  BY <1>2, <2>2, <2>3, <2>4
<1>10. TicksHaveCome'
  <2> SUFFICES ASSUME NEW q \in Proc, request[q] # NULL, elapsed[q] # LongestSleep
               PROVE  Counted(q)' + UnderWay(q)' <= elapsed[q]
    BY <1>2 DEF TicksHaveCome
  <2>1. /\ Counted(q) + UnderWay(q) <= elapsed[q]
        /\ elapsed[q] \in Int /\ request[q] \in Int
        /\ Counted(q) \in Int /\ UnderWay(q) \in Int
    BY CountTypes DEF TicksHaveCome
  <2>2. NotifierHasTick' <=> NotifierHasTick
    BY <1>2 DEF NotifierHasTick
  <2>3. ~ServiceHasTick(q)' /\ (ServiceHasTick(q) <=> q >= timer_i)
    BY <1>1, <1>2, <1>7 DEF ServiceHasTick
  <2>4. UnderWay(q)' = IF q >= timer_i THEN UnderWay(q) - 1 ELSE UnderWay(q)
    BY <2>2, <2>3 DEF UnderWay, OneIf
  <2>5. \/ Counted(q)' = Counted(q)
        \/ q >= timer_i /\ Counted(q)' = Counted(q) + 1
    <3>1. q >= timer_i \/ q < timer_i
      BY <1>3
    <3> QED  BY <1>2, <1>4, <2>1, <3>1 DEF Counted
  <2> QED  BY ONLY <2>1, <2>4, <2>5
<1> QED  BY <1>2, <1>6, <1>8, <1>9, <1>10

(* The timer process replies to the next sleeper whose last tick it is. *)
LEMMA LoopReplyStep ==
  ASSUME TimerInv, Runs(Service, "tick"), NEW q \in DueNow, \A r \in DueNow : q <= r,
         Replies(2, q, "tick"), UNCHANGED <<timer_port>>, Awake
  PROVE  /\ q \in Proc /\ q > 3 /\ q >= timer_i /\ ticks_left[q] = 1
         /\ rq.state[q] = "REPLY_BLOCKED" /\ request[q] # NULL
         /\ rq'.state[q] = "READY" /\ request'[q] = NULL /\ elapsed'[q] = 0
         /\ \A r \in Proc : r # q => /\ rq'.state[r] = rq.state[r]
                                     /\ request'[r] = request[r]
                                     /\ elapsed'[r] = elapsed[r]
         /\ rq'.priority = rq.priority
         /\ active_proc' = dispatcher(rq', active_proc)
         /\ at' = at /\ halt' = halt
         /\ UNCHANGED <<param_proc, param_data, next_blocked, port, ports, next_free_port,
                        next_free_pcb, new_proc, interrupt_table, pc, received, ret>>
<1> USE Processes
<1>1. /\ pc[2] = "user" /\ at[2] = "tick" /\ rq.state[2] = "READY"
      /\ active_proc = 2 /\ At(2, "user")
  BY ServiceRuns DEF Runs
<1>2. q \in Proc /\ q >= timer_i /\ ticks_left[q] = 1
  BY DEF DueNow, Due
<1>3. request[q] # NULL /\ rq.state[q] = "REPLY_BLOCKED"
  BY <1>2 DEF TimerInv, Inv, SleepersKnown
<1>4. q > 3
  BY <1>2, <1>3, SleepersArePrograms
<1>5. reply(2, q) /\ Jump(2, "tick") /\ received' = received /\ ret' = ret
  BY DEF Replies
<1>6. resign(add_ready_queue(rq, q)) /\ UNCHANGED <<ipcVars, portVars, procVars, interrupt_table, halt, pc>>
  BY <1>3, <1>5, Zenon DEF reply
<1>7. /\ rq' = add_ready_queue(rq, q) /\ active_proc' = dispatcher(rq', active_proc)
      /\ UNCHANGED <<param_proc, param_data, next_blocked, port, ports, next_free_port,
                     next_free_pcb, new_proc, interrupt_table, halt, pc>>
  BY <1>6 DEF resign, ipcVars, portVars, procVars
<1>8. rq \in QueueRecord
  BY KernelTypes DEF TimerInv
<1>9. rq'.state = [rq.state EXCEPT ![q] = "READY"] /\ rq'.priority = rq.priority
  BY <1>2, <1>7, <1>8, StateOf
<1>10. /\ rq'.state[q] = "READY"
       /\ \A r \in Proc : r # q => rq'.state[r] = rq.state[r]
  BY <1>2, <1>8, <1>9 DEF QueueRecord
<1>11. at' = at
  BY <1>1, <1>5 DEF Jump, TimerInv, Inv, Typed
<1>12. request'[q] = NULL /\ elapsed'[q] = 0
  BY <1>2, <1>10 DEF Awake
<1>13. ASSUME NEW r \in Proc, r # q
       PROVE  request'[r] = request[r] /\ elapsed'[r] = elapsed[r]
  <2>1. rq.state[r] # "REPLY_BLOCKED" => request[r] = NULL /\ elapsed[r] = 0
    BY DEF TimerInv, Inv, SleepersKnown
  <2> QED  BY <1>10, <1>13, <2>1 DEF Awake
<1> QED  BY <1>2, <1>3, <1>4, <1>5, <1>7, <1>9, <1>10, <1>11, <1>12, <1>13

LEMMA LoopReplyInv ==
  ASSUME TimerInv, Runs(Service, "tick"), NEW q \in DueNow, \A r \in DueNow : q <= r,
         ticks_left' = Decremented(timer_i, q), timer_i' = q + 1,
         Replies(2, q, "tick"), UNCHANGED <<timer_port>>, Awake
  PROVE  TimerInv'
<1> USE Processes
<1>1. /\ pc[2] = "user" /\ at[2] = "tick" /\ rq.state[2] = "READY"
      /\ active_proc = 2 /\ At(2, "user") /\ \A r \in Proc : ~InPcb(r)
      /\ Exists(Notifier) /\ Exists(Service)
      /\ port[1].owner = 2 /\ 1 \in Port
  BY ServiceRuns DEF Runs
<1>2. /\ q \in Proc /\ q > 3 /\ q >= timer_i /\ ticks_left[q] = 1
      /\ rq.state[q] = "REPLY_BLOCKED" /\ request[q] # NULL
      /\ rq'.state[q] = "READY" /\ request'[q] = NULL /\ elapsed'[q] = 0
      /\ \A r \in Proc : r # q => /\ rq'.state[r] = rq.state[r]
                                  /\ request'[r] = request[r]
                                  /\ elapsed'[r] = elapsed[r]
      /\ rq'.priority = rq.priority
      /\ active_proc' = dispatcher(rq', active_proc)
      /\ at' = at /\ halt' = halt
      /\ UNCHANGED <<param_proc, param_data, next_blocked, port, ports, next_free_port,
                     next_free_pcb, new_proc, interrupt_table, pc, received, ret>>
  BY LoopReplyStep
<1>3. K!IInv' /\ K!HighestStep
  <2>1. q \in ToReply[2] /\ pc[q] \notin {"free", "embryo"}
    BY <1>1, <1>2, SleepersArePrograms DEF ToReply
  <2>2. ToReply' = [ToReply EXCEPT ![2] = @ \ {q}]
    <3>1. ToReply'[2] = ToReply[2] \ {q}
      <4>1. \A r \in Proc : ~InPcb(r)'
        BY <1>1, <1>2 DEF InPcb
      <4> QED  BY <1>1, <1>2, <4>1 DEF ToReply
    <3>2. \A r \in Proc : r # 2 => ToReply'[r] = ToReply[r]
      BY DEF ToReply
    <3>3. /\ ToReply = [r \in Proc |-> ToReply[r]]
          /\ ToReply' = [r \in Proc |-> ToReply'[r]]
      BY DEF ToReply
    <3> HIDE DEF ToReply
    <3> QED  BY ONLY <3>1, <3>2, <3>3
  <2>3. SentTo' = [SentTo EXCEPT ![q] = NULL]
    <3>1. SentTo'[q] = NULL
      BY <1>2 DEF SentTo
    <3>2. \A r \in Proc : r # q => SentTo'[r] = SentTo[r]
      BY <1>2 DEF SentTo
    <3>3. /\ SentTo = [r \in Proc |-> SentTo[r]]
          /\ SentTo' = [r \in Proc |-> SentTo'[r]]
      BY DEF SentTo
    <3> HIDE DEF SentTo
    <3> QED  BY ONLY <3>1, <3>2, <3>3
  <2>4. K!reply(2, q)
    BY <1>2, SameMessageCalls DEF Replies
  <2>5. K!NoResult
    BY <1>2 DEF K!NoResult
  <2>6. K!Reply(2) /\ 2 \in K!Programs
    <3>1. q \in K!Proc /\ 2 \in K!Programs
      BY <1>2, SameSets
    <3> QED  BY ONLY <2>1, <2>2, <2>3, <2>4, <2>5, <3>1 DEF K!Reply
  <2> QED  BY <2>6, KernelStep DEF K!GNext, K!Call, TimerInv
<1>4. BootStages' /\ PortsAreLeft' /\ HavePriorities'
  BY <1>2, StartIsKept
<1>5. TimerNeverPanics'
  BY <1>2, NoPanicIsKept DEF TimerInv, Inv
<1> USE DEF TimerInv, Inv
<1>6. LongestSleep \in Nat /\ timer_i \in Nat /\ q \in Int /\ q <= MAX_PROCS - 1
  BY <1>2, CountTypes, SizesAssumption DEF Typed, Proc
<1>7. ASSUME NEW r \in Proc
      PROVE  /\ ticks_left[r] \in 0 .. LongestSleep /\ ticks_left[r] \in Int /\ r \in Int
             /\ ticks_left[r] = 0 => ticks_left'[r] = 0
             /\ ticks_left[r] # 0 /\ (r < timer_i \/ r > q) => ticks_left'[r] = ticks_left[r]
             /\ ticks_left[r] # 0 /\ ~(r < timer_i) /\ r < q =>
                  ticks_left[r] >= 2 /\ ticks_left'[r] = ticks_left[r] - 1
             /\ r = q => ticks_left'[r] = 0
  <2>1. ticks_left[r] \in 0 .. LongestSleep /\ ticks_left[r] \in Int /\ ticks_left[r] >= 0
    BY CountTypes DEF Typed
  <2>2. /\ r \in Int
        /\ ticks_left'[r] = IF r \in timer_i .. q /\ ticks_left[r] # 0
                            THEN ticks_left[r] - 1 ELSE ticks_left[r]
    BY DEF Decremented
  <2>3. r >= timer_i /\ r < q => ticks_left[r] # 1
    BY <1>6, <2>2 DEF DueNow, Due
  <2>4. ticks_left[q] = 1 /\ q >= timer_i
    BY <1>2
  <2> QED  BY ONLY <1>6, <2>1, <2>2, <2>3, <2>4
<1>8. ticks_left' \in [Proc -> 0 .. LongestSleep]
  <2>1. ticks_left' = [r \in Proc |-> ticks_left'[r]]
    BY DEF Decremented
  <2>2. \A r \in Proc : ticks_left'[r] \in 0 .. LongestSleep
    <3> TAKE r \in Proc
    <3>1. r < timer_i \/ r > q \/ (~(r < timer_i) /\ r < q) \/ r = q
      BY ONLY <1>6, <1>7
    <3> QED  BY <1>6, <1>7, <3>1
  <2> QED  BY ONLY <2>1, <2>2
<1>9. Typed'
  <2>1. timer_i' \in 0 .. MAX_PROCS
    BY <1>2, <1>6, SizesAssumption
  <2>2. request' \in [Proc -> Ticks \cup {NULL}] /\ elapsed' \in [Proc -> 0 .. LongestSleep]
    <3>1. request' = [r \in Proc |-> request'[r]] /\ elapsed' = [r \in Proc |-> elapsed'[r]]
      BY DEF Awake
    <3>2. \A r \in Proc : request'[r] \in Ticks \cup {NULL}
      BY <1>2 DEF Typed
    <3>3. \A r \in Proc : elapsed'[r] \in 0 .. LongestSleep
      BY <1>2, <1>6 DEF Typed
    <3> QED  BY ONLY <3>1, <3>2, <3>3
  <2> QED  BY <1>2, <1>8, <2>1, <2>2 DEF Typed
<1>10. OnlyTheTimerIsAwaited' /\ LoopBegins'
  BY <1>1, <1>2 DEF OnlyTheTimerIsAwaited, LoopBegins
<1>11. ServiceStages'
  BY <1>1, <1>2 DEF ServiceStages, Exists
<1>12. NotifierStages' /\ ProgramStages'
  <2>1. NotifierStages'
    BY <1>2 DEF NotifierStages
  <2>2. ProgramStages'
    BY <1>2 DEF ProgramStages, Exists
  <2> QED  BY <2>1, <2>2
<1>13. ServiceFirst'
  BY <1>2, <1>3, <1>4, <1>9, DispatchServesFirst
<1>14. ~HasMessage /\ ~HasMessage'
  BY <1>1, <1>2 DEF HasMessage
<1>15. MessagesAreRight'
  BY <1>2, <1>14 DEF MessagesAreRight
<1>16. SleepersKnown'
  <2> SUFFICES ASSUME NEW r \in Proc PROVE SleepersKnown!(r)'
    BY DEF SleepersKnown
  <2>1. CASE r = q
    BY <1>2, <1>7, <2>1
  <2>2. CASE r # q
    <3>1. /\ request[r] # NULL <=> rq.state[r] = "REPLY_BLOCKED"
          /\ request[r] = NULL => elapsed[r] = 0
          /\ ticks_left[r] # 0 => request[r] # NULL /\ ticks_left[r] <= request[r]
          /\ request[r] # NULL /\ ticks_left[r] = 0 => request[r] = 0
      BY <1>14 DEF SleepersKnown
    <3>2. r < timer_i \/ r > q \/ (~(r < timer_i) /\ r < q)
      BY ONLY <1>6, <1>7, <2>2
    <3>3. /\ ticks_left'[r] # 0 => ticks_left[r] # 0 /\ ticks_left'[r] <= ticks_left[r]
          /\ ticks_left'[r] = 0 => ticks_left[r] = 0
          /\ ticks_left'[r] \in Int
      BY <1>7, <3>2
    <3>4. request[r] # NULL => request[r] \in Int
      BY CountTypes
    <3>5. ticks_left'[r] # 0 => request[r] # NULL /\ ticks_left'[r] <= request[r]
      BY ONLY <1>7, <3>1, <3>3, <3>4
    <3>6. /\ request'[r] = request[r] /\ elapsed'[r] = elapsed[r]
          /\ rq'.state[r] = rq.state[r]
      BY <1>2, <2>2
    <3> QED  BY <3>1, <3>3, <3>5, <3>6
  <2> QED  BY <2>1, <2>2
<1>17. TicksHaveCome'
  <2> SUFFICES ASSUME NEW r \in Proc, request'[r] # NULL, elapsed'[r] # LongestSleep
               PROVE  Counted(r)' + UnderWay(r)' <= elapsed'[r]
    BY DEF TicksHaveCome
  <2>1. r # q /\ request'[r] = request[r] /\ elapsed'[r] = elapsed[r]
    BY <1>2
  <2>2. /\ Counted(r) + UnderWay(r) <= elapsed[r]
        /\ elapsed[r] \in Int /\ request[r] \in Int
        /\ Counted(r) \in Int /\ UnderWay(r) \in Int
    BY <2>1, CountTypes DEF TicksHaveCome
  <2>3. NotifierHasTick' <=> NotifierHasTick
    BY <1>2 DEF NotifierHasTick
  <2>4. (ServiceHasTick(r)' <=> r >= q + 1) /\ (ServiceHasTick(r) <=> r >= timer_i)
    BY <1>1, <1>2, <1>14 DEF ServiceHasTick
  <2>5. CASE r < timer_i
    <3>1. ~ServiceHasTick(r)' /\ ~ServiceHasTick(r)
      BY <1>2, <1>6, <1>7, <2>4, <2>5
    <3>2. UnderWay(r)' = UnderWay(r)
      BY <2>3, <3>1 DEF UnderWay, OneIf
    <3>3. Counted(r)' = Counted(r)
      BY <1>7, <2>1, <2>5 DEF Counted
    <3> QED  BY <2>1, <2>2, <3>2, <3>3
  <2>6. CASE ~(r < timer_i) /\ r < q
    <3>1. ~ServiceHasTick(r)' /\ ServiceHasTick(r)
      BY <1>2, <1>6, <1>7, <2>4, <2>6
    <3>2. UnderWay(r)' = UnderWay(r) - 1
      BY <2>3, <3>1 DEF UnderWay, OneIf
    <3>3. Counted(r)' = Counted(r) \/ Counted(r)' = Counted(r) + 1
      BY <1>7, <2>1, <2>2, <2>6 DEF Counted
    <3> QED  BY ONLY <2>1, <2>2, <3>2, <3>3
  <2>7. CASE r > q
    <3>1. ServiceHasTick(r)' /\ ServiceHasTick(r)
      BY <1>2, <1>6, <1>7, <2>4, <2>7
    <3>2. UnderWay(r)' = UnderWay(r)
      BY <2>3, <3>1 DEF UnderWay, OneIf
    <3>3. Counted(r)' = Counted(r)
      BY <1>7, <2>1, <2>7 DEF Counted
    <3> QED  BY <2>1, <2>2, <3>2, <3>3
  <2> QED  BY <1>6, <1>7, <2>1, <2>5, <2>6, <2>7
<1> QED  BY <1>3, <1>4, <1>5, <1>9, <1>10, <1>11, <1>12, <1>13, <1>15, <1>16, <1>17

(* It is their last tick, and the one under way is the last that it takes. *)
NobodyWakesEarly ==
  \A p \in Proc : request[p] # NULL /\ request'[p] = NULL => elapsed[p] >= request[p]

LEMMA LoopReplyInTime ==
  ASSUME TimerInv, Runs(Service, "tick"), NEW q \in DueNow, \A r \in DueNow : q <= r,
         Replies(2, q, "tick"), UNCHANGED <<timer_port>>, Awake
  PROVE  NobodyWakesEarly
<1> USE Processes
<1>1. /\ q \in Proc /\ q >= timer_i /\ ticks_left[q] = 1 /\ request[q] # NULL
      /\ \A r \in Proc : r # q => request'[r] = request[r]
  BY LoopReplyStep
<1>2. elapsed[q] >= request[q]
  <2>1. /\ elapsed[q] \in Int /\ request[q] \in Int /\ LongestSleep \in Int
        /\ request[q] <= LongestSleep
    BY <1>1, CountTypes DEF TimerInv, Inv
  <2>2. Counted(q) = request[q] - 1
    BY <1>1 DEF Counted
  <2>3. ServiceHasTick(q)
    BY <1>1 DEF ServiceHasTick, Runs
  <2>4. UnderWay(q) >= 1 /\ UnderWay(q) \in Int
    BY <2>3 DEF UnderWay, OneIf
  <2>5. Counted(q) + UnderWay(q) <= elapsed[q] \/ elapsed[q] = LongestSleep
    BY <1>1 DEF TimerInv, Inv, TicksHaveCome
  <2> QED  BY ONLY <2>1, <2>2, <2>4, <2>5
<1> QED  BY <1>1, <1>2 DEF NobodyWakesEarly

LEMMA ServiceInv ==
  ASSUME TimerInv, NEW p \in Proc, TimerProcess(p)
  PROVE  TimerInv' /\ NobodyWakesEarly
<1> USE Processes
<1>1. Awake /\ timer_process(p)
  BY DEF TimerProcess
<1>2. CASE /\ Runs(p, "timer_process")
           /\ Create(p, "timer_notifier", 7, "timer_receive")
           /\ UNCHANGED timerVars
  <2>1. p = 2
    BY <1>2, WhereTheyAre DEF Runs
  <2>2. pc[3] = "free"
    BY <1>2, <2>1 DEF Runs, At, TimerInv, Inv, ServiceStages
  <2>3. next_free_pcb # NULL
    BY <2>2, KernelPlaces DEF TimerInv
  <2>4. Created(2, next_free_pcb, "timer_notifier", 7, "timer_receive")
    BY <1>2, <2>1, <2>3, CreateStep DEF Places
  <2>5. UNCHANGED <<request, elapsed>>
    BY <1>1, <2>4, NobodyWakes DEF Created
  <2> QED  BY <1>2, <2>1, <2>5, CreateNotifierInv DEF NobodyWakesEarly
<1>3. CASE Runs(p, "timer_receive") /\ Receives(p, "timer_message") /\ UNCHANGED timerVars
  <2>1. p = 2
    BY <1>3, WhereTheyAre DEF Runs
  <2>2. receive(2) /\ Jump(2, "timer_message") /\ UNCHANGED ret
    BY <1>3, <2>1 DEF Receives
  <2>3. ports[2] = <<1>>
    BY <1>3, <2>1, ServiceRuns DEF Runs
  <2>4. receive_pending(2) \/ receive_block(2)
    <3>1. ports[2] # <<>>
      BY <2>3
    <3> QED  BY <2>2, <3>1, Zenon DEF receive
  <2>5. TimerInv' /\ UNCHANGED <<request, elapsed>>
    BY <1>1, <1>3, <2>1, <2>2, <2>4, ReceiveTakesInv, ReceiveBlocksInv
  <2> QED  BY <2>5 DEF NobodyWakesEarly
<1>4. CASE /\ Runs(p, "timer_message")
           /\ \/ Message(p) = NULL /\ Computes(p, "tick") /\ UNCHANGED ticks_left
              \/ /\ Message(p) # NULL /\ Computes(p, "timer_receive")
                 /\ ticks_left' = [ticks_left EXCEPT ![Sender(p)] = Message(p)]
           /\ UNCHANGED <<timer_port, timer_i>>
  <2>1. p = 2
    BY <1>4, WhereTheyAre DEF Runs
  <2>2. TimerInv' /\ UNCHANGED <<request, elapsed>>
    BY <1>1, <1>4, <2>1, TickMessageInv, RequestMessageInv DEF timerVars
  <2> QED  BY <2>2 DEF NobodyWakesEarly
<1>5. CASE timer_tick(p)
  <2>1. p = 2 /\ Runs(2, "tick") /\ UNCHANGED timer_port
    BY <1>5, WhereTheyAre DEF Runs, timer_tick
  <2>2. CASE \E q \in DueNow :
               /\ \A r \in DueNow : q <= r
               /\ ticks_left' = Decremented(timer_i, q)
               /\ timer_i' = q + 1
               /\ Replies(2, q, "tick")
    BY <1>1, <2>1, <2>2, LoopReplyInv, LoopReplyInTime
  <2>3. CASE /\ DueNow = {}
             /\ ticks_left' = Decremented(timer_i, MAX_PROCS - 1)
             /\ timer_i' = 0
             /\ Computes(2, "timer_receive")
    BY <1>1, <2>1, <2>3, LoopEndsInv DEF NobodyWakesEarly
  <2> QED  BY <1>5, <2>1, <2>2, <2>3 DEF timer_tick, DueNow
<1> QED  BY <1>1, <1>2, <1>3, <1>4, <1>5 DEF timer_process

-----------------------------------------------------------------------------
(* The invariant of the system *)

LEMMA BootProgramInv ==
  ASSUME TimerInv, NEW p \in Proc, BootProgram(p)
  PROVE  TimerInv'
<1> USE Processes
<1>1. UNCHANGED <<request, elapsed>>
  BY DEF BootProgram
<1>2. p = 0
  BY WhereTheyAre DEF BootProgram, init_timer, Runs
<1>3. CASE init_timer(p, "create_programs")
  <2>1. CASE Runs(0, "init_timer") /\ Create(0, "timer_process", 6, "assign_timer_port")
             /\ UNCHANGED timerVars
    BY <1>1, <2>1, InitTimerInv
  <2>2. CASE /\ Runs(0, "assign_timer_port") /\ timer_port' = Returned(0) /\ Forget(0)
             /\ Jump(0, "resign_timer")
             /\ UNCHANGED <<vars, received, ticks_left, timer_i>>
    BY <1>1, <2>2, AssignInv
  <2>3. CASE Runs(0, "resign_timer") /\ Resigns(0, "create_programs")
             /\ UNCHANGED timerVars
    BY <1>1, <2>3, ResignTimerInv
  <2> QED  BY <1>2, <1>3, <2>1, <2>2, <2>3 DEF init_timer
<1>4. CASE /\ Runs(p, "create_programs") /\ next_free_pcb # NULL
           /\ Create(p, "program", 5, "create_programs")
           /\ UNCHANGED timerVars
  BY <1>1, <1>2, <1>4, CreateProgramInv
<1>5. CASE /\ Runs(p, "create_programs") /\ next_free_pcb = NULL
           /\ Dies(p) /\ UNCHANGED timerVars
  BY <1>1, <1>2, <1>5, DiesInv
<1> QED  BY <1>3, <1>4, <1>5 DEF BootProgram

LEMMA ReturnInv ==
  ASSUME TimerInv, NEW p \in Proc, Return(p)
  PROVE  TimerInv'
<1>1. Continue(p) /\ UNCHANGED <<at, timerVars, request, elapsed>>
  BY DEF Return, Continue
<1>2. CASE create_process_port(p) /\ UNCHANGED <<received, ret>>
  BY <1>1, <1>2, CreateProcessPortInv
<1>3. CASE /\ create_process_ready(p)
           /\ ret' = [ret EXCEPT ![p] = Head(ports[new_proc[p]])]
           /\ UNCHANGED received
  BY <1>1, <1>3, CreateProcessReadyInv
<1>4. CASE zombie_remove(p) /\ UNCHANGED <<received, ret>>
  BY <1>1, <1>4, ZombieRemoveInv
<1>5. CASE zombie_resign(p) /\ UNCHANGED <<received, ret>>
  BY <1>1, <1>5, ZombieResignInv
<1>6. CASE receive_return(p) /\ UNCHANGED ret
  BY <1>1, <1>6, ReceivedInv
<1>7. CASE wait_for_interrupt_return(p) /\ UNCHANGED <<received, ret>>
  BY <1>1, <1>7, NotifierWokenInv
<1> QED  BY <1>1, <1>2, <1>3, <1>4, <1>5, <1>6, <1>7 DEF Continue

LEMMA LoopInv ==
  ASSUME TimerInv, Loop
  PROVE  TimerInv'
<1>1. UNCHANGED vars
  BY DEF Loop, Loops, null_process, halted, zombie_loop
<1>2. /\ halt' = halt
      /\ UNCHANGED <<schedVars, ipcVars, portVars, procVars, interrupt_table, pc,
                     received, progVars, timerVars, request, elapsed>>
  BY <1>1 DEF vars, schedVars, ipcVars, portVars, procVars, Loop, Loops
<1> QED  BY <1>2, HaltInv

LEMMA InitInv ==
  ASSUME TInit
  PROVE  TimerInv
<1> USE Processes
<1>1. K!IInv
  <2>1. Init
    BY DEF TInit, ProgramsInit
  <2>2. K!Init
    BY <2>1, SameSets DEF Init, K!Init
  <2>3. SentTo = [p \in Proc |-> NULL]
    BY <2>1 DEF Init, SentTo
  <2>4. ToReply = [p \in Proc |-> {}]
    BY <2>1 DEF Init, ToReply
  <2>5. K!GInit
    BY <2>2, <2>3, <2>4, SameSets DEF K!GInit
  <2> QED  BY <2>5, KernelConstants, SizesAssumption, NullAssumption, PortsAssumption, K!InitInv
<1>2. /\ at = [p \in Proc |-> CASE p = 0 -> "init_timer"
                                [] p = 1 -> "loop"
                                [] OTHER -> "none"]
      /\ ret = [p \in Proc |-> NULL]
      /\ timer_port = NULL /\ ticks_left = [p \in Proc |-> 0] /\ timer_i = 0
      /\ request = [p \in Proc |-> NULL] /\ elapsed = [p \in Proc |-> 0]
  BY DEF TInit, ProgramsInit, TimerInit
<1>3. /\ \A p \in Proc : rq.state[p] = "READY" /\ rq.priority[p] = (IF p = 0 THEN 1 ELSE 0)
      /\ active_proc = 0 /\ next_free_pcb = 2 /\ next_free_port = 1
      /\ \A p \in Proc : pc[p] = IF p = 0 \/ p = 1 THEN "user" ELSE "free"
      /\ \A p \in Proc : param_data[p] = NULL
      /\ ports[2] = <<>>
      /\ \A irq \in Irq : interrupt_table[irq] = NULL
      /\ halt = "no"
  BY SizesAssumption, RoomAssumption DEF TInit, ProgramsInit, Init
<1>4. Typed
  <2>1. LongestSleep \in Nat
    BY TicksAssumption DEF LongestSleep
  <2> QED  BY <1>2, <2>1, SizesAssumption DEF Typed, Places
<1>5. BootStages /\ ServiceStages /\ NotifierStages /\ ProgramStages
  BY <1>2, <1>3 DEF BootStages, ServiceStages, NotifierStages, ProgramStages
<1>6. PortsAreLeft /\ HavePriorities /\ ServiceFirst /\ OnlyTheTimerIsAwaited
  <2>1. CreatedBelow = 2
    <3>1. 2 # NULL
      BY Processes
    <3> QED  BY <1>3, <3>1 DEF CreatedBelow
  <2>2. PortsAreLeft
    BY <1>3, <2>1 DEF PortsAreLeft, Exists
  <2>3. HavePriorities
    BY <1>3 DEF HavePriorities
  <2>4. ServiceFirst /\ OnlyTheTimerIsAwaited
    BY <1>2, <1>3 DEF ServiceFirst, OnlyTheTimerIsAwaited
  <2> QED  BY <2>2, <2>3, <2>4
<1>7. MessagesAreRight /\ SleepersKnown /\ TicksHaveCome /\ LoopBegins
  BY <1>2, <1>3 DEF MessagesAreRight, HasMessage, SleepersKnown, TicksHaveCome, LoopBegins
<1>8. TimerNeverPanics
  BY <1>3 DEF TimerNeverPanics
<1> QED  BY <1>1, <1>4, <1>5, <1>6, <1>7, <1>8 DEF TimerInv, Inv

LEMMA NextInv ==
  ASSUME TimerInv, [TNext]_timerSystemVars
  PROVE  TimerInv'
<1>1. ASSUME NEW p \in Proc, Step(p) \/ Sleep(p) PROVE TimerInv'
  BY <1>1, BootProgramInv, NotifierInv, ServiceInv, ReturnInv, SleepInv DEF Step
<1>2. ASSUME Tick PROVE TimerInv'
  BY <1>2, TickInv DEF Tick
<1>3. ASSUME UNCHANGED timerSystemVars PROVE TimerInv'
  <2>1. /\ halt' = halt
        /\ UNCHANGED <<schedVars, ipcVars, portVars, procVars, interrupt_table, pc,
                       received, progVars, timerVars, request, elapsed>>
    BY <1>3 DEF timerSystemVars, vars, schedVars, ipcVars, portVars, procVars
  <2> QED  BY <2>1, HaltInv
<1> QED  BY <1>1, <1>2, <1>3, LoopInv DEF TNext

LEMMA WakesInTime ==
  ASSUME TimerInv, [TNext]_timerSystemVars
  PROVE  NobodyWakesEarly
<1>1. ASSUME NEW p \in Proc, Sleep(p) PROVE NobodyWakesEarly
  <2>1. PICK n \in Ticks : request' = [request EXCEPT ![p] = n]
    BY <1>1 DEF Sleep
  <2>2. n # NULL
    <3>1. n \in Int /\ NULL \notin Int
      BY TicksAssumption, Processes
    <3> QED  BY <3>1
  <2> QED  BY <2>1, <2>2 DEF NobodyWakesEarly, TimerInv, Inv, Typed
<1>2. ASSUME NEW p \in Proc, TimerProcess(p) PROVE NobodyWakesEarly
  BY <1>2, ServiceInv
<1>3. ASSUME NEW p \in Proc, BootProgram(p) \/ TimerNotifier(p) \/ Return(p)
      PROVE  request' = request
  BY <1>3 DEF BootProgram, TimerNotifier, Return
<1>4. Tick \/ Loop \/ UNCHANGED timerSystemVars => request' = request
  BY DEF Tick, Loop, timerSystemVars
<1>5. request' = request => NobodyWakesEarly
  BY DEF NobodyWakesEarly
<1> QED  BY <1>1, <1>2, <1>3, <1>4, <1>5 DEF TNext, Step

-----------------------------------------------------------------------------
(* The theorems *)

(* The timer service, its programs and the kernel stay in the states of    *)
(* the invariant.                                                          *)
THEOREM TimerInvariant == TSpec => []TimerInv
<1>1. TInit => TimerInv
  BY InitInv
<1>2. TimerInv /\ [TNext]_timerSystemVars => TimerInv'
  BY NextInv
<1> QED  BY <1>1, <1>2, PTL DEF TSpec

(* The service keeps its types and no call of timer.c panics, but for the  *)
(* assertion of a notifier that starts before timer_port is assigned.      *)
THEOREM TimerStaysSound == TSpec => []TimerIsSound
<1>1. TimerInv => TimerIsSound
  <2> SUFFICES ASSUME TimerInv PROVE TimerIsSound
    OBVIOUS
  <2>1. timer_port \in Port \cup {NULL}
    BY KernelConstants DEF TimerInv, Inv, Typed
  <2> QED  BY <2>1 DEF TimerInv, Inv, Typed, TimerIsSound, TimerTypeOK
<1> QED  BY <1>1, TimerInvariant, PTL

(* While a program computes, the notifier is in the interrupt table and    *)
(* the timer process waits for its message: no tick is lost.               *)
THEOREM ProgramsNeverHideATick == TSpec => []ProgramsLeaveTheTimerIdle
<1>1. TimerInv => ProgramsLeaveTheTimerIdle
  <2> SUFFICES ASSUME TimerInv, at[active_proc] = "program"
               PROVE  \E n \in Proc :
                        /\ interrupt_table[TIMER_IRQ] = n /\ rq.state[n] = "INTR_BLOCKED"
                        /\ rq.state[port[timer_port].owner] = "RECEIVE_BLOCKED"
    BY DEF ProgramsLeaveTheTimerIdle
  <2>1. active_proc \in Proc
    BY KernelTypes DEF TimerInv
  <2>2. /\ timer_port = 1 /\ rq.state[2] = "RECEIVE_BLOCKED"
        /\ pc[3] = "wait_for_interrupt" /\ rq.state[3] = "INTR_BLOCKED"
    BY <2>1, ProgramRuns
  <2>3. port[1].owner = 2
    BY <2>2, TheService, Processes
  <2>4. interrupt_table[TIMER_IRQ] = 3
    <3>1. PICK irq \in Irq : interrupt_table[irq] = 3
      BY <2>2, SameSets, Processes DEF TimerInv, K!IInv, K!WaitersAreRegistered
    <3> QED  BY <3>1, Processes DEF TimerInv, Inv, OnlyTheTimerIsAwaited
  <2> QED  BY <2>2, <2>3, <2>4, Processes
<1> QED  BY <1>1, TimerInvariant, PTL

(* A sleeper's count is the ticks it asked for, less those that have been  *)
(* counted, and those have come; a sleeper without a count has asked for   *)
(* no ticks, or its request is in the hands of the timer process.          *)
THEOREM SleepersStayCounted == TSpec => []SleepersAreCounted
<1>1. TimerInv => SleepersAreCounted
  <2> SUFFICES ASSUME TimerInv, NEW p \in Proc PROVE SleepersAreCounted!(p)
    BY DEF SleepersAreCounted
  <2>1. /\ request[p] # NULL <=> rq.state[p] = "REPLY_BLOCKED"
        /\ ticks_left[p] # 0 => request[p] # NULL /\ ticks_left[p] <= request[p]
        /\ request[p] # NULL /\ ticks_left[p] = 0 =>
             request[p] = 0 \/ (HasMessage /\ Messenger = p)
    BY DEF TimerInv, Inv, SleepersKnown
  <2>2. ASSUME ticks_left[p] # 0 PROVE request[p] - ticks_left[p] <= elapsed[p]
    <3>1. /\ elapsed[p] \in Int /\ request[p] \in Int /\ LongestSleep \in Int
          /\ request[p] <= LongestSleep /\ ticks_left[p] \in Int /\ ticks_left[p] >= 0
      BY <2>1, <2>2, CountTypes DEF TimerInv, Inv
    <3>2. Counted(p) = request[p] - ticks_left[p]
      BY <2>2 DEF Counted
    <3>3. UnderWay(p) \in Int /\ UnderWay(p) >= 0
      BY DEF UnderWay, OneIf
    <3>4. Counted(p) + UnderWay(p) <= elapsed[p] \/ elapsed[p] = LongestSleep
      BY <2>1, <2>2 DEF TimerInv, Inv, TicksHaveCome
    <3> QED  BY ONLY <3>1, <3>2, <3>3, <3>4
  <2> QED  BY <2>1, <2>2, Processes DEF HasMessage
<1> QED  BY <1>1, TimerInvariant, PTL

(* sleep(n) does not return before n timer interrupts have come.           *)
THEOREM NobodySleepsTooShort == TSpec => SleepsLongEnough
<1>1. TimerInv /\ [TNext]_timerSystemVars =>
        [\A p \in Proc : request[p] # NULL /\ request'[p] = NULL
                           => elapsed[p] >= request[p]]_timerSystemVars
  BY WakesInTime DEF NobodyWakesEarly
<1> QED  BY <1>1, TimerInvariant, PTL DEF TSpec, SleepsLongEnough

=============================================================================
