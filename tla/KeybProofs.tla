------------------------------ MODULE KeybProofs ------------------------------
(***************************************************************************)
(* The keyboard service (keyb.c) with the window manager (wm.c) and any    *)
(* number of programs that make windows, read keys and start each other:   *)
(* with a patient typist no call panics, no program waits beside its key,  *)
(* and keys go to the window with the focus.                               *)
(*                                                                         *)
(* As in ComProofs the programs are a client of the kernel (K), whose      *)
(* invariant holds; the port a process waits on and the senders still to   *)
(* be replied to are told from the state.                                  *)
(***************************************************************************)
EXTENDS KeybSystem, FiniteSetTheorems, TLAPS

(* The processes that main.c creates first, and their ports. *)
Manager == 2
Service == 3
Notifier == 4
ManagerPort == 1
ServicePort == 2
NotifierPort == 3

PortOf(p) == IF p = Notifier \/ Reading(p) THEN ServicePort ELSE ManagerPort
SentTo == [p \in Proc |->
             IF rq.state[p] \in {"SEND_BLOCKED", "MESSAGE_BLOCKED", "REPLY_BLOCKED"}
             THEN PortOf(p) ELSE NULL]

(* The message of s is in the PCB of r. *)
InPcb(r, s) == /\ pc[r] = "receive" /\ rq.state[r] = "READY"
               /\ param_proc[r] = s
Asks(s, r) == /\ rq.state[s] = "REPLY_BLOCKED"
              /\ \/ r = Manager /\ PortOf(s) = ManagerPort
                 \/ r = Service /\ PortOf(s) = ServicePort
ToReply == [r \in Proc |-> {s \in Proc : Asks(s, r) /\ ~InPcb(r, s)}]

K == INSTANCE KernelProofs WITH
  Data <- Proc \cup {NULL},
  Payload <- [p \in Proc |-> Proc],
  Priorities <- {5, 6, 7},
  Calls <- {"create_process", "resign", "become_zombie", "send", "message",
            "receive", "reply", "wait_for_interrupt", "isr_timer", "isr_keyb"},
  KeepsResults <- TRUE,
  halt <- "no", waits_on <- SentTo, clients <- ToReply

-----------------------------------------------------------------------------
(* The invariant *)

Asking == {"focus_changed", "move", "moved", "focus_asked", "key_new_record",
           "client_new_record"}
WithKey == {"focus_changed", "move", "moved", "focus_asked", "key_new_record",
            "key_record", "key_given"}
WithClient == {"client_record", "client_new_record"}
Places == {"init_wm", "assign_wm_port", "init_keyb", "assign_keyb_port", "resign_keyb",
           "start_shell", "become_zombie", "dead", "loop", "none", "start", "program",
           "wm", "wm_handle", "keyb_notifier", "keyb_scan",
           "keyb_process", "keyb_receive", "keyb_received"} \cup WithKey \cup WithClient

Ids == 0 .. Len(windows) - 1
RealKeys == Chars \ {NoKey}

Typed ==
  /\ at \in [Proc -> Places]
  /\ ret = [p \in Proc |-> ret[p]]
  /\ wm_port \in {NULL, ManagerPort} /\ keyb_port \in {NULL, ServicePort}

DataTyped ==
  /\ wm_msg \in [Proc -> [action : {NULL, "create", "change_focus", "current_focus",
                                    "update"},
                          window_id : Ids \cup {NoWindow}]]
  /\ keyb_msg \in [Proc -> [window_id : Ids \cup {NoWindow}, block : BOOLEAN,
                            key : Chars \cup {NoKey}]]
  /\ new_key \in Keys \cup {NoKey} /\ keyb_key \in Chars \cup {NoKey}
  /\ windows \in Seq(Ids) /\ \A w \in Ids : Found(w)
  /\ current_window \in Ids \cup {NoWindow} /\ keyb_window \in Ids \cup {NoWindow}
  /\ DOMAIN keyb_clients \subseteq Ids
  /\ keyb_clients \in [DOMAIN keyb_clients -> [client : ProcOrNull,
                                               is_waiting : BOOLEAN,
                                               buffer : Seq(RealKeys)]]
  /\ \A w \in DOMAIN keyb_clients : Len(keyb_clients[w].buffer) < MAX_KEYB_BUFFER

Exists(p) == pc[p] \notin {"free", "embryo"}
Early == at[Boot] \in {"init_wm", "assign_wm_port", "init_keyb", "assign_keyb_port",
                       "resign_keyb"}

(* The stages of the start, and where each process can be. *)
BootStages ==
  /\ rq.state[Boot] = IF at[Boot] = "dead" THEN "ZOMBIE" ELSE "READY"
  /\ wm_port = IF at[Boot] \in {"init_wm", "assign_wm_port"} THEN NULL ELSE ManagerPort
  /\ keyb_port = IF Early /\ at[Boot] # "resign_keyb" THEN NULL ELSE ServicePort
  /\ windows # <<>> => ~Early
  /\ \/ at[Boot] = "init_wm" /\ pc[Boot] = "user"
        /\ pc[Manager] = "free" /\ next_free_port = 1
     \/ at[Boot] = "assign_wm_port" /\ pc[Boot] = "create_port"
        /\ new_proc[Boot] = Manager /\ pc[Manager] = "embryo" /\ next_free_port = 1
     \/ at[Boot] = "assign_wm_port" /\ pc[Boot] = "create_ready"
        /\ new_proc[Boot] = Manager /\ pc[Manager] = "embryo" /\ next_free_port = 2
     \/ at[Boot] = "assign_wm_port" /\ pc[Boot] = "user"
        /\ ret[Boot] = ManagerPort /\ Exists(Manager)
        /\ pc[Service] = "free" /\ next_free_port = 2
     \/ at[Boot] = "init_keyb" /\ pc[Boot] = "user" /\ Exists(Manager)
        /\ pc[Service] = "free" /\ next_free_port = 2
     \/ at[Boot] = "assign_keyb_port" /\ pc[Boot] = "create_port" /\ Exists(Manager)
        /\ new_proc[Boot] = Service /\ pc[Service] = "embryo" /\ next_free_port = 2
     \/ at[Boot] = "assign_keyb_port" /\ pc[Boot] = "create_ready" /\ Exists(Manager)
        /\ new_proc[Boot] = Service /\ pc[Service] = "embryo" /\ next_free_port = 3
     \/ at[Boot] = "assign_keyb_port" /\ pc[Boot] = "user"
        /\ ret[Boot] = ServicePort /\ Exists(Manager) /\ Exists(Service)
     \/ at[Boot] \in {"resign_keyb", "start_shell"} /\ pc[Boot] = "user"
        /\ Exists(Manager) /\ Exists(Service)
     \/ at[Boot] = "become_zombie" /\ pc[Boot] \in {"create_port", "create_ready", "user"}
        /\ Exists(Notifier) /\ (pc[Boot] # "user" => new_proc[Boot] > Notifier)
     \/ at[Boot] = "dead" /\ pc[Boot] \in {"zombie_remove", "zombie_resign", "zombie_loop"}
        /\ Exists(Notifier)

ManagerStages ==
  /\ rq.state[Manager] = "READY" \/ pc[Manager] = "receive"
  /\ \/ pc[Manager] = "free" /\ at[Manager] = "none" /\ pc[Service] = "free"
     \/ pc[Manager] = "embryo" /\ at[Manager] = "wm" /\ pc[Service] = "free"
     \/ pc[Manager] = "user" /\ at[Manager] \in {"wm", "wm_handle"}
     \/ pc[Manager] = "receive" /\ at[Manager] = "wm_handle"

ServiceStages ==
  /\ \/ pc[Service] = "free" /\ at[Service] = "none" /\ pc[Notifier] = "free"
     \/ pc[Service] = "embryo" /\ at[Service] = "keyb_process" /\ pc[Notifier] = "free"
     \/ pc[Service] = "user" /\ at[Service] = "keyb_process"
        /\ pc[Notifier] = "free" /\ next_free_port = 3
     \/ pc[Service] = "create_port" /\ at[Service] = "keyb_receive"
        /\ new_proc[Service] = Notifier /\ pc[Notifier] = "embryo" /\ next_free_port = 3
     \/ pc[Service] = "create_ready" /\ at[Service] = "keyb_receive"
        /\ new_proc[Service] = Notifier /\ pc[Notifier] = "embryo" /\ next_free_port = 4
     \/ pc[Service] = "user" /\ Exists(Notifier) /\ ret[Service] = NotifierPort
        /\ at[Service] \in {"keyb_receive", "keyb_received"} \cup WithKey \cup WithClient
     \/ pc[Service] = "receive" /\ at[Service] = "keyb_received"
        /\ Exists(Notifier) /\ ret[Service] = NotifierPort
  /\ \/ rq.state[Service] = "READY"
     \/ pc[Service] = "receive"
     \/ at[Service] \in Asking /\ rq.state[Service] \in {"SEND_BLOCKED", "REPLY_BLOCKED"}

NotifierStages ==
  \/ pc[Notifier] = "free" /\ at[Notifier] = "none"
  \/ pc[Notifier] = "embryo" /\ at[Notifier] = "keyb_notifier"
  \/ pc[Notifier] = "user" /\ at[Notifier] = "keyb_notifier"
     /\ rq.state[Notifier] \in {"READY", "MESSAGE_BLOCKED"}
  \/ pc[Notifier] = "wait_for_interrupt" /\ at[Notifier] = "keyb_scan"
  \/ pc[Notifier] = "user" /\ at[Notifier] = "keyb_scan" /\ rq.state[Notifier] = "READY"

ProgramStages ==
  /\ pc[NullProcess] = "user" /\ at[NullProcess] = "loop"
  /\ \A p \in Proc : p > Notifier =>
       /\ pc[p] # "free" => Exists(Notifier) /\ at[Boot] \in {"become_zombie", "dead"}
       /\ \/ pc[p] = "free" /\ at[p] = "none"
          \/ pc[p] = "embryo" /\ at[p] = "start"
          \/ pc[p] = "user" /\ at[p] = "start" /\ rq.state[p] = "READY"
          \/ pc[p] = "user" /\ at[p] = "program"
             /\ rq.state[p] \in {"READY", "REPLY_BLOCKED"}
          \/ pc[p] \in {"create_port", "create_ready"} /\ at[p] = "program"
             /\ new_proc[p] > Notifier

(* Every process but the boot process gets one port, which is always open. *)
PortsAreOwned ==
  /\ \A p \in Proc : Len(ports[p]) <= 1
  /\ ports[Boot] = <<>>
  /\ \A p \in Proc : pc[p] = "create_port" => ports[new_proc[p]] = <<>>
  /\ next_free_port >= 2 => port[ManagerPort].owner = Manager
  /\ next_free_port >= 3 => port[ServicePort].owner = Service
  /\ next_free_port >= 4 => port[NotifierPort].owner = Notifier
  /\ Exists(Manager) => next_free_port >= 2
  /\ Exists(Service) => next_free_port >= 3
  /\ Exists(Notifier) => next_free_port >= 4
  /\ \A po \in Port : po < next_free_port => port[po].open

HavePriorities ==
  /\ rq.priority[Boot] = 1 /\ rq.priority[NullProcess] = 0
  /\ pc[Manager] # "free" => rq.priority[Manager] = 6
  /\ pc[Service] # "free" => rq.priority[Service] = 6
  /\ pc[Notifier] # "free" => rq.priority[Notifier] = 7
  /\ \A p \in Proc : p > Notifier /\ pc[p] # "free" => rq.priority[p] = 5

(* Nobody runs while a service can, but before the boot process has called *)
(* resign(); and the notifier takes the scan code at once.                 *)
Busy(p) == Exists(p) /\ rq.state[p] = "READY"
Services == {Manager, Service, Notifier}
ServiceFirst ==
  /\ \/ active_proc \in Services
     \/ active_proc = Boot /\ Early
     \/ \A p \in Services : ~Busy(p)
  /\ at[Notifier] = "keyb_scan" /\ rq.state[Notifier] = "READY" =>
       active_proc = Notifier

OnlyKeysAreAwaited ==
  \A irq \in Irq : interrupt_table[irq] # NULL => irq = KEYB_IRQ

(* What a service has been sent, in its PCB until its receive() returns.   *)
Messenger(r) == IF pc[r] = "receive" THEN param_proc[r] ELSE received[r][1]
Content(r) == IF pc[r] = "receive" THEN param_data[r] ELSE received[r][2]
Handles(r) == /\ at[r] = IF r = Manager THEN "wm_handle" ELSE "keyb_received"
              /\ rq.state[r] = "READY"

(* A service is asked by one process at a time, which is on its stack: the *)
(* window manager by keyb_process or a program, keyb_process by a program  *)
(* or the notifier.  Only keyb_process has to wait for the window manager, *)
(* and only the notifier for keyb_process: no program runs meanwhile.      *)
OneAtATime ==
  /\ \A p \in Proc : rq.state[p] = "SEND_BLOCKED" => p = Service
  /\ \A p \in Proc : rq.state[p] \in {"SEND_BLOCKED", "MESSAGE_BLOCKED"} =>
       param_data[p] = p
  /\ \A r \in {Manager, Service} : Handles(r) =>
       \E m \in Proc : /\ Messenger(r) = m /\ Content(r) = m
                       /\ Asks(m, r) \/ (r = Service /\ m = Notifier)
  /\ \A p \in Proc : Asks(p, Manager) => Handles(Manager) /\ p = Messenger(Manager)
  /\ Handles(Manager) /\ Messenger(Manager) # Service /\ at[Service] \in Asking =>
       rq.state[Service] = "SEND_BLOCKED"

(* keyb_process asks for one thing at each place, and is told the focus.   *)
Question == CASE at[Service] = "focus_changed" -> "change_focus"
              [] at[Service] = "moved" -> "update"
              [] OTHER -> "current_focus"
ServiceAsks ==
  /\ rq.state[Service] \in {"SEND_BLOCKED", "REPLY_BLOCKED"} =>
       /\ wm_msg[Service].action = Question
       /\ at[Service] = "moved" => wm_msg[Service].window_id \in Ids
  /\ at[Service] \in Asking \ {"moved"} /\ rq.state[Service] = "READY" =>
       wm_msg[Service].window_id = Focus

(* Each program has a window of its own, and reads its keys.               *)
ProgramsHaveWindows ==
  /\ \A p \in Proc : at[p] = "program" =>
       \/ /\ Asks(p, Manager)
          /\ wm_msg[p].action = "create" /\ wm_msg[p].window_id = NoWindow
       \/ /\ wm_msg[p].window_id \in Ids
          /\ Asks(p, Manager) => wm_msg[p].action = "update"
  /\ \A p \in Proc : p > Notifier /\ at[p] # "program" => wm_msg[p].window_id = NoWindow
  /\ \A p, q \in Proc :
       p > Notifier /\ q > Notifier /\ wm_msg[p].window_id = wm_msg[q].window_id =>
         p = q \/ wm_msg[p].window_id = NoWindow
  /\ \A p \in Proc : Reading(p) =>
       /\ p > Notifier /\ at[p] = "program" /\ rq.state[p] = "REPLY_BLOCKED"
       /\ keyb_msg[p].window_id = wm_msg[p].window_id

(* A key is in new_key until keyb_process reads it, then its character in  *)
(* keyb_key.                                                               *)
Unheard == Handles(Service) /\ Messenger(Service) = Notifier
KeysAreKept ==
  /\ rq.state[Notifier] = "MESSAGE_BLOCKED" => ~Unheard
  /\ at[Notifier] = "keyb_scan" /\ rq.state[Notifier] = "READY" =>
       ~Unheard /\ windows # <<>>
  /\ rq.state[Notifier] = "MESSAGE_BLOCKED" \/ Unheard =>
       new_key \in Keys \ {NoKey} /\ windows # <<>>
  /\ at[Service] \in WithKey => keyb_key \in RealKeys /\ windows # <<>>

(* The record at hand is that of the client, and is there when it is used. *)
RecordsAreFound ==
  /\ at[Service] \in WithClient =>
       \E m \in Proc : /\ Messenger(Service) = m /\ Asks(m, Service)
                       /\ keyb_window = keyb_msg[m].window_id
  /\ at[Service] \in {"key_record", "key_given", "client_record"} =>
       Seen(keyb_window)
  /\ at[Service] \in {"key_new_record", "client_new_record"} =>
       keyb_window \in Ids /\ ~Seen(keyb_window)

(* The programs recorded as waiting are those that wait.                   *)
BeingGiven(w) == at[Service] = "key_given" /\ keyb_window = w
ServedNow(p) == /\ Handles(Service) \/ at[Service] \in WithClient
                /\ p = Messenger(Service)
RecordsAreRight ==
  /\ \A w \in DOMAIN keyb_clients :
       LET c == keyb_clients[w].client IN
       keyb_clients[w].is_waiting /\ ~BeingGiven(w) =>
         /\ c \in Proc /\ rq.state[c] = "REPLY_BLOCKED" /\ keyb_msg[c].window_id = w
         /\ Blocks(c) /\ keyb_clients[w].buffer = <<>>
  /\ \A p \in Proc : Reading(p) /\ ~ServedNow(p) =>
       LET w == keyb_msg[p].window_id IN
       /\ Seen(w) /\ ~BeingGiven(w)
       /\ keyb_clients[w].is_waiting /\ keyb_clients[w].client = p

(* The focus is known once its window is, but while it is being changed.   *)
FocusIsKnown ==
  Seen(Focus) => /\ at[Service] # "focus_changed" => current_window = Focus
                 /\ at[Service] # "key_new_record"
                 /\ at[Service] = "key_record" => keyb_window = Focus

Inv ==
  /\ Typed /\ DataTyped
  /\ BootStages /\ ManagerStages /\ ServiceStages /\ NotifierStages /\ ProgramStages
  /\ PortsAreOwned /\ HavePriorities
  /\ ServiceFirst
  /\ OnlyKeysAreAwaited
  /\ OneAtATime /\ ServiceAsks
  /\ ProgramsHaveWindows /\ KeysAreKept
  /\ RecordsAreFound /\ RecordsAreRight /\ FocusIsKnown
  /\ KeybNeverPanics

KeybInv == K!IInv /\ Inv

-----------------------------------------------------------------------------
(* The kernel under these programs *)

LEMMA KernelConstants ==
  /\ K!ProgramsAssumption
  /\ MAX_PROCS \in Nat /\ MAX_PROCS >= 6 /\ MAX_PORTS \in Nat /\ MAX_PORTS >= MAX_PROCS - 1
  /\ {0, 1, 2, 3, 4, 5} \subseteq Proc /\ Proc \subseteq Int
  /\ {5, 6, 7} \subseteq Priority
  /\ {0, 1, 2, 3} \subseteq Port /\ NULL \notin Int
  /\ Boot = 0 /\ NullProcess = 1
BY SizesAssumption, RoomAssumption, PortsAssumption, NullAssumption
   DEF K!ProgramsAssumption, K!AllCalls, K!Proc, Proc, Priority, Port, Boot, NullProcess

LEMMA SameSets ==
  /\ K!Proc = Proc /\ K!Port = Port /\ K!Priority = Priority
  /\ K!ProcOrNull = ProcOrNull /\ K!States = States /\ K!Labels = Labels
  /\ K!QueueRecord = QueueRecord /\ K!Irq = Irq
  /\ K!Programs = Proc \ {NullProcess} /\ K!NullProcess = NullProcess
  /\ K!Boot = Boot
BY DEF K!Proc, Proc, K!Port, Port, K!Priority, Priority, K!ProcOrNull,
       ProcOrNull, K!States, States, K!Labels, Labels, K!CallLabels, CallLabels,
       K!QueueRecord, QueueRecord, K!Irq, Irq, K!TIMER_IRQ, TIMER_IRQ,
       K!KEYB_IRQ, KEYB_IRQ, K!COM1_IRQ, COM1_IRQ, K!Programs, K!NullProcess,
       NullProcess, K!Boot, Boot

LEMMA SameRings ==
  ASSUME NEW q, NEW p
  PROVE  /\ K!add_ready_queue(q, p) = add_ready_queue(q, p)
         /\ K!remove_ready_queue(q, p) = remove_ready_queue(q, p)
         /\ K!dispatcher(q, p) = dispatcher(q, p)
BY DEF K!add_ready_queue, add_ready_queue, K!remove_ready_queue,
       remove_ready_queue, K!dispatcher, dispatcher, K!MostSignificantBit,
       MostSignificantBit

(* A call that does not panic is a step of the kernel's actions. *)
LEMMA SameCalls ==
  ASSUME NEW p, halt' = halt
  PROVE  /\ \A prio : create_process(p, prio) => K!create_process(p, prio)
         /\ create_process_port(p) => K!create_process_port(p)
         /\ create_process_ready(p) => K!create_process_ready(p)
         /\ resign_call(p) => K!resign_call(p)
         /\ become_zombie(p) => K!become_zombie(p)
         /\ zombie_remove(p) => K!zombie_remove(p)
         /\ zombie_resign(p) => K!zombie_resign(p)
         /\ zombie_loop(p) => K!zombie_loop(p)
<1> USE SameRings DEF vars, schedVars, ipcVars, portVars, procVars, K!vars, K!schedVars,
        K!ipcVars, K!portVars, K!procVars, At, K!At, Goto, K!Goto, Panic, K!Panic,
        resign, K!resign
<1>1. ASSUME NEW prio, create_process(p, prio) PROVE K!create_process(p, prio)
  BY <1>1 DEF create_process, K!create_process
<1>2. create_process_port(p) => K!create_process_port(p)
  BY DEF create_process_port, K!create_process_port, create_new_port,
         K!create_new_port, PortFull, K!PortFull
<1>3. create_process_ready(p) => K!create_process_ready(p)
  BY DEF create_process_ready, K!create_process_ready
<1>4. /\ resign_call(p) => K!resign_call(p)
      /\ become_zombie(p) => K!become_zombie(p)
      /\ zombie_remove(p) => K!zombie_remove(p)
      /\ zombie_resign(p) => K!zombie_resign(p)
      /\ zombie_loop(p) => K!zombie_loop(p)
  BY DEF resign_call, K!resign_call, become_zombie, K!become_zombie,
         zombie_remove, K!zombie_remove, zombie_resign, K!zombie_resign,
         zombie_loop, K!zombie_loop
<1> QED  BY <1>1, <1>2, <1>3, <1>4

LEMMA SameMessageCalls ==
  ASSUME NEW p, halt' = halt
  PROVE  /\ \A po, data : send(p, po, data) => K!send(p, po, data)
         /\ \A po, data : message(p, po, data) => K!message(p, po, data)
         /\ receive(p) => K!receive(p)
         /\ receive_return(p) => K!receive_return(p)
         /\ \A s : reply(p, s) => K!reply(p, s)
<1> USE SameRings DEF vars, schedVars, ipcVars, portVars, procVars, K!vars, K!schedVars,
        K!ipcVars, K!portVars, K!procVars, At, K!At, Goto, K!Goto, Panic, K!Panic,
        resign, K!resign
<1>1. /\ \A po : CanDeliver(po) = K!CanDeliver(po)
      /\ \A dest : Deliver(p, dest) = K!Deliver(p, dest)
      /\ \A po : add_to_send_blocked_list(po, p) = K!add_to_send_blocked_list(po, p)
      /\ Pending(p) = K!Pending(p)
  BY DEF CanDeliver, K!CanDeliver, Deliver, K!Deliver, Pending, K!Pending,
         add_to_send_blocked_list, K!add_to_send_blocked_list
<1>2. ASSUME NEW po, NEW data, send(p, po, data) PROVE K!send(p, po, data)
  BY <1>1, <1>2 DEF send, K!send
<1>3. ASSUME NEW po, NEW data, message(p, po, data) PROVE K!message(p, po, data)
  BY <1>1, <1>3, SMTT(30) DEF message, K!message
<1>4. receive(p) => K!receive(p)
  <2>1. /\ K!Pending(p) = Pending(p)
        /\ \A q, x : K!add_ready_queue(q, x) = add_ready_queue(q, x)
    BY <1>1
  <2>2. ASSUME receive_pending(p) PROVE K!receive_pending(p)
    <3>1. PICK k \in K!Pending(p) : receive_pending(p)!(k)
      BY <2>1, <2>2 DEF receive_pending
    <3> QED  BY <2>1, <3>1 DEF K!receive_pending
  <2>3. receive_block(p) => K!receive_block(p)
    BY <1>1, SameSets DEF receive_block, K!receive_block
  <2> QED  BY <2>2, <2>3 DEF receive, K!receive
<1>5. receive_return(p) => K!receive_return(p)
  BY DEF receive_return, K!receive_return
<1>6. ASSUME NEW s, reply(p, s) PROVE K!reply(p, s)
  BY <1>6 DEF reply, K!reply
<1> QED  BY <1>2, <1>3, <1>4, <1>5, <1>6

LEMMA SameInterruptCalls ==
  ASSUME NEW p, halt' = halt
  PROVE  /\ \A irq : wait_for_interrupt(p, irq) => K!wait_for_interrupt(p, irq)
         /\ wait_for_interrupt_return(p) => K!wait_for_interrupt_return(p)
         /\ isr_timer => K!isr_timer
         /\ isr_keyb => K!isr_keyb
         /\ null_process => K!null_process
<1> USE SameRings DEF vars, schedVars, ipcVars, portVars, procVars, K!vars, K!schedVars,
        K!ipcVars, K!portVars, K!procVars, At, K!At, Goto, K!Goto, Panic, K!Panic,
        resign, K!resign
<1>1. ASSUME NEW irq, wait_for_interrupt(p, irq) PROVE K!wait_for_interrupt(p, irq)
  BY <1>1 DEF wait_for_interrupt, K!wait_for_interrupt
<1>2. wait_for_interrupt_return(p) => K!wait_for_interrupt_return(p)
  BY SameSets DEF wait_for_interrupt_return, K!wait_for_interrupt_return
<1>3. isr_timer => K!isr_timer
  BY DEF isr_timer, K!isr_timer, InterruptsEnabled, K!InterruptsEnabled,
         CallLabels, K!CallLabels, TIMER_IRQ, K!TIMER_IRQ
<1>4. null_process => K!null_process
  BY DEF null_process, K!null_process, NullProcess, K!NullProcess
<1>5. isr_keyb => K!isr_keyb
  BY DEF isr_keyb, K!isr_keyb, isr_device, K!isr_device, InterruptsEnabled,
         K!InterruptsEnabled, CallLabels, K!CallLabels, KEYB_IRQ, K!KEYB_IRQ
<1> QED  BY <1>1, <1>2, <1>3, <1>4, <1>5

(* What the lists and rings hold beside the state and the priority. *)
LEMMA StateOf ==
  ASSUME NEW q \in QueueRecord, NEW p \in Proc
  PROVE  /\ add_ready_queue(q, p).state = [q.state EXCEPT ![p] = "READY"]
         /\ add_ready_queue(q, p).priority = q.priority
         /\ remove_ready_queue(q, p).state = q.state
         /\ remove_ready_queue(q, p).priority = q.priority
BY DEF QueueRecord, add_ready_queue, remove_ready_queue

(* The ready queues after a send to a process that waits. *)
Sent(q, p, dest) ==
  remove_ready_queue(add_ready_queue([q EXCEPT !.state[p] = "REPLY_BLOCKED"], dest), p)

LEMMA SendStateOf ==
  ASSUME NEW q \in QueueRecord, NEW p \in Proc, NEW d \in Proc, p # d
  PROVE  LET r == Sent(q, p, d)
         IN  /\ r.state[d] = "READY" /\ r.state[p] = "REPLY_BLOCKED"
             /\ r.priority = q.priority
             /\ \A x \in Proc : x # d /\ x # p => r.state[x] = q.state[x]
<1> DEFINE b == [q EXCEPT !.state[p] = "REPLY_BLOCKED"]
           a == add_ready_queue(b, d)
           r == remove_ready_queue(a, p)
<1>1. /\ b \in QueueRecord /\ b.priority = q.priority
      /\ b.state = [q.state EXCEPT ![p] = "REPLY_BLOCKED"]
  BY DEF QueueRecord, States
<1> HIDE DEF b
<1>2. a = [ready_queue |-> a.ready_queue, ready_procs |-> a.ready_procs, next |-> a.next,
           prev |-> a.prev, state |-> a.state, priority |-> a.priority]
  BY <1>1 DEF QueueRecord, add_ready_queue
<1>3. a.state = [b.state EXCEPT ![d] = "READY"] /\ a.priority = b.priority
  BY <1>1, StateOf
<1> HIDE DEF a
<1>4. r.state = a.state /\ r.priority = a.priority
  BY ONLY <1>2 DEF remove_ready_queue
<1> HIDE DEF r
<1>5. Sent(q, p, d) = r
  BY DEF Sent, a, b, r
<1>6. q.state \in [Proc -> States]
  BY DEF QueueRecord
<1> QED  BY <1>1, <1>3, <1>4, <1>5, <1>6

LEMMA KernelTypes ==
  ASSUME K!IInv
  PROVE  /\ rq \in QueueRecord /\ active_proc \in Proc
         /\ next_free_pcb \in ProcOrNull /\ next_free_port \in 0 .. MAX_PORTS
         /\ param_proc \in [Proc -> ProcOrNull]
         /\ param_data \in [Proc -> Proc \cup {NULL}]
         /\ next_blocked \in [Proc -> ProcOrNull]
         /\ ports \in [Proc -> Seq(Port)]
         /\ port \in [Port -> [open : BOOLEAN, owner : ProcOrNull,
                               blocked_list_head : ProcOrNull,
                               blocked_list_tail : ProcOrNull]]
         /\ interrupt_table \in [Irq -> ProcOrNull]
         /\ pc \in [Proc -> Labels] /\ new_proc \in [Proc -> ProcOrNull]
BY SameSets DEF K!IInv, K!GTypeOK, K!TypeOK

LEMMA KernelPlaces ==
  ASSUME K!IInv
  PROVE  /\ \A p \in Proc :
              /\ pc[p] = "user" => rq.state[p] \in
                   {"READY", "SEND_BLOCKED", "MESSAGE_BLOCKED", "REPLY_BLOCKED"}
              /\ pc[p] = "receive" => rq.state[p] \in {"READY", "RECEIVE_BLOCKED"}
              /\ pc[p] = "wait_for_interrupt" =>
                   rq.state[p] \in {"READY", "INTR_BLOCKED"}
              /\ pc[p] \in {"zombie_remove", "zombie_resign", "zombie_loop"} =>
                   rq.state[p] = "ZOMBIE"
              /\ pc[p] \in {"create_port", "create_ready", "embryo", "free"} =>
                   rq.state[p] = "READY"
         /\ pc[active_proc] \notin {"embryo", "free"}
         /\ \/ rq.state[active_proc] = "READY"
            \/ pc[active_proc] \in {"zombie_remove", "zombie_resign", "zombie_loop"}
         /\ IF next_free_pcb = NULL THEN \A p \in Proc : pc[p] # "free"
            ELSE \A p \in Proc : pc[p] = "free" <=> p >= next_free_pcb
         /\ \A p \in Proc : pc[p] = "free" =>
              rq.next[p] = IF p = MAX_PROCS - 1 THEN NULL ELSE p + 1
         /\ \A p \in Proc : pc[p] \in {"create_port", "create_ready"} =>
              new_proc[p] \in Proc /\ pc[new_proc[p]] = "embryo"
<1> USE SameSets, KernelTypes DEF K!IInv
<1>1. \A p \in Proc :
              /\ pc[p] = "user" => rq.state[p] \in
                   {"READY", "SEND_BLOCKED", "MESSAGE_BLOCKED", "REPLY_BLOCKED"}
              /\ pc[p] = "receive" => rq.state[p] \in {"READY", "RECEIVE_BLOCKED"}
              /\ pc[p] = "wait_for_interrupt" =>
                   rq.state[p] \in {"READY", "INTR_BLOCKED"}
              /\ pc[p] \in {"zombie_remove", "zombie_resign", "zombie_loop"} =>
                   rq.state[p] = "ZOMBIE"
              /\ pc[p] \in {"create_port", "create_ready", "embryo", "free"} =>
                   rq.state[p] = "READY"
  <2> TAKE p \in Proc
  <2>1. rq.state[p] \in K!StatesAt(pc[p])
    BY DEF K!LabelsMatchStates
  <2>2. pc[p] \in {"user", "receive", "wait_for_interrupt", "zombie_remove",
                   "zombie_resign", "zombie_loop", "create_port", "create_ready",
                   "embryo", "free"}
    BY DEF Labels, CallLabels
  <2> QED  BY <2>1, <2>2 DEF K!StatesAt
<1>2. /\ pc[active_proc] \notin {"embryo", "free"}
      /\ \/ rq.state[active_proc] = "READY"
         \/ pc[active_proc] \in {"zombie_remove", "zombie_resign", "zombie_loop"}
  BY DEF K!ActiveIsReady, K!Queued
<1>3. /\ IF next_free_pcb = NULL THEN \A p \in Proc : pc[p] # "free"
         ELSE \A p \in Proc : pc[p] = "free" <=> p >= next_free_pcb
      /\ \A p \in Proc : pc[p] = "free" =>
           rq.next[p] = IF p = MAX_PROCS - 1 THEN NULL ELSE p + 1
      /\ \A p \in Proc : pc[p] \in {"create_port", "create_ready"} =>
           new_proc[p] \in Proc /\ pc[new_proc[p]] = "embryo"
  BY DEF K!FreeListIsFree, K!EmbryosHaveOneCreator, K!Creating
<1> QED  BY <1>1, <1>2, <1>3

(* Every action of the kernel keeps its invariant. *)
LEMMA KernelStep ==
  ASSUME K!IInv, K!GNext
  PROVE  K!IInv' /\ K!HighestStep
<1>1. K!IInv' /\ (K!HighestStep \/ UNCHANGED K!allVars)
  BY KernelConstants, SizesAssumption, NullAssumption, PortsAssumption, K!NextInv
<1>2. UNCHANGED K!allVars => K!HighestStep
  BY DEF K!allVars, K!vars, K!schedVars, K!HighestStep
<1> QED  BY <1>1, <1>2

(* A dispatch that finds the notifier ready runs it, and then the others.  *)
LEMMA DispatchServesFirst ==
  ASSUME K!IInv', K!HighestStep, active_proc' = dispatcher(rq', active_proc),
         HavePriorities', NotifierStages'
  PROVE  ServiceFirst'
<1>1. \A p \in K!Queued' : rq'.priority[p] <= rq'.priority[active_proc']
  <2>1. rq' \in K!QueueRecord /\ K!RingsHoldTheReady' /\ K!Queued' # {}
    <3>1. rq' \in K!QueueRecord /\ K!RingsHoldTheReady' /\ K!LabelsMatchStates'
      BY DEF K!IInv, K!GTypeOK, K!TypeOK
    <3>2. K!NullProcess \in K!Queued'
      BY <3>1, SameSets, KernelConstants DEF K!LabelsMatchStates, K!Queued
    <3> QED  BY <3>1, <3>2
  <2>2. active_proc' = K!dispatcher(rq', active_proc)
    BY SameRings
  <2> QED  BY <2>1, <2>2, K!DispatchedHighest, KernelConstants, SizesAssumption,
              NullAssumption, PortsAssumption
<1>2. ASSUME NEW p \in {2, 3, 4}, Busy(p)'
      PROVE  active_proc' = 4 \/ (p # 4 /\ active_proc' \in {2, 3})
  <2>1. p \in K!Queued'
    BY <1>2, KernelConstants, SameSets DEF Busy, Exists, K!Queued
  <2>2. rq'.priority[p] = IF p = 4 THEN 7 ELSE 6
    BY <1>2 DEF HavePriorities, Busy, Exists, Manager, Service, Notifier
  <2>3. active_proc' \in Proc /\ rq' \in QueueRecord /\ pc'[active_proc'] # "free"
    BY SameSets DEF K!IInv, K!GTypeOK, K!TypeOK, K!ActiveIsReady, K!Queued
  <2>4. rq'.priority[active_proc'] \in Int /\ rq'.priority[p] \in Int
    BY <2>3, <1>2, KernelConstants DEF QueueRecord, Priority
  <2>5. rq'.priority[active_proc'] >= IF p = 4 THEN 7 ELSE 6
    BY <1>1, <2>1, <2>2, <2>4
  <2>6. active_proc' \in {0, 1, 2, 3, 4} \/ active_proc' > 4
    BY <2>3, KernelConstants DEF Proc
  <2>7. CASE active_proc' \in {0, 1} \/ active_proc' > 4
    BY <1>2, <2>3, <2>5, <2>7 DEF HavePriorities, Boot, NullProcess, Notifier
  <2>8. CASE active_proc' \in {2, 3}
    BY <1>2, <2>3, <2>5, <2>8 DEF HavePriorities, Manager, Service
  <2> QED  BY <2>6, <2>7, <2>8
<1>3. at'[4] = "keyb_scan" /\ rq'.state[4] = "READY" => Busy(4)'
  BY DEF NotifierStages, Busy, Exists, Notifier
<1> QED  BY <1>2, <1>3 DEF ServiceFirst, Services, Manager, Service, Notifier

-----------------------------------------------------------------------------
(* What most steps leave alone *)

USE DEF Boot, NullProcess, Manager, Service, Notifier, ManagerPort, ServicePort,
        NotifierPort

LEMMA Processes ==
  /\ 0 \in Proc /\ 1 \in Proc /\ 2 \in Proc /\ 3 \in Proc /\ 4 \in Proc
  /\ Proc \subseteq Int /\ NULL \notin Int
  /\ \A p \in Proc : p = 0 \/ p = 1 \/ p = 2 \/ p = 3 \/ p = 4 \/ p > 4
BY KernelConstants DEF Proc

(* Where a process is in its program tells which process it is. *)
BootPlaces == {"init_wm", "assign_wm_port", "init_keyb", "assign_keyb_port", "resign_keyb",
               "start_shell", "become_zombie", "dead"}
LEMMA WhereTheyAre ==
  ASSUME KeybInv
  PROVE  /\ at[0] \in BootPlaces
         /\ at[1] = "loop"
         /\ at[2] \in {"none", "wm", "wm_handle"}
         /\ at[3] \in {"none", "keyb_process", "keyb_receive", "keyb_received"}
                        \cup WithKey \cup WithClient
         /\ at[4] \in {"none", "keyb_notifier", "keyb_scan"}
         /\ \A p \in Proc : p > 4 => at[p] \in {"none", "start", "program"}
<1> USE Processes
<1>1. at[0] \in BootPlaces /\ at[1] = "loop"
  BY DEF KeybInv, Inv, BootStages, ProgramStages, BootPlaces
<1>2. at[2] \in {"none", "wm", "wm_handle"}
  BY DEF KeybInv, Inv, ManagerStages
<1>3. at[3] \in {"none", "keyb_process", "keyb_receive", "keyb_received"}
                  \cup WithKey \cup WithClient
  BY DEF KeybInv, Inv, ServiceStages
<1>4. at[4] \in {"none", "keyb_notifier", "keyb_scan"}
  BY DEF KeybInv, Inv, NotifierStages
<1>5. \A p \in Proc : p > 4 => at[p] \in {"none", "start", "program"}
  BY DEF KeybInv, Inv, ProgramStages
<1> QED  BY <1>1, <1>2, <1>3, <1>4, <1>5

(* The ports and counts of the senders, when nobody begins or ends to wait. *)
SendStates == {"SEND_BLOCKED", "MESSAGE_BLOCKED", "REPLY_BLOCKED"}
LEMMA SameWaiting ==
  ASSUME received' = received,
         \A p \in Proc : /\ rq'.state[p] \in SendStates <=> rq.state[p] \in SendStates
                         /\ rq'.state[p] = "REPLY_BLOCKED" <=> rq.state[p] = "REPLY_BLOCKED"
                         /\ rq.state[p] \in SendStates => PortOf(p)' = PortOf(p)
                         /\ \A r \in Proc : Asks(p, r) => (InPcb(r, p)' <=> InPcb(r, p))
  PROVE  K!Unchanged
<1>1. SentTo' = SentTo
  BY DEF SentTo, SendStates
<1>2. \A p \in Proc, r \in Proc : Asks(p, r)' <=> Asks(p, r)
  BY DEF Asks, SendStates
<1>3. ToReply' = ToReply
  BY <1>2 DEF ToReply
<1> QED  BY <1>1, <1>3 DEF K!Unchanged, K!NoResult, K!clientVars

(* A step that leaves the windows, the keys and the requests alone. *)
dataVars == <<windows, wm_msg, new_key, keyb_msg, keyb_clients, current_window, localVars>>
DataInv == /\ DataTyped
           /\ OneAtATime /\ ServiceAsks
           /\ ProgramsHaveWindows /\ KeysAreKept
           /\ RecordsAreFound /\ RecordsAreRight /\ FocusIsKnown

SamePlaces ==
  /\ at'[2] = at[2] \/ {at[2], at'[2]} \subseteq {"none", "wm"}
  /\ at'[3] = at[3] \/ {at[3], at'[3]} \subseteq {"none", "keyb_process", "keyb_receive"}
  /\ at'[4] = at[4] \/ {at[4], at'[4]} \subseteq {"none", "keyb_notifier"}
  /\ \A p \in Proc : at'[p] = "program" <=> at[p] = "program"
  /\ pc'[2] = "receive" <=> pc[2] = "receive"
  /\ pc'[3] = "receive" <=> pc[3] = "receive"

LEMMA DataIsKept ==
  ASSUME KeybInv, UNCHANGED <<dataVars, received, param_proc, param_data>>,
         SamePlaces, rq'.state[0] \in {"READY", "ZOMBIE"},
         \A p \in Proc : p # 0 => rq'.state[p] = rq.state[p]
  PROVE  DataInv'
<1> USE Processes DEF KeybInv, Inv, dataVars, localVars
<1>1. rq.state[0] \in {"READY", "ZOMBIE"}
  BY DEF BootStages
<1>2. \A p \in Proc : \A s \in SendStates : rq'.state[p] = s <=> rq.state[p] = s
  BY <1>1 DEF SendStates
<1>3. /\ \A p \in Proc : Reading(p)' <=> Reading(p)
      /\ \A p \in Proc : Blocks(p)' <=> Blocks(p)
      /\ \A w : Seen(w)' <=> Seen(w)
      /\ Ids' = Ids /\ Focus' = Focus
  BY DEF Reading, Blocks, Seen, Ids, Focus
<1>4. \A p \in Proc : \A r : Asks(p, r)' <=> Asks(p, r)
  BY <1>2, <1>3 DEF Asks, PortOf, SendStates
<1>5. /\ \A r \in {2, 3} : /\ Handles(r)' <=> Handles(r)
                           /\ Messenger(r)' = Messenger(r) /\ Content(r)' = Content(r)
      /\ Unheard' <=> Unheard
      /\ \A l \in Asking \cup WithKey \cup WithClient : at'[3] = l <=> at[3] = l
      /\ at'[4] = "keyb_scan" <=> at[4] = "keyb_scan"
      /\ rq'.state[4] = rq.state[4] /\ rq'.state[3] = rq.state[3]
  BY DEF Handles, Messenger, Content, Unheard, SamePlaces, Asking, WithKey, WithClient
<1>6. DataTyped'
  BY <1>3 DEF DataTyped, Found
<1>7. OneAtATime'
  <2>1. /\ at'[3] \in Asking <=> at[3] \in Asking
    BY <1>5
  <2>2. \A p \in Proc : rq'.state[p] = "SEND_BLOCKED" => p = 3
    BY <1>2 DEF OneAtATime, SendStates
  <2>3. \A p \in Proc : rq'.state[p] \in {"SEND_BLOCKED", "MESSAGE_BLOCKED"} =>
          param_data'[p] = p
    BY <1>2 DEF OneAtATime, SendStates
  <2>4. \A r \in {2, 3} : Handles(r)' =>
          \E m \in Proc : /\ Messenger(r)' = m /\ Content(r)' = m
                          /\ Asks(m, r)' \/ (r = 3 /\ m = 4)
    BY <1>4, <1>5 DEF OneAtATime
  <2>5. \A p \in Proc : Asks(p, 2)' => Handles(2)' /\ p = Messenger(2)'
    BY <1>4, <1>5 DEF OneAtATime
  <2>6. (Handles(2) /\ Messenger(2) # 3 /\ at[3] \in Asking =>
           rq.state[3] = "SEND_BLOCKED")'
    BY <1>5, <2>1 DEF OneAtATime
  <2> QED  BY <2>2, <2>3, <2>4, <2>5, <2>6 DEF OneAtATime
<1>8. ServiceAsks'
  <2>1. /\ at'[3] \in Asking \ {"moved"} <=> at[3] \in Asking \ {"moved"}
        /\ at'[3] = "moved" <=> at[3] = "moved"
        /\ Question' = Question
    BY <1>5 DEF Asking, Question
  <2> QED  BY <1>3, <1>5, <2>1 DEF ServiceAsks
<1>9. ProgramsHaveWindows'
  BY <1>2, <1>3, <1>4 DEF ProgramsHaveWindows, SamePlaces, SendStates
<1>10. KeysAreKept'
  <2>1. at'[3] \in WithKey <=> at[3] \in WithKey
    BY <1>5
  <2> QED  BY <1>5, <2>1 DEF KeysAreKept
<1>11. RecordsAreFound'
  <2>1. /\ at'[3] \in WithClient <=> at[3] \in WithClient
        /\ at'[3] \in {"key_record", "key_given", "client_record"}
             <=> at[3] \in {"key_record", "key_given", "client_record"}
        /\ at'[3] \in {"key_new_record", "client_new_record"}
             <=> at[3] \in {"key_new_record", "client_new_record"}
    BY <1>5 DEF WithKey, WithClient
  <2> QED  BY <1>3, <1>4, <1>5, <2>1 DEF RecordsAreFound
<1>12. RecordsAreRight'
  <2>1. \A w : BeingGiven(w)' <=> BeingGiven(w)
    BY <1>5 DEF BeingGiven, WithKey
  <2>2. \A p : ServedNow(p)' <=> ServedNow(p)
    BY <1>5 DEF ServedNow
  <2> QED  BY <1>2, <1>3, <2>1, <2>2 DEF RecordsAreRight, SendStates
<1>13. FocusIsKnown'
  BY <1>3, <1>5 DEF FocusIsKnown, Asking, WithKey
<1> QED  BY <1>6, <1>7, <1>8, <1>9, <1>10, <1>11, <1>12, <1>13 DEF DataInv

(* A step in which nobody is created and nobody gets a port: the boot      *)
(* process, and what each other process may do.                            *)
Running == {"user", "receive", "wait_for_interrupt"}
Stays(q) == at'[q] = at[q] /\ pc'[q] = pc[q] /\ rq'.state[q] = rq.state[q]
ManagerMoves ==
  \/ Stays(2)
  \/ /\ pc[2] \in Running
     /\ \/ pc'[2] = "user" /\ at'[2] \in {"wm", "wm_handle"} /\ rq'.state[2] = "READY"
        \/ pc'[2] = "receive" /\ at'[2] = "wm_handle"
ServiceMoves ==
  \/ Stays(3)
  \/ /\ pc[3] \in Running /\ at[3] # "keyb_process"
     /\ \/ pc'[3] = "receive" /\ at'[3] = "keyb_received"
        \/ /\ pc'[3] = "user"
           /\ at'[3] \in {"keyb_receive", "keyb_received"} \cup WithKey \cup WithClient
           /\ \/ rq'.state[3] = "READY"
              \/ at'[3] \in Asking /\ rq'.state[3] \in {"SEND_BLOCKED", "REPLY_BLOCKED"}
NotifierMoves ==
  \/ Stays(4)
  \/ /\ pc[4] \in Running
     /\ \/ /\ pc'[4] = "user" /\ at'[4] = "keyb_notifier"
           /\ rq'.state[4] \in {"READY", "MESSAGE_BLOCKED"}
        \/ pc'[4] = "wait_for_interrupt" /\ at'[4] = "keyb_scan"
        \/ pc'[4] = "user" /\ at'[4] = "keyb_scan" /\ rq'.state[4] = "READY"
ProgramMoves ==
  \A q \in Proc : q > 4 =>
    \/ Stays(q)
    \/ /\ pc[q] = "user" /\ pc'[q] = "user" /\ at[q] # "none" /\ at'[q] = "program"
       /\ rq'.state[q] \in {"READY", "REPLY_BLOCKED"}
Moves == ManagerMoves /\ ServiceMoves /\ NotifierMoves /\ ProgramMoves

FrameInv == /\ Typed /\ BootStages /\ ManagerStages /\ ServiceStages /\ NotifierStages
            /\ ProgramStages /\ PortsAreOwned /\ HavePriorities /\ OnlyKeysAreAwaited

LEMMA FrameIsKept ==
  ASSUME KeybInv, Moves, BootStages',
         at[0] \in {"become_zombie", "dead"} => at'[0] \in {"become_zombie", "dead"},
         pc[0] \notin {"free", "embryo"} /\ pc'[0] \notin {"free", "embryo"},
         (pc[0] # "create_port" /\ pc'[0] # "create_port") \/ pc'[0] = pc[0],
         Stays(1), at' \in [Proc -> Places], ret' = [q \in Proc |-> ret'[q]],
         ret'[3] = ret[3],
         UNCHANGED <<ports, next_free_port, next_free_pcb, new_proc>>,
         \A q \in Proc : rq'.priority[q] = rq.priority[q],
         \A po \in Port : port'[po].owner = port[po].owner /\ port'[po].open = port[po].open,
         \A irq \in Irq : interrupt_table'[irq] # NULL =>
           irq = KEYB_IRQ \/ interrupt_table[irq] # NULL
  PROVE  FrameInv'
<1> USE Processes DEF KeybInv, Inv
<1>1. \A q \in Proc : /\ Exists(q)' <=> Exists(q)
                      /\ pc'[q] = "free" <=> pc[q] = "free"
                      /\ pc'[q] = "embryo" <=> pc[q] = "embryo"
                      /\ pc'[q] = "create_port" <=> pc[q] = "create_port"
  <2>1. ASSUME NEW q \in Proc
        PROVE  pc'[q] = pc[q] \/ (pc[q] \in Running /\ pc'[q] \in Running) \/ q = 0
    BY DEF Running, Moves, ManagerMoves, ServiceMoves, NotifierMoves, ProgramMoves, Stays
  <2> QED  BY <2>1 DEF Exists, Running
<1>2. Typed'
  BY DEF Typed, BootStages
<1>3. ManagerStages'
  <2>1. ManagerStages /\ ManagerMoves /\ (pc'[3] = "free" <=> pc[3] = "free")
    BY <1>1 DEF Moves
  <2> QED  BY ONLY <2>1 DEF ManagerStages, ManagerMoves, Stays, Running
<1>4. ServiceStages'
  <2>1. /\ ServiceStages /\ ServiceMoves /\ (Exists(4)' <=> Exists(4))
        /\ pc'[4] = "free" <=> pc[4] = "free"
        /\ pc'[4] = "embryo" <=> pc[4] = "embryo"
        /\ UNCHANGED <<next_free_port, new_proc>> /\ ret'[3] = ret[3]
    BY <1>1 DEF Moves
  <2>2. CASE Stays(3)
    BY ONLY <2>1, <2>2 DEF ServiceStages, Stays
  <2>3. CASE ~Stays(3)
    <3>1. /\ pc[3] \in Running /\ at[3] # "keyb_process"
          /\ Exists(4) /\ ret[3] = 3
      BY ONLY <2>1, <2>3 DEF ServiceStages, ServiceMoves, Running
    <3> QED  BY ONLY <2>1, <2>3, <3>1 DEF ServiceStages, ServiceMoves
  <2> QED  BY <2>2, <2>3
<1>5. NotifierStages'
  <2>1. NotifierStages /\ NotifierMoves
    BY DEF Moves
  <2> QED  BY ONLY <2>1 DEF NotifierStages, NotifierMoves, Stays
<1>6. ProgramStages'
  <2>1. pc'[1] = "user" /\ at'[1] = "loop"
    BY DEF ProgramStages, Stays
  <2>2. ASSUME NEW q \in Proc, q > 4 PROVE ProgramStages!2!(q)'
    <3>1. /\ ProgramStages!2!(q) /\ (Exists(4)' <=> Exists(4))
          /\ pc'[q] = "free" <=> pc[q] = "free"
          /\ new_proc' = new_proc
      BY <1>1, <2>2 DEF ProgramStages
    <3>2. \/ Stays(q)
          \/ /\ pc[q] = "user" /\ pc'[q] = "user" /\ at[q] # "none" /\ at'[q] = "program"
             /\ rq'.state[q] \in {"READY", "REPLY_BLOCKED"}
      BY <2>2 DEF Moves, ProgramMoves
    <3> QED  BY ONLY <3>1, <3>2, <2>2, at[0] \in {"become_zombie", "dead"}
                       => at'[0] \in {"become_zombie", "dead"} DEF Stays
  <2> QED  BY <2>1, <2>2 DEF ProgramStages
<1>7. PortsAreOwned'
  <2>1. PortsAreOwned /\ {1, 2, 3} \subseteq Port
    BY KernelConstants
  <2>2. /\ port'[1].owner = port[1].owner /\ port'[2].owner = port[2].owner
        /\ port'[3].owner = port[3].owner
        /\ \A po \in Port : port'[po].open = port[po].open
    BY <2>1
  <2> QED  BY ONLY <1>1, <2>1, <2>2, Processes,
              UNCHANGED <<ports, next_free_port, new_proc>> DEF PortsAreOwned
<1>8. HavePriorities'
  <2>1. HavePriorities
    OBVIOUS
  <2> QED  BY ONLY <1>1, <2>1, Processes,
              \A q \in Proc : rq'.priority[q] = rq.priority[q] DEF HavePriorities
<1>9. OnlyKeysAreAwaited'
  BY DEF OnlyKeysAreAwaited
<1> QED  BY <1>2, <1>3, <1>4, <1>5, <1>6, <1>7, <1>8, <1>9 DEF FrameInv

(* The boot process is where it was, and there is no window before it is   *)
(* through with its start.                                                 *)
LEMMA BootIsKept ==
  ASSUME KeybInv, Moves, Stays(0),
         UNCHANGED <<next_free_port, new_proc, wm_port, keyb_port>>, ret'[0] = ret[0],
         windows' # <<>> => windows # <<>> \/ ~Early
  PROVE  BootStages'
<1> USE Processes DEF KeybInv, Inv
<1>1. \A q \in {2, 3, 4} : /\ Exists(q)' <=> Exists(q)
                           /\ pc'[q] = "free" <=> pc[q] = "free"
                           /\ pc'[q] = "embryo" <=> pc[q] = "embryo"
  BY DEF Exists, Running, Moves, ManagerMoves, ServiceMoves, NotifierMoves, Stays
<1>2. BootStages /\ at'[0] = at[0] /\ pc'[0] = pc[0] /\ rq'.state[0] = rq.state[0]
  BY DEF Stays
<1>3. Early' = Early
  BY <1>2 DEF Early
<1> QED  BY <1>1, <1>2, <1>3 DEF BootStages

-----------------------------------------------------------------------------
(* Creations *)

(* Where a process is inside of a call tells which process it is. *)
LEMMA CallersAre ==
  ASSUME KeybInv, NEW p \in Proc
  PROVE  /\ pc[p] \in {"create_port", "create_ready"} => p = 0 \/ p = 3 \/ p > 4
         /\ pc[p] \in {"zombie_remove", "zombie_resign", "zombie_loop"} => p = 0
         /\ pc[p] = "receive" => p \in {2, 3}
         /\ pc[p] = "wait_for_interrupt" => p = 4
         /\ p = 1 => pc[p] = "user"
<1> USE Processes DEF KeybInv, Inv
<1>1. pc[0] \in {"user", "create_port", "create_ready", "zombie_remove", "zombie_resign",
                 "zombie_loop"}
  BY DEF BootStages
<1>2. pc[1] = "user" /\ pc[2] \in {"free", "embryo", "user", "receive"}
  BY DEF ManagerStages, ProgramStages
<1>3. pc[3] \in {"free", "embryo", "user", "receive", "create_port", "create_ready"}
  BY DEF ServiceStages
<1>4. pc[4] \in {"free", "embryo", "user", "wait_for_interrupt"}
  BY DEF NotifierStages
<1>5. \A q \in Proc : q > 4 =>
        pc[q] \in {"free", "embryo", "user", "create_port", "create_ready"}
  BY DEF ProgramStages
<1> QED  BY <1>1, <1>2, <1>3, <1>4, <1>5

(* p has created process f, as far as the first part of create_process goes. *)
Created(p, f, entry, prio, next) ==
  /\ K!IInv' /\ halt' = halt /\ active_proc' = active_proc
  /\ f \in Proc /\ f # p /\ \A q \in Proc : pc[q] = "free" <=> q >= f
  /\ pc'[p] = "create_port" /\ pc'[f] = "embryo"
  /\ \A q \in Proc : q # p /\ q # f => pc'[q] = pc[q]
  /\ at'[p] = next /\ at'[f] = entry /\ at' \in [Proc -> Places]
  /\ \A q \in Proc : q # p /\ q # f => at'[q] = at[q]
  /\ new_proc'[p] = f /\ \A q \in Proc : q # p => new_proc'[q] = new_proc[q]
  /\ \A q \in Proc : rq'.state[q] = rq.state[q]
  /\ rq'.priority[f] = prio
  /\ \A q \in Proc : q # f => rq'.priority[q] = rq.priority[q]
  /\ ports'[f] = <<>> /\ \A q \in Proc : q # f => ports'[q] = ports[q]
  /\ UNCHANGED <<param_proc, param_data, port, next_free_port,
                 interrupt_table, received, ret>>

LEMMA CreateStep ==
  ASSUME KeybInv, NEW p \in Proc, p # 1, NEW entry \in Places,
         NEW prio \in {5, 6, 7}, NEW next \in Places,
         Create(p, entry, prio, next), next_free_pcb # NULL, keyb_msg' = keyb_msg
  PROVE  Created(p, next_free_pcb, entry, prio, next)
<1> DEFINE f == next_free_pcb
<1>1. /\ At(p, "user") /\ halt' = halt
      /\ next_free_pcb' = rq.next[next_free_pcb]
      /\ rq' = [rq EXCEPT !.state[next_free_pcb] = "READY",
                          !.priority[next_free_pcb] = prio]
      /\ ports' = [ports EXCEPT ![next_free_pcb] = <<>>]
      /\ new_proc' = [new_proc EXCEPT ![p] = next_free_pcb]
      /\ pc' = [pc EXCEPT ![p] = "create_port", ![next_free_pcb] = "embryo"]
      /\ UNCHANGED <<active_proc, ipcVars, next_free_port, interrupt_table,
                     received, ret>>
  <2>1. create_process(p, prio) /\ UNCHANGED <<received, ret>>
    BY DEF Create
  <2>2. ~(prio >= MAX_READY_QUEUES)
    BY RoomAssumption, SizesAssumption
  <2> QED  BY ONLY <2>1, <2>2, next_free_pcb # NULL DEF create_process
<1>2. /\ rq \in QueueRecord /\ pc \in [Proc -> Labels] /\ next_free_pcb \in ProcOrNull
      /\ new_proc \in [Proc -> ProcOrNull] /\ ports \in [Proc -> Seq(Port)]
      /\ at \in [Proc -> Places]
  BY KernelTypes DEF KeybInv, Inv, Typed
<1>3. /\ f \in Proc /\ p \in Proc /\ pc[f] = "free" /\ f # p
      /\ rq.state[f] = "READY"
      /\ rq.next[f] = IF f = MAX_PROCS - 1 THEN NULL ELSE f + 1
      /\ \A q \in Proc : pc[q] = "free" <=> q >= f
  BY <1>1, <1>2, Processes, KernelPlaces DEF KeybInv, ProcOrNull, At
<1>4. /\ pc'[p] = "create_port" /\ pc'[f] = "embryo"
      /\ \A q \in Proc : q # p /\ q # f => pc'[q] = pc[q]
      /\ new_proc'[p] = f /\ \A q \in Proc : q # p => new_proc'[q] = new_proc[q]
      /\ ports'[f] = <<>> /\ \A q \in Proc : q # f => ports'[q] = ports[q]
  BY <1>1, <1>2, <1>3
<1>5. /\ \A q \in Proc : rq'.state[q] = rq.state[q]
      /\ rq'.priority[f] = prio
      /\ \A q \in Proc : q # f => rq'.priority[q] = rq.priority[q]
  BY <1>1, <1>2, <1>3 DEF QueueRecord
<1>6. /\ at'[p] = next /\ at'[f] = entry /\ at' \in [Proc -> Places]
      /\ \A q \in Proc : q # p /\ q # f => at'[q] = at[q]
  <2>1. at' = [q \in Proc |-> CASE q = p -> next
                               [] q = next_free_pcb -> entry
                               [] OTHER -> at[q]]
    BY DEF Create
  <2> QED  BY ONLY <1>2, <1>3, <2>1, entry \in Places, next \in Places
<1>7. K!IInv'
  <2>1. K!Unchanged
    <3>1. \A r, q \in Proc : InPcb(r, q)' <=> InPcb(r, q)
      BY <1>1, <1>3, <1>4, <1>5, Processes DEF InPcb, ipcVars, At
    <3>2. \A q \in Proc : PortOf(q)' = PortOf(q)
      BY DEF PortOf, Reading
    <3> QED  BY <1>1, <1>5, <3>1, <3>2, SameWaiting
  <2>2. K!create_process(p, prio)
    BY <1>1, SameCalls DEF Create
  <2>3. K!CreateProcess(p) /\ p \in K!Programs
    BY <2>1, <2>2, SameSets, <1>3 DEF K!CreateProcess
  <2> QED  BY <2>3, KernelStep DEF K!GNext, K!Call, KeybInv
<1> QED  BY <1>1, <1>3, <1>4, <1>5, <1>6, <1>7 DEF ipcVars, Created

(* Who creates whom. *)
Creates(p, f, entry, prio, next) ==
  \/ p = 0 /\ at[0] = "init_wm" /\ next = "assign_wm_port"
     /\ f = 2 /\ entry = "wm" /\ prio = 6
  \/ p = 0 /\ at[0] = "init_keyb" /\ next = "assign_keyb_port"
     /\ f = 3 /\ entry = "keyb_process" /\ prio = 6
  \/ p = 3 /\ at[3] = "keyb_process" /\ next = "keyb_receive"
     /\ f = 4 /\ entry = "keyb_notifier" /\ prio = 7
  \/ p = 0 /\ at[0] = "start_shell" /\ next = "become_zombie"
     /\ f > 4 /\ entry = "start" /\ prio = 5 /\ Exists(4)
  \/ p > 4 /\ at[p] = "program" /\ next = "program"
     /\ f > 4 /\ entry = "start" /\ prio = 5 /\ Exists(4)
     /\ at[0] \in {"become_zombie", "dead"}

LEMMA CreatedInv ==
  ASSUME KeybInv, NEW p \in Proc, NEW f, NEW entry, NEW prio, NEW next,
         pc[p] = "user", active_proc = p, rq.state[p] = "READY",
         Created(p, f, entry, prio, next), Creates(p, f, entry, prio, next),
         UNCHANGED <<wm_port, keyb_port, dataVars>>
  PROVE  KeybInv'
<1> USE Processes DEF KeybInv, Inv
<1>1. /\ pc'[p] = "create_port" /\ at'[p] = next /\ new_proc'[p] = f
      /\ pc'[f] = "embryo" /\ at'[f] = entry /\ rq'.priority[f] = prio /\ ports'[f] = <<>>
      /\ \A q \in Proc : q # p /\ q # f => pc'[q] = pc[q] /\ at'[q] = at[q]
      /\ \A q \in Proc : q # f => /\ rq'.priority[q] = rq.priority[q]
                                  /\ ports'[q] = ports[q]
      /\ \A q \in Proc : rq'.state[q] = rq.state[q]
      /\ \A q \in Proc : q # p => new_proc'[q] = new_proc[q]
      /\ UNCHANGED <<param_proc, param_data, port, next_free_port,
                     interrupt_table, received, ret, halt, active_proc>>
      /\ at' \in [Proc -> Places] /\ K!IInv' /\ f \in Proc /\ f # p
      /\ \A q \in Proc : pc[q] = "free" <=> q >= f
  BY DEF Created
<1>2. /\ at[f] = "none" /\ pc[f] = "free" /\ rq.state[f] = "READY" /\ f # 0 /\ f # 1
  <2>1. pc[f] = "free"
    <3>1. f \in Int /\ (pc[f] = "free" <=> f >= f)
      BY ONLY <1>1, Processes
    <3> QED  BY ONLY <3>1
  <2>2. f # 0 /\ f # 1
    BY <2>1, CallersAre DEF BootStages
  <2> QED  BY <1>1, <2>1, <2>2, KernelPlaces DEF ManagerStages, ServiceStages, NotifierStages,
               ProgramStages
<1>3. Typed' /\ OnlyKeysAreAwaited'
  BY <1>1 DEF Typed, OnlyKeysAreAwaited
<1>4. p > 4 => pc[p] # "free"
  BY DEF Creates
<1>5. BootStages'
  <2>1. CASE p = 0
    BY <1>1, <1>2, <2>1 DEF Creates, BootStages, Exists, Early, dataVars
  <2>2. CASE p # 0
    <3>1. Stays(0) /\ new_proc'[0] = new_proc[0] /\ ret' = ret
      BY <1>1, <1>2, <2>2 DEF Stays
    <3>2. \A q \in {2, 3, 4} : (Exists(q) => Exists(q)')
      BY <1>1, <1>2 DEF Exists
    <3>3. /\ pc'[2] = pc[2] /\ pc[2] # "free"
          /\ pc'[3] = pc[3] \/ p = 3
          /\ pc[3] # "free" /\ pc'[3] # "free"
      <4>1. p = 3 \/ (p > 4 /\ Exists(4))
        BY <2>2 DEF Creates
      <4>2. pc[3] # "free"
        BY <4>1 DEF ServiceStages, Exists
      <4>3. pc[2] # "free"
        BY <4>2 DEF ManagerStages
      <4> QED  BY <1>1, <1>2, <4>1, <4>2, <4>3
    <3>4. pc'[3] = "embryo" <=> pc[3] = "embryo"
      BY <1>1, <3>3
    <3> QED  BY <1>1, <3>1, <3>2, <3>3, <3>4 DEF BootStages, Stays, Early, dataVars
  <2> QED  BY <2>1, <2>2
<1>6. ManagerStages'
  <2>1. rq'.state[2] = rq.state[2] /\ (pc'[3] = "free" => pc[3] = "free")
    BY <1>1
  <2>2. CASE f = 2
    <3>1. pc'[2] = "embryo" /\ at'[2] = "wm" /\ rq.state[2] = "READY" /\ p = 0
      BY <1>1, <1>2, <2>2 DEF Creates
    <3>2. pc[3] = "free" /\ pc'[3] = pc[3]
      BY <1>1, <1>2, <2>2, <3>1 DEF ManagerStages
    <3> QED  BY ONLY <2>1, <3>1, <3>2 DEF ManagerStages
  <2>3. CASE f # 2
    <3>1. Exists(2)
      BY <2>3, <1>1, <1>2 DEF Creates, BootStages, ServiceStages, ManagerStages, Exists
    <3>2. p # 2
      BY DEF Creates
    <3>3. pc'[2] = pc[2] /\ at'[2] = at[2]
      BY <1>1, <2>3, <3>2
    <3>4. ManagerStages
      OBVIOUS
    <3> QED  BY ONLY <2>1, <3>1, <3>3, <3>4 DEF ManagerStages, Exists
  <2> QED  BY <2>2, <2>3
<1>7. ServiceStages'
  BY <1>1, <1>2 DEF ServiceStages, Creates, Exists, BootStages
<1>8. NotifierStages'
  BY <1>1, <1>2 DEF NotifierStages, Creates
<1>9. ProgramStages'
  <2>1. pc'[1] = "user" /\ at'[1] = "loop"
    BY <1>1, <1>2 DEF ProgramStages, Creates
  <2>2. Exists(4) => Exists(4)'
    BY <1>1, <1>2 DEF Exists
  <2>3. at[0] \in {"become_zombie", "dead"} => at'[0] = at[0]
    BY <1>1, <1>2 DEF Creates
  <2>4. ASSUME NEW q \in Proc, q > 4 PROVE ProgramStages!2!(q)'
    <3>1. ProgramStages!2!(q)
      BY <2>4 DEF ProgramStages
    <3>2. CASE q = f
      <4>1. at'[0] \in {"become_zombie", "dead"} /\ Exists(4)'
        BY <1>1, <2>2, <2>3, <2>4, <3>2 DEF Creates
      <4>2. pc'[q] = "embryo" /\ at'[q] = "start"
        BY <1>1, <2>4, <3>2 DEF Creates
      <4> QED  BY ONLY <4>1, <4>2
    <3>3. CASE q = p
      <4>1. /\ pc'[q] = "create_port" /\ at'[q] = "program" /\ new_proc'[q] > 4
            /\ pc[q] # "free"
        BY <1>1, <2>4, <3>3 DEF Creates
      <4> QED  BY ONLY <2>2, <2>3, <3>1, <4>1
    <3>4. CASE q # f /\ q # p
      <4>1. /\ pc'[q] = pc[q] /\ at'[q] = at[q] /\ rq'.state[q] = rq.state[q]
            /\ new_proc'[q] = new_proc[q]
        BY <1>1, <3>4
      <4> QED  BY ONLY <2>2, <2>3, <3>1, <4>1
    <3> QED  BY <3>2, <3>3, <3>4
  <2> QED  BY <2>1, <2>4 DEF ProgramStages
<1>10. PortsAreOwned'
  <2>1. \A q \in Proc : Len(ports'[q]) <= 1
    BY <1>1 DEF PortsAreOwned
  <2>2. ports'[0] = <<>>
    BY <1>1 DEF PortsAreOwned
  <2>3. ASSUME NEW q \in Proc, pc'[q] = "create_port" PROVE ports'[new_proc'[q]] = <<>>
    <3>1. CASE q = p
      BY <1>1, <3>1
    <3>2. CASE q # p
      <4>1. pc[q] = "create_port" /\ new_proc'[q] = new_proc[q]
        BY <1>1, <2>3, <3>2
      <4>2. /\ new_proc[q] \in Proc /\ ports[new_proc[q]] = <<>>
            /\ pc[new_proc[q]] = "embryo"
        BY <4>1, KernelPlaces DEF PortsAreOwned
      <4>3. ports'[new_proc[q]] = ports[new_proc[q]]
        BY <1>1, <1>2, <4>2
      <4> QED  BY ONLY <4>1, <4>2, <4>3
    <3> QED  BY <3>1, <3>2
  <2>4. \A q \in {2, 3, 4} : Exists(q)' => Exists(q)
    BY <1>1 DEF Exists
  <2>5. PortsAreOwned /\ UNCHANGED <<port, next_free_port>>
    BY <1>1
  <2> QED  BY ONLY <2>1, <2>2, <2>3, <2>4, <2>5 DEF PortsAreOwned
<1>11. HavePriorities'
  <2>1. \A q \in Proc : q # f => (pc'[q] = "free" <=> pc[q] = "free")
    BY <1>1
  <2>2. HavePriorities
    OBVIOUS
  <2>3. /\ f = 2 => prio = 6
        /\ f = 3 => prio = 6
        /\ f = 4 => prio = 7
        /\ f > 4 => prio = 5
    BY DEF Creates
  <2>4. rq'.priority[f] = prio /\ \A q \in Proc : q # f => rq'.priority[q] = rq.priority[q]
    BY <1>1
  <2> QED  BY ONLY <1>2, <2>1, <2>2, <2>3, <2>4, Processes DEF HavePriorities
<1>12. ServiceFirst'
  <2>1. \A q \in {2, 3, 4} : Busy(q)' => Busy(q)
    BY <1>1 DEF Busy, Exists
  <2>2. p = 0 => (Early /\ Early') \/ \A q \in {2, 3, 4} : ~Busy(q)
    BY <1>1, <1>2 DEF ServiceFirst, Services, Creates, Early
  <2>3. at'[4] = "keyb_scan" => at[4] = "keyb_scan"
    BY <1>1 DEF Creates
  <2>4. /\ ServiceFirst /\ active_proc = p /\ active_proc' = active_proc
        /\ rq'.state[4] = rq.state[4]
    BY <1>1
  <2>5. p = 0 \/ p = 3 \/ p > 4
    BY DEF Creates
  <2> QED  BY ONLY <2>1, <2>2, <2>3, <2>4, <2>5 DEF ServiceFirst, Services
<1>13. DataInv'
  <2>1. SamePlaces
    BY <1>1, <1>2 DEF SamePlaces, Creates
  <2>2. rq'.state[0] \in {"READY", "ZOMBIE"}
    BY <1>1 DEF BootStages
  <2> QED  BY <1>1, <2>1, <2>2, DataIsKept
<1>14. KeybNeverPanics'
  BY <1>1, Zenon DEF KeybNeverPanics
<1> QED  BY <1>1, <1>3, <1>5, <1>6, <1>7, <1>8, <1>9, <1>10, <1>11, <1>12, <1>13, <1>14
         DEF DataInv

(* Who calls create_process, and which PCB it gets. *)
LEMMA CreatesWhom ==
  ASSUME KeybInv, NEW p \in Proc, At(p, "user")
  PROVE  /\ at[p] = "init_wm" => p = 0 /\ next_free_pcb = 2
         /\ at[p] = "init_keyb" => p = 0 /\ next_free_pcb = 3
         /\ at[p] = "keyb_process" => p = 3 /\ next_free_pcb = 4
         /\ at[p] = "start_shell" =>
              p = 0 /\ next_free_pcb \in Proc /\ next_free_pcb > 4 /\ Exists(4)
         /\ at[p] = "program" =>
              /\ p > 4 /\ Exists(4) /\ at[0] \in {"become_zombie", "dead"}
              /\ next_free_pcb # NULL => next_free_pcb > 4
<1> USE Processes DEF KeybInv, Inv
<1>1. /\ active_proc = p /\ pc[p] = "user"
      /\ next_free_pcb \in ProcOrNull
      /\ IF next_free_pcb = NULL THEN \A q \in Proc : pc[q] # "free"
         ELSE \A q \in Proc : pc[q] = "free" <=> q >= next_free_pcb
  BY KernelTypes, KernelPlaces DEF At
<1>2. \A f \in Proc : pc[f] = "free" => next_free_pcb \in Proc /\ next_free_pcb <= f
  BY <1>1 DEF ProcOrNull
<1>3. \A f \in Proc : pc[f] # "free" /\ next_free_pcb # NULL => next_free_pcb > f
  BY <1>1 DEF ProcOrNull
<1>4. pc[0] # "free" /\ pc[1] # "free"
  BY DEF BootStages, ProgramStages
<1>5. /\ at[p] \in {"init_wm", "init_keyb", "start_shell"} => p = 0
      /\ at[p] = "keyb_process" => p = 3
      /\ at[p] = "program" => p > 4
  BY WhereTheyAre DEF BootPlaces, WithKey, WithClient
<1>6. CASE at[p] = "init_wm"
  <2>1. pc[2] = "free" /\ p = 0
    BY <1>5, <1>6 DEF BootStages
  <2>2. next_free_pcb \in Proc /\ next_free_pcb <= 2 /\ next_free_pcb > 1
    BY <1>2, <1>3, <1>4, <2>1
  <2> QED  BY <1>6, <2>1, <2>2
<1>7. CASE at[p] = "init_keyb"
  <2>1. pc[3] = "free" /\ p = 0 /\ pc[2] # "free"
    BY <1>5, <1>7 DEF BootStages, Exists
  <2>2. next_free_pcb \in Proc /\ next_free_pcb <= 3 /\ next_free_pcb > 2
    BY <1>2, <1>3, <2>1
  <2> QED  BY <1>7, <2>1, <2>2
<1>8. CASE at[p] = "keyb_process"
  <2>1. pc[4] = "free" /\ p = 3
    BY <1>1, <1>5, <1>8 DEF ServiceStages, WithKey, WithClient
  <2>2. next_free_pcb \in Proc /\ next_free_pcb <= 4 /\ next_free_pcb > 3
    BY <1>1, <1>2, <1>3, <2>1
  <2> QED  BY <1>8, <2>1, <2>2
<1>9. CASE at[p] = "start_shell"
  <2>1. p = 0 /\ Exists(2) /\ Exists(3) /\ ~Early
    BY <1>1, <1>5, <1>9 DEF BootStages, Early
  <2>2. rq.state[3] # "READY"
    BY <1>1, <2>1 DEF ServiceFirst, Services, Busy
  <2>3. Exists(4)
    BY <2>1, <2>2, KernelPlaces DEF ServiceStages, Exists, Asking
  <2>4. 5 \in Proc /\ pc[5] = "free"
    BY <1>9, <2>1, KernelConstants DEF ProgramStages
  <2>5. next_free_pcb \in Proc /\ next_free_pcb > 4
    BY <1>2, <1>3, <2>3, <2>4 DEF Exists
  <2> QED  BY <1>9, <2>1, <2>3, <2>5
<1>10. CASE at[p] = "program"
  <2>1. p > 4 /\ Exists(4) /\ at[0] \in {"become_zombie", "dead"}
    BY <1>1, <1>5, <1>10 DEF ProgramStages
  <2> QED  BY <1>3, <1>10, <2>1 DEF Exists
<1> QED  BY <1>6, <1>7, <1>8, <1>9, <1>10

LEMMA CreateInv ==
  ASSUME KeybInv, NEW p \in Proc, NEW entry \in Places, NEW prio \in {5, 6, 7},
         NEW next \in Places, Create(p, entry, prio, next),
         next_free_pcb # NULL, Creates(p, next_free_pcb, entry, prio, next),
         UNCHANGED <<wm_port, keyb_port, dataVars>>
  PROVE  KeybInv'
<1>1. p # 1 /\ keyb_msg' = keyb_msg
  BY Processes DEF Creates, dataVars
<1>2. Created(p, next_free_pcb, entry, prio, next)
  BY <1>1, CreateStep
<1>3. pc[p] = "user" /\ active_proc = p
  BY DEF Create, create_process, At
<1>4. rq.state[p] = "READY"
  BY <1>3, KernelPlaces DEF KeybInv
<1> QED  BY <1>2, <1>3, <1>4, CreatedInv

(* The second part of create_process: process f gets port po. *)
Ported(p, f, po) ==
  /\ K!IInv' /\ halt' = halt /\ active_proc' = active_proc
  /\ f = new_proc[p] /\ f \in Proc /\ pc[f] = "embryo" /\ pc[p] = "create_port"
  /\ po = next_free_port /\ po \in Port /\ next_free_port' = po + 1
  /\ pc'[p] = "create_ready" /\ \A q \in Proc : q # p => pc'[q] = pc[q]
  /\ port'[po].owner = f /\ port'[po].open
  /\ \A x \in Port : x # po => port'[x] = port[x]
  /\ ports'[f] = <<po>> /\ \A q \in Proc : q # f => ports'[q] = ports[q]
  /\ UNCHANGED <<rq, new_proc, param_proc, param_data, interrupt_table,
                 received, at, ret>>

(* Each port in use is the only one of its owner. *)
LEMMA OwnPort ==
  ASSUME KeybInv, NEW po \in Port, po < next_free_port
  PROVE  /\ port[po].owner \in Proc /\ port[po].open
         /\ ports[port[po].owner] \in Seq(Port) /\ ports[port[po].owner] # <<>>
         /\ Len(ports[port[po].owner]) = 1
         /\ ports[port[po].owner][1] = po /\ Head(ports[port[po].owner]) = po
<1> DEFINE q == port[po].owner
<1>1. q # NULL
  BY SameSets DEF KeybInv, K!IInv, K!PortsHaveOwners
<1>2. PICK k \in DOMAIN ports[q] : ports[q][k] = po
  BY <1>1, SameSets DEF KeybInv, K!IInv, K!PortsHaveOwners
<1>3. q \in Proc /\ ports[q] \in Seq(Port) /\ Len(ports[q]) <= 1
  BY <1>1, KernelTypes DEF KeybInv, Inv, PortsAreOwned, ProcOrNull
<1>4. PICK s : s = ports[q] /\ s \in Seq(Port) /\ Len(s) <= 1 /\ k \in DOMAIN s
               /\ s[k] = po
  BY <1>2, <1>3
<1>5. Len(s) \in Nat /\ DOMAIN s = 1 .. Len(s) /\ Len(<<>>) # 1
  BY ONLY <1>4
<1>6. PICK n \in Nat : n = Len(s)
  BY ONLY <1>5
<1>7. k = 1 /\ Len(s) = 1
  <2>1. n \in Nat /\ n <= 1 /\ k \in 1 .. n
    BY <1>4, <1>5, <1>6, Zenon
  <2>2. k = 1 /\ n = 1
    BY ONLY <2>1
  <2> QED  BY <1>6, <2>2, Zenon
<1>8. s # <<>> /\ s[1] = po
  BY <1>4, <1>5, <1>7, Zenon
<1>9. Head(s) = po
  <2>1. \A t \in Seq(Port) : Len(t) = 1 => Head(t) = t[1]
    OBVIOUS
  <2> QED  BY <1>4, <1>7, <1>8, <2>1, Zenon
<1>10. port[po].open
  BY DEF KeybInv, Inv, PortsAreOwned
<1> QED  BY <1>3, <1>4, <1>7, <1>8, <1>9, <1>10, Zenon

(* Each port in use has its own owner, neither the boot process nor the    *)
(* process that is to get one now.                                         *)
LEMMA PortIsLeft ==
  ASSUME KeybInv, NEW p \in Proc, pc[p] = "create_port"
  PROVE  next_free_port \in Port
<1> DEFINE f == new_proc[p]
           In == 0 .. next_free_port - 1
           Owners == Proc \ {0, f}
           owner == [po \in In |-> port[po].owner]
<1>1. next_free_port \in 0 .. MAX_PORTS
  BY KernelTypes DEF KeybInv
<1>2. f \in Proc /\ f # 0
  <2>1. pc[0] # "embryo"
    BY DEF KeybInv, Inv, BootStages
  <2> QED  BY <2>1, KernelPlaces DEF KeybInv
<1>3. In \subseteq Port
  BY <1>1, PortsAssumption DEF Port
<1>4. ASSUME NEW po \in In
      PROVE  owner[po] \in Owners /\ ports[owner[po]][1] = po
  <2>1. po \in Port /\ po < next_free_port
    BY <1>1, <1>3
  <2>2. /\ port[po].owner \in Proc /\ ports[port[po].owner] # <<>>
        /\ ports[port[po].owner][1] = po
    BY <2>1, OwnPort
  <2>3. ports[0] = <<>> /\ ports[f] = <<>>
    BY DEF KeybInv, Inv, PortsAreOwned
  <2>4. port[po].owner # 0 /\ port[po].owner # f
    BY <2>2, <2>3
  <2> QED  BY <2>2, <2>4
<1>5. owner \in [In -> Owners]
  BY <1>4
<1>6. \A x, y \in In : owner[x] = owner[y] => x = y
  <2> SUFFICES ASSUME NEW x \in In, NEW y \in In, owner[x] = owner[y] PROVE x = y
    OBVIOUS
  <2>1. ports[owner[x]][1] = x /\ ports[owner[y]][1] = y
    BY <1>4
  <2> QED  BY ONLY <2>1, owner[x] = owner[y]
<1>7. IsFiniteSet(In) /\ Cardinality(In) = next_free_port
  <2>1. 0 \in Int /\ next_free_port - 1 \in Int /\ next_free_port \in Nat
    BY <1>1
  <2> QED  BY <2>1, FS_Interval
<1>8. IsFiniteSet(Owners) /\ Cardinality(Owners) = MAX_PROCS - 2
  <2>1. MAX_PROCS \in Nat /\ MAX_PROCS >= 2
    BY KernelConstants
  <2>2. IsFiniteSet(Proc) /\ Cardinality(Proc) = MAX_PROCS
    BY <2>1, FS_Interval DEF Proc
  <2>3. /\ IsFiniteSet(Proc \ {0}) /\ Cardinality(Proc \ {0}) = MAX_PROCS - 1
    BY <2>2, Processes, FS_RemoveElement
  <2>4. f \in Proc \ {0}
    BY <1>2
  <2>5. /\ IsFiniteSet((Proc \ {0}) \ {f})
        /\ Cardinality((Proc \ {0}) \ {f}) = MAX_PROCS - 1 - 1
    BY <2>3, <2>4, FS_RemoveElement
  <2>6. (Proc \ {0}) \ {f} = Owners
    OBVIOUS
  <2> QED  BY <2>1, <2>5, <2>6
<1>9. ~(Cardinality(Owners) < Cardinality(In))
  <2> HIDE DEF owner, In, Owners
  <2> QED  BY ONLY <1>5, <1>6, <1>7, <1>8, FS_PigeonHole
<1> QED  BY <1>1, <1>7, <1>8, <1>9, KernelConstants DEF Port

LEMMA PortStep ==
  ASSUME KeybInv, NEW p \in Proc, create_process_port(p),
         UNCHANGED <<received, at, ret, keyb_msg>>
  PROVE  Ported(p, new_proc[p], next_free_port)
<1> DEFINE f == new_proc[p]
           po == next_free_port
<1>1. /\ rq \in QueueRecord /\ pc \in [Proc -> Labels] /\ next_free_pcb \in ProcOrNull
      /\ ports \in [Proc -> Seq(Port)]
      /\ port \in [Port -> [open : BOOLEAN, owner : ProcOrNull,
                            blocked_list_head : ProcOrNull,
                            blocked_list_tail : ProcOrNull]]
  BY KernelTypes DEF KeybInv
<1>2. At(p, "create_port") /\ pc[p] = "create_port"
  BY DEF create_process_port, At
<1>3. f \in Proc /\ pc[f] = "embryo" /\ ports[f] = <<>>
  BY <1>2, KernelPlaces DEF KeybInv, Inv, PortsAreOwned
<1>4. po \in Port
  BY <1>2, PortIsLeft
<1>5. /\ create_new_port(f) /\ Goto(p, "create_ready")
      /\ UNCHANGED <<schedVars, param_proc, param_data, next_blocked,
                     procVars, interrupt_table, halt>>
  <2>1. po # MAX_PORTS
    BY <1>4, PortsAssumption DEF Port
  <2> QED  BY <2>1 DEF create_process_port, PortFull
<1>6. /\ pc'[p] = "create_ready" /\ \A q \in Proc : q # p => pc'[q] = pc[q]
      /\ next_free_port' = po + 1
      /\ port'[po].owner = f /\ port'[po].open
      /\ \A x \in Port : x # po => port'[x] = port[x]
      /\ ports'[f] = <<po>>
      /\ \A q \in Proc : q # f => ports'[q] = ports[q]
  <2>1. <<po>> \o ports[f] = <<po>>
    BY <1>3, <1>4
  <2> QED  BY <1>1, <1>3, <1>4, <1>5, <2>1 DEF create_new_port, Goto
<1>7. UNCHANGED <<rq, active_proc, param_proc, param_data, next_free_pcb,
                  new_proc, interrupt_table, halt, received, at, ret>>
  BY <1>5 DEF schedVars, procVars
<1>8. K!IInv'
  <2>1. \A r, q \in Proc : InPcb(r, q)' <=> InPcb(r, q)
    BY <1>2, <1>6, <1>7, Processes DEF InPcb
  <2>2. \A q \in Proc : PortOf(q)' = PortOf(q)
    BY DEF PortOf, Reading
  <2>3. K!Unchanged
    BY <1>7, <2>1, <2>2, Processes, SameWaiting DEF Asks
  <2>4. K!create_process_port(p)
    BY <1>7, SameCalls
  <2>5. p # 1
    BY <1>2, CallersAre
  <2>6. K!CreateProcessPort(p) /\ p \in K!Programs
    BY <2>3, <2>4, <2>5, SameSets DEF K!CreateProcessPort
  <2> QED  BY <2>6, KernelStep DEF K!GNext, K!Call, KeybInv
<1> QED  BY <1>2, <1>3, <1>4, <1>6, <1>7, <1>8 DEF Ported

(* Whose create_process it is. *)
LEMMA Creations ==
  ASSUME KeybInv, NEW p \in Proc, pc[p] \in {"create_port", "create_ready"}
  PROVE  LET new == IF pc[p] = "create_ready" THEN 1 ELSE 0
             f == new_proc[p]
         IN  /\ pc[f] = "embryo" /\ f \in Proc /\ rq.state[f] = "READY" /\ f # p
             /\ next_free_port \in Int /\ pc[0] # "free" /\ pc[1] # "free"
             /\ \/ p = 0 /\ at[0] = "assign_wm_port" /\ f = 2 /\ at[2] = "wm"
                   /\ next_free_port = 1 + new /\ pc[3] = "free"
                \/ p = 0 /\ at[0] = "assign_keyb_port" /\ f = 3 /\ at[3] = "keyb_process"
                   /\ next_free_port = 2 + new /\ pc[4] = "free" /\ Exists(2)
                \/ p = 3 /\ at[3] = "keyb_receive" /\ f = 4 /\ at[4] = "keyb_notifier"
                   /\ next_free_port = 3 + new /\ pc[3] # "free"
                \/ p = 0 /\ at[0] = "become_zombie" /\ f > 4 /\ at[f] = "start"
                   /\ next_free_port >= 4 /\ Exists(4)
                \/ p > 4 /\ at[p] = "program" /\ f > 4 /\ at[f] = "start"
                   /\ next_free_port >= 4 /\ Exists(4)
                   /\ at[0] \in {"become_zombie", "dead"}
<1> USE Processes DEF KeybInv, Inv
<1> DEFINE new == IF pc[p] = "create_ready" THEN 1 ELSE 0
           f == new_proc[p]
<1>1. pc[f] = "embryo" /\ f \in Proc /\ rq.state[f] = "READY" /\ f # p
  <2>1. K!IInv /\ p \in Proc /\ pc[p] \in {"create_port", "create_ready"}
    OBVIOUS
  <2>2. f \in Proc /\ pc[f] = "embryo"
    BY ONLY <2>1, KernelPlaces
  <2>3. rq.state[f] = "READY"
    BY ONLY <2>1, <2>2, KernelPlaces
  <2> QED  BY ONLY <2>1, <2>2, <2>3
<1>2. next_free_port \in Int /\ pc[0] # "free" /\ pc[1] # "free"
  BY KernelTypes, PortsAssumption DEF BootStages, ProgramStages
<1>3. p = 0 \/ p = 3 \/ p > 4
  BY CallersAre
<1>4. f > 4 => at[f] = "start"
  BY <1>1 DEF ProgramStages
<1>5. Exists(4) => next_free_port >= 4
  BY DEF PortsAreOwned
<1>6. CASE p = 0
  <2>1. \/ at[0] = "assign_wm_port" /\ f = 2 /\ next_free_port = 1 + new
        \/ at[0] = "assign_keyb_port" /\ f = 3 /\ next_free_port = 2 + new /\ Exists(2)
        \/ at[0] = "become_zombie" /\ f > 4 /\ Exists(4)
    BY <1>6 DEF BootStages
  <2>2. f = 2 => at[2] = "wm" /\ pc[3] = "free"
    BY <1>1 DEF ManagerStages
  <2>3. f = 3 => at[3] = "keyb_process" /\ pc[4] = "free"
    BY <1>1 DEF ServiceStages
  <2> QED  BY <1>1, <1>2, <1>4, <1>5, <1>6, <2>1, <2>2, <2>3
<1>7. CASE p = 3
  <2>1. at[3] = "keyb_receive" /\ f = 4 /\ next_free_port = 3 + new
    BY <1>7 DEF ServiceStages
  <2>2. at[4] = "keyb_notifier"
    BY <1>1, <2>1 DEF NotifierStages
  <2> QED  BY <1>1, <1>2, <1>7, <2>1, <2>2
<1>8. CASE p > 4
  <2>1. at[p] = "program" /\ f > 4 /\ Exists(4) /\ at[0] \in {"become_zombie", "dead"}
    BY <1>8 DEF ProgramStages
  <2> QED  BY <1>1, <1>2, <1>4, <1>5, <1>8, <2>1
<1> QED  BY <1>3, <1>6, <1>7, <1>8

LEMMA CreateProcessPortInv ==
  ASSUME KeybInv, NEW p \in Proc, create_process_port(p),
         UNCHANGED <<received, at, ret, wm_port, keyb_port, dataVars>>
  PROVE  KeybInv'
<1> USE Processes
<1>1. PICK f, po : Ported(p, f, po)
  BY PortStep DEF dataVars
<1>2. active_proc = p /\ pc[p] = "create_port"
  BY DEF create_process_port, At
<1>3. /\ f = new_proc[p] /\ f \in Proc /\ pc[f] = "embryo"
      /\ po = next_free_port /\ po \in Port /\ next_free_port' = po + 1
      /\ pc'[p] = "create_ready" /\ \A q \in Proc : q # p => pc'[q] = pc[q]
      /\ port'[po].owner = f /\ port'[po].open
      /\ \A x \in Port : x # po => port'[x] = port[x]
      /\ ports'[f] = <<po>> /\ \A q \in Proc : q # f => ports'[q] = ports[q]
      /\ UNCHANGED <<rq, new_proc, param_proc, param_data, interrupt_table,
                     received, at, ret, halt, active_proc>>
      /\ K!IInv'
  BY <1>1 DEF Ported
<1>4. /\ f # p /\ po \in Int /\ pc[0] # "free"
      /\ \/ p = 0 /\ at[0] = "assign_wm_port" /\ f = 2 /\ po = 1 /\ pc[3] = "free"
         \/ p = 0 /\ at[0] = "assign_keyb_port" /\ f = 3 /\ po = 2 /\ pc[4] = "free"
            /\ Exists(2)
         \/ p = 3 /\ at[3] = "keyb_receive" /\ f = 4 /\ po = 3
         \/ p = 0 /\ at[0] = "become_zombie" /\ f > 4 /\ po >= 4 /\ Exists(4)
         \/ p > 4 /\ at[p] = "program" /\ f > 4 /\ po >= 4 /\ Exists(4)
            /\ at[0] \in {"become_zombie", "dead"}
  BY <1>2, <1>3, Creations
<1> USE DEF KeybInv, Inv
<1>5. \A q \in Proc : /\ Exists(q)' <=> Exists(q)
                      /\ pc'[q] = "free" <=> pc[q] = "free"
                      /\ pc'[q] = "embryo" <=> pc[q] = "embryo"
                      /\ pc'[q] = "receive" <=> pc[q] = "receive"
                      /\ pc'[q] = "create_port" => q # p /\ pc[q] = "create_port"
  BY <1>2, <1>3 DEF Exists
<1>6. Typed' /\ OnlyKeysAreAwaited' /\ KeybNeverPanics'
  BY <1>3 DEF Typed, OnlyKeysAreAwaited, KeybNeverPanics
<1>7. BootStages'
  <2>1. CASE p = 0
    BY <1>3, <1>4, <1>5, <2>1 DEF BootStages, Early, dataVars
  <2>2. CASE p # 0
    <3>1. pc'[0] = pc[0] /\ UNCHANGED <<at, ret, new_proc, rq, wm_port, keyb_port, windows>>
      BY <1>3, <2>2 DEF dataVars
    <3>2. Early' = Early
      BY <3>1 DEF Early
    <3>3. Exists(3)
      BY <1>2, <1>4, <2>2 DEF Exists, ServiceStages
    <3>4. pc[2] # "free" /\ pc[2] # "embryo"
      BY <3>3 DEF Exists, ManagerStages
    <3>5. BootStages
      OBVIOUS
    <3> QED  BY ONLY <1>5, <3>1, <3>2, <3>3, <3>4, <3>5, Processes DEF BootStages, Exists
  <2> QED  BY <2>1, <2>2
<1>8. ManagerStages'
  BY <1>3, <1>4, <1>5 DEF ManagerStages
<1>9. ServiceStages'
  <2>1. CASE p = 3
    BY <1>2, <1>3, <1>4, <1>5, <2>1 DEF ServiceStages
  <2>2. CASE p # 3
    <3>1. pc'[3] = pc[3] /\ UNCHANGED <<at, ret, new_proc, rq>>
      BY <1>3, <2>2
    <3>2. \/ pc[3] \in {"free", "embryo"}
          \/ Exists(4)
      BY <1>3, <1>4, <2>2
    <3>3. ServiceStages
      OBVIOUS
    <3> QED  BY ONLY <1>5, <3>1, <3>2, <3>3, Processes DEF ServiceStages, Exists
  <2> QED  BY <2>1, <2>2
<1>10. NotifierStages'
  BY <1>3, <1>4 DEF NotifierStages
<1>11. ProgramStages'
  <2>1. pc'[1] = "user" /\ at'[1] = "loop"
    BY <1>3, <1>4 DEF ProgramStages
  <2>2. ASSUME NEW q \in Proc, q > 4 PROVE ProgramStages!2!(q)'
    <3>1. ProgramStages!2!(q)
      BY <2>2 DEF ProgramStages
    <3>2. UNCHANGED <<at, new_proc, rq>> /\ (pc'[q] = pc[q] \/ (q = p /\ pc'[q] = "create_ready"))
      BY <1>3, <2>2
    <3>3. /\ Exists(4)' <=> Exists(4)
          /\ pc'[q] = "free" <=> pc[q] = "free"
      BY <1>5, Processes
    <3> QED  BY ONLY <1>2, <3>1, <3>2, <3>3
  <2> QED  BY <2>1, <2>2 DEF ProgramStages
<1>12. PortsAreOwned'
  <2>1. \A q \in Proc : Len(ports'[q]) <= 1
    <3>1. Len(<<po>>) <= 1
      OBVIOUS
    <3>2. \A q \in Proc : q # f => Len(ports'[q]) <= 1
      BY <1>3 DEF PortsAreOwned
    <3>3. Len(ports'[f]) <= 1
      BY <1>3, <3>1, Zenon
    <3> QED  BY <3>2, <3>3
  <2>2. ports'[0] = <<>>
    BY <1>3, <1>4 DEF PortsAreOwned
  <2>3. ASSUME NEW q \in Proc, pc'[q] = "create_port" PROVE ports'[new_proc'[q]] = <<>>
    <3>1. pc[q] = "create_port" /\ q # p /\ new_proc'[q] = new_proc[q]
      BY <1>3, <1>5, <2>3
    <3>2. new_proc[q] \in Proc /\ ports[new_proc[q]] = <<>>
      BY <3>1, KernelPlaces DEF PortsAreOwned
    <3>3. new_proc[q] # f
      BY <1>2, <1>3, <3>1, SameSets DEF K!IInv, K!EmbryosHaveOneCreator, K!Creating
    <3>4. ports'[new_proc[q]] = ports[new_proc[q]]
      BY <1>3, <3>2, <3>3
    <3> QED  BY ONLY <3>1, <3>2, <3>4
  <2>4. {1, 2, 3} \subseteq Port /\ Port \subseteq Int
    BY KernelConstants DEF Port
  <2>5. /\ po >= 2 => port'[1] = port[1]
        /\ po >= 3 => port'[2] = port[2]
        /\ po >= 4 => port'[3] = port[3]
        /\ po = 1 => f = 2
        /\ po = 2 => f = 3
        /\ po = 3 => f = 4
        /\ po >= 1
    BY <1>3, <1>4, <2>4
  <2>6. \A x \in Port : x < next_free_port' => port'[x].open
    BY <1>3, <1>4, <2>4 DEF PortsAreOwned
  <2>7. /\ Exists(2)' => next_free_port' >= 2
        /\ Exists(3)' => next_free_port' >= 3
        /\ Exists(4)' => next_free_port' >= 4
    BY <1>3, <1>4, <1>5 DEF PortsAreOwned
  <2>8. /\ next_free_port' = po + 1 /\ port'[po].owner = f /\ po \in Int
        /\ po = next_free_port /\ PortsAreOwned
    BY <1>3, <1>4
  <2>9. /\ next_free_port' >= 2 => port'[1].owner = 2
        /\ next_free_port' >= 3 => port'[2].owner = 3
        /\ next_free_port' >= 4 => port'[3].owner = 4
    BY ONLY <2>5, <2>8 DEF PortsAreOwned
  <2> QED  BY <2>1, <2>2, <2>3, <2>6, <2>7, <2>9 DEF PortsAreOwned
<1>13. HavePriorities'
  BY <1>3, <1>5 DEF HavePriorities
<1>14. ServiceFirst'
  <2>1. UNCHANGED <<active_proc, at, rq>>
    BY <1>3
  <2> QED  BY ONLY <1>5, <2>1, ServiceFirst, Processes
              DEF ServiceFirst, Services, Busy, Early
<1>15. DataInv'
  <2>1. SamePlaces
    BY <1>3, <1>5 DEF SamePlaces
  <2>2. rq'.state[0] \in {"READY", "ZOMBIE"}
    BY <1>3 DEF BootStages
  <2> QED  BY <1>3, <2>1, <2>2, DataIsKept
<1> QED  BY <1>3, <1>6, <1>7, <1>8, <1>9, <1>10, <1>11, <1>12, <1>13, <1>14, <1>15
         DEF DataInv

(* The last part: process f is put on a ready queue. *)
Started(p, f) ==
  /\ K!IInv' /\ halt' = halt /\ active_proc' = active_proc
  /\ f = new_proc[p] /\ f \in Proc /\ f # p /\ pc[f] = "embryo" /\ pc[p] = "create_ready"
  /\ pc'[p] = "user" /\ pc'[f] = "user"
  /\ \A q \in Proc : q # p /\ q # f => pc'[q] = pc[q]
  /\ \A q \in Proc : rq'.state[q] = rq.state[q] /\ rq'.priority[q] = rq.priority[q]
  /\ \A q \in Proc : q # p => new_proc'[q] = new_proc[q]
  /\ ret' = [ret EXCEPT ![p] = Head(ports[f])]
  /\ UNCHANGED <<param_proc, param_data, port, ports, next_free_port,
                 interrupt_table, received, at>>

LEMMA StartStep ==
  ASSUME KeybInv, NEW p \in Proc, create_process_ready(p),
         ret' = [ret EXCEPT ![p] = Head(ports[new_proc[p]])],
         UNCHANGED <<received, at, keyb_msg>>
  PROVE  Started(p, new_proc[p])
<1> DEFINE f == new_proc[p]
<1>1. /\ rq \in QueueRecord /\ pc \in [Proc -> Labels] /\ new_proc \in [Proc -> ProcOrNull]
  BY KernelTypes DEF KeybInv
<1>2. At(p, "create_ready") /\ pc[p] = "create_ready"
  BY DEF create_process_ready, At
<1>3. f \in Proc /\ pc[f] = "embryo" /\ f # p /\ rq.state[f] = "READY"
  BY <1>2, KernelPlaces DEF KeybInv
<1>4. /\ pc'[p] = "user" /\ pc'[f] = "user"
      /\ \A q \in Proc : q # p /\ q # f => pc'[q] = pc[q]
      /\ \A q \in Proc : q # p => new_proc'[q] = new_proc[q]
  BY <1>1, <1>3 DEF create_process_ready
<1>5. \A q \in Proc : rq'.state[q] = rq.state[q] /\ rq'.priority[q] = rq.priority[q]
  <2>1. rq' = add_ready_queue(rq, f)
    BY DEF create_process_ready
  <2>2. rq'.state = [rq.state EXCEPT ![f] = "READY"] /\ rq'.priority = rq.priority
    BY <1>1, <1>3, <2>1, StateOf
  <2> QED  BY <1>1, <1>3, <2>2 DEF QueueRecord
<1>6. UNCHANGED <<active_proc, param_proc, param_data, port, ports,
                  next_free_port, next_free_pcb, interrupt_table, halt, received>>
  BY DEF create_process_ready, ipcVars, portVars
<1>7. K!IInv'
  <2>1. \A r, q \in Proc : InPcb(r, q)' <=> InPcb(r, q)
    BY <1>2, <1>3, <1>4, <1>5, <1>6, Processes DEF InPcb
  <2>2. \A q \in Proc : PortOf(q)' = PortOf(q)
    BY DEF PortOf, Reading
  <2>3. K!Unchanged
    BY <1>5, <1>6, <2>1, <2>2, Processes, SameWaiting DEF Asks
  <2>4. K!create_process_ready(p)
    BY <1>6, SameCalls
  <2>5. p # 1
    BY <1>2, CallersAre
  <2>6. K!CreateProcessReady(p) /\ p \in K!Programs
    BY <2>3, <2>4, <2>5, SameSets DEF K!CreateProcessReady
  <2> QED  BY <2>6, KernelStep DEF K!GNext, K!Call, KeybInv
<1> QED  BY <1>2, <1>3, <1>4, <1>5, <1>6, <1>7 DEF Started

LEMMA CreateProcessReadyInv ==
  ASSUME KeybInv, NEW p \in Proc, create_process_ready(p),
         ret' = [ret EXCEPT ![p] = Head(ports[new_proc[p]])],
         UNCHANGED <<received, at, wm_port, keyb_port, dataVars>>
  PROVE  KeybInv'
<1> USE Processes
<1>1. PICK f : Started(p, f)
  BY StartStep DEF dataVars
<1>2. active_proc = p /\ pc[p] = "create_ready"
  BY DEF create_process_ready, At
<1>3. /\ f = new_proc[p] /\ f \in Proc /\ f # p /\ pc[f] = "embryo"
      /\ pc'[p] = "user" /\ pc'[f] = "user"
      /\ \A q \in Proc : q # p /\ q # f => pc'[q] = pc[q]
      /\ \A q \in Proc : rq'.state[q] = rq.state[q] /\ rq'.priority[q] = rq.priority[q]
      /\ \A q \in Proc : q # p => new_proc'[q] = new_proc[q]
      /\ UNCHANGED <<param_proc, param_data, port, ports, next_free_port,
                     interrupt_table, received, at, halt, active_proc>>
      /\ K!IInv'
  BY <1>1 DEF Started
<1>4. /\ rq.state[f] = "READY" /\ pc[0] # "free" /\ pc[1] # "free" /\ next_free_port \in Int
      /\ \/ p = 0 /\ at[0] = "assign_wm_port" /\ f = 2 /\ at[2] = "wm"
            /\ next_free_port = 2 /\ pc[3] = "free"
         \/ p = 0 /\ at[0] = "assign_keyb_port" /\ f = 3 /\ at[3] = "keyb_process"
            /\ next_free_port = 3 /\ pc[4] = "free" /\ Exists(2)
         \/ p = 3 /\ at[3] = "keyb_receive" /\ f = 4 /\ at[4] = "keyb_notifier"
            /\ next_free_port = 4
         \/ p = 0 /\ at[0] = "become_zombie" /\ f > 4 /\ at[f] = "start" /\ Exists(4)
            /\ next_free_port >= 4
         \/ p > 4 /\ at[p] = "program" /\ f > 4 /\ at[f] = "start" /\ Exists(4)
            /\ at[0] \in {"become_zombie", "dead"} /\ next_free_port >= 4
  BY <1>2, <1>3, Creations
<1>5. rq.state[p] = "READY"
  BY <1>2, <1>3, KernelPlaces DEF KeybInv
<1> USE DEF KeybInv, Inv
<1>6. /\ ret' = [q \in Proc |-> ret'[q]]
      /\ f = 2 => ret'[0] = 1
      /\ f = 3 => ret'[0] = 2
      /\ f = 4 => ret'[3] = 3
      /\ \A q \in Proc : q # p => ret'[q] = ret[q]
  <2>1. ret' = [ret EXCEPT ![p] = Head(ports[f])] /\ ret = [q \in Proc |-> ret[q]]
    BY <1>1 DEF Started, Typed
  <2>2. /\ f = 2 => Head(ports[2]) = 1
        /\ f = 3 => Head(ports[3]) = 2
        /\ f = 4 => Head(ports[4]) = 3
    <3>1. {1, 2, 3} \subseteq Port
      BY KernelConstants
    <3>2. /\ f = 2 => 1 < next_free_port /\ port[1].owner = 2
          /\ f = 3 => 2 < next_free_port /\ port[2].owner = 3
          /\ f = 4 => 3 < next_free_port /\ port[3].owner = 4
      BY <1>4 DEF PortsAreOwned
    <3> QED  BY <3>1, <3>2, OwnPort
  <2> QED  BY <1>4, <2>1, <2>2
<1>7. \A q \in Proc : /\ Exists(q)' <=> Exists(q) \/ q = f
                      /\ pc'[q] = "free" <=> pc[q] = "free"
                      /\ pc'[q] = "embryo" <=> pc[q] = "embryo" /\ q # f
                      /\ pc'[q] = "receive" <=> pc[q] = "receive"
                      /\ pc'[q] = "create_port" => pc[q] = "create_port" /\ q # p
  BY <1>2, <1>3 DEF Exists
<1>8. Typed' /\ OnlyKeysAreAwaited' /\ KeybNeverPanics'
  BY <1>3, <1>6 DEF Typed, OnlyKeysAreAwaited, KeybNeverPanics
<1>9. BootStages'
  <2>1. CASE p = 0
    BY <1>3, <1>4, <1>6, <1>7, <2>1 DEF BootStages, Early, dataVars
  <2>2. CASE p # 0
    <3>1. /\ pc'[0] = pc[0] /\ ret'[0] = ret[0] /\ rq'.state[0] = rq.state[0]
          /\ UNCHANGED <<at, wm_port, keyb_port, windows, next_free_port>>
          /\ new_proc'[0] = new_proc[0]
      BY <1>3, <1>4, <1>6, <2>2 DEF dataVars
    <3>2. Early' = Early
      BY <3>1 DEF Early
    <3>3. Exists(3)
      BY <1>2, <1>4, <2>2 DEF Exists, ServiceStages
    <3>4. pc[2] # "free" /\ pc[2] # "embryo"
      BY <3>3 DEF Exists, ManagerStages
    <3>5. BootStages
      OBVIOUS
    <3> QED  BY ONLY <1>7, <3>1, <3>2, <3>3, <3>4, <3>5, Processes DEF BootStages, Exists
  <2> QED  BY <2>1, <2>2
<1>10. ManagerStages'
  <2>1. CASE f = 2
    <3>1. pc'[2] = "user" /\ at'[2] = "wm" /\ rq'.state[2] = "READY"
      BY <1>3, <1>4, <2>1
    <3> QED  BY ONLY <3>1 DEF ManagerStages
  <2>2. CASE f # 2
    <3>1. pc'[2] = pc[2] /\ at'[2] = at[2] /\ rq'.state[2] = rq.state[2]
      BY <1>3, <1>4, <2>2
    <3>2. pc'[3] = "free" <=> pc[3] = "free"
      BY <1>7
    <3>3. ManagerStages
      OBVIOUS
    <3> QED  BY ONLY <3>1, <3>2, <3>3 DEF ManagerStages
  <2> QED  BY <2>1, <2>2
<1>11. ServiceStages'
  <2>1. CASE f = 3
    <3>1. /\ pc'[3] = "user" /\ at'[3] = "keyb_process" /\ rq'.state[3] = "READY"
          /\ pc'[4] = "free" /\ next_free_port' = 3
      BY <1>3, <1>4, <1>7, <2>1
    <3> QED  BY ONLY <3>1 DEF ServiceStages
  <2>2. CASE p = 3
    <3>1. /\ pc'[3] = "user" /\ at'[3] = "keyb_receive" /\ rq'.state[3] = "READY"
          /\ Exists(4)' /\ ret'[3] = 3
      BY <1>3, <1>4, <1>5, <1>6, <1>7, <2>2
    <3> QED  BY ONLY <3>1 DEF ServiceStages
  <2>3. CASE p # 3 /\ f # 3
    <3>1. /\ pc'[3] = pc[3] /\ at'[3] = at[3] /\ rq'.state[3] = rq.state[3]
          /\ ret'[3] = ret[3] /\ new_proc'[3] = new_proc[3] /\ next_free_port' = next_free_port
      BY <1>3, <1>6, <2>3
    <3>2. /\ Exists(4)' <=> Exists(4)
          /\ pc'[4] = "free" <=> pc[4] = "free"
          /\ pc'[4] = "embryo" <=> pc[4] = "embryo"
      BY <1>4, <1>7, <2>3
    <3>3. ServiceStages
      OBVIOUS
    <3> QED  BY ONLY <3>1, <3>2, <3>3 DEF ServiceStages
  <2> QED  BY <2>1, <2>2, <2>3
<1>12. NotifierStages'
  BY <1>3, <1>4 DEF NotifierStages
<1>13. ProgramStages'
  <2>1. pc'[1] = "user" /\ at'[1] = "loop"
    BY <1>3, <1>4 DEF ProgramStages
  <2>2. ASSUME NEW q \in Proc, q > 4 PROVE ProgramStages!2!(q)'
    <3>1. ProgramStages!2!(q) /\ (Exists(4) => Exists(4)') /\ (pc'[q] = "free" <=> pc[q] = "free")
      BY <1>7, <2>2 DEF ProgramStages
    <3>2. CASE q = f
      <4>1. pc'[q] = "user" /\ at'[q] = "start" /\ rq'.state[q] = "READY" /\ at'[0] = at[0]
        BY <1>3, <1>4, <2>2, <3>2
      <4> QED  BY ONLY <3>1, <4>1
    <3>3. CASE q = p
      <4>1. pc'[q] = "user" /\ at'[q] = "program" /\ rq'.state[q] = "READY" /\ at'[0] = at[0]
        BY <1>3, <1>4, <1>5, <2>2, <3>3
      <4> QED  BY ONLY <3>1, <4>1
    <3>4. CASE q # p /\ q # f
      <4>1. /\ pc'[q] = pc[q] /\ at'[q] = at[q] /\ rq'.state[q] = rq.state[q]
            /\ at'[0] = at[0] /\ new_proc'[q] = new_proc[q]
        BY <1>3, <3>4
      <4> QED  BY ONLY <3>1, <4>1
    <3> QED  BY <3>2, <3>3, <3>4
  <2> QED  BY <2>1, <2>2 DEF ProgramStages
<1>14. PortsAreOwned'
  <2>1. \A q \in Proc : pc'[q] = "create_port" => pc[q] = "create_port" /\ new_proc'[q] = new_proc[q]
    BY <1>3, <1>7
  <2>2. /\ Exists(2)' => next_free_port >= 2
        /\ Exists(3)' => next_free_port >= 3
        /\ Exists(4)' => next_free_port >= 4
    BY <1>4, <1>7 DEF PortsAreOwned
  <2>3. PortsAreOwned /\ UNCHANGED <<port, ports, next_free_port>>
    BY <1>3
  <2> QED  BY ONLY <2>1, <2>2, <2>3 DEF PortsAreOwned
<1>15. HavePriorities'
  BY <1>3, <1>7 DEF HavePriorities
<1>16. ServiceFirst'
  <2>1. UNCHANGED <<active_proc, at>> /\ \A q \in Proc : rq'.state[q] = rq.state[q]
    BY <1>3
  <2>2. f \in {2, 3, 4} => active_proc = 3 \/ (active_proc = 0 /\ Early)
    BY <1>2, <1>4 DEF Early
  <2> QED  BY ONLY <1>7, <2>1, <2>2, ServiceFirst, Processes
              DEF ServiceFirst, Services, Busy, Early
<1>17. DataInv'
  <2>1. SamePlaces
    BY <1>3, <1>7 DEF SamePlaces
  <2>2. rq'.state[0] \in {"READY", "ZOMBIE"}
    BY <1>3 DEF BootStages
  <2> QED  BY <1>3, <2>1, <2>2, DataIsKept
<1> QED  BY <1>3, <1>8, <1>9, <1>10, <1>11, <1>12, <1>13, <1>14, <1>15, <1>16, <1>17
         DEF DataInv

-----------------------------------------------------------------------------
(* The rest of the boot process *)

LEMMA KernelStutter ==
  ASSUME K!IInv,
         UNCHANGED <<rq, active_proc, param_proc, param_data, next_blocked, port,
                     ports, next_free_port, next_free_pcb, new_proc,
                     interrupt_table, pc, received, keyb_msg>>
  PROVE  K!IInv'
<1>1. \A q \in Proc : PortOf(q)' = PortOf(q)
  BY DEF PortOf, Reading
<1>2. SentTo' = SentTo
  BY <1>1 DEF SentTo
<1>3. ToReply' = ToReply
  BY <1>1 DEF ToReply, InPcb, Asks
<1>4. UNCHANGED K!allVars
  BY <1>2, <1>3 DEF K!allVars, K!vars, K!schedVars, K!ipcVars, K!portVars,
     K!procVars, K!clientVars
<1> QED  BY <1>4, K!NextInv, KernelConstants, SizesAssumption, NullAssumption,
            PortsAssumption

(* A step of the boot process that creates nobody. *)
LEMMA BootMoves ==
  ASSUME KeybInv, K!IInv', BootStages',
         \A q \in Proc : q # 0 => Stays(q),
         UNCHANGED <<ports, port, next_free_port, next_free_pcb, new_proc, interrupt_table,
                     param_proc, param_data, halt, received, dataVars>>,
         at[0] \in {"become_zombie", "dead"} => at'[0] \in {"become_zombie", "dead"},
         pc[0] # "create_port", pc'[0] # "create_port",
         at' \in [Proc -> Places], ret' = [q \in Proc |-> ret'[q]], ret'[3] = ret[3],
         \A q \in Proc : rq'.priority[q] = rq.priority[q],
         ServiceFirst' \/ (K!HighestStep /\ active_proc' = dispatcher(rq', active_proc))
  PROVE  KeybInv'
<1> USE Processes
<1>1. Moves /\ Stays(1)
  BY DEF Moves, ManagerMoves, ServiceMoves, NotifierMoves, ProgramMoves
<1>2. pc[0] \notin {"free", "embryo"} /\ pc'[0] \notin {"free", "embryo"}
  BY DEF KeybInv, Inv, BootStages
<1>3. FrameInv'
  BY <1>1, <1>2, FrameIsKept
<1>4. DataInv'
  <2>1. SamePlaces
    <3>1. at[0] # "program" /\ at'[0] # "program"
      BY DEF KeybInv, Inv, BootStages
    <3> QED  BY <3>1 DEF SamePlaces, Stays
  <2>2. rq'.state[0] \in {"READY", "ZOMBIE"}
    BY DEF BootStages
  <2>3. \A q \in Proc : q # 0 => rq'.state[q] = rq.state[q]
    BY DEF Stays
  <2> QED  BY <2>1, <2>2, <2>3, DataIsKept
<1>5. ServiceFirst'
  BY <1>3, DispatchServesFirst DEF FrameInv
<1>6. KeybNeverPanics'
  BY Zenon DEF KeybInv, Inv, KeybNeverPanics
<1> QED  BY <1>3, <1>4, <1>5, <1>6 DEF KeybInv, Inv, FrameInv, DataInv

(* init_wm and init_keyb assign their results. *)
LEMMA AssignInv ==
  ASSUME KeybInv, NEW p \in Proc, At(p, "user"),
         \/ /\ at[p] = "assign_wm_port" /\ wm_port' = Returned(p)
            /\ Jump(p, "init_keyb") /\ keyb_port' = keyb_port
         \/ /\ at[p] = "assign_keyb_port" /\ keyb_port' = Returned(p)
            /\ Jump(p, "resign_keyb") /\ wm_port' = wm_port,
         Forget(p), UNCHANGED <<vars, received, dataVars>>
  PROVE  KeybInv'
<1> USE Processes
<1>1. pc[0] = "user" /\ active_proc = 0 /\ p = 0
  <2>1. p = 0
    BY WhereTheyAre DEF WithKey, WithClient
  <2> QED  BY <2>1 DEF At
<1>2. /\ rq.state[0] = "READY"
      /\ at[0] = "assign_wm_port" => /\ ret[0] = 1 /\ Exists(2) /\ pc[3] = "free"
                                     /\ next_free_port = 2 /\ keyb_port = NULL
      /\ at[0] = "assign_keyb_port" => /\ ret[0] = 2 /\ Exists(2) /\ Exists(3)
                                       /\ wm_port = 1
      /\ Early /\ windows = <<>>
  BY <1>1 DEF KeybInv, Inv, BootStages, Early
<1>3. /\ at[0] = "assign_wm_port" => wm_port' = 1 /\ at'[0] = "init_keyb"
      /\ at[0] = "assign_keyb_port" => keyb_port' = 2 /\ at'[0] = "resign_keyb"
      /\ \A q \in Proc : q # 0 => at'[q] = at[q] /\ ret'[q] = ret[q]
      /\ at' \in [Proc -> Places] /\ ret' = [q \in Proc |-> ret'[q]]
  BY <1>1, <1>2 DEF KeybInv, Inv, Typed, Returned, Forget, Jump, Places
<1>4. UNCHANGED <<rq, active_proc, param_proc, param_data, next_blocked, port,
                  ports, next_free_port, next_free_pcb, new_proc,
                  interrupt_table, halt, pc, received, dataVars, windows, keyb_msg>>
  BY DEF vars, schedVars, ipcVars, portVars, procVars, dataVars
<1>5. K!IInv'
  BY <1>4, KernelStutter DEF KeybInv
<1>6. BootStages'
  BY <1>1, <1>2, <1>3, <1>4 DEF BootStages, Exists, Early
<1>7. Early'
  BY <1>1, <1>3 DEF Early
<1>8. ServiceFirst'
  <2>1. at'[4] = at[4] /\ ServiceFirst
    BY <1>3 DEF KeybInv, Inv
  <2> QED  BY ONLY <1>1, <1>4, <1>7, <2>1 DEF ServiceFirst
<1>9. \A q \in Proc : q # 0 => Stays(q)
  BY <1>3, <1>4 DEF Stays
<1>10. /\ at[0] \notin {"become_zombie", "dead"}
       /\ pc[0] # "create_port" /\ pc'[0] # "create_port" /\ ret'[3] = ret[3]
       /\ \A q \in Proc : rq'.priority[q] = rq.priority[q]
  BY <1>1, <1>3, <1>4
<1> QED  BY <1>3, <1>4, <1>5, <1>6, <1>8, <1>9, <1>10, BootMoves

LEMMA ResignKeybInv ==
  ASSUME KeybInv, NEW p \in Proc, Runs(p, "resign_keyb"), Resigns(p, "start_shell"),
         UNCHANGED <<wm_port, keyb_port, dataVars>>
  PROVE  KeybInv'
<1> USE Processes
<1>1. pc[0] = "user" /\ at[0] = "resign_keyb" /\ active_proc = 0 /\ p = 0
  <2>1. p = 0
    BY WhereTheyAre DEF Runs, WithKey, WithClient
  <2> QED  BY <2>1 DEF Runs, At
<1>2. /\ at'[0] = "start_shell" /\ at' \in [Proc -> Places]
      /\ \A q \in Proc : q # 0 => at'[q] = at[q]
  BY <1>1 DEF KeybInv, Inv, Typed, Resigns, Jump, Places
<1>3. /\ UNCHANGED <<rq, param_proc, param_data, next_blocked, port,
                     ports, next_free_port, next_free_pcb, new_proc,
                     interrupt_table, halt, pc, received, ret, keyb_msg, windows>>
      /\ active_proc' = dispatcher(rq', active_proc)
  BY DEF Resigns, resign_call, resign, ipcVars, portVars, procVars, dataVars
<1>4. K!IInv' /\ K!HighestStep
  <2>1. \A q \in Proc : PortOf(q)' = PortOf(q)
    BY <1>3 DEF PortOf, Reading
  <2>2. K!Unchanged
    BY <1>3, <2>1, SameWaiting DEF InPcb
  <2>3. K!resign_call(0)
    BY <1>1, <1>3, SameCalls DEF Resigns
  <2>4. K!Resign(0) /\ 0 \in K!Programs
    BY <2>2, <2>3, SameSets DEF K!Resign
  <2> QED  BY <2>4, KernelStep DEF K!GNext, K!Call, KeybInv
<1>5. BootStages'
  BY <1>1, <1>2, <1>3 DEF KeybInv, Inv, BootStages, Exists, Early
<1>6. \A q \in Proc : q # 0 => Stays(q)
  BY <1>2, <1>3 DEF Stays
<1>7. ret' = [q \in Proc |-> ret'[q]]
  BY <1>3 DEF KeybInv, Inv, Typed
<1>8. /\ at[0] \notin {"become_zombie", "dead"}
      /\ pc[0] # "create_port" /\ pc'[0] # "create_port" /\ ret'[3] = ret[3]
      /\ \A q \in Proc : rq'.priority[q] = rq.priority[q]
  BY <1>1, <1>3
<1> QED  BY <1>2, <1>3, <1>4, <1>5, <1>6, <1>7, <1>8, BootMoves

(* The boot process becomes a zombie. *)
LEMMA BootDies ==
  ASSUME KeybInv, pc[0] \in {"user", "zombie_remove", "zombie_resign"}
  PROVE  /\ pc[0] # "user" => at[0] = "dead"
         /\ at[0] \in {"become_zombie", "dead"} => Exists(4) /\ ~Early
         /\ at \in [Proc -> Places] /\ ret = [q \in Proc |-> ret[q]]
BY Processes DEF KeybInv, Inv, BootStages, Typed, Early

LEMMA DiesInv ==
  ASSUME KeybInv, NEW p \in Proc, Runs(p, "become_zombie"), Dies(p),
         UNCHANGED <<wm_port, keyb_port, dataVars>>
  PROVE  KeybInv'
<1> USE Processes
<1>1. pc[0] = "user" /\ at[0] = "become_zombie" /\ active_proc = 0 /\ p = 0
  <2>1. p = 0
    BY WhereTheyAre DEF Runs, WithKey, WithClient
  <2> QED  BY <2>1 DEF Runs, At
<1>2. Exists(4) /\ ~Early /\ ret = [q \in Proc |-> ret[q]] /\ rq.state[0] = "READY"
  BY <1>1, BootDies DEF KeybInv, Inv, BootStages
<1>3. rq \in QueueRecord /\ pc \in [Proc -> Labels]
  BY KernelTypes DEF KeybInv
<1>4. /\ at'[0] = "dead" /\ at' \in [Proc -> Places]
      /\ \A q \in Proc : q # 0 => at'[q] = at[q]
  BY <1>1 DEF KeybInv, Inv, Typed, Dies, Jump, Places
<1>5. /\ rq'.state[0] = "ZOMBIE" /\ pc'[0] = "zombie_remove"
      /\ \A q \in Proc : q # 0 => rq'.state[q] = rq.state[q] /\ pc'[q] = pc[q]
      /\ \A q \in Proc : rq'.priority[q] = rq.priority[q]
  BY <1>1, <1>3 DEF Dies, become_zombie, Goto, QueueRecord
<1>6. UNCHANGED <<active_proc, param_proc, param_data, next_blocked, port,
                  ports, next_free_port, next_free_pcb, new_proc,
                  interrupt_table, halt, received, ret, keyb_msg, windows>>
  BY DEF Dies, become_zombie, ipcVars, portVars, procVars, dataVars
<1>7. K!IInv'
  <2>1. \A r, q \in Proc : InPcb(r, q)' <=> InPcb(r, q)
    BY <1>1, <1>5, <1>6 DEF InPcb
  <2>2. \A q \in Proc : PortOf(q)' = PortOf(q)
    BY <1>6 DEF PortOf, Reading
  <2>3. K!Unchanged
    BY <1>2, <1>5, <1>6, <2>1, <2>2, SameWaiting DEF SendStates, Asks
  <2>4. K!become_zombie(0)
    BY <1>1, <1>6, SameCalls DEF Dies
  <2>5. K!BecomeZombie(0) /\ 0 \in K!Programs
    BY <2>3, <2>4, SameSets DEF K!BecomeZombie
  <2> QED  BY <2>5, KernelStep DEF K!GNext, K!Call, KeybInv
<1>8. BootStages'
  BY <1>1, <1>2, <1>4, <1>5, <1>6 DEF KeybInv, Inv, BootStages, Exists, Early
<1>9. ServiceFirst'
  <2>1. \A q \in {2, 3, 4} : ~Busy(q)
    BY <1>1, <1>2 DEF KeybInv, Inv, ServiceFirst, Services
  <2>2. at[4] = "keyb_scan" /\ rq.state[4] = "READY" => active_proc = 4
    BY DEF KeybInv, Inv, ServiceFirst
  <2> QED  BY <1>4, <1>5, <1>6, <2>1, <2>2 DEF ServiceFirst, Services, Busy, Exists
<1>10. \A q \in Proc : q # 0 => Stays(q)
  BY <1>4, <1>5 DEF Stays
<1>11. /\ at'[0] \in {"become_zombie", "dead"} /\ ret' = [q \in Proc |-> ret'[q]]
       /\ pc[0] # "create_port" /\ pc'[0] # "create_port" /\ ret'[3] = ret[3]
  BY <1>1, <1>2, <1>4, <1>5, <1>6
<1> QED  BY <1>4, <1>5, <1>6, <1>7, <1>8, <1>9, <1>10, <1>11, BootMoves

LEMMA ZombieRemoveInv ==
  ASSUME KeybInv, NEW p \in Proc, zombie_remove(p),
         UNCHANGED <<received, at, ret, wm_port, keyb_port, dataVars>>
  PROVE  KeybInv'
<1> USE Processes
<1>1. p = 0 /\ pc[0] = "zombie_remove" /\ active_proc = 0
  BY CallersAre DEF zombie_remove, At
<1>2. rq \in QueueRecord /\ pc \in [Proc -> Labels]
  BY KernelTypes DEF KeybInv
<1>3. /\ pc'[0] = "zombie_resign" /\ \A q \in Proc : q # 0 => pc'[q] = pc[q]
      /\ rq'.state = rq.state /\ rq'.priority = rq.priority
  BY <1>1, <1>2, StateOf DEF zombie_remove, Goto
<1>4. UNCHANGED <<active_proc, param_proc, param_data, next_blocked, port,
                  ports, next_free_port, next_free_pcb, new_proc,
                  interrupt_table, halt, received, at, ret, keyb_msg, windows>>
  BY DEF zombie_remove, ipcVars, portVars, procVars, dataVars
<1>5. K!IInv'
  <2>1. \A r, q \in Proc : InPcb(r, q)' <=> InPcb(r, q)
    BY <1>1, <1>3, <1>4 DEF InPcb
  <2>2. \A q \in Proc : PortOf(q)' = PortOf(q)
    BY <1>4 DEF PortOf, Reading
  <2>3. K!Unchanged
    BY <1>3, <1>4, <2>1, <2>2, SameWaiting DEF Asks
  <2>4. K!zombie_remove(0)
    BY <1>1, <1>4, SameCalls
  <2>5. K!ZombieRemove(0) /\ 0 \in K!Programs
    BY <2>3, <2>4, SameSets DEF K!ZombieRemove
  <2> QED  BY <2>5, KernelStep DEF K!GNext, K!Call, KeybInv
<1>6. /\ at[0] = "dead" /\ Exists(4) /\ ~Early /\ at \in [Proc -> Places]
      /\ ret = [q \in Proc |-> ret[q]]
  BY <1>1, BootDies
<1>7. BootStages'
  BY <1>1, <1>3, <1>4, <1>6 DEF KeybInv, Inv, BootStages, Exists, Early
<1>8. ServiceFirst'
  <2>1. \A q \in {2, 3, 4} : ~Busy(q)
    BY <1>1, <1>6 DEF KeybInv, Inv, ServiceFirst, Services
  <2>2. at[4] = "keyb_scan" /\ rq.state[4] = "READY" => active_proc = 4
    BY DEF KeybInv, Inv, ServiceFirst
  <2> QED  BY <1>3, <1>4, <2>1, <2>2 DEF ServiceFirst, Services, Busy, Exists
<1>9. \A q \in Proc : q # 0 => Stays(q)
  BY <1>3, <1>4 DEF Stays
<1>10. /\ at'[0] \in {"become_zombie", "dead"} /\ ret' = [q \in Proc |-> ret'[q]]
       /\ pc[0] # "create_port" /\ pc'[0] # "create_port" /\ ret'[3] = ret[3]
       /\ \A q \in Proc : rq'.priority[q] = rq.priority[q] /\ at' \in [Proc -> Places]
  BY <1>1, <1>3, <1>4, <1>6
<1> QED  BY <1>4, <1>5, <1>7, <1>8, <1>9, <1>10, BootMoves

LEMMA ZombieResignInv ==
  ASSUME KeybInv, NEW p \in Proc, zombie_resign(p),
         UNCHANGED <<received, at, ret, wm_port, keyb_port, dataVars>>
  PROVE  KeybInv'
<1> USE Processes
<1>1. p = 0 /\ pc[0] = "zombie_resign"
  BY CallersAre DEF zombie_resign, At
<1>2. pc \in [Proc -> Labels]
  BY KernelTypes DEF KeybInv
<1>3. pc'[0] = "zombie_loop" /\ \A q \in Proc : q # 0 => pc'[q] = pc[q]
  BY <1>1, <1>2 DEF zombie_resign, Goto
<1>4. /\ UNCHANGED <<rq, param_proc, param_data, next_blocked, port,
                  ports, next_free_port, next_free_pcb, new_proc,
                  interrupt_table, halt, received, at, ret, keyb_msg, windows>>
      /\ active_proc' = dispatcher(rq', active_proc)
  BY DEF zombie_resign, resign, ipcVars, portVars, procVars, dataVars
<1>5. K!IInv' /\ K!HighestStep
  <2>1. \A r, q \in Proc : InPcb(r, q)' <=> InPcb(r, q)
    BY <1>1, <1>3, <1>4 DEF InPcb
  <2>2. \A q \in Proc : PortOf(q)' = PortOf(q)
    BY <1>4 DEF PortOf, Reading
  <2>3. K!Unchanged
    BY <1>4, <2>1, <2>2, SameWaiting DEF Asks
  <2>4. K!zombie_resign(0)
    BY <1>1, <1>4, SameCalls
  <2>5. K!ZombieResign(0) /\ 0 \in K!Programs
    BY <2>3, <2>4, SameSets DEF K!ZombieResign
  <2> QED  BY <2>5, KernelStep DEF K!GNext, K!Call, KeybInv
<1>6. /\ at[0] = "dead" /\ Exists(4) /\ ~Early /\ at \in [Proc -> Places]
      /\ ret = [q \in Proc |-> ret[q]]
  BY <1>1, BootDies
<1>7. BootStages'
  BY <1>1, <1>3, <1>4, <1>6 DEF KeybInv, Inv, BootStages, Exists, Early
<1>8. \A q \in Proc : q # 0 => Stays(q)
  BY <1>3, <1>4 DEF Stays
<1>9. /\ at'[0] \in {"become_zombie", "dead"} /\ ret' = [q \in Proc |-> ret'[q]]
      /\ pc[0] # "create_port" /\ pc'[0] # "create_port" /\ ret'[3] = ret[3]
      /\ at' \in [Proc -> Places]
      /\ \A q \in Proc : rq'.priority[q] = rq.priority[q]
  BY <1>1, <1>3, <1>4, <1>6
<1> QED  BY <1>4, <1>5, <1>7, <1>8, <1>9, BootMoves

(* A step that changes nothing. *)
LEMMA StutterInv ==
  ASSUME KeybInv, UNCHANGED keybSystemVars
  PROVE  KeybInv'
<1> SUFFICES K!IInv' /\ Inv'
  BY DEF KeybInv
<1>1. UNCHANGED <<rq, active_proc, param_proc, param_data, next_blocked, port,
                  ports, next_free_port, next_free_pcb, new_proc, interrupt_table,
                  halt, pc, received, at, ret, wm_port, keyb_port, dataVars,
                  windows, keyb_msg>>
  BY DEF keybSystemVars, vars, schedVars, ipcVars, portVars, procVars, progVars,
         wmVars, keybVars, dataVars, localVars
<1>2. K!IInv'
  BY <1>1, KernelStutter DEF KeybInv
<1>3. \A q \in Proc : Stays(q)
  BY <1>1 DEF Stays
<1>4. BootStages'
  BY <1>1 DEF KeybInv, Inv, BootStages, Exists, Early
<1>5. ServiceFirst'
  BY <1>1 DEF KeybInv, Inv, ServiceFirst, Services, Busy, Exists, Early
<1>6. CASE pc[0] # "create_port"
  <2>1. /\ at \in [Proc -> Places] /\ ret = [q \in Proc |-> ret[q]]
    BY DEF KeybInv, Inv, Typed
  <2> QED  BY <1>1, <1>2, <1>3, <1>4, <1>5, <1>6, <2>1, BootMoves DEF KeybInv
<1>7. CASE pc[0] = "create_port"
  <2>1. FrameInv'
    BY <1>1 DEF KeybInv, Inv, FrameInv, Typed, BootStages, ManagerStages, ServiceStages,
       NotifierStages, ProgramStages, PortsAreOwned, HavePriorities, OnlyKeysAreAwaited,
       Exists, Early
  <2>2. DataInv'
    <3>1. SamePlaces
      BY <1>1 DEF SamePlaces
    <3>2. rq'.state[0] \in {"READY", "ZOMBIE"}
      BY <1>1 DEF KeybInv, Inv, BootStages
    <3> QED  BY <1>1, <3>1, <3>2, DataIsKept
  <2>3. KeybNeverPanics'
    BY <1>1, Zenon DEF KeybInv, Inv, KeybNeverPanics
  <2> QED  BY <1>2, <1>5, <2>1, <2>2, <2>3 DEF Inv, FrameInv, DataInv
<1> QED  BY <1>6, <1>7

-----------------------------------------------------------------------------
(* Senders and receivers *)

(* The sender of a call that waits for the manager or the keyboard process. *)
LEMMA NewWaiter ==
  ASSUME NEW p \in Proc, rq.state[p] = "READY", NEW po, PortOf(p)' = po,
         \A q \in Proc : q # p =>
           /\ rq'.state[q] \in SendStates <=> rq.state[q] \in SendStates
           /\ rq.state[q] \in SendStates => PortOf(q)' = PortOf(q)
  PROVE  K!WaitsOn(p, po)
<1>1. /\ SentTo = [q \in Proc |-> SentTo[q]] /\ SentTo' = [q \in Proc |-> SentTo'[q]]
  BY DEF SentTo
<1>2. \A q \in Proc : q # p => SentTo'[q] = SentTo[q]
  BY DEF SentTo, SendStates
<1>3. SentTo'[p] = IF rq'.state[p] \in SendStates THEN po ELSE SentTo[p]
  BY DEF SentTo, SendStates
<1> QED  BY ONLY <1>1, <1>2, <1>3 DEF K!WaitsOn, K!SendStates, SendStates

LEMMA SameClients ==
  ASSUME \A s, r \in Proc : Asks(s, r)' /\ ~InPcb(r, s)' <=> Asks(s, r) /\ ~InPcb(r, s)
  PROVE  ToReply' = ToReply
BY DEF ToReply

(* The senders after a receive(). *)
LEMMA WaitsAfterReceive ==
  ASSUME keyb_msg' = keyb_msg,
         \A q \in Proc : rq'.state[q] \in SendStates => rq.state[q] \in SendStates
  PROVE  SentTo' = [s \in Proc |-> IF rq'.state[s] \in K!SendStates
                                   THEN SentTo[s] ELSE NULL]
BY DEF SentTo, K!SendStates, SendStates, PortOf, Reading

(* Programs and keyb_process wait for replies, keyb_process also to be     *)
(* heard, the notifier for its message to be taken; nobody else waits.     *)
LEMMA BlockedAre ==
  ASSUME KeybInv, NEW s \in Proc, rq.state[s] \in SendStates
  PROVE  /\ pc[s] = "user"
         /\ \/ /\ s = 3 /\ rq.state[s] \in {"SEND_BLOCKED", "REPLY_BLOCKED"}
               /\ at[s] \in Asking /\ PortOf(s) = 1
            \/ /\ s = 4 /\ rq.state[s] = "MESSAGE_BLOCKED"
               /\ at[s] = "keyb_notifier" /\ PortOf(s) = 2
            \/ /\ s > 4 /\ rq.state[s] = "REPLY_BLOCKED" /\ at[s] = "program"
               /\ PortOf(s) = IF Reading(s) THEN 2 ELSE 1
<1> USE Processes DEF SendStates
<1>1. s # 0
  BY DEF KeybInv, Inv, BootStages
<1>2. s # 1
  BY SameSets DEF KeybInv, K!IInv, K!LabelsMatchStates
<1>3. s # 2
  <2>1. ManagerStages /\ (pc[2] = "receive" => rq.state[2] \in {"READY", "RECEIVE_BLOCKED"})
    BY KernelPlaces DEF KeybInv, Inv
  <2> QED  BY ONLY <2>1, rq.state[s] \in SendStates DEF ManagerStages, SendStates
<1>4. CASE s = 3
  <2>1. /\ ServiceStages
        /\ pc[3] = "receive" => rq.state[3] \in {"READY", "RECEIVE_BLOCKED"}
        /\ pc[3] \in {"create_port", "create_ready", "embryo", "free"} => rq.state[3] = "READY"
    BY KernelPlaces DEF KeybInv, Inv
  <2>2. pc[3] = "user" /\ rq.state[3] \in {"SEND_BLOCKED", "REPLY_BLOCKED"} /\ at[3] \in Asking
    BY ONLY <1>4, <2>1, rq.state[s] \in SendStates DEF ServiceStages, SendStates
  <2>3. PortOf(3) = 1
    BY DEF PortOf, KeybInv, Inv, ProgramsHaveWindows
  <2> QED  BY <1>4, <2>2, <2>3
<1>5. CASE s = 4
  <2>1. /\ NotifierStages
        /\ pc[4] = "wait_for_interrupt" => rq.state[4] \in {"READY", "INTR_BLOCKED"}
        /\ pc[4] \in {"embryo", "free"} => rq.state[4] = "READY"
    BY KernelPlaces DEF KeybInv, Inv
  <2>2. pc[4] = "user" /\ rq.state[4] = "MESSAGE_BLOCKED" /\ at[4] = "keyb_notifier"
    BY ONLY <1>5, <2>1, rq.state[s] \in SendStates DEF NotifierStages, SendStates
  <2> QED  BY <1>5, <2>2 DEF PortOf
<1>6. CASE s > 4
  <2>1. /\ ProgramStages!2!(s)!2
        /\ pc[s] \in {"create_port", "create_ready", "embryo", "free"} => rq.state[s] = "READY"
    BY <1>6, KernelPlaces DEF KeybInv, Inv, ProgramStages
  <2>2. pc[s] = "user" /\ rq.state[s] = "REPLY_BLOCKED" /\ at[s] = "program"
    BY ONLY <2>1, rq.state[s] \in SendStates DEF SendStates
  <2> QED  BY <1>6, <2>2 DEF PortOf
<1> QED  BY <1>1, <1>2, <1>3, <1>4, <1>5, <1>6

(* Whose reply a process waits for. *)
LEMMA AsksMeans ==
  ASSUME KeybInv, NEW s \in Proc, rq.state[s] = "REPLY_BLOCKED"
  PROVE  /\ \A r \in Proc : SentTo[s] \in K!Own(r) <=> Asks(s, r)
         /\ Asks(s, 2) <=> PortOf(s) = 1
         /\ Asks(s, 3) <=> PortOf(s) = 2
<1> USE Processes
<1>1. SentTo[s] = PortOf(s) /\ PortOf(s) \in {1, 2} /\ {1, 2} \subseteq Port
  BY KernelConstants DEF SentTo, PortOf
<1>2. port[PortOf(s)].owner \in Proc
  BY <1>1, SameSets DEF KeybInv, K!IInv, K!SendersKnowThePort
<1>3. PortOf(s) < next_free_port /\ next_free_port \in Int
  <2>1. port[PortOf(s)].owner # NULL
    BY <1>2
  <2>2. next_free_port \in Int
    BY KernelTypes, PortsAssumption DEF KeybInv
  <2> QED  BY <1>1, <2>1, <2>2, SameSets DEF KeybInv, K!IInv, K!PortsHaveOwners
<1>4. port[PortOf(s)].owner = PortOf(s) + 1
  BY <1>1, <1>3 DEF KeybInv, Inv, PortsAreOwned
<1>5. \A r \in Proc : SentTo[s] \in K!Own(r) <=> r = PortOf(s) + 1
  BY <1>1, <1>4, SameSets DEF K!Own
<1>6. \A r : Asks(s, r) <=> (r = 2 /\ PortOf(s) = 1) \/ (r = 3 /\ PortOf(s) = 2)
  BY DEF Asks
<1> QED  BY ONLY <1>1, <1>5, <1>6, Processes

(* Who is in the lists of blocked senders of the three ports. *)
LEMMA TheLists ==
  ASSUME KeybInv
  PROVE  /\ port[1].blocked_list_head = IF rq.state[3] = "SEND_BLOCKED" THEN 3 ELSE NULL
         /\ port[2].blocked_list_head = IF rq.state[4] = "MESSAGE_BLOCKED" THEN 4 ELSE NULL
         /\ port[3].blocked_list_head = NULL
<1> USE Processes
<1>1. \A po \in {1, 2, 3} : K!ListHolds(next_blocked, port[po].blocked_list_head,
                  port[po].blocked_list_tail, K!BlockedOn(po))
  BY KernelConstants, SameSets DEF KeybInv, K!IInv, K!BlockedListsAreQueues
<1>2. \A po \in {1, 2, 3} :
        K!BlockedOn(po) = {s \in Proc : /\ rq.state[s] \in {"SEND_BLOCKED", "MESSAGE_BLOCKED"}
                                        /\ PortOf(s) = po}
  BY SameSets DEF K!BlockedOn, SentTo
<1>3. \A s \in Proc : rq.state[s] \in {"SEND_BLOCKED", "MESSAGE_BLOCKED"} =>
        \/ s = 3 /\ rq.state[s] = "SEND_BLOCKED" /\ PortOf(s) = 1
        \/ s = 4 /\ rq.state[s] = "MESSAGE_BLOCKED" /\ PortOf(s) = 2
  <2> SUFFICES ASSUME NEW s \in Proc, rq.state[s] \in {"SEND_BLOCKED", "MESSAGE_BLOCKED"}
               PROVE  \/ s = 3 /\ rq.state[s] = "SEND_BLOCKED" /\ PortOf(s) = 1
                      \/ s = 4 /\ rq.state[s] = "MESSAGE_BLOCKED" /\ PortOf(s) = 2
    OBVIOUS
  <2>1. rq.state[s] \in SendStates
    BY DEF SendStates
  <2> QED  BY <2>1, BlockedAre
<1>4. /\ rq.state[3] = "SEND_BLOCKED" => PortOf(3) = 1
      /\ rq.state[4] = "MESSAGE_BLOCKED" => PortOf(4) = 2
  BY <1>3
<1>5. /\ K!BlockedOn(1) = IF rq.state[3] = "SEND_BLOCKED" THEN {3} ELSE {}
      /\ K!BlockedOn(2) = IF rq.state[4] = "MESSAGE_BLOCKED" THEN {4} ELSE {}
      /\ K!BlockedOn(3) = {}
  <2>1. K!BlockedOn(1) = IF rq.state[3] = "SEND_BLOCKED" THEN {3} ELSE {}
    <3>1. \A s \in Proc : /\ rq.state[s] \in {"SEND_BLOCKED", "MESSAGE_BLOCKED"}
                         /\ PortOf(s) = 1
                         <=> s = 3 /\ rq.state[3] = "SEND_BLOCKED"
      BY ONLY <1>3, <1>4
    <3>2. K!BlockedOn(1) = {s \in Proc : s = 3 /\ rq.state[3] = "SEND_BLOCKED"}
      BY ONLY <1>2, <3>1
    <3>3. 3 \in Proc
      BY ONLY Processes
    <3> QED  BY ONLY <3>2, <3>3
  <2>2. K!BlockedOn(2) = IF rq.state[4] = "MESSAGE_BLOCKED" THEN {4} ELSE {}
    <3>1. \A s \in Proc : /\ rq.state[s] \in {"SEND_BLOCKED", "MESSAGE_BLOCKED"}
                         /\ PortOf(s) = 2
                         <=> s = 4 /\ rq.state[4] = "MESSAGE_BLOCKED"
      BY ONLY <1>3, <1>4
    <3>2. K!BlockedOn(2) = {s \in Proc : s = 4 /\ rq.state[4] = "MESSAGE_BLOCKED"}
      BY ONLY <1>2, <3>1
    <3>3. 4 \in Proc
      BY ONLY Processes
    <3> QED  BY ONLY <3>2, <3>3
  <2>3. K!BlockedOn(3) = {}
    <3>1. \A s \in Proc : ~(/\ rq.state[s] \in {"SEND_BLOCKED", "MESSAGE_BLOCKED"}
                           /\ PortOf(s) = 3)
      BY ONLY <1>3
    <3> QED  BY ONLY <1>2, <3>1
  <2> QED  BY <2>1, <2>2, <2>3
<1>6. \A po \in {1, 2, 3} :
        IF K!BlockedOn(po) = {} THEN port[po].blocked_list_head = NULL
        ELSE port[po].blocked_list_head \in K!BlockedOn(po)
  BY <1>1, Zenon DEF K!ListHolds
<1> QED  BY ONLY <1>5, <1>6

(* The manager and keyb_process are waited for in vain by nobody.          *)
LEMMA NobodyIsMissed ==
  ASSUME KeybInv
  PROVE  /\ rq.state[2] = "RECEIVE_BLOCKED" => rq.state[3] # "SEND_BLOCKED"
         /\ rq.state[3] = "RECEIVE_BLOCKED" => rq.state[4] # "MESSAGE_BLOCKED"
<1> USE Processes
<1>1. \A p \in Proc : rq.state[p] = "RECEIVE_BLOCKED" => Exists(p) /\ pc[p] = "receive"
  <2> TAKE p \in Proc
  <2>1. pc[p] \in {"user", "receive", "wait_for_interrupt", "zombie_remove",
                   "zombie_resign", "zombie_loop", "create_port", "create_ready",
                   "embryo", "free"}
    BY KernelTypes DEF KeybInv, Labels, CallLabels
  <2> QED  BY <2>1, KernelPlaces DEF KeybInv, Exists
<1>2. /\ next_free_port \in Int /\ {1, 2} \subseteq Port
      /\ Exists(2) => next_free_port >= 2
      /\ Exists(3) => next_free_port >= 3
  BY KernelTypes, KernelConstants, PortsAssumption DEF KeybInv, Inv, PortsAreOwned
<1>3. /\ Exists(2) => port[1].owner = 2 /\ port[1].open
      /\ Exists(3) => port[2].owner = 3 /\ port[2].open
  BY <1>2 DEF KeybInv, Inv, PortsAreOwned
<1>4. /\ rq.state[2] = "RECEIVE_BLOCKED" => port[1].blocked_list_head = NULL
      /\ rq.state[3] = "RECEIVE_BLOCKED" => port[2].blocked_list_head = NULL
  BY <1>1, <1>2, <1>3, SameSets DEF KeybInv, K!IInv, K!NoLostWakeup, K!Own
<1> QED  BY ONLY <1>4, TheLists, KeybInv, Processes

(* While a program runs, the manager and keyb_process wait. *)
LEMMA ProgramRuns ==
  ASSUME KeybInv, NEW p \in Proc, At(p, "user"), at[p] \in {"start", "program"}
  PROVE  /\ p > 4 /\ wm_port = 1 /\ keyb_port = 2 /\ active_proc = p /\ pc[p] = "user"
         /\ Exists(2) /\ Exists(3) /\ Exists(4) /\ ~Early
         /\ pc[2] = "receive" /\ rq.state[2] = "RECEIVE_BLOCKED" /\ at[2] = "wm_handle"
         /\ pc[3] = "receive" /\ rq.state[3] = "RECEIVE_BLOCKED" /\ at[3] = "keyb_received"
         /\ rq.state[4] \notin {"READY", "MESSAGE_BLOCKED"}
         /\ rq.state[p] = "READY" /\ ~Reading(p)
         /\ \A q \in Proc : ~Asks(q, 2)
<1> USE Processes
<1>1. p > 4
  BY WhereTheyAre DEF BootPlaces, WithKey, WithClient
<1>2. active_proc = p /\ pc[p] = "user" /\ rq.state[p] = "READY"
  <2>1. rq.state[p] = "READY" \/ pc[p] \in {"zombie_remove", "zombie_resign", "zombie_loop"}
    BY KernelPlaces DEF At, KeybInv
  <2> QED  BY <2>1 DEF At
<1>3. Exists(4) /\ ~Early
  BY <1>1, <1>2 DEF KeybInv, Inv, ProgramStages, Early
<1>4. Exists(3) /\ Exists(2)
  <2>1. Exists(3)
    BY <1>3 DEF KeybInv, Inv, ServiceStages, Exists
  <2> QED  BY <2>1 DEF KeybInv, Inv, ManagerStages, Exists
<1>5. wm_port = 1 /\ keyb_port = 2
  BY <1>3 DEF KeybInv, Inv, BootStages, Early
<1>6. rq.state[2] # "READY" /\ rq.state[3] # "READY" /\ rq.state[4] # "READY"
  BY <1>1, <1>2, <1>3, <1>4 DEF KeybInv, Inv, ServiceFirst, Services, Busy
<1>7. pc[2] = "receive" /\ rq.state[2] = "RECEIVE_BLOCKED" /\ at[2] = "wm_handle"
  BY <1>6, KernelPlaces DEF KeybInv, Inv, ManagerStages
<1>8. \A q \in Proc : ~Asks(q, 2)
  BY <1>7 DEF KeybInv, Inv, OneAtATime, Handles
<1>9. pc[3] = "receive" /\ rq.state[3] = "RECEIVE_BLOCKED" /\ at[3] = "keyb_received"
  <2>1. rq.state[3] \notin SendStates
    <3>1. rq.state[3] # "SEND_BLOCKED"
      BY <1>7, NobodyIsMissed
    <3>2. rq.state[3] # "REPLY_BLOCKED"
      <4>1. CASE rq.state[3] = "REPLY_BLOCKED"
        <5>1. rq.state[3] \in SendStates
          BY <4>1 DEF SendStates
        <5>2. PortOf(3) = 1
          BY <5>1, BlockedAre
        <5> QED  BY <1>8, <4>1, <5>2 DEF Asks
      <4> QED  BY <4>1
    <3>3. rq.state[3] # "MESSAGE_BLOCKED"
      <4>1. CASE rq.state[3] = "MESSAGE_BLOCKED"
        <5>1. rq.state[3] \in SendStates
          BY <4>1 DEF SendStates
        <5> QED  BY <4>1, <5>1, BlockedAre
      <4> QED  BY <4>1
    <3> QED  BY <3>1, <3>2, <3>3 DEF SendStates
  <2> QED  BY <1>6, <2>1, KernelPlaces DEF KeybInv, Inv, ServiceStages, SendStates
<1>10. rq.state[4] # "MESSAGE_BLOCKED"
  BY <1>9, NobodyIsMissed
<1>11. ~Reading(p)
  BY <1>2 DEF KeybInv, Inv, ProgramsHaveWindows
<1> QED  BY <1>1, <1>2, <1>3, <1>4, <1>5, <1>6, <1>7, <1>8, <1>9, <1>10, <1>11

(* Process p gets to label next of its program; the kernel keeps what it   *)
(* knows of processes and ports.                                           *)
Steps(p, next) ==
  /\ K!IInv' /\ halt' = halt
  /\ at'[p] = next /\ at' \in [Proc -> Places]
  /\ \A q \in Proc : q # p => at'[q] = at[q]
  /\ \A q \in Proc : rq'.priority[q] = rq.priority[q]
  /\ \A po \in Port : port'[po].owner = port[po].owner /\ port'[po].open = port[po].open
  /\ UNCHANGED <<ret, ports, next_free_port, next_free_pcb, new_proc, wm_port, keyb_port>>

LEMMA Framed ==
  ASSUME KeybInv, NEW p \in Proc, p # 0, p # 1, NEW next, Steps(p, next), Moves,
         pc'[0] = pc[0], rq'.state[0] = rq.state[0],
         pc'[1] = pc[1], rq'.state[1] = rq.state[1],
         windows' # <<>> => windows # <<>> \/ ~Early,
         \A irq \in Irq : interrupt_table'[irq] # NULL =>
           irq = KEYB_IRQ \/ interrupt_table[irq] # NULL
  PROVE  FrameInv' /\ KeybNeverPanics'
<1> USE Processes
<1>1. Stays(0) /\ Stays(1) /\ at'[0] = at[0]
  BY DEF Steps, Stays
<1>2. /\ pc[0] \notin {"free", "embryo"}
      /\ (pc[0] # "create_port" /\ pc'[0] # "create_port") \/ pc'[0] = pc[0]
  BY DEF KeybInv, Inv, BootStages
<1>3. /\ UNCHANGED <<ports, next_free_port, next_free_pcb, new_proc, wm_port, keyb_port, ret>>
      /\ at' \in [Proc -> Places] /\ ret' = [q \in Proc |-> ret'[q]]
      /\ \A q \in Proc : rq'.priority[q] = rq.priority[q]
      /\ \A po \in Port : port'[po].owner = port[po].owner /\ port'[po].open = port[po].open
      /\ halt' = halt
  BY DEF Steps, KeybInv, Inv, Typed
<1>4. BootStages'
  BY <1>1, <1>3, BootIsKept
<1>5. FrameInv'
  BY <1>1, <1>2, <1>3, <1>4, FrameIsKept
<1>6. KeybNeverPanics'
  BY <1>3, Zenon DEF KeybInv, Inv, KeybNeverPanics
<1> QED  BY <1>5, <1>6

(* What the frame and the data make together. *)
LEMMA Together ==
  ASSUME K!IInv', FrameInv', KeybNeverPanics', ServiceFirst', DataInv'
  PROVE  KeybInv'
BY DEF KeybInv, Inv, FrameInv, DataInv

(* What process p does alone. *)
LEMMA ComputesStep ==
  ASSUME KeybInv, NEW p \in Proc, At(p, "user"), NEW next \in Places, Computes(p, next),
         UNCHANGED <<keyb_msg, wm_port, keyb_port>>
  PROVE  /\ Steps(p, next) /\ pc[p] = "user" /\ active_proc = p
         /\ UNCHANGED <<rq, active_proc, param_proc, param_data, port,
                        interrupt_table, pc, received>>
<1> USE Processes
<1>1. pc[p] = "user" /\ active_proc = p
  BY DEF At
<1>2. UNCHANGED <<rq, active_proc, param_proc, param_data, next_blocked, port, ports,
                  next_free_port, next_free_pcb, new_proc, interrupt_table, halt, pc,
                  received, ret>>
  BY DEF Computes, vars, schedVars, ipcVars, portVars, procVars
<1>3. /\ at'[p] = next /\ at' \in [Proc -> Places]
      /\ \A q \in Proc : q # p => at'[q] = at[q]
  BY DEF Computes, Jump, KeybInv, Inv, Typed
<1>4. K!IInv'
  BY <1>2, KernelStutter DEF KeybInv
<1> QED  BY <1>1, <1>2, <1>3, <1>4 DEF Steps

(* The manager or keyb_process waits for a message. *)
LEMMA BlocksStep ==
  ASSUME KeybInv, NEW p \in {2, 3}, At(p, "user"), ports[p] # <<>>,
         receive(p), receive_block(p), NEW next \in Places, Jump(p, next),
         UNCHANGED <<ret, keyb_msg, wm_port, keyb_port>>
  PROVE  /\ Steps(p, next) /\ K!HighestStep /\ pc[p] = "user" /\ active_proc = p
         /\ active_proc' = dispatcher(rq', active_proc)
         /\ pc'[p] = "receive" /\ \A q \in Proc : q # p => pc'[q] = pc[q]
         /\ rq.state[p] = "READY" /\ rq'.state[p] = "RECEIVE_BLOCKED"
         /\ \A q \in Proc : q # p => /\ rq'.state[q] = rq.state[q]
                                     /\ param_data'[q] = param_data[q]
                                     /\ received'[q] = received[q]
         /\ UNCHANGED <<param_proc, interrupt_table>>
<1> USE Processes
<1>1. pc[p] = "user" /\ active_proc = p /\ rq.state[p] = "READY"
  BY KernelPlaces DEF At, KeybInv
<1>2. /\ rq \in QueueRecord /\ pc \in [Proc -> Labels]
      /\ param_data \in [Proc -> Proc \cup {NULL}]
      /\ received = [q \in Proc |-> received[q]]
  BY KernelTypes, SameSets DEF KeybInv, K!IInv, K!GTypeOK, K!TypeOK
<1>3. /\ Pending(p) = {}
      /\ rq' = [remove_ready_queue(rq, p) EXCEPT !.state[p] = "RECEIVE_BLOCKED"]
      /\ active_proc' = dispatcher(rq', active_proc)
      /\ param_data' = [param_data EXCEPT ![p] = NULL]
      /\ received' = [received EXCEPT ![p] = NULL]
      /\ pc' = [pc EXCEPT ![p] = "receive"]
      /\ UNCHANGED <<param_proc, next_blocked, port>>
  BY DEF receive_block, resign, Goto
<1>4. UNCHANGED <<portVars, procVars, interrupt_table, halt>>
  BY Zenon DEF receive
<1>5. /\ rq'.state[p] = "RECEIVE_BLOCKED" /\ rq'.priority = rq.priority
      /\ \A q \in Proc : q # p => rq'.state[q] = rq.state[q]
  BY ONLY <1>2, <1>3, Processes DEF QueueRecord, remove_ready_queue
<1>6. /\ pc'[p] = "receive"
      /\ \A q \in Proc : q # p => /\ pc'[q] = pc[q]
                                  /\ param_data'[q] = param_data[q]
                                  /\ received'[q] = received[q]
  BY ONLY <1>2, <1>3, Processes
<1>7. /\ at'[p] = next /\ at' \in [Proc -> Places]
      /\ \A q \in Proc : q # p => at'[q] = at[q]
  BY DEF Jump, KeybInv, Inv, Typed
<1>8. UNCHANGED <<param_proc, port, ports, next_free_port, next_free_pcb, new_proc,
                  interrupt_table, halt, ret>>
  BY <1>3, <1>4 DEF portVars, procVars
<1>9. K!IInv' /\ K!HighestStep
  <2>1. ToReply' = ToReply
    <3>1. \A r, q \in Proc : ~(pc[p] = "receive") /\ (InPcb(r, q)' <=> InPcb(r, q))
      BY <1>1, <1>5, <1>6, <1>8 DEF InPcb
    <3>2. \A q, r \in Proc : Asks(q, r)' <=> Asks(q, r)
      BY <1>1, <1>5 DEF Asks, PortOf, Reading
    <3> QED  BY <3>1, <3>2, SameClients
  <2>2. SentTo' = [s \in Proc |-> IF rq'.state[s] \in K!SendStates THEN SentTo[s] ELSE NULL]
    <3>1. \A q \in Proc : rq'.state[q] \in SendStates => rq.state[q] \in SendStates
      BY <1>5 DEF SendStates
    <3> QED  BY <3>1, WaitsAfterReceive
  <2>3. K!receive(p) /\ K!Pending(p) = {}
    BY <1>3, <1>8, SameMessageCalls DEF K!Pending, Pending
  <2>4. ToReply' = [ToReply EXCEPT ![p] = IF K!Pending(p) = {} THEN @ ELSE @ \cup K!NewClient(p)]
    <3>1. ToReply = [q \in Proc |-> ToReply[q]]
      BY DEF ToReply
    <3> HIDE DEF ToReply
    <3> QED  BY ONLY <2>1, <2>3, <3>1
  <2>5. K!Receive(p) /\ p \in K!Programs
    BY <2>2, <2>3, <2>4, SameSets DEF K!Receive
  <2> QED  BY <2>5, KernelStep DEF K!GNext, K!Call, KeybInv
<1> QED  BY <1>1, <1>3, <1>5, <1>6, <1>7, <1>8, <1>9 DEF Steps

(* receive() returns what was left in the PCB. *)
LEMMA ReturnStep ==
  ASSUME KeybInv, NEW p \in Proc, receive_return(p),
         UNCHANGED <<at, ret, keyb_msg, wm_port, keyb_port>>
  PROVE  /\ p \in {2, 3} /\ Steps(p, at[p]) /\ active_proc = p /\ pc[p] = "receive"
         /\ pc'[p] = "user" /\ \A q \in Proc : q # p => pc'[q] = pc[q]
         /\ received'[p][1] = param_proc[p] /\ received'[p][2] = param_data[p]
         /\ \A q \in Proc : q # p => received'[q] = received[q]
         /\ rq.state[p] = "READY"
         /\ UNCHANGED <<rq, active_proc, param_proc, param_data, port, interrupt_table, at>>
<1> USE Processes
<1>1. p \in {2, 3} /\ pc[p] = "receive" /\ active_proc = p /\ rq.state[p] = "READY"
  BY CallersAre, KernelPlaces DEF receive_return, At, KeybInv
<1>2. /\ pc \in [Proc -> Labels] /\ received = [q \in Proc |-> received[q]]
  BY KernelTypes, SameSets DEF KeybInv, K!IInv, K!GTypeOK, K!TypeOK
<1>3. /\ pc'[p] = "user" /\ \A q \in Proc : q # p => pc'[q] = pc[q]
      /\ received'[p] = <<param_proc[p], param_data[p]>>
      /\ \A q \in Proc : q # p => received'[q] = received[q]
  BY <1>1, <1>2 DEF receive_return, Goto
<1>4. UNCHANGED <<rq, active_proc, param_proc, param_data, next_blocked, port, ports,
                  next_free_port, next_free_pcb, new_proc, interrupt_table, halt>>
  BY DEF receive_return, schedVars, ipcVars, portVars, procVars
<1>5. K!IInv'
  <2>1. SentTo' = SentTo
    BY <1>4 DEF SentTo, PortOf, Reading
  <2>2. K!receive_return(p)
    BY <1>4, SameMessageCalls
  <2>3. K!NewClient(p) = {s \in Proc : s = param_proc[p] /\ Asks(s, p)}
    <3>1. \A s \in Proc : rq.state[s] = "REPLY_BLOCKED" => (SentTo[s] \in K!Own(p) <=> Asks(s, p))
      BY AsksMeans
    <3>2. \A s \in Proc : Asks(s, p) => rq.state[s] = "REPLY_BLOCKED"
      BY DEF Asks
    <3>3. received'[p][1] = param_proc[p] /\ rq' = rq
      BY <1>3, <1>4
    <3> HIDE DEF SentTo
    <3> QED  BY ONLY <3>1, <3>2, <3>3, SameSets DEF K!NewClient
  <2>4. ToReply' = [ToReply EXCEPT ![p] = @ \cup K!NewClient(p)]
    <3>1. \A s, r \in Proc : Asks(s, r)' <=> Asks(s, r)
      BY <1>4 DEF Asks, PortOf, Reading
    <3>2. \A s \in Proc : (InPcb(p, s) <=> s = param_proc[p]) /\ ~InPcb(p, s)'
      BY <1>1, <1>3 DEF InPcb
    <3>3. \A r, s \in Proc : r # p => (InPcb(r, s)' <=> InPcb(r, s))
      BY <1>3, <1>4 DEF InPcb
    <3>4. ToReply'[p] = ToReply[p] \cup K!NewClient(p)
      BY <2>3, <3>1, <3>2 DEF ToReply
    <3>5. \A r \in Proc : r # p => ToReply'[r] = ToReply[r]
      BY <3>1, <3>3 DEF ToReply
    <3>6. /\ ToReply = [r \in Proc |-> ToReply[r]]
          /\ ToReply' = [r \in Proc |-> ToReply'[r]]
      BY DEF ToReply
    <3> HIDE DEF ToReply
    <3> QED  BY ONLY <3>4, <3>5, <3>6
  <2>5. K!ReceiveReturn(p) /\ p \in K!Programs
    BY <1>1, <2>1, <2>2, <2>4, SameSets DEF K!ReceiveReturn
  <2> QED  BY <2>5, KernelStep DEF K!GNext, K!Call, KeybInv
<1>6. at' \in [Proc -> Places]
  BY DEF KeybInv, Inv, Typed
<1> QED  BY <1>1, <1>3, <1>4, <1>5, <1>6 DEF Steps

(* The manager, keyb_process and the notifier have one port each. *)
LEMMA OwnsPort ==
  ASSUME KeybInv, NEW p \in {2, 3, 4}, Exists(p)
  PROVE  /\ p - 1 \in {1, 2, 3} /\ p - 1 \in Port /\ port[p - 1].owner = p /\ port[p - 1].open
         /\ ports[p] # <<>> /\ DOMAIN ports[p] = {1} /\ ports[p][1] = p - 1
         /\ p - 1 \in K!Own(p) /\ p - 1 \in K!Known
<1> USE Processes
<1>1. /\ next_free_port \in Int /\ {1, 2, 3} \subseteq Port
      /\ next_free_port >= p
  BY KernelTypes, KernelConstants, PortsAssumption DEF KeybInv, Inv, PortsAreOwned
<1>2. PICK po \in {1, 2, 3} : po = p - 1
  OBVIOUS
<1>3. po \in Port /\ po < next_free_port /\ port[po].owner = p
  BY <1>1, <1>2 DEF KeybInv, Inv, PortsAreOwned
<1>4. /\ port[po].open /\ ports[p] \in Seq(Port) /\ ports[p] # <<>>
      /\ Len(ports[p]) = 1 /\ ports[p][1] = po
  BY <1>3, OwnPort
<1>5. DOMAIN ports[p] = {1}
  <2>1. \A t \in Seq(Port) : Len(t) = 1 => DOMAIN t = {1}
    OBVIOUS
  <2> QED  BY <1>4, <2>1, Zenon
<1>6. po \in K!Own(p) /\ po \in K!Known
  BY <1>3, SameSets DEF K!Own, K!Known, Exists
<1> QED  BY <1>2, <1>3, <1>4, <1>5, <1>6

(* receive() takes the sender it finds: the manager takes keyb_process,    *)
(* keyb_process the notifier.                                              *)
LEMMA TakesStep ==
  ASSUME KeybInv, NEW p \in {2, 3}, At(p, "user"), receive(p), receive_pending(p),
         NEW next \in Places, Jump(p, next), UNCHANGED <<ret, keyb_msg, wm_port, keyb_port>>
  PROVE  /\ Steps(p, next) /\ pc[p] = "user" /\ active_proc = p /\ rq.state[p] = "READY"
         /\ \E h \in Proc :
              /\ \/ p = 2 /\ h = 3 /\ rq.state[h] = "SEND_BLOCKED"
                    /\ rq'.state[h] = "REPLY_BLOCKED"
                 \/ p = 3 /\ h = 4 /\ rq.state[h] = "MESSAGE_BLOCKED"
                    /\ rq'.state[h] = "READY"
              /\ \A q \in Proc : q # h => rq'.state[q] = rq.state[q]
              /\ received'[p][1] = h /\ received'[p][2] = param_data[h]
         /\ \A q \in Proc : q # p => received'[q] = received[q]
         /\ UNCHANGED <<active_proc, param_proc, param_data, interrupt_table, pc>>
<1> USE Processes
<1>1. /\ pc[p] = "user" /\ active_proc = p /\ rq.state[p] = "READY"
  BY KernelPlaces DEF At, KeybInv
<1>2. PICK po \in {1, 2, 3} :
        /\ po = p - 1 /\ po \in Port /\ port[po].owner = p
        /\ ports[p] # <<>> /\ DOMAIN ports[p] = {1} /\ ports[p][1] = po /\ po \in K!Own(p)
  BY <1>1, OwnsPort DEF Exists
<1>3. /\ rq \in QueueRecord /\ param_data \in [Proc -> Proc \cup {NULL}]
      /\ received = [q \in Proc |-> received[q]]
      /\ port \in [Port -> [open : BOOLEAN, owner : ProcOrNull,
                            blocked_list_head : ProcOrNull,
                            blocked_list_tail : ProcOrNull]]
  BY KernelTypes, SameSets DEF KeybInv, K!IInv, K!GTypeOK, K!TypeOK
<1>4. 1 \in Pending(p) /\ receive_pending(p)!(1)
  <2>1. PICK j \in Pending(p) : receive_pending(p)!(j)
    BY DEF receive_pending
  <2>2. j = 1
    BY <1>2 DEF Pending
  <2> QED  BY <2>1, <2>2
<1>5. UNCHANGED <<portVars, procVars, interrupt_table, halt>>
  BY <1>2, Zenon DEF receive
<1> DEFINE h == port[po].blocked_list_head
           rest == next_blocked[h]
<1>6. /\ h \in Proc /\ h # p
      /\ \/ p = 2 /\ h = 3 /\ rq.state[h] = "SEND_BLOCKED"
         \/ p = 3 /\ h = 4 /\ rq.state[h] = "MESSAGE_BLOCKED"
  <2>1. h # NULL
    BY <1>2, <1>4 DEF Pending
  <2> QED  BY <1>2, <2>1, TheLists
<1>7. /\ received' = [received EXCEPT ![p] = <<h, param_data[h]>>]
      /\ port' = [port EXCEPT
                    ![po].blocked_list_head = rest,
                    ![po].blocked_list_tail = IF rest = NULL THEN NULL ELSE @]
      /\ rq.state[h] = "MESSAGE_BLOCKED" => rq' = add_ready_queue(rq, h)
      /\ rq.state[h] = "SEND_BLOCKED" => rq' = [rq EXCEPT !.state[h] = "REPLY_BLOCKED"]
      /\ UNCHANGED <<active_proc, param_proc, param_data, next_blocked, pc>>
  BY <1>2, <1>4, <1>6
<1>8. /\ received'[p][1] = h /\ received'[p][2] = param_data[h]
      /\ \A q \in Proc : q # p => received'[q] = received[q]
  BY ONLY <1>3, <1>7, Processes
<1>9. /\ rq.state[h] = "SEND_BLOCKED" => rq'.state[h] = "REPLY_BLOCKED"
      /\ rq.state[h] = "MESSAGE_BLOCKED" => rq'.state[h] = "READY"
      /\ \A q \in Proc : q # h => rq'.state[q] = rq.state[q]
      /\ rq'.priority = rq.priority
  <2>1. CASE rq.state[h] = "MESSAGE_BLOCKED"
    <3>1. rq' = add_ready_queue(rq, h) /\ rq \in QueueRecord /\ h \in Proc
      BY <1>3, <1>6, <1>7, <2>1
    <3>2. rq'.state = [rq.state EXCEPT ![h] = "READY"] /\ rq'.priority = rq.priority
      BY ONLY <3>1, StateOf
    <3>3. rq.state \in [Proc -> States]
      BY ONLY <3>1 DEF QueueRecord
    <3> QED  BY ONLY <2>1, <3>1, <3>2, <3>3
  <2>2. CASE rq.state[h] = "SEND_BLOCKED"
    <3>1. rq' = [rq EXCEPT !.state[h] = "REPLY_BLOCKED"]
      BY <1>7, <2>2
    <3> QED  BY ONLY <1>3, <1>6, <2>2, <3>1 DEF QueueRecord
  <2> QED  BY <1>6, <2>1, <2>2
<1>10. \A x \in Port : port'[x].owner = port[x].owner /\ port'[x].open = port[x].open
  <2>1. port[po] \in [open : BOOLEAN, owner : ProcOrNull,
                      blocked_list_head : ProcOrNull, blocked_list_tail : ProcOrNull]
    BY <1>2, <1>3
  <2>2. port'[po] = [port[po] EXCEPT !.blocked_list_head = rest,
                                     !.blocked_list_tail = IF rest = NULL THEN NULL ELSE @]
    BY ONLY <1>2, <1>3, <1>7
  <2>3. port'[po].owner = port[po].owner /\ port'[po].open = port[po].open
    BY ONLY <2>1, <2>2
  <2>4. \A x \in Port : x # po => port'[x] = port[x]
    BY ONLY <1>3, <1>7
  <2> QED  BY ONLY <2>3, <2>4
<1>11. UNCHANGED <<ports, next_free_port, next_free_pcb, new_proc, interrupt_table, halt, ret>>
  BY <1>5 DEF portVars, procVars
<1>12. /\ at'[p] = next /\ at' \in [Proc -> Places]
       /\ \A q \in Proc : q # p => at'[q] = at[q]
  BY DEF Jump, KeybInv, Inv, Typed
<1>13. K!IInv'
  <2>1. \A r, s \in Proc : InPcb(r, s)' <=> InPcb(r, s)
    <3>1. pc[h] = "user" /\ pc'[h] = "user"
      BY <1>6, <1>7, BlockedAre DEF SendStates
    <3> QED  BY <1>7, <1>9, <3>1 DEF InPcb
  <2>2. \A s \in Proc : ~InPcb(p, s)
    BY <1>1 DEF InPcb
  <2>3. \A s \in Proc : s = h /\ rq'.state[s] = "REPLY_BLOCKED" => SentTo[s] \in K!Own(p)
    <3>1. rq'.state[h] = "REPLY_BLOCKED" => SentTo[h] = po
      <4>1. rq'.state[h] = "REPLY_BLOCKED" => p = 2 /\ h = 3 /\ rq.state[3] = "SEND_BLOCKED"
        BY <1>6, <1>9
      <4>2. rq.state[3] = "SEND_BLOCKED" => PortOf(3) = 1 /\ SentTo[3] = 1
        BY BlockedAre DEF SendStates, SentTo
      <4> QED  BY <1>2, <4>1, <4>2
    <3> HIDE DEF SentTo, h
    <3> QED  BY <1>2, <3>1
  <2>4. K!NewClient(p) = {s \in Proc : s = h /\ rq'.state[s] = "REPLY_BLOCKED"}
    <3> HIDE DEF SentTo, h
    <3> QED  BY ONLY <1>8, <2>3, SameSets DEF K!NewClient
  <2>5. \A s, r \in Proc : Asks(s, r)' <=> Asks(s, r) \/ (r = p /\ s = h /\ rq'.state[s] = "REPLY_BLOCKED")
    <3>1. \A s \in Proc : PortOf(s)' = PortOf(s)
      BY DEF PortOf, Reading
    <3>2. h = 3 => PortOf(h) = 1
      BY <1>6, BlockedAre DEF SendStates
    <3> HIDE DEF h
    <3>3. ASSUME NEW s \in Proc, NEW r \in Proc, s = h
          PROVE  Asks(s, r)' <=> Asks(s, r) \/ (r = p /\ s = h /\ rq'.state[s] = "REPLY_BLOCKED")
      BY <1>6, <1>9, <3>1, <3>2, <3>3 DEF Asks
    <3>4. ASSUME NEW s \in Proc, NEW r \in Proc, s # h
          PROVE  Asks(s, r)' <=> Asks(s, r)
      BY <1>9, <3>1, <3>4 DEF Asks
    <3> QED  BY <3>3, <3>4
  <2>6. ToReply' = [ToReply EXCEPT ![p] = @ \cup K!NewClient(p)]
    <3>1. ToReply'[p] = ToReply[p] \cup K!NewClient(p)
      <4> HIDE DEF h
      <4> QED  BY <2>1, <2>2, <2>4, <2>5 DEF ToReply
    <3>2. \A q \in Proc : q # p => ToReply'[q] = ToReply[q]
      <4> HIDE DEF h
      <4> QED  BY <2>1, <2>5 DEF ToReply
    <3>3. /\ ToReply = [q \in Proc |-> ToReply[q]]
          /\ ToReply' = [q \in Proc |-> ToReply'[q]]
      BY DEF ToReply
    <3> HIDE DEF ToReply
    <3> QED  BY ONLY <3>1, <3>2, <3>3
  <2>7. SentTo' = [s \in Proc |-> IF rq'.state[s] \in K!SendStates THEN SentTo[s] ELSE NULL]
    <3>1. \A q \in Proc : rq'.state[q] \in SendStates => rq.state[q] \in SendStates
      BY <1>6, <1>9 DEF SendStates
    <3> QED  BY <3>1, WaitsAfterReceive
  <2>8. K!receive(p) /\ K!Pending(p) # {}
    <3>1. K!Pending(p) = Pending(p)
      BY DEF K!Pending, Pending
    <3> QED  BY <1>4, <1>11, <3>1, SameMessageCalls
  <2>9. ToReply' = [ToReply EXCEPT ![p] = IF K!Pending(p) = {} THEN @ ELSE @ \cup K!NewClient(p)]
    <3> HIDE DEF ToReply
    <3> QED  BY ONLY <2>6, <2>8
  <2>10. K!Receive(p) /\ p \in K!Programs
    BY <2>7, <2>8, <2>9, SameSets DEF K!Receive
  <2> QED  BY <2>10, KernelStep DEF K!GNext, K!Call, KeybInv
<1>14. Steps(p, next)
  BY <1>9, <1>10, <1>11, <1>12, <1>13 DEF Steps
<1>15. \E x \in Proc :
         /\ \/ p = 2 /\ x = 3 /\ rq.state[x] = "SEND_BLOCKED" /\ rq'.state[x] = "REPLY_BLOCKED"
            \/ p = 3 /\ x = 4 /\ rq.state[x] = "MESSAGE_BLOCKED" /\ rq'.state[x] = "READY"
         /\ \A q \in Proc : q # x => rq'.state[q] = rq.state[q]
         /\ received'[p][1] = x /\ received'[p][2] = param_data[x]
  BY <1>6, <1>8, <1>9
<1> QED  BY <1>1, <1>7, <1>8, <1>11, <1>14, <1>15

-----------------------------------------------------------------------------
(* A process that sends to one that waits for it: a program or keyb_process *)
(* to the manager, a program to keyb_process.                              *)
LEMMA SendDelivers ==
  ASSUME KeybInv, NEW p \in Proc, p = 3 \/ p > 4, NEW d \in {2, 3}, p # d,
         NEW po \in {1, 2}, po = d - 1,
         At(p, "user"), Exists(d), rq.state[d] = "RECEIVE_BLOCKED",
         send(p, po, p), PortOf(p)' = po,
         \A q \in Proc : q # p => PortOf(q)' = PortOf(q),
         NEW next \in Places, Jump(p, next),
         UNCHANGED <<received, ret, wm_port, keyb_port>>
  PROVE  /\ Steps(p, next) /\ K!HighestStep /\ pc[p] = "user" /\ active_proc = p
         /\ active_proc' = dispatcher(rq', active_proc)
         /\ pc[d] = "receive" /\ rq.state[p] = "READY"
         /\ rq'.state[d] = "READY" /\ rq'.state[p] = "REPLY_BLOCKED"
         /\ \A q \in Proc : q # d /\ q # p => /\ rq'.state[q] = rq.state[q]
                                              /\ param_data'[q] = param_data[q]
         /\ param_proc'[d] = p /\ param_data'[d] = p /\ param_data'[p] = p
         /\ \A q \in Proc : q # d => param_proc'[q] = param_proc[q]
         /\ UNCHANGED <<port, interrupt_table, pc, received>>
<1> USE Processes
<1>1. pc[p] = "user" /\ active_proc = p /\ rq.state[p] = "READY"
  BY KernelPlaces DEF At, KeybInv
<1>2. /\ rq \in QueueRecord /\ param_proc \in [Proc -> ProcOrNull]
      /\ param_data \in [Proc -> Proc \cup {NULL}] /\ pc \in [Proc -> Labels]
  BY KernelTypes DEF KeybInv
<1>3. po \in Port /\ port[po].owner = d /\ port[po].open /\ po \in K!Known
  BY OwnsPort
<1>4. pc[d] = "receive"
  <2>1. pc[d] \in Labels
    BY <1>2
  <2> QED  BY <2>1, KernelPlaces DEF Labels, CallLabels, KeybInv
<1>5. CanDeliver(po)
  BY <1>3 DEF CanDeliver
<1>6. /\ param_proc' = [param_proc EXCEPT ![d] = p]
      /\ param_data' = [param_data EXCEPT ![d] = p, ![p] = p]
      /\ rq' = Sent(rq, p, d)
      /\ active_proc' = dispatcher(rq', active_proc)
      /\ UNCHANGED <<next_blocked, port, portVars, procVars, interrupt_table, halt, pc>>
  BY <1>3, <1>5 DEF send, Deliver, resign, Sent
<1>7. /\ param_proc'[d] = p /\ param_data'[d] = p /\ param_data'[p] = p
      /\ \A q \in Proc : q # d => param_proc'[q] = param_proc[q]
      /\ \A q \in Proc : q # d /\ q # p => param_data'[q] = param_data[q]
  BY ONLY <1>2, <1>6, Processes, p # d
<1>8. /\ rq'.state[d] = "READY" /\ rq'.state[p] = "REPLY_BLOCKED"
      /\ rq'.priority = rq.priority
      /\ \A q \in Proc : q # d /\ q # p => rq'.state[q] = rq.state[q]
  BY <1>2, <1>6, SendStateOf
<1>9. UNCHANGED <<next_blocked, port, ports, next_free_port, next_free_pcb, new_proc,
                  interrupt_table, halt, pc, received, ret>>
  BY <1>6 DEF portVars, procVars
<1>10. /\ at'[p] = next /\ at' \in [Proc -> Places]
       /\ \A q \in Proc : q # p => at'[q] = at[q]
  BY DEF Jump, KeybInv, Inv, Typed
<1>11. K!IInv' /\ K!HighestStep
  <2>1. ToReply' = ToReply
    <3>1. \A r \in Proc : Asks(p, r)' => r = d
      BY DEF Asks
    <3>2. InPcb(d, p)' /\ \A s \in Proc : ~InPcb(d, s) /\ (s # p => ~InPcb(d, s)')
      BY <1>4, <1>7, <1>8, <1>9 DEF InPcb
    <3>3. \A r, s \in Proc : r # d => (InPcb(r, s)' <=> InPcb(r, s))
      BY <1>1, <1>7, <1>8, <1>9 DEF InPcb
    <3>4. \A s, r \in Proc : s # p => (Asks(s, r)' <=> Asks(s, r))
      BY <1>8 DEF Asks
    <3>5. \A r \in Proc : ~Asks(p, r)
      BY <1>1 DEF Asks
    <3>6. \A s, r \in Proc : Asks(s, r)' /\ ~InPcb(r, s)' <=> Asks(s, r) /\ ~InPcb(r, s)
      BY ONLY <3>1, <3>2, <3>3, <3>4, <3>5, Zenon
    <3> QED  BY <3>6, SameClients
  <2>2. K!WaitsOn(p, po)
    <3>1. \A q \in Proc : q # p =>
             /\ rq'.state[q] \in SendStates <=> rq.state[q] \in SendStates
             /\ rq.state[q] \in SendStates => PortOf(q)' = PortOf(q)
      BY <1>8 DEF SendStates
    <3> QED  BY <1>1, <3>1, NewWaiter
  <2>3. K!send(p, po, p)
    BY <1>9, SameMessageCalls
  <2>4. K!Send(p) /\ p \in K!Programs
    BY <1>3, <1>9, <2>1, <2>2, <2>3, SameSets DEF K!Send, K!NoResult
  <2> QED  BY <2>4, KernelStep DEF K!GNext, K!Call, KeybInv
<1> QED  BY <1>1, <1>4, <1>6, <1>7, <1>8, <1>9, <1>10, <1>11 DEF Steps

(* The list of a port gets longer; its owner is the same and it stays open *)
(* or closed.                                                              *)
LEMMA ListsGrow ==
  ASSUME KeybInv, NEW po \in Port, NEW p \in Proc, add_to_send_blocked_list(po, p)
  PROVE  \A x \in Port : port'[x].owner = port[x].owner /\ port'[x].open = port[x].open
<1>1. port \in [Port -> [open : BOOLEAN, owner : ProcOrNull,
                            blocked_list_head : ProcOrNull,
                            blocked_list_tail : ProcOrNull]]
  BY KernelTypes DEF KeybInv
<1>2. port[po] \in [open : BOOLEAN, owner : ProcOrNull,
                    blocked_list_head : ProcOrNull, blocked_list_tail : ProcOrNull]
  BY <1>1
<1>3. CASE port' = [port EXCEPT ![po].blocked_list_head = p, ![po].blocked_list_tail = p]
  <2>1. port'[po] = [port[po] EXCEPT !.blocked_list_head = p, !.blocked_list_tail = p]
    BY ONLY <1>1, <1>3
  <2>2. port'[po].owner = port[po].owner /\ port'[po].open = port[po].open
    BY ONLY <1>2, <2>1
  <2>3. \A x \in Port : x # po => port'[x] = port[x]
    BY ONLY <1>1, <1>3
  <2> QED  BY ONLY <2>2, <2>3
<1>4. CASE port' = [port EXCEPT ![po].blocked_list_tail = p]
  <2>1. port'[po] = [port[po] EXCEPT !.blocked_list_tail = p]
    BY ONLY <1>1, <1>4
  <2>2. port'[po].owner = port[po].owner /\ port'[po].open = port[po].open
    BY ONLY <1>2, <2>1
  <2>3. \A x \in Port : x # po => port'[x] = port[x]
    BY ONLY <1>1, <1>4
  <2> QED  BY ONLY <2>2, <2>3
<1> QED  BY <1>3, <1>4 DEF add_to_send_blocked_list

(* keyb_process has to wait for the manager. *)
LEMMA SendBlocks ==
  ASSUME KeybInv, At(3, "user"), Exists(2), rq.state[2] # "RECEIVE_BLOCKED",
         send(3, 1, 3), keyb_msg' = keyb_msg, ~Reading(3),
         NEW next \in Places, Jump(3, next),
         UNCHANGED <<received, ret, wm_port, keyb_port>>
  PROVE  /\ Steps(3, next) /\ K!HighestStep /\ pc[3] = "user" /\ active_proc = 3
         /\ active_proc' = dispatcher(rq', active_proc)
         /\ rq.state[3] = "READY" /\ rq'.state[3] = "SEND_BLOCKED"
         /\ \A q \in Proc : q # 3 => /\ rq'.state[q] = rq.state[q]
                                     /\ param_data'[q] = param_data[q]
         /\ param_data'[3] = 3
         /\ UNCHANGED <<param_proc, interrupt_table, pc, received>>
<1> USE Processes
<1>1. pc[3] = "user" /\ active_proc = 3 /\ rq.state[3] = "READY"
  BY KernelPlaces DEF At, KeybInv
<1>2. rq \in QueueRecord /\ param_data \in [Proc -> Proc \cup {NULL}]
  BY KernelTypes DEF KeybInv
<1>3. 1 \in Port /\ port[1].owner = 2 /\ 1 \in K!Known
  <2>1. PICK m \in {2, 3, 4} : m = 2
    OBVIOUS
  <2>2. m - 1 \in Port /\ port[m - 1].owner = m /\ m - 1 \in K!Known
    BY <2>1, OwnsPort
  <2>3. m - 1 = 1
    BY <2>1
  <2> QED  BY ONLY <2>1, <2>2, <2>3, Zenon
<1>4. ~CanDeliver(1)
  BY <1>3 DEF CanDeliver
<1>5. /\ add_to_send_blocked_list(1, 3)
      /\ param_data' = [param_data EXCEPT ![3] = 3]
      /\ rq' = remove_ready_queue([rq EXCEPT !.state[3] = "SEND_BLOCKED"], 3)
      /\ active_proc' = dispatcher(rq', active_proc)
      /\ UNCHANGED <<portVars, procVars, interrupt_table, halt, pc>>
  BY <1>4 DEF send, resign
<1>6. \A x \in Port : port'[x].owner = port[x].owner /\ port'[x].open = port[x].open
  BY <1>3, <1>5, ListsGrow
<1>7. /\ rq'.state[3] = "SEND_BLOCKED" /\ rq'.priority = rq.priority /\ param_data'[3] = 3
      /\ \A q \in Proc : q # 3 => /\ rq'.state[q] = rq.state[q]
                                  /\ param_data'[q] = param_data[q]
  BY ONLY <1>2, <1>5, Processes DEF QueueRecord, remove_ready_queue
<1>8. UNCHANGED <<param_proc, ports, next_free_port, next_free_pcb, new_proc,
                  interrupt_table, halt, pc, received, ret>>
  BY <1>5 DEF portVars, procVars, add_to_send_blocked_list
<1>9. /\ at'[3] = next /\ at' \in [Proc -> Places]
      /\ \A q \in Proc : q # 3 => at'[q] = at[q]
  BY DEF Jump, KeybInv, Inv, Typed
<1>10. K!IInv' /\ K!HighestStep
  <2>1. ToReply' = ToReply
    <3>1. \A r, s \in Proc : r # 3 => (InPcb(r, s)' <=> InPcb(r, s))
      BY <1>7, <1>8 DEF InPcb
    <3>2. \A s \in Proc : ~InPcb(3, s)' /\ ~InPcb(3, s)
      BY <1>1, <1>8 DEF InPcb
    <3>3. \A s, r \in Proc : Asks(s, r)' <=> Asks(s, r)
      BY <1>1, <1>7 DEF Asks, PortOf, Reading
    <3>4. \A s, r \in Proc : Asks(s, r)' /\ ~InPcb(r, s)' <=> Asks(s, r) /\ ~InPcb(r, s)
      BY ONLY <3>1, <3>2, <3>3, Zenon
    <3> QED  BY <3>4, SameClients
  <2>2. K!WaitsOn(3, 1)
    <3>1. PortOf(3)' = 1
      BY DEF PortOf, Reading
    <3>2. \A q \in Proc : q # 3 =>
             /\ rq'.state[q] \in SendStates <=> rq.state[q] \in SendStates
             /\ rq.state[q] \in SendStates => PortOf(q)' = PortOf(q)
      BY <1>7 DEF PortOf, Reading
    <3> QED  BY <1>1, <3>1, <3>2, NewWaiter
  <2>3. K!send(3, 1, 3)
    BY <1>8, SameMessageCalls
  <2>4. K!Send(3) /\ 3 \in K!Programs
    BY <1>3, <1>8, <2>1, <2>2, <2>3, SameSets DEF K!Send, K!NoResult
  <2> QED  BY <2>4, KernelStep DEF K!GNext, K!Call, KeybInv
<1> QED  BY <1>1, <1>5, <1>6, <1>7, <1>8, <1>9, <1>10 DEF Steps

(* The notifier's message, taken at once or not. *)
LEMMA MessageDelivers ==
  ASSUME KeybInv, At(4, "user"), Exists(3), rq.state[3] = "RECEIVE_BLOCKED",
         message(4, 2, 4), NEW next \in Places, Jump(4, next),
         UNCHANGED <<keyb_msg, received, ret, wm_port, keyb_port>>
  PROVE  /\ Steps(4, next) /\ K!HighestStep /\ pc[4] = "user" /\ active_proc = 4
         /\ active_proc' = dispatcher(rq', active_proc)
         /\ pc[3] = "receive" /\ rq.state[4] = "READY"
         /\ rq'.state[3] = "READY"
         /\ \A q \in Proc : q # 3 => /\ rq'.state[q] = rq.state[q]
                                     /\ param_data'[q] = param_data[q]
                                     /\ param_proc'[q] = param_proc[q]
         /\ param_proc'[3] = 4 /\ param_data'[3] = 4
         /\ UNCHANGED <<port, interrupt_table, pc, received>>
<1> USE Processes
<1>1. pc[4] = "user" /\ active_proc = 4 /\ rq.state[4] = "READY"
  BY KernelPlaces DEF At, KeybInv
<1>2. /\ rq \in QueueRecord /\ param_proc \in [Proc -> ProcOrNull]
      /\ param_data \in [Proc -> Proc \cup {NULL}] /\ pc \in [Proc -> Labels]
  BY KernelTypes DEF KeybInv
<1>3. 2 \in Port /\ port[2].owner = 3 /\ port[2].open /\ 2 \in K!Known
  <2>1. PICK m \in {2, 3, 4} : m = 3
    OBVIOUS
  <2>2. m - 1 \in Port /\ port[m - 1].owner = m /\ port[m - 1].open /\ m - 1 \in K!Known
    BY <2>1, OwnsPort
  <2>3. m - 1 = 2
    BY <2>1
  <2> QED  BY ONLY <2>1, <2>2, <2>3, Zenon
<1>4. pc[3] = "receive"
  <2>1. pc[3] \in Labels
    BY <1>2
  <2> QED  BY <2>1, KernelPlaces DEF Labels, CallLabels, KeybInv
<1>5. CanDeliver(2)
  BY <1>3 DEF CanDeliver
<1>6. /\ param_proc' = [param_proc EXCEPT ![3] = 4]
      /\ param_data' = [param_data EXCEPT ![3] = 4]
      /\ rq' = add_ready_queue(rq, 3)
      /\ active_proc' = dispatcher(rq', active_proc)
      /\ UNCHANGED <<next_blocked, port, portVars, procVars, interrupt_table, halt, pc>>
  BY <1>3, <1>5 DEF message, Deliver, resign
<1>7. /\ param_proc'[3] = 4 /\ param_data'[3] = 4
      /\ \A q \in Proc : q # 3 => /\ param_proc'[q] = param_proc[q]
                                  /\ param_data'[q] = param_data[q]
  BY ONLY <1>2, <1>6, Processes
<1>8. /\ rq'.state[3] = "READY" /\ rq'.priority = rq.priority
      /\ \A q \in Proc : q # 3 => rq'.state[q] = rq.state[q]
  <2>1. rq'.state = [rq.state EXCEPT ![3] = "READY"] /\ rq'.priority = rq.priority
    BY <1>2, <1>6, StateOf
  <2> QED  BY <1>2, <2>1 DEF QueueRecord
<1>9. UNCHANGED <<next_blocked, port, ports, next_free_port, next_free_pcb, new_proc,
                  interrupt_table, halt, pc, received, ret>>
  BY <1>6 DEF portVars, procVars
<1>10. /\ at'[4] = next /\ at' \in [Proc -> Places]
       /\ \A q \in Proc : q # 4 => at'[q] = at[q]
  BY DEF Jump, KeybInv, Inv, Typed
<1>11. K!IInv' /\ K!HighestStep
  <2>1. ToReply' = ToReply
    <3>1. \A s \in Proc : ~InPcb(3, s) /\ (s # 4 => ~InPcb(3, s)')
      BY <1>7 DEF InPcb
    <3>2. \A r, s \in Proc : r # 3 => (InPcb(r, s)' <=> InPcb(r, s))
      BY <1>7, <1>8, <1>9 DEF InPcb
    <3>3. \A s, r \in Proc : Asks(s, r)' <=> Asks(s, r)
      BY <1>8 DEF Asks, PortOf, Reading
    <3>4. \A r \in Proc : ~Asks(4, r)
      BY <1>1 DEF Asks
    <3>5. \A s, r \in Proc : Asks(s, r)' /\ ~InPcb(r, s)' <=> Asks(s, r) /\ ~InPcb(r, s)
      BY ONLY <3>1, <3>2, <3>3, <3>4, Zenon
    <3> QED  BY <3>5, SameClients
  <2>2. K!WaitsOn(4, 2)
    <3>1. PortOf(4)' = 2
      BY DEF PortOf
    <3>2. \A q \in Proc : q # 4 =>
             /\ rq'.state[q] \in SendStates <=> rq.state[q] \in SendStates
             /\ rq.state[q] \in SendStates => PortOf(q)' = PortOf(q)
      BY <1>8 DEF SendStates, PortOf, Reading
    <3> QED  BY <1>1, <3>1, <3>2, NewWaiter
  <2>3. K!message(4, 2, 4)
    BY <1>9, SameMessageCalls
  <2>4. K!Message(4) /\ 4 \in K!Programs
    BY <1>3, <1>9, <2>1, <2>2, <2>3, SameSets DEF K!Message, K!NoResult
  <2> QED  BY <2>4, KernelStep DEF K!GNext, K!Call, KeybInv
<1> QED  BY <1>1, <1>4, <1>6, <1>7, <1>8, <1>9, <1>10, <1>11 DEF Steps

LEMMA MessageBlocks ==
  ASSUME KeybInv, At(4, "user"), Exists(3), rq.state[3] # "RECEIVE_BLOCKED",
         message(4, 2, 4), NEW next \in Places, Jump(4, next),
         UNCHANGED <<keyb_msg, received, ret, wm_port, keyb_port>>
  PROVE  /\ Steps(4, next) /\ K!HighestStep /\ pc[4] = "user" /\ active_proc = 4
         /\ active_proc' = dispatcher(rq', active_proc)
         /\ rq.state[4] = "READY" /\ rq'.state[4] = "MESSAGE_BLOCKED"
         /\ \A q \in Proc : q # 4 => /\ rq'.state[q] = rq.state[q]
                                     /\ param_data'[q] = param_data[q]
         /\ param_data'[4] = 4
         /\ UNCHANGED <<param_proc, interrupt_table, pc, received>>
<1> USE Processes
<1>1. pc[4] = "user" /\ active_proc = 4 /\ rq.state[4] = "READY"
  BY KernelPlaces DEF At, KeybInv
<1>2. rq \in QueueRecord /\ param_data \in [Proc -> Proc \cup {NULL}]
  BY KernelTypes DEF KeybInv
<1>3. 2 \in Port /\ port[2].owner = 3 /\ 2 \in K!Known
  <2>1. PICK m \in {2, 3, 4} : m = 3
    OBVIOUS
  <2>2. m - 1 \in Port /\ port[m - 1].owner = m /\ m - 1 \in K!Known
    BY <2>1, OwnsPort
  <2>3. m - 1 = 2
    BY <2>1
  <2> QED  BY ONLY <2>1, <2>2, <2>3, Zenon
<1>4. ~CanDeliver(2)
  BY <1>3 DEF CanDeliver
<1>5. /\ add_to_send_blocked_list(2, 4)
      /\ param_data' = [param_data EXCEPT ![4] = 4]
      /\ rq' = [remove_ready_queue(rq, 4) EXCEPT !.state[4] = "MESSAGE_BLOCKED"]
      /\ active_proc' = dispatcher(rq', active_proc)
      /\ UNCHANGED <<portVars, procVars, interrupt_table, halt, pc>>
  BY <1>4 DEF message, resign
<1>6. \A x \in Port : port'[x].owner = port[x].owner /\ port'[x].open = port[x].open
  BY <1>3, <1>5, ListsGrow
<1>7. /\ rq'.state[4] = "MESSAGE_BLOCKED" /\ rq'.priority = rq.priority /\ param_data'[4] = 4
      /\ \A q \in Proc : q # 4 => /\ rq'.state[q] = rq.state[q]
                                  /\ param_data'[q] = param_data[q]
  BY ONLY <1>2, <1>5, Processes DEF QueueRecord, remove_ready_queue
<1>8. UNCHANGED <<param_proc, ports, next_free_port, next_free_pcb, new_proc,
                  interrupt_table, halt, pc, received, ret>>
  BY <1>5 DEF portVars, procVars, add_to_send_blocked_list
<1>9. /\ at'[4] = next /\ at' \in [Proc -> Places]
      /\ \A q \in Proc : q # 4 => at'[q] = at[q]
  BY DEF Jump, KeybInv, Inv, Typed
<1>10. K!IInv' /\ K!HighestStep
  <2>1. ToReply' = ToReply
    <3>1. \A r, s \in Proc : InPcb(r, s)' <=> InPcb(r, s)
      BY <1>1, <1>7, <1>8 DEF InPcb
    <3>2. \A s, r \in Proc : Asks(s, r)' <=> Asks(s, r)
      BY <1>1, <1>7 DEF Asks, PortOf, Reading
    <3>3. \A s, r \in Proc : Asks(s, r)' /\ ~InPcb(r, s)' <=> Asks(s, r) /\ ~InPcb(r, s)
      BY ONLY <3>1, <3>2, Zenon
    <3> QED  BY <3>3, SameClients
  <2>2. K!WaitsOn(4, 2)
    <3>1. PortOf(4)' = 2
      BY DEF PortOf
    <3>2. \A q \in Proc : q # 4 =>
             /\ rq'.state[q] \in SendStates <=> rq.state[q] \in SendStates
             /\ rq.state[q] \in SendStates => PortOf(q)' = PortOf(q)
      BY <1>7 DEF PortOf, Reading
    <3> QED  BY <1>1, <3>1, <3>2, NewWaiter
  <2>3. K!message(4, 2, 4)
    BY <1>8, SameMessageCalls
  <2>4. K!Message(4) /\ 4 \in K!Programs
    BY <1>3, <1>8, <2>1, <2>2, <2>3, SameSets DEF K!Message, K!NoResult
  <2> QED  BY <2>4, KernelStep DEF K!GNext, K!Call, KeybInv
<1> QED  BY <1>1, <1>5, <1>6, <1>7, <1>8, <1>9, <1>10 DEF Steps

(* A service replies to the process that it serves. *)
LEMMA ReplyStep ==
  ASSUME KeybInv, NEW p \in {2, 3}, At(p, "user"), NEW s \in Proc, Asks(s, p),
         reply(p, s), NEW next \in Places, Jump(p, next),
         \A q \in Proc : q # s => keyb_msg'[q] = keyb_msg[q],
         UNCHANGED <<received, ret, wm_port, keyb_port>>
  PROVE  /\ Steps(p, next) /\ K!HighestStep /\ pc[p] = "user" /\ active_proc = p
         /\ active_proc' = dispatcher(rq', active_proc)
         /\ rq.state[p] = "READY" /\ s # p /\ pc[s] = "user"
         /\ rq.state[s] = "REPLY_BLOCKED" /\ rq'.state[s] = "READY"
         /\ \A q \in Proc : q # s => rq'.state[q] = rq.state[q]
         /\ UNCHANGED <<param_proc, param_data, port, interrupt_table, pc, received>>
<1> USE Processes
<1>1. /\ pc[p] = "user" /\ active_proc = p /\ rq.state[p] = "READY"
      /\ rq.state[s] = "REPLY_BLOCKED" /\ s # p /\ pc[s] = "user"
  <2>1. pc[p] = "user" /\ active_proc = p /\ rq.state[p] = "READY"
    BY KernelPlaces DEF At, KeybInv
  <2>2. rq.state[s] = "REPLY_BLOCKED"
    BY DEF Asks
  <2> QED  BY <2>1, <2>2, BlockedAre DEF SendStates
<1>2. /\ rq' = add_ready_queue(rq, s) /\ active_proc' = dispatcher(rq', active_proc)
      /\ UNCHANGED <<param_proc, param_data, next_blocked, port, ports, next_free_port,
                     next_free_pcb, new_proc, interrupt_table, halt, pc>>
  <2>1. /\ resign(add_ready_queue(rq, s))
        /\ UNCHANGED <<ipcVars, portVars, procVars, interrupt_table, halt, pc>>
    BY <1>1, Zenon DEF reply
  <2> QED  BY <2>1 DEF resign, ipcVars, portVars, procVars
<1>3. /\ rq'.state[s] = "READY" /\ rq'.priority = rq.priority
      /\ \A q \in Proc : q # s => rq'.state[q] = rq.state[q]
  <2>1. rq \in QueueRecord
    BY KernelTypes DEF KeybInv
  <2>2. rq'.state = [rq.state EXCEPT ![s] = "READY"] /\ rq'.priority = rq.priority
    BY <1>2, <2>1, StateOf
  <2> QED  BY <2>1, <2>2 DEF QueueRecord
<1>4. /\ at'[p] = next /\ at' \in [Proc -> Places]
      /\ \A q \in Proc : q # p => at'[q] = at[q]
  BY DEF Jump, KeybInv, Inv, Typed
<1>5. K!IInv' /\ K!HighestStep
  <2>1. /\ \A q, r \in Proc : q # s => (Asks(q, r)' <=> Asks(q, r))
        /\ \A r \in Proc : ~Asks(s, r)' /\ (Asks(s, r) => r = p)
    BY <1>3 DEF Asks, PortOf, Reading
  <2>2. \A q, r \in Proc : (InPcb(r, q)' <=> InPcb(r, q)) /\ ~InPcb(p, q)
    BY <1>1, <1>2, <1>3 DEF InPcb
  <2>3. s \in ToReply[p]
    BY <2>2 DEF ToReply
  <2>4. ToReply' = [ToReply EXCEPT ![p] = @ \ {s}]
    <3>1. ToReply'[p] = ToReply[p] \ {s}
      BY <2>1, <2>2 DEF ToReply
    <3>2. \A r \in Proc : r # p => ToReply'[r] = ToReply[r]
      <4>1. ASSUME NEW r \in Proc, r # p, NEW q \in Proc
            PROVE  Asks(q, r)' /\ ~InPcb(r, q)' <=> Asks(q, r) /\ ~InPcb(r, q)
        BY <2>1, <2>2, <4>1
      <4> QED  BY <4>1 DEF ToReply
    <3>3. /\ ToReply = [r \in Proc |-> ToReply[r]]
          /\ ToReply' = [r \in Proc |-> ToReply'[r]]
      BY DEF ToReply
    <3> HIDE DEF ToReply
    <3> QED  BY ONLY <3>1, <3>2, <3>3
  <2>5. SentTo' = [SentTo EXCEPT ![s] = NULL]
    <3>1. SentTo'[s] = NULL
      BY <1>3 DEF SentTo
    <3>2. \A r \in Proc : r # s => SentTo'[r] = SentTo[r]
      BY <1>3 DEF SentTo, PortOf, Reading
    <3>3. /\ SentTo = [r \in Proc |-> SentTo[r]]
          /\ SentTo' = [r \in Proc |-> SentTo'[r]]
      BY DEF SentTo
    <3> HIDE DEF SentTo
    <3> QED  BY ONLY <3>1, <3>2, <3>3
  <2>6. K!reply(p, s) /\ K!NoResult
    BY <1>2, SameMessageCalls DEF K!NoResult
  <2>7. K!Reply(p) /\ p \in K!Programs
    <3>1. s \in K!Proc /\ p \in K!Programs /\ pc[s] \notin {"free", "embryo"}
      BY <1>1, SameSets
    <3> HIDE DEF ToReply, SentTo
    <3> QED  BY ONLY <2>3, <2>4, <2>5, <2>6, <3>1 DEF K!Reply
  <2> QED  BY <2>7, KernelStep DEF K!GNext, K!Call, KeybInv
<1> QED  BY <1>1, <1>2, <1>3, <1>4, <1>5 DEF Steps

-----------------------------------------------------------------------------
(* The notifier *)

(* It does not take part in what the others do, but for the key. *)
LEMMA NotifierData ==
  ASSUME KeybInv,
         UNCHANGED <<windows, wm_msg, keyb_msg, keyb_clients, current_window, localVars,
                     received, param_proc>>,
         new_key' \in Keys \cup {NoKey},
         \A q \in Proc : q # 4 => /\ at'[q] = at[q] /\ rq'.state[q] = rq.state[q]
                                  /\ param_data'[q] = param_data[q],
         at'[4] # "program", pc'[2] = pc[2], pc'[3] = pc[3],
         rq'.state[4] \notin {"SEND_BLOCKED", "REPLY_BLOCKED"},
         rq'.state[4] = "MESSAGE_BLOCKED" => param_data'[4] = 4
  PROVE  /\ DataTyped' /\ OneAtATime' /\ ServiceAsks' /\ ProgramsHaveWindows'
         /\ RecordsAreFound' /\ RecordsAreRight' /\ FocusIsKnown'
         /\ Unheard' <=> Unheard
<1> USE Processes DEF KeybInv, Inv, localVars
<1>1. rq.state[4] \notin {"SEND_BLOCKED", "REPLY_BLOCKED"} /\ at[4] # "program"
  BY BlockedAre, WhereTheyAre DEF SendStates
<1>2. \A p \in Proc : \A s \in {"SEND_BLOCKED", "REPLY_BLOCKED"} :
        rq'.state[p] = s <=> rq.state[p] = s
  BY <1>1
<1>3. /\ \A p \in Proc : Reading(p)' <=> Reading(p)
      /\ \A p \in Proc : Blocks(p)' <=> Blocks(p)
      /\ \A w : Seen(w)' <=> Seen(w)
      /\ Ids' = Ids /\ Focus' = Focus
  BY DEF Reading, Blocks, Seen, Ids, Focus
<1>4. \A p \in Proc : \A r : Asks(p, r)' <=> Asks(p, r)
  BY <1>2, <1>3 DEF Asks, PortOf
<1>5. /\ \A r \in {2, 3} : /\ Handles(r)' <=> Handles(r)
                           /\ Messenger(r)' = Messenger(r) /\ Content(r)' = Content(r)
      /\ Unheard' <=> Unheard
      /\ at'[3] = at[3] /\ rq'.state[3] = rq.state[3]
      /\ \A p \in Proc : at'[p] = "program" <=> at[p] = "program"
  BY <1>1 DEF Handles, Messenger, Content, Unheard
<1>6. DataTyped'
  BY <1>3 DEF DataTyped, Found
<1>7. OneAtATime'
  <2>1. \A p \in Proc : rq'.state[p] = "SEND_BLOCKED" => p = 3
    BY <1>2 DEF OneAtATime
  <2>2. \A p \in Proc : rq'.state[p] \in {"SEND_BLOCKED", "MESSAGE_BLOCKED"} =>
          param_data'[p] = p
    BY <1>2 DEF OneAtATime
  <2>3. \A r \in {2, 3} : Handles(r)' =>
          \E m \in Proc : /\ Messenger(r)' = m /\ Content(r)' = m
                          /\ Asks(m, r)' \/ (r = 3 /\ m = 4)
    BY <1>4, <1>5 DEF OneAtATime
  <2>4. \A p \in Proc : Asks(p, 2)' => Handles(2)' /\ p = Messenger(2)'
    BY <1>4, <1>5 DEF OneAtATime
  <2>5. (Handles(2) /\ Messenger(2) # 3 /\ at[3] \in Asking =>
           rq.state[3] = "SEND_BLOCKED")'
    BY <1>5 DEF OneAtATime
  <2> QED  BY <2>1, <2>2, <2>3, <2>4, <2>5 DEF OneAtATime
<1>8. ServiceAsks'
  BY <1>3, <1>5 DEF ServiceAsks, Question
<1>9. ProgramsHaveWindows'
  BY <1>2, <1>3, <1>4, <1>5 DEF ProgramsHaveWindows
<1>10. RecordsAreFound'
  BY <1>3, <1>4, <1>5 DEF RecordsAreFound
<1>11. RecordsAreRight'
  <2>1. \A w : BeingGiven(w)' <=> BeingGiven(w)
    BY <1>5 DEF BeingGiven
  <2>2. \A p : ServedNow(p)' <=> ServedNow(p)
    BY <1>5 DEF ServedNow
  <2> QED  BY <1>2, <1>3, <2>1, <2>2 DEF RecordsAreRight
<1>12. FocusIsKnown'
  BY <1>3, <1>5 DEF FocusIsKnown
<1> QED  BY <1>5, <1>6, <1>7, <1>8, <1>9, <1>10, <1>11, <1>12

(* It waits for a scan code. *)
LEMMA WaitInv ==
  ASSUME KeybInv, At(4, "user"), Waits(4, KEYB_IRQ, "keyb_scan"),
         UNCHANGED <<wm_port, keyb_port, dataVars>>
  PROVE  KeybInv'
<1> USE Processes DEF dataVars, localVars
<1>1. pc[4] = "user" /\ active_proc = 4 /\ rq.state[4] = "READY"
  BY KernelPlaces DEF At, KeybInv
<1>2. /\ rq \in QueueRecord /\ pc \in [Proc -> Labels]
      /\ interrupt_table \in [Irq -> ProcOrNull]
  BY KernelTypes DEF KeybInv
<1>3. interrupt_table[KEYB_IRQ] = NULL
  <2>1. ASSUME NEW n \in Proc, interrupt_table[KEYB_IRQ] = n PROVE FALSE
    <3>1. pc[n] = "wait_for_interrupt"
      BY <2>1, SameSets DEF KeybInv, K!IInv, K!WaitersAreRegistered, Irq, KEYB_IRQ
    <3> QED  BY <1>1, <3>1, CallersAre
  <2> QED  BY <1>2, <2>1 DEF Irq, ProcOrNull
<1>4. /\ interrupt_table' = [interrupt_table EXCEPT ![KEYB_IRQ] = 4]
      /\ resign([remove_ready_queue(rq, 4) EXCEPT !.state[4] = "INTR_BLOCKED"])
      /\ Goto(4, "wait_for_interrupt")
      /\ UNCHANGED <<ipcVars, portVars, procVars, halt>>
      /\ Jump(4, "keyb_scan") /\ UNCHANGED <<received, ret>>
  <2>1. wait_for_interrupt(4, KEYB_IRQ) /\ Jump(4, "keyb_scan") /\ UNCHANGED <<received, ret>>
    BY <1>1 DEF Waits
  <2> QED  BY ONLY <1>3, <2>1 DEF wait_for_interrupt
<1>5. /\ pc'[4] = "wait_for_interrupt" /\ \A q \in Proc : q # 4 => pc'[q] = pc[q]
      /\ at'[4] = "keyb_scan" /\ \A q \in Proc : q # 4 => at'[q] = at[q]
      /\ at' \in [Proc -> Places]
  BY <1>2, <1>4 DEF Goto, Jump, KeybInv, Inv, Typed, Places
<1>6. /\ rq'.state[4] = "INTR_BLOCKED" /\ \A q \in Proc : q # 4 => rq'.state[q] = rq.state[q]
      /\ rq'.priority = rq.priority
      /\ active_proc' = dispatcher(rq', active_proc)
  <2>1. rq' = [remove_ready_queue(rq, 4) EXCEPT !.state[4] = "INTR_BLOCKED"]
    BY <1>4 DEF resign
  <2>2. /\ rq'.state[4] = "INTR_BLOCKED" /\ rq'.priority = rq.priority
        /\ \A q \in Proc : q # 4 => rq'.state[q] = rq.state[q]
    BY ONLY <1>2, <2>1, Processes DEF QueueRecord, remove_ready_queue
  <2> QED  BY <1>4, <2>2 DEF resign
<1>7. UNCHANGED <<param_proc, param_data, next_blocked, port, ports, next_free_port,
                  next_free_pcb, new_proc, halt, received, ret>>
  BY <1>4 DEF ipcVars, portVars, procVars
<1>8. K!IInv' /\ K!HighestStep
  <2>1. \A r, s \in Proc : InPcb(r, s)' <=> InPcb(r, s)
    BY <1>1, <1>5, <1>6, <1>7 DEF InPcb
  <2>2. \A q \in Proc : PortOf(q)' = PortOf(q)
    BY DEF PortOf, Reading
  <2>3. K!Unchanged
    BY <1>1, <1>6, <1>7, <2>1, <2>2, SameWaiting DEF SendStates
  <2>4. K!wait_for_interrupt(4, KEYB_IRQ)
    BY <1>1, <1>7, SameInterruptCalls DEF Waits
  <2>5. K!WaitForInterrupt(4) /\ 4 \in K!Programs
    BY <2>3, <2>4, SameSets DEF K!WaitForInterrupt, Irq
  <2> QED  BY <2>5, KernelStep DEF K!GNext, K!Call, KeybInv
<1>9. Steps(4, "keyb_scan")
  BY <1>5, <1>6, <1>7, <1>8 DEF Steps
<1>10. FrameInv' /\ KeybNeverPanics'
  <2>1. Moves
    BY <1>1, <1>5, <1>6 DEF Moves, ManagerMoves, ServiceMoves, NotifierMoves, ProgramMoves,
       Stays, Running
  <2>2. \A irq \in Irq : interrupt_table'[irq] # NULL =>
          irq = KEYB_IRQ \/ interrupt_table[irq] # NULL
    BY <1>2, <1>4 DEF Irq
  <2> QED  BY <1>5, <1>6, <1>9, <2>1, <2>2, Framed
<1>11. ServiceFirst'
  BY <1>6, <1>8, <1>10, DispatchServesFirst DEF FrameInv
<1>12. DataInv'
  <2>1. /\ DataTyped' /\ OneAtATime' /\ ServiceAsks' /\ ProgramsHaveWindows'
        /\ RecordsAreFound' /\ RecordsAreRight' /\ FocusIsKnown'
        /\ Unheard' <=> Unheard
    <3>1. new_key' \in Keys \cup {NoKey}
      BY DEF KeybInv, Inv, DataTyped
    <3> QED  BY <1>5, <1>6, <1>7, <3>1, NotifierData
  <2>2. KeysAreKept'
    BY <1>1, <1>5, <1>6, <2>1 DEF KeysAreKept, KeybInv, Inv
  <2> QED  BY <2>1, <2>2 DEF DataInv
<1> QED  BY <1>8, <1>10, <1>11, <1>12, Together

(* It goes on after an interrupt. *)
LEMMA WaitReturnInv ==
  ASSUME KeybInv, NEW p \in Proc, wait_for_interrupt_return(p),
         UNCHANGED <<received, at, ret, wm_port, keyb_port, dataVars>>
  PROVE  KeybInv'
<1> USE Processes DEF dataVars, localVars
<1>1. p = 4 /\ pc[4] = "wait_for_interrupt" /\ active_proc = 4 /\ rq.state[4] = "READY"
      /\ at[4] = "keyb_scan"
  <2>1. p = 4 /\ pc[4] = "wait_for_interrupt" /\ active_proc = 4
    BY CallersAre DEF wait_for_interrupt_return, At
  <2> QED  BY <2>1, KernelPlaces DEF KeybInv, Inv, NotifierStages
<1>2. pc \in [Proc -> Labels] /\ interrupt_table \in [Irq -> ProcOrNull]
  BY KernelTypes DEF KeybInv
<1>3. /\ pc'[4] = "user" /\ \A q \in Proc : q # 4 => pc'[q] = pc[q]
      /\ interrupt_table' = [irq \in Irq |-> IF interrupt_table[irq] = 4
                                             THEN NULL ELSE interrupt_table[irq]]
  BY <1>1, <1>2 DEF wait_for_interrupt_return, Goto
<1>4. UNCHANGED <<rq, active_proc, param_proc, param_data, next_blocked, port, ports,
                  next_free_port, next_free_pcb, new_proc, halt>>
  BY DEF wait_for_interrupt_return, schedVars, ipcVars, portVars, procVars
<1>5. K!IInv'
  <2>1. \A r, s \in Proc : InPcb(r, s)' <=> InPcb(r, s)
    BY <1>1, <1>3, <1>4 DEF InPcb
  <2>2. \A q \in Proc : PortOf(q)' = PortOf(q)
    BY DEF PortOf, Reading
  <2>3. K!Unchanged
    BY <1>4, <2>1, <2>2, SameWaiting
  <2>4. K!wait_for_interrupt_return(4)
    BY <1>1, <1>4, SameInterruptCalls
  <2>5. K!WaitForInterruptReturn(4) /\ 4 \in K!Programs
    BY <2>3, <2>4, SameSets DEF K!WaitForInterruptReturn
  <2> QED  BY <2>5, KernelStep DEF K!GNext, K!Call, KeybInv
<1>6. Steps(4, "keyb_scan")
  BY <1>1, <1>4, <1>5 DEF Steps, KeybInv, Inv, Typed
<1>7. FrameInv' /\ KeybNeverPanics'
  <2>1. Moves
    BY <1>1, <1>3, <1>4 DEF Moves, ManagerMoves, ServiceMoves, NotifierMoves, ProgramMoves,
       Stays, Running
  <2>2. \A irq \in Irq : interrupt_table'[irq] # NULL =>
          irq = KEYB_IRQ \/ interrupt_table[irq] # NULL
    BY <1>3
  <2> QED  BY <1>3, <1>4, <1>6, <2>1, <2>2, Framed
<1>8. ServiceFirst'
  <2>1. active_proc' = 4
    BY <1>1, <1>4
  <2> QED  BY <2>1 DEF ServiceFirst, Services
<1>9. DataInv'
  <2>1. SamePlaces
    BY <1>3 DEF SamePlaces
  <2>2. rq'.state[0] \in {"READY", "ZOMBIE"}
    BY <1>4 DEF KeybInv, Inv, BootStages
  <2> QED  BY <1>4, <2>1, <2>2, DataIsKept
<1> QED  BY <1>5, <1>7, <1>8, <1>9, Together

(* The notifier with a scan code: keyb_process has read the last key. *)
LEMMA NotifierRuns ==
  ASSUME KeybInv, Runs(4, "keyb_scan")
  PROVE  /\ At(4, "user") /\ pc[4] = "user" /\ active_proc = 4 /\ at[4] = "keyb_scan"
         /\ rq.state[4] = "READY" /\ ~Unheard /\ windows # <<>>
         /\ keyb_port = 2 /\ Exists(3)
<1> USE DEF KeybInv, Inv
<1>1. At(4, "user") /\ pc[4] = "user" /\ active_proc = 4 /\ at[4] = "keyb_scan"
  BY DEF Runs, At
<1>2. rq.state[4] = "READY"
  BY <1>1, KernelPlaces
<1>3. ~Unheard /\ windows # <<>>
  BY <1>1, <1>2 DEF KeysAreKept
<1>4. keyb_port = 2
  BY <1>3 DEF BootStages
<1>5. Exists(3)
  BY <1>1 DEF ServiceStages, Exists
<1> QED  BY <1>1, <1>2, <1>3, <1>4, <1>5

(* A code that is no key. *)
LEMMA ScanInv ==
  ASSUME KeybInv, Runs(4, "keyb_scan"), Computes(4, "keyb_notifier"),
         new_key' \in Keys \cup {NoKey},
         UNCHANGED <<wmVars, keyb_port, keyb_msg, keyb_clients, current_window, localVars>>
  PROVE  KeybInv'
<1> USE Processes DEF wmVars
<1>1. /\ At(4, "user") /\ pc[4] = "user" /\ active_proc = 4 /\ at[4] = "keyb_scan"
      /\ rq.state[4] = "READY" /\ ~Unheard
  BY NotifierRuns
<1>2. /\ Steps(4, "keyb_notifier")
      /\ UNCHANGED <<rq, active_proc, param_proc, param_data, port,
                     interrupt_table, pc, received>>
  <2>1. "keyb_notifier" \in Places
    BY DEF Places
  <2> QED  BY <1>1, <2>1, ComputesStep
<1>3. FrameInv' /\ KeybNeverPanics'
  <2>1. Moves
    BY <1>1, <1>2 DEF Moves, ManagerMoves, ServiceMoves, NotifierMoves, ProgramMoves,
       Stays, Running, Steps
  <2>2. \A irq \in Irq : interrupt_table'[irq] # NULL =>
          irq = KEYB_IRQ \/ interrupt_table[irq] # NULL
    BY <1>2
  <2> QED  BY <1>2, <2>1, <2>2, Framed
<1>4. ServiceFirst'
  <2>1. active_proc' = 4
    BY <1>1, <1>2
  <2> QED  BY <2>1 DEF ServiceFirst, Services
<1>5. DataInv'
  <2>1. /\ DataTyped' /\ OneAtATime' /\ ServiceAsks' /\ ProgramsHaveWindows'
        /\ RecordsAreFound' /\ RecordsAreRight' /\ FocusIsKnown'
        /\ Unheard' <=> Unheard
    BY <1>1, <1>2, NotifierData DEF Steps
  <2>2. at'[4] = "keyb_notifier" /\ at'[3] = at[3] /\ rq'.state[4] = "READY"
    BY <1>1, <1>2 DEF Steps
  <2>3. KeysAreKept'
    BY <1>1, <2>1, <2>2 DEF KeysAreKept, KeybInv, Inv, localVars
  <2> QED  BY <2>1, <2>3 DEF DataInv
<1> QED  BY <1>2, <1>3, <1>4, <1>5, Together DEF Steps

(* A key: the notifier tells keyb_process. *)
LEMMA KeyIsToldInv ==
  ASSUME KeybInv, Runs(4, "keyb_scan"), Messages(4, keyb_port, 4, "keyb_notifier"),
         new_key' \in Keys \ {NoKey},
         UNCHANGED <<wmVars, keyb_port, keyb_msg, keyb_clients, current_window, localVars>>
  PROVE  KeybInv'
<1> USE Processes DEF wmVars
<1>1. /\ At(4, "user") /\ pc[4] = "user" /\ active_proc = 4 /\ at[4] = "keyb_scan"
      /\ rq.state[4] = "READY" /\ ~Unheard /\ windows # <<>>
      /\ keyb_port = 2 /\ Exists(3)
  BY NotifierRuns
<1>2. /\ message(4, 2, 4) /\ Jump(4, "keyb_notifier")
      /\ UNCHANGED <<received, ret>> /\ "keyb_notifier" \in Places
  BY <1>1 DEF Messages, Places
<1>3. \A irq \in Irq : interrupt_table[irq] # NULL =>
          irq = KEYB_IRQ \/ interrupt_table[irq] # NULL
  OBVIOUS
<1>4. CASE rq.state[3] # "RECEIVE_BLOCKED"
  <2>1. /\ Steps(4, "keyb_notifier") /\ K!HighestStep
        /\ active_proc' = dispatcher(rq', active_proc)
        /\ rq'.state[4] = "MESSAGE_BLOCKED"
        /\ \A q \in Proc : q # 4 => /\ rq'.state[q] = rq.state[q]
                                    /\ param_data'[q] = param_data[q]
        /\ param_data'[4] = 4
        /\ UNCHANGED <<param_proc, interrupt_table, pc, received>>
    BY <1>1, <1>2, <1>4, MessageBlocks
  <2>2. FrameInv' /\ KeybNeverPanics'
    <3>1. Moves
      BY <1>1, <2>1 DEF Moves, ManagerMoves, ServiceMoves, NotifierMoves, ProgramMoves,
         Stays, Running, Steps
    <3> QED  BY <1>3, <2>1, <3>1, Framed
  <2>3. ServiceFirst'
    BY <2>1, <2>2, DispatchServesFirst DEF FrameInv, Steps
  <2>4. DataInv'
    <3>1. new_key' \in Keys \cup {NoKey}
      BY DEF RealKeys
    <3>2. /\ DataTyped' /\ OneAtATime' /\ ServiceAsks' /\ ProgramsHaveWindows'
          /\ RecordsAreFound' /\ RecordsAreRight' /\ FocusIsKnown'
          /\ Unheard' <=> Unheard
      BY <1>1, <2>1, <3>1, NotifierData DEF Steps
    <3>3. at'[4] = "keyb_notifier" /\ at'[3] = at[3]
      BY <2>1 DEF Steps
    <3>4. KeysAreKept'
      BY <1>1, <3>2, <3>3 DEF KeysAreKept, KeybInv, Inv, localVars, RealKeys
    <3> QED  BY <3>2, <3>4 DEF DataInv
  <2> QED  BY <2>1, <2>2, <2>3, <2>4, Together DEF Steps
<1>5. CASE rq.state[3] = "RECEIVE_BLOCKED"
  <2>1. /\ Steps(4, "keyb_notifier") /\ K!HighestStep
        /\ active_proc' = dispatcher(rq', active_proc)
        /\ pc[3] = "receive" /\ rq'.state[3] = "READY"
        /\ \A q \in Proc : q # 3 => /\ rq'.state[q] = rq.state[q]
                                    /\ param_data'[q] = param_data[q]
                                    /\ param_proc'[q] = param_proc[q]
        /\ param_proc'[3] = 4 /\ param_data'[3] = 4
        /\ UNCHANGED <<port, interrupt_table, pc, received>>
    BY <1>1, <1>2, <1>5, MessageDelivers
  <2>2. /\ at[3] = "keyb_received" /\ at'[3] = "keyb_received"
        /\ at'[4] = "keyb_notifier" /\ \A q \in Proc : q # 4 => at'[q] = at[q]
        /\ rq'.state[4] = "READY"
    BY <1>1, <2>1 DEF KeybInv, Inv, ServiceStages, Steps
  <2>3. FrameInv' /\ KeybNeverPanics'
    <3>1. Moves
      BY <1>1, <2>1, <2>2 DEF Moves, ManagerMoves, ServiceMoves, NotifierMoves, ProgramMoves,
         Stays, Running
    <3> QED  BY <1>3, <2>1, <3>1, Framed
  <2>4. ServiceFirst'
    BY <2>1, <2>3, DispatchServesFirst DEF FrameInv, Steps
  <2>5. DataInv'
    <3> USE DEF KeybInv, Inv, localVars
    <3>1. /\ \A p \in Proc : \A s \in SendStates : rq'.state[p] = s <=> rq.state[p] = s
          /\ rq.state[3] \notin SendStates /\ rq.state[4] \notin SendStates
      BY <1>1, <1>5, <2>1 DEF SendStates
    <3>2. /\ \A p \in Proc : Reading(p)' <=> Reading(p)
          /\ \A p \in Proc : Blocks(p)' <=> Blocks(p)
          /\ \A w : Seen(w)' <=> Seen(w)
          /\ Ids' = Ids /\ Focus' = Focus
      BY DEF Reading, Blocks, Seen, Ids, Focus
    <3>3. \A p \in Proc : \A r : Asks(p, r)' <=> Asks(p, r)
      BY <3>1, <3>2 DEF Asks, PortOf, SendStates
    <3>4. /\ Handles(2)' <=> Handles(2)
          /\ Messenger(2)' = Messenger(2) /\ Content(2)' = Content(2)
      BY <2>1, <2>2 DEF Handles, Messenger, Content
    <3>5. Handles(3)' /\ Messenger(3)' = 4 /\ Content(3)' = 4 /\ Unheard' /\ ~Handles(3)
      BY <1>5, <2>1, <2>2 DEF Handles, Messenger, Content, Unheard
    <3>6. DataTyped'
      BY <3>2 DEF DataTyped, Found, RealKeys
    <3>7. OneAtATime'
      <4>1. \A p \in Proc : rq'.state[p] = "SEND_BLOCKED" => p = 3
        BY <3>1 DEF OneAtATime, SendStates
      <4>2. \A p \in Proc : rq'.state[p] \in {"SEND_BLOCKED", "MESSAGE_BLOCKED"} =>
              param_data'[p] = p
        BY <2>1, <3>1 DEF OneAtATime, SendStates
      <4>3. \A r \in {2, 3} : Handles(r)' =>
              \E m \in Proc : /\ Messenger(r)' = m /\ Content(r)' = m
                              /\ Asks(m, r)' \/ (r = 3 /\ m = 4)
        BY <3>3, <3>4, <3>5 DEF OneAtATime
      <4>4. \A p \in Proc : Asks(p, 2)' => Handles(2)' /\ p = Messenger(2)'
        BY <3>3, <3>4 DEF OneAtATime
      <4>5. at'[3] \notin Asking
        BY <2>2 DEF Asking
      <4> QED  BY <4>1, <4>2, <4>3, <4>4, <4>5 DEF OneAtATime
    <3>8. ServiceAsks'
      BY <2>1, <2>2 DEF ServiceAsks, Asking
    <3>9. ProgramsHaveWindows'
      <4>1. \A p \in Proc : at'[p] = "program" <=> at[p] = "program"
        BY <1>1, <2>2
      <4> QED  BY <3>1, <3>2, <3>3, <4>1 DEF ProgramsHaveWindows, SendStates
    <3>10. KeysAreKept'
      BY <1>1, <2>2, <3>5 DEF KeysAreKept, WithKey
    <3>11. RecordsAreFound'
      BY <2>2 DEF RecordsAreFound, WithClient
    <3>12. RecordsAreRight'
      <4>1. \A w : BeingGiven(w)' <=> BeingGiven(w)
        BY <2>2 DEF BeingGiven
      <4>2. \A p \in Proc : Reading(p) => ~ServedNow(p) /\ ~ServedNow(p)'
        BY <2>2, <3>5 DEF ServedNow, WithClient, ProgramsHaveWindows
      <4> QED  BY <3>1, <3>2, <4>1, <4>2 DEF RecordsAreRight, SendStates
    <3>13. FocusIsKnown'
      BY <2>2, <3>2 DEF FocusIsKnown
    <3> QED  BY <3>6, <3>7, <3>8, <3>9, <3>10, <3>11, <3>12, <3>13 DEF DataInv
  <2> QED  BY <2>1, <2>3, <2>4, <2>5, Together DEF Steps
<1> QED  BY <1>4, <1>5

LEMMA NotifierInv ==
  ASSUME KeybInv, NEW p \in Proc, KeybNotifier(p)
  PROVE  KeybInv'
<1> USE Processes DEF wmVars, dataVars
<1>1. p = 4
  BY WhereTheyAre DEF KeybNotifier, keyb_notifier, Runs, BootPlaces, WithKey, WithClient
<1>2. UNCHANGED <<wmVars, keyb_port, keyb_msg, keyb_clients, current_window, localVars>>
  BY DEF KeybNotifier, keyb_notifier
<1>3. CASE Runs(4, "keyb_notifier") /\ Waits(4, KEYB_IRQ, "keyb_scan") /\ UNCHANGED new_key
  BY <1>2, <1>3, WaitInv DEF Runs
<1>4. ASSUME NEW code \in Codes, Runs(4, "keyb_scan"),
             IF code = MODIFIER THEN UNCHANGED new_key ELSE new_key' = get_keycode(code),
             \/ NoKeystroke(code) /\ Computes(4, "keyb_notifier")
             \/ ~NoKeystroke(code) /\ Messages(4, keyb_port, 4, "keyb_notifier")
      PROVE  KeybInv'
  <2>1. new_key' \in Keys \cup {NoKey}
    BY <1>4 DEF Codes, get_keycode, KeybInv, Inv, DataTyped
  <2>2. ~NoKeystroke(code) => new_key' \in Keys \ {NoKey}
    BY <1>4 DEF Codes, get_keycode, NoKeystroke, RealKeys
  <2> QED  BY <1>2, <1>4, <2>1, <2>2, ScanInv, KeyIsToldInv
<1> QED  BY <1>1, <1>3, <1>4 DEF KeybNotifier, keyb_notifier

-----------------------------------------------------------------------------
(* Interrupts *)

(* A tick: nobody waits for the timer. *)
LEMMA TickInv ==
  ASSUME KeybInv, Tick
  PROVE  KeybInv'
<1> USE Processes DEF wmVars, keybVars, dataVars, progVars
<1>1. interrupt_table[TIMER_IRQ] = NULL
  BY DEF KeybInv, Inv, OnlyKeysAreAwaited, Irq, TIMER_IRQ, KEYB_IRQ
<1>2. /\ rq' = rq /\ active_proc' = dispatcher(rq', active_proc)
      /\ UNCHANGED <<ipcVars, portVars, procVars, interrupt_table, halt, pc>>
  BY <1>1 DEF Tick, isr_timer, resign
<1>3. UNCHANGED <<rq, param_proc, param_data, next_blocked, port, ports,
                  next_free_port, next_free_pcb, new_proc, interrupt_table, halt, pc,
                  received, at, ret, wm_port, keyb_port, dataVars>>
  BY <1>2 DEF ipcVars, portVars, procVars, Tick
<1>4. K!IInv' /\ K!HighestStep
  <2>1. \A r, s \in Proc : InPcb(r, s)' <=> InPcb(r, s)
    BY <1>3 DEF InPcb
  <2>2. \A q \in Proc : PortOf(q)' = PortOf(q)
    BY <1>3 DEF PortOf, Reading
  <2>3. K!Unchanged
    BY <1>3, <2>1, <2>2, SameWaiting
  <2>4. K!isr_timer
    BY <1>3, SameInterruptCalls DEF Tick
  <2>5. K!IsrTimer
    BY <2>3, <2>4 DEF K!IsrTimer
  <2> QED  BY <2>5, KernelStep DEF K!GNext, K!Interrupt, KeybInv
<1>5. Steps(4, at[4])
  BY <1>3, <1>4 DEF Steps, KeybInv, Inv, Typed
<1>6. FrameInv' /\ KeybNeverPanics'
  <2>1. Moves
    BY <1>3 DEF Moves, ManagerMoves, ServiceMoves, NotifierMoves, ProgramMoves, Stays
  <2> QED  BY <1>3, <1>5, <2>1, Framed
<1>7. ServiceFirst'
  BY <1>2, <1>4, <1>6, DispatchServesFirst DEF FrameInv
<1>8. DataInv'
  <2>1. SamePlaces
    BY <1>3 DEF SamePlaces
  <2>2. rq'.state[0] \in {"READY", "ZOMBIE"}
    BY <1>3 DEF KeybInv, Inv, BootStages
  <2> QED  BY <1>3, <2>1, <2>2, DataIsKept
<1> QED  BY <1>4, <1>6, <1>7, <1>8, Together

(* A keystroke finds the notifier waiting for it, and keyb_process has     *)
(* read the one before.                                                    *)
LEMMA KeyFindsNotifier ==
  ASSUME KeybInv, NotifierWaits
  PROVE  /\ interrupt_table[KEYB_IRQ] = 4 /\ pc[4] = "wait_for_interrupt"
         /\ at[4] = "keyb_scan" /\ rq.state[4] = "INTR_BLOCKED"
         /\ ~Unread => ~Unheard
<1> USE Processes DEF KeybInv, Inv
<1>1. interrupt_table \in [Irq -> ProcOrNull]
  BY KernelTypes
<1>2. PICK n \in Proc : interrupt_table[KEYB_IRQ] = n
  BY <1>1 DEF NotifierWaits, Irq, ProcOrNull
<1>3. pc[n] = "wait_for_interrupt"
  BY <1>2, SameSets DEF K!IInv, K!WaitersAreRegistered, Irq, KEYB_IRQ
<1>4. n = 4
  BY <1>3, CallersAre
<1>5. at[4] = "keyb_scan"
  BY <1>3, <1>4 DEF NotifierStages
<1>6. Unheard => Unread
  <2>1. ASSUME Unheard PROVE Unread
    <3>1. at[3] = "keyb_received" /\ rq.state[3] = "READY" /\ Messenger(3) = 4
      BY <2>1 DEF Unheard, Handles
    <3>2. pc[3] \in {"user", "receive"} /\ Exists(4) /\ ret[3] = 3
      BY <3>1 DEF ServiceStages
    <3>3. port[3].owner = 4
      <4>1. next_free_port >= 4
        BY <3>2 DEF PortsAreOwned
      <4> QED  BY <4>1 DEF PortsAreOwned
    <3> QED  BY <3>1, <3>2, <3>3 DEF Unread, Messenger, Sender, Returned
  <2> QED  BY <2>1
<1> QED  BY <1>2, <1>3, <1>4, <1>5, <1>6 DEF NotifierWaits

LEMMA KeyStrokeInv ==
  ASSUME Patient, KeybInv, KeyStroke
  PROVE  KeybInv'
<1> USE Processes DEF wmVars, keybVars, dataVars, progVars
<1>1. /\ interrupt_table[KEYB_IRQ] = 4 /\ pc[4] = "wait_for_interrupt"
      /\ at[4] = "keyb_scan" /\ rq.state[4] = "INTR_BLOCKED"
      /\ ~Unheard /\ windows # <<>>
  BY KeyFindsNotifier DEF KeyStroke, key_stroke
<1>2. /\ rq' = add_ready_queue(rq, 4) /\ active_proc' = dispatcher(rq', active_proc)
      /\ UNCHANGED <<ipcVars, portVars, procVars, interrupt_table, halt, pc>>
  BY <1>1 DEF KeyStroke, key_stroke, isr_keyb, isr_device, resign
<1>3. /\ rq'.state[4] = "READY" /\ rq'.priority = rq.priority
      /\ \A q \in Proc : q # 4 => rq'.state[q] = rq.state[q]
  <2>1. rq \in QueueRecord
    BY KernelTypes DEF KeybInv
  <2>2. rq'.state = [rq.state EXCEPT ![4] = "READY"] /\ rq'.priority = rq.priority
    BY <1>2, <2>1, StateOf
  <2> QED  BY <2>1, <2>2 DEF QueueRecord
<1>4. UNCHANGED <<param_proc, param_data, next_blocked, port, ports,
                  next_free_port, next_free_pcb, new_proc, interrupt_table, halt, pc,
                  received, at, ret, wm_port, keyb_port, dataVars>>
  BY <1>2 DEF ipcVars, portVars, procVars, KeyStroke, key_stroke
<1>5. K!IInv' /\ K!HighestStep
  <2>1. \A r, s \in Proc : InPcb(r, s)' <=> InPcb(r, s)
    BY <1>1, <1>3, <1>4 DEF InPcb
  <2>2. \A q \in Proc : PortOf(q)' = PortOf(q)
    BY <1>4 DEF PortOf, Reading
  <2>3. K!Unchanged
    BY <1>1, <1>3, <1>4, <2>1, <2>2, SameWaiting DEF SendStates
  <2>4. K!isr_keyb
    BY <1>4, SameInterruptCalls DEF KeyStroke, key_stroke
  <2>5. K!IsrKeyb
    BY <2>3, <2>4 DEF K!IsrKeyb
  <2> QED  BY <2>5, KernelStep DEF K!GNext, K!Interrupt, KeybInv
<1>6. Steps(4, "keyb_scan")
  BY <1>1, <1>3, <1>4, <1>5 DEF Steps, KeybInv, Inv, Typed
<1>7. FrameInv' /\ KeybNeverPanics'
  <2>1. Moves
    BY <1>1, <1>3, <1>4 DEF Moves, ManagerMoves, ServiceMoves, NotifierMoves, ProgramMoves,
       Stays, Running
  <2> QED  BY <1>3, <1>4, <1>6, <2>1, Framed
<1>8. ServiceFirst'
  BY <1>2, <1>5, <1>7, DispatchServesFirst DEF FrameInv
<1>9. DataInv'
  <2>1. /\ DataTyped' /\ OneAtATime' /\ ServiceAsks' /\ ProgramsHaveWindows'
        /\ RecordsAreFound' /\ RecordsAreRight' /\ FocusIsKnown'
        /\ Unheard' <=> Unheard
    <3>1. new_key' \in Keys \cup {NoKey}
      BY <1>4 DEF KeybInv, Inv, DataTyped
    <3>2. at'[4] # "program"
      BY <1>1, <1>4
    <3> QED  BY <1>3, <1>4, <3>1, <3>2, NotifierData
  <2>2. KeysAreKept'
    BY <1>1, <1>3, <1>4, <2>1 DEF KeysAreKept, KeybInv, Inv, localVars
  <2> QED  BY <2>1, <2>2 DEF DataInv
<1> QED  BY <1>5, <1>7, <1>8, <1>9, Together

(* Who stays, moves as it may. *)
LEMMA StaysMoves ==
  /\ Stays(2) => ManagerMoves
  /\ Stays(3) => ServiceMoves
  /\ Stays(4) => NotifierMoves
  /\ (\A q \in Proc : q > 4 => Stays(q)) => ProgramMoves
BY Zenon DEF ManagerMoves, ServiceMoves, NotifierMoves, ProgramMoves

-----------------------------------------------------------------------------
(* The manager *)

(* The manager waits for a request: nobody has asked. *)
LEMMA ManagerWaits ==
  ASSUME KeybInv, Runs(2, "wm"), ports[2] # <<>>, receive(2), receive_block(2),
         Jump(2, "wm_handle"), UNCHANGED <<ret, wm_port, keyb_port, dataVars>>
  PROVE  KeybInv'
<1> USE Processes DEF dataVars, localVars
<1>1. /\ Steps(2, "wm_handle") /\ K!HighestStep /\ pc[2] = "user" /\ active_proc = 2
      /\ active_proc' = dispatcher(rq', active_proc)
      /\ pc'[2] = "receive" /\ \A q \in Proc : q # 2 => pc'[q] = pc[q]
      /\ rq.state[2] = "READY" /\ rq'.state[2] = "RECEIVE_BLOCKED"
      /\ \A q \in Proc : q # 2 => /\ rq'.state[q] = rq.state[q]
                                  /\ param_data'[q] = param_data[q]
                                  /\ received'[q] = received[q]
      /\ UNCHANGED <<param_proc, interrupt_table>>
  <2>1. "wm_handle" \in Places
    BY DEF Places
  <2> QED  BY <2>1, BlocksStep DEF Runs
<1>2. /\ at[2] = "wm" /\ at'[2] = "wm_handle" /\ \A q \in Proc : q # 2 => at'[q] = at[q]
  BY <1>1 DEF Runs, Steps
<1>3. FrameInv' /\ KeybNeverPanics'
  <2>1. \A q \in Proc : q # 2 => Stays(q)
    BY <1>1, <1>2 DEF Stays
  <2>2. ManagerMoves
    BY <1>1, <1>2 DEF ManagerMoves, Running
  <2>3. Moves
    BY <2>1, <2>2, StaysMoves DEF Moves
  <2> QED  BY <1>1, <2>3, Framed
<1>4. ServiceFirst'
  BY <1>1, <1>3, DispatchServesFirst DEF FrameInv, Steps
<1> USE DEF KeybInv, Inv
<1>5. /\ \A p \in Proc : \A s \in SendStates : rq'.state[p] = s <=> rq.state[p] = s
      /\ \A p \in Proc : rq.state[p] \in SendStates => p # 2
  BY <1>1 DEF SendStates
<1>6. /\ \A p \in Proc : Reading(p)' <=> Reading(p)
      /\ \A p \in Proc : Blocks(p)' <=> Blocks(p)
      /\ \A w : Seen(w)' <=> Seen(w)
      /\ Ids' = Ids /\ Focus' = Focus
  BY DEF Reading, Blocks, Seen, Ids, Focus
<1>7. \A p \in Proc : \A r : Asks(p, r)' <=> Asks(p, r)
  BY <1>5, <1>6 DEF Asks, PortOf, SendStates
<1>8. /\ ~Handles(2) /\ ~Handles(2)'
      /\ Handles(3)' <=> Handles(3)
      /\ Messenger(3)' = Messenger(3) /\ Content(3)' = Content(3)
      /\ Unheard' <=> Unheard
  BY <1>1, <1>2 DEF Handles, Messenger, Content, Unheard
<1>9. DataTyped'
  BY <1>6 DEF DataTyped, Found
<1>10. OneAtATime'
  <2>1. \A p \in Proc : rq'.state[p] = "SEND_BLOCKED" => p = 3
    BY <1>5 DEF OneAtATime, SendStates
  <2>2. \A p \in Proc : rq'.state[p] \in {"SEND_BLOCKED", "MESSAGE_BLOCKED"} =>
          param_data'[p] = p
    BY <1>1, <1>5 DEF OneAtATime, SendStates
  <2>3. \A r \in {2, 3} : Handles(r)' =>
          \E m \in Proc : /\ Messenger(r)' = m /\ Content(r)' = m
                          /\ Asks(m, r)' \/ (r = 3 /\ m = 4)
    BY <1>7, <1>8 DEF OneAtATime
  <2>4. \A p \in Proc : ~Asks(p, 2)'
    BY <1>7, <1>8 DEF OneAtATime
  <2> QED  BY <1>8, <2>1, <2>2, <2>3, <2>4 DEF OneAtATime
<1>11. ServiceAsks'
  BY <1>1, <1>2, <1>6 DEF ServiceAsks, Question
<1>12. ProgramsHaveWindows'
  <2>1. \A p \in Proc : at'[p] = "program" <=> at[p] = "program"
    BY <1>2
  <2> QED  BY <1>5, <1>6, <1>7, <2>1 DEF ProgramsHaveWindows, SendStates
<1>13. KeysAreKept'
  BY <1>1, <1>2, <1>8 DEF KeysAreKept
<1>14. RecordsAreFound'
  <2>1. RecordsAreFound /\ at'[3] = at[3] /\ UNCHANGED <<keyb_msg, keyb_window>>
    BY <1>2
  <2> QED  BY ONLY Processes, <1>6, <1>7, <1>8, <2>1 DEF RecordsAreFound
<1>15. RecordsAreRight'
  <2>1. \A w : BeingGiven(w)' <=> BeingGiven(w)
    BY <1>2 DEF BeingGiven
  <2>2. \A p : ServedNow(p)' <=> ServedNow(p)
    BY <1>2, <1>8 DEF ServedNow
  <2> QED  BY <1>5, <1>6, <2>1, <2>2 DEF RecordsAreRight, SendStates
<1>16. FocusIsKnown'
  BY <1>2, <1>6 DEF FocusIsKnown
<1>17. DataInv'
  BY <1>9, <1>10, <1>11, <1>12, <1>13, <1>14, <1>15, <1>16 DEF DataInv
<1> QED  BY <1>1, <1>3, <1>4, <1>17, Together DEF Steps

(* keyb_process has asked. *)
LEMMA ManagerTakes ==
  ASSUME KeybInv, Runs(2, "wm"), receive(2), receive_pending(2),
         Jump(2, "wm_handle"), UNCHANGED <<ret, wm_port, keyb_port, dataVars>>
  PROVE  KeybInv'
<1> USE Processes DEF dataVars, localVars
<1>1. /\ Steps(2, "wm_handle") /\ pc[2] = "user" /\ active_proc = 2 /\ rq.state[2] = "READY"
      /\ rq.state[3] = "SEND_BLOCKED" /\ rq'.state[3] = "REPLY_BLOCKED"
      /\ \A q \in Proc : q # 3 => rq'.state[q] = rq.state[q]
      /\ received'[2][1] = 3 /\ received'[2][2] = param_data[3]
      /\ \A q \in Proc : q # 2 => received'[q] = received[q]
      /\ UNCHANGED <<active_proc, param_proc, param_data, interrupt_table, pc>>
  <2>1. "wm_handle" \in Places
    BY DEF Places
  <2>2. PICK h \in Proc :
          /\ h = 3 /\ rq.state[h] = "SEND_BLOCKED" /\ rq'.state[h] = "REPLY_BLOCKED"
          /\ \A q \in Proc : q # h => rq'.state[q] = rq.state[q]
          /\ received'[2][1] = h /\ received'[2][2] = param_data[h]
    BY <2>1, TakesStep DEF Runs
  <2> QED  BY <2>1, <2>2, TakesStep DEF Runs
<1>2. /\ at[2] = "wm" /\ at'[2] = "wm_handle" /\ \A q \in Proc : q # 2 => at'[q] = at[q]
  BY <1>1 DEF Runs, Steps
<1>3. at[3] \in Asking /\ PortOf(3) = 1 /\ pc[3] = "user"
  BY <1>1, BlockedAre DEF SendStates
<1>4. FrameInv' /\ KeybNeverPanics'
  <2>1. at[3] # "keyb_process"
    BY <1>3 DEF Asking
  <2>2. ServiceMoves
    <3>1. /\ pc[3] = "user" /\ pc'[3] = "user" /\ at'[3] \in Asking
          /\ rq'.state[3] = "REPLY_BLOCKED"
      BY <1>1, <1>2, <1>3
    <3>2. Asking \subseteq WithKey \cup WithClient
      BY DEF Asking, WithKey, WithClient
    <3> QED  BY ONLY <2>1, <3>1, <3>2 DEF ServiceMoves, Running
  <2>3. ManagerMoves
    BY <1>1, <1>2 DEF ManagerMoves, Running
  <2>4. \A q \in Proc : q # 2 /\ q # 3 => Stays(q)
    BY <1>1, <1>2 DEF Stays
  <2>5. Moves
    BY <2>2, <2>3, <2>4, StaysMoves DEF Moves
  <2> QED  BY <1>1, <2>5, Framed
<1> USE DEF KeybInv, Inv
<1>5. ServiceFirst'
  BY <1>1, <1>2 DEF ServiceFirst, Services
<1>6. /\ \A p \in Proc : Reading(p)' <=> Reading(p)
      /\ \A p \in Proc : Blocks(p)' <=> Blocks(p)
      /\ \A w : Seen(w)' <=> Seen(w)
      /\ Ids' = Ids /\ Focus' = Focus
  BY DEF Reading, Blocks, Seen, Ids, Focus
<1>7. /\ \A p \in Proc : p # 3 => \A r : Asks(p, r)' <=> Asks(p, r)
      /\ Asks(3, 2)' /\ \A r : r # 2 => ~Asks(3, r)' /\ ~Asks(3, r)
  BY <1>1, <1>3, <1>6 DEF Asks, PortOf
<1>8. /\ ~Handles(2) /\ Handles(2)' /\ Messenger(2)' = 3 /\ Content(2)' = 3
      /\ Unheard' <=> Unheard
      /\ ~Handles(3) /\ ~Handles(3)' /\ Messenger(3)' = Messenger(3)
  <2>1. param_data[3] = 3
    BY <1>1 DEF OneAtATime
  <2> QED  BY <1>1, <1>2, <2>1 DEF Handles, Messenger, Content, Unheard
<1>9. DataTyped'
  BY <1>6 DEF DataTyped, Found
<1>10. OneAtATime'
  <2>1. \A p \in Proc : rq'.state[p] # "SEND_BLOCKED"
    <3>1. OneAtATime
      OBVIOUS
    <3> QED  BY ONLY <1>1, <3>1 DEF OneAtATime
  <2>2. \A p \in Proc : rq'.state[p] \in {"SEND_BLOCKED", "MESSAGE_BLOCKED"} =>
          param_data'[p] = p
    BY <1>1 DEF OneAtATime
  <2>3. \A r \in {2, 3} : Handles(r)' =>
          \E m \in Proc : /\ Messenger(r)' = m /\ Content(r)' = m
                          /\ Asks(m, r)' \/ (r = 3 /\ m = 4)
    BY <1>7, <1>8
  <2>4. \A p \in Proc : Asks(p, 2)' => p = 3
    BY <1>7, <1>8 DEF OneAtATime
  <2> QED  BY <1>8, <2>1, <2>2, <2>3, <2>4 DEF OneAtATime
<1>11. ServiceAsks'
  BY <1>1, <1>2, <1>6 DEF ServiceAsks, Question
<1>12. ProgramsHaveWindows'
  <2>1. /\ \A p \in Proc : at'[p] = "program" <=> at[p] = "program"
        /\ at[3] # "program" /\ ~Reading(3)
    BY <1>2, <1>3 DEF Asking, PortOf
  <2> QED  BY <1>1, <1>6, <1>7, <2>1 DEF ProgramsHaveWindows
<1>13. KeysAreKept'
  BY <1>1, <1>2, <1>8 DEF KeysAreKept
<1>14. RecordsAreFound'
  BY <1>2, <1>6, <1>7, <1>8 DEF RecordsAreFound
<1>15. RecordsAreRight'
  <2>1. \A w : BeingGiven(w)' <=> BeingGiven(w)
    BY <1>2 DEF BeingGiven
  <2>2. \A p : ServedNow(p)' <=> ServedNow(p)
    <3>1. at'[3] = at[3] /\ Messenger(3)' = Messenger(3)
      BY <1>2, <1>8
    <3> QED  BY ONLY <1>8, <3>1 DEF ServedNow
  <2>3. \A p \in Proc : rq.state[p] = "REPLY_BLOCKED" => rq'.state[p] = "REPLY_BLOCKED"
    BY <1>1
  <2>4. RecordsAreRight /\ UNCHANGED <<keyb_clients, keyb_msg>>
    OBVIOUS
  <2> QED  BY ONLY <2>1, <2>2, <2>3, <2>4 DEF RecordsAreRight, Reading, Blocks, Seen
<1>16. FocusIsKnown'
  BY <1>2, <1>6 DEF FocusIsKnown
<1>17. DataInv'
  BY <1>9, <1>10, <1>11, <1>12, <1>13, <1>14, <1>15, <1>16 DEF DataInv
<1> QED  BY <1>1, <1>4, <1>5, <1>17, Together DEF Steps

(* receive() returns to a service: the message stays the same. *)
LEMMA ReceiveReturnInv ==
  ASSUME KeybInv, NEW p \in Proc, receive_return(p),
         UNCHANGED <<at, ret, wm_port, keyb_port, dataVars>>
  PROVE  KeybInv'
<1> USE Processes DEF dataVars, localVars
<1>1. /\ p \in {2, 3} /\ Steps(p, at[p]) /\ active_proc = p /\ pc[p] = "receive"
      /\ pc'[p] = "user" /\ \A q \in Proc : q # p => pc'[q] = pc[q]
      /\ received'[p][1] = param_proc[p] /\ received'[p][2] = param_data[p]
      /\ \A q \in Proc : q # p => received'[q] = received[q]
      /\ rq.state[p] = "READY"
      /\ UNCHANGED <<rq, active_proc, param_proc, param_data, port, interrupt_table, at>>
  BY ReturnStep
<1>2. FrameInv' /\ KeybNeverPanics'
  <2>1. /\ p = 2 => at[2] = "wm_handle"
        /\ p = 3 => at[3] = "keyb_received"
    BY <1>1 DEF KeybInv, Inv, ManagerStages, ServiceStages
  <2>2. \A q \in Proc : q # p => Stays(q)
    BY <1>1 DEF Stays
  <2>3. p = 2 => ManagerMoves
    BY <1>1, <2>1 DEF ManagerMoves, Running
  <2>4. p = 3 => ServiceMoves
    BY <1>1, <2>1 DEF ServiceMoves, Running
  <2>5. Moves
    BY <1>1, <2>2, <2>3, <2>4, StaysMoves DEF Moves
  <2> QED  BY <1>1, <2>5, Framed
<1> USE DEF KeybInv, Inv
<1>3. ServiceFirst'
  BY <1>1 DEF ServiceFirst, Services
<1>4. /\ \A q \in Proc : Reading(q)' <=> Reading(q)
      /\ \A q \in Proc : Blocks(q)' <=> Blocks(q)
      /\ \A w : Seen(w)' <=> Seen(w)
      /\ Ids' = Ids /\ Focus' = Focus
      /\ \A q \in Proc : \A r : Asks(q, r)' <=> Asks(q, r)
  BY <1>1 DEF Reading, Blocks, Seen, Ids, Focus, Asks, PortOf
<1>5. /\ \A r \in {2, 3} : /\ Handles(r)' <=> Handles(r)
                           /\ Messenger(r)' = Messenger(r) /\ Content(r)' = Content(r)
      /\ Unheard' <=> Unheard
  BY <1>1 DEF Handles, Messenger, Content, Unheard
<1>6. DataTyped'
  BY <1>4 DEF DataTyped, Found
<1>7. OneAtATime' /\ ServiceAsks' /\ ProgramsHaveWindows'
  <2>1. OneAtATime'
    BY <1>1, <1>4, <1>5 DEF OneAtATime
  <2>2. ServiceAsks'
    BY <1>1, <1>4 DEF ServiceAsks, Question
  <2>3. ProgramsHaveWindows'
    BY <1>1, <1>4 DEF ProgramsHaveWindows
  <2> QED  BY <2>1, <2>2, <2>3
<1>8. KeysAreKept' /\ RecordsAreFound' /\ RecordsAreRight' /\ FocusIsKnown'
  <2>1. KeysAreKept'
    BY <1>1, <1>5 DEF KeysAreKept
  <2>2. RecordsAreFound'
    BY <1>1, <1>4, <1>5 DEF RecordsAreFound
  <2>3. RecordsAreRight'
    <3>1. \A w : BeingGiven(w)' <=> BeingGiven(w)
      BY <1>1 DEF BeingGiven
    <3>2. \A q : ServedNow(q)' <=> ServedNow(q)
      BY <1>1, <1>5 DEF ServedNow
    <3> QED  BY <1>1, <1>4, <3>1, <3>2 DEF RecordsAreRight
  <2>4. FocusIsKnown'
    BY <1>1, <1>4 DEF FocusIsKnown
  <2> QED  BY <2>1, <2>2, <2>3, <2>4
<1>9. DataInv'
  BY <1>6, <1>7, <1>8 DEF DataInv
<1> QED  BY <1>1, <1>2, <1>3, <1>9, Together DEF Steps

(* The window manager handles the message of the process it is asked by. *)
LEMMA ManagerHandles ==
  ASSUME KeybInv, Runs(2, "wm_handle")
  PROVE  /\ At(2, "user") /\ pc[2] = "user" /\ active_proc = 2 /\ at[2] = "wm_handle"
         /\ Handles(2)
         /\ \E m \in Proc :
              /\ Sender(2) = m /\ Message(2) = m /\ Messenger(2) = m /\ Asks(m, 2)
              /\ rq.state[m] = "REPLY_BLOCKED" /\ pc[m] = "user" /\ PortOf(m) = 1
              /\ \/ m = 3 /\ at[3] \in Asking
                 \/ m > 4 /\ at[m] = "program" /\ ~Early /\ ~Reading(m)
              /\ \A p \in Proc : Asks(p, 2) => p = m
<1> USE Processes
<1>1. /\ At(2, "user") /\ pc[2] = "user" /\ active_proc = 2 /\ at[2] = "wm_handle"
  BY DEF Runs, At
<1>2. rq.state[2] = "READY"
  BY <1>1, KernelPlaces DEF KeybInv
<1>3. Handles(2)
  BY <1>1, <1>2 DEF Handles
<1>4. PICK m \in Proc : Messenger(2) = m /\ Content(2) = m /\ Asks(m, 2)
  BY <1>3 DEF KeybInv, Inv, OneAtATime
<1>5. Sender(2) = m /\ Message(2) = m
  BY <1>1, <1>4 DEF Messenger, Content, Sender, Message
<1>6. rq.state[m] = "REPLY_BLOCKED" /\ PortOf(m) = 1
  BY <1>4 DEF Asks
<1>7. /\ pc[m] = "user"
      /\ \/ m = 3 /\ at[3] \in Asking
         \/ m > 4 /\ at[m] = "program" /\ ~Reading(m)
  BY <1>6, BlockedAre DEF SendStates
<1>8. m > 4 => ~Early
  BY <1>7 DEF KeybInv, Inv, ProgramStages, Early
<1>9. \A p \in Proc : Asks(p, 2) => p = m
  BY <1>4 DEF KeybInv, Inv, OneAtATime
<1> QED  BY <1>1, <1>3, <1>4, <1>5, <1>6, <1>7, <1>8, <1>9

(* It replies: the process it was asked by goes on, with what it is told. *)
LEMMA ManagerReplies ==
  ASSUME KeybInv, Runs(2, "wm_handle"), NEW m \in Proc, Messenger(2) = m, Asks(m, 2),
         PortOf(m) = 1, \A p \in Proc : Asks(p, 2) => p = m,
         \/ m = 3 /\ at[3] \in Asking
         \/ m > 4 /\ at[m] = "program" /\ ~Early /\ ~Reading(m),
         Replies(2, m, "wm"), UNCHANGED <<wm_port, keybVars>>,
         \A q \in Proc : q # m => wm_msg'[q] = wm_msg[q],
         Ids \subseteq Ids', windows # <<>> => windows' # <<>>,
         m = 3 => (windows' # <<>> => windows # <<>>),
         DataTyped', FocusIsKnown',
         m = 3 /\ at[3] # "moved" => wm_msg'[3].window_id = Focus',
         m > 4 => /\ wm_msg'[m].window_id \in Ids'
                  /\ \/ wm_msg'[m].window_id = wm_msg[m].window_id
                     \/ wm_msg'[m].window_id \notin Ids
  PROVE  KeybInv'
<1> USE Processes DEF keybVars, localVars
<1>1. /\ Steps(2, "wm") /\ K!HighestStep /\ pc[2] = "user" /\ active_proc = 2
      /\ active_proc' = dispatcher(rq', active_proc)
      /\ rq.state[2] = "READY" /\ m # 2 /\ pc[m] = "user"
      /\ rq.state[m] = "REPLY_BLOCKED" /\ rq'.state[m] = "READY"
      /\ \A q \in Proc : q # m => rq'.state[q] = rq.state[q]
      /\ UNCHANGED <<param_proc, param_data, port, interrupt_table, pc, received>>
  <2>1. "wm" \in Places
    BY DEF Places
  <2> QED  BY <2>1, ReplyStep DEF Runs, Replies
<1>2. /\ at[2] = "wm_handle" /\ at'[2] = "wm" /\ \A q \in Proc : q # 2 => at'[q] = at[q]
  BY <1>1 DEF Runs, Steps
<1>3. FrameInv' /\ KeybNeverPanics'
  <2>1. ServiceMoves
    <3>1. CASE m = 3
      <4>1. /\ pc[3] = "user" /\ pc'[3] = "user" /\ at'[3] = at[3] /\ at[3] \in Asking
            /\ rq'.state[3] = "READY"
        BY <1>1, <1>2, <3>1
      <4>2. Asking \subseteq WithKey \cup WithClient /\ "keyb_process" \notin Asking
        BY DEF Asking, WithKey, WithClient
      <4> QED  BY ONLY <4>1, <4>2 DEF ServiceMoves, Running
    <3>2. CASE m # 3
      BY <1>1, <1>2, <3>2, StaysMoves DEF Stays
    <3> QED  BY <3>1, <3>2
  <2>2. ManagerMoves
    BY <1>1, <1>2 DEF ManagerMoves, Running
  <2>3. \A q \in Proc : q # 2 /\ q # m => Stays(q)
    BY <1>1, <1>2 DEF Stays
  <2>4. ProgramMoves
    <3>1. SUFFICES ASSUME NEW q \in Proc, q > 4, ~Stays(q)
                   PROVE  /\ pc[q] = "user" /\ pc'[q] = "user" /\ at[q] # "none"
                          /\ at'[q] = "program"
                          /\ rq'.state[q] \in {"READY", "REPLY_BLOCKED"}
      BY DEF ProgramMoves
    <3>2. q = m
      BY <2>3, <3>1
    <3> QED  BY <1>1, <1>2, <3>1, <3>2
  <2>5. Stays(4)
    BY <2>3
  <2>6. Moves
    BY <2>1, <2>2, <2>4, <2>5, StaysMoves DEF Moves
  <2>7. windows' # <<>> => windows # <<>> \/ ~Early
    OBVIOUS
  <2> QED  BY <1>1, <2>6, <2>7, Framed
<1>4. ServiceFirst'
  BY <1>1, <1>3, DispatchServesFirst DEF Steps, FrameInv
<1> USE DEF KeybInv, Inv
<1>5. /\ \A p \in Proc : Reading(p)' <=> Reading(p)
      /\ \A p \in Proc : Blocks(p)' <=> Blocks(p)
      /\ \A w : Seen(w)' <=> Seen(w)
      /\ \A p \in Proc : PortOf(p)' = PortOf(p)
  BY DEF Reading, Blocks, Seen, PortOf
<1>6. /\ \A p \in Proc : ~Asks(p, 2)'
      /\ \A p \in Proc : Asks(p, 3)' <=> Asks(p, 3)
  BY <1>1, <1>5 DEF Asks
<1>7. /\ ~Handles(2)'
      /\ Handles(3)' <=> Handles(3)
      /\ Messenger(3)' = Messenger(3) /\ Content(3)' = Content(3)
  <2>1. m = 3 => at[3] # "keyb_received"
    BY DEF Asking
  <2>2. Handles(3)' <=> Handles(3)
    BY <1>1, <1>2, <2>1 DEF Handles
  <2> QED  BY <1>1, <1>2, <2>2 DEF Handles, Messenger, Content
<1>8. OneAtATime'
  <2>1. \A p \in Proc : rq'.state[p] = "SEND_BLOCKED" => p = 3
    BY <1>1 DEF OneAtATime
  <2>2. \A p \in Proc : rq'.state[p] \in {"SEND_BLOCKED", "MESSAGE_BLOCKED"} =>
          param_data'[p] = p
    BY <1>1 DEF OneAtATime
  <2>3. Handles(3)' =>
          \E q \in Proc : /\ Messenger(3)' = q /\ Content(3)' = q
                          /\ Asks(q, 3)' \/ q = 4
    BY <1>6, <1>7 DEF OneAtATime
  <2> QED  BY <1>6, <1>7, <2>1, <2>2, <2>3 DEF OneAtATime
<1>9. ServiceAsks'
  <2>1. rq'.state[3] \in {"SEND_BLOCKED", "REPLY_BLOCKED"} =>
          /\ m # 3 /\ wm_msg'[3] = wm_msg[3] /\ rq'.state[3] = rq.state[3]
    BY <1>1
  <2>2. at'[3] \in Asking \ {"moved"} /\ rq'.state[3] = "READY" => m = 3
    <3>1. SUFFICES ASSUME m # 3, at[3] \in Asking
                   PROVE  rq.state[3] = "SEND_BLOCKED"
      BY <1>1, <1>2
    <3>2. Handles(2)
      BY <1>1, <1>2 DEF Handles
    <3> QED  BY <3>1, <3>2 DEF OneAtATime
  <2>3. at'[3] = at[3] /\ Question' = Question
    BY <1>2 DEF Question
  <2>4. ServiceAsks
    OBVIOUS
  <2>5. m = 3 /\ at[3] # "moved" => wm_msg'[3].window_id = Focus'
    OBVIOUS
  <2>6. Ids \subseteq Ids'
    OBVIOUS
  <2> QED  BY ONLY <2>1, <2>2, <2>3, <2>4, <2>5, <2>6 DEF ServiceAsks
<1>10. ProgramsHaveWindows'
  <2>1. \A p \in Proc : p # m => wm_msg'[p] = wm_msg[p]
    OBVIOUS
  <2>2. \A p \in Proc : at'[p] = "program" <=> at[p] = "program"
    BY <1>2
  <2>3. \A p \in Proc : at[p] = "program" => wm_msg'[p].window_id \in Ids'
    <3>1. ASSUME NEW p \in Proc, at[p] = "program", p # m
          PROVE  wm_msg[p].window_id \in Ids
      <4>1. ~Asks(p, 2)
        BY <3>1
      <4> QED  BY <3>1, <4>1 DEF ProgramsHaveWindows
    <3>2. at[m] = "program" => m > 4
      BY DEF Asking
    <3> QED  BY <2>1, <3>1, <3>2
  <2>4. \A p \in Proc : p > 4 /\ at[p] # "program" => wm_msg'[p].window_id = NoWindow
    <3>1. m > 4 => at[m] = "program"
      OBVIOUS
    <3>2. \A p \in Proc : p > 4 /\ at[p] # "program" => wm_msg[p].window_id = NoWindow
      BY DEF ProgramsHaveWindows
    <3> QED  BY ONLY <2>1, <3>1, <3>2
  <2>5. \A p, q \in Proc :
          p > 4 /\ q > 4 /\ wm_msg'[p].window_id = wm_msg'[q].window_id =>
            p = q \/ wm_msg'[p].window_id = NoWindow
    <3>1. \A q \in Proc : wm_msg[q].window_id \in Ids \cup {NoWindow}
      BY DEF DataTyped
    <3>2. NoWindow \notin Ids'
      BY DEF Ids, NoWindow
    <3>3. \A p, q \in Proc :
          p > 4 /\ q > 4 /\ wm_msg[p].window_id = wm_msg[q].window_id =>
            p = q \/ wm_msg[p].window_id = NoWindow
      BY DEF ProgramsHaveWindows
    <3>4. m > 4 => /\ wm_msg'[m].window_id \in Ids'
                  /\ \/ wm_msg'[m].window_id = wm_msg[m].window_id
                     \/ wm_msg'[m].window_id \notin Ids
      OBVIOUS
    <3> QED  BY ONLY <2>1, <3>1, <3>2, <3>3, <3>4
  <2>6. \A p \in Proc : Reading(p) =>
          /\ p # m /\ p > 4 /\ at[p] = "program" /\ rq.state[p] = "REPLY_BLOCKED"
          /\ keyb_msg[p].window_id = wm_msg[p].window_id
    BY DEF ProgramsHaveWindows
  <2>7. \A p \in Proc : Reading(p)' =>
          /\ p > 4 /\ at'[p] = "program" /\ rq'.state[p] = "REPLY_BLOCKED"
          /\ keyb_msg'[p].window_id = wm_msg'[p].window_id
    BY <1>1, <1>5, <2>1, <2>2, <2>6
  <2> QED  BY ONLY <1>6, <2>2, <2>3, <2>4, <2>5, <2>7 DEF ProgramsHaveWindows
<1>11. KeysAreKept'
  <2>1. Unheard' <=> Unheard
    BY <1>7 DEF Unheard
  <2>2. /\ rq'.state[4] = rq.state[4] /\ at'[4] = at[4] /\ at'[3] = at[3]
        /\ UNCHANGED <<new_key, keyb_key>> /\ (windows # <<>> => windows' # <<>>)
    BY <1>1, <1>2
  <2> QED  BY ONLY <2>1, <2>2, KeybInv DEF KeybInv, Inv, KeysAreKept
<1>12. RecordsAreFound'
  BY <1>2, <1>5, <1>6, <1>7 DEF RecordsAreFound
<1>13. RecordsAreRight'
  <2>1. \A w : BeingGiven(w)' <=> BeingGiven(w)
    BY <1>2 DEF BeingGiven
  <2>2. \A p : ServedNow(p)' <=> ServedNow(p)
    <3>1. at'[3] = at[3] /\ Messenger(3)' = Messenger(3)
      BY <1>2, <1>7
    <3> QED  BY ONLY <1>7, <3>1 DEF ServedNow
  <2>3. \A p \in Proc : Reading(p) => rq'.state[p] = rq.state[p]
    <3>1. ~Reading(m)
      BY DEF ProgramsHaveWindows
    <3> QED  BY <1>1, <3>1
  <2>4. \A w \in DOMAIN keyb_clients : w # NoWindow
    BY DEF DataTyped, Ids, NoWindow
  <2>5. RecordsAreRight /\ UNCHANGED <<keyb_clients, keyb_msg>>
    OBVIOUS
  <2> QED  BY ONLY <2>1, <2>2, <2>3, <2>4, <2>5 DEF RecordsAreRight, Reading, Blocks, Seen
<1>14. DataInv'
  BY <1>8, <1>9, <1>10, <1>11, <1>12, <1>13 DEF DataInv
<1> QED  BY <1>1, <1>3, <1>4, <1>14, Together DEF Steps

(* The circular list of windows: what its operations keep. *)
LEMMA WindowLists ==
  ASSUME windows \in Seq(Ids), \A w \in Ids : Found(w)
  PROVE  /\ windows # <<>> => Head(windows) \in Ids /\ Focus \in Ids
         /\ windows' = Append(windows, next_window_id) =>
              /\ Ids \subseteq Ids' /\ next_window_id \in Ids' /\ next_window_id \notin Ids
              /\ windows' \in Seq(Ids') /\ \A w \in Ids' : Found(w)'
              /\ windows' # <<>> /\ Focus' = next_window_id
         /\ windows # <<>> /\ windows' = Append(Tail(windows), Head(windows)) =>
              /\ Ids' = Ids
              /\ windows' \in Seq(Ids') /\ \A w \in Ids' : Found(w)'
              /\ windows' # <<>> /\ Focus' = Head(windows)
<1>1. /\ Len(windows) \in Nat /\ \A k \in 1 .. Len(windows) : windows[k] \in Ids
      /\ DOMAIN windows = 1 .. Len(windows)
      /\ windows # <<>> => Len(windows) > 0
  OBVIOUS
<1>2. windows # <<>> => Head(windows) \in Ids /\ Focus \in Ids
  BY <1>1 DEF Focus, Last
<1>3. ASSUME windows' = Append(windows, Len(windows))
      PROVE  /\ Ids \subseteq Ids' /\ Len(windows) \in Ids' /\ Len(windows) \notin Ids
             /\ windows' \in Seq(Ids') /\ \A w \in Ids' : Found(w)'
             /\ windows' # <<>> /\ Focus' = Len(windows)
  <2>1. /\ Len(windows') = Len(windows) + 1
        /\ DOMAIN windows' = 1 .. Len(windows) + 1
        /\ \A k \in 1 .. Len(windows) : windows'[k] = windows[k]
        /\ windows'[Len(windows) + 1] = Len(windows)
    BY <1>1, <1>3
  <2>2. Ids \subseteq Ids' /\ Len(windows) \in Ids' /\ Len(windows) \notin Ids
    BY <1>1, <2>1 DEF Ids
  <2>3. windows' \in Seq(Ids')
    <3>1. windows \in Seq(Ids')
      BY <1>1, <2>2
    <3> QED  BY <1>3, <2>2, <3>1
  <2>4. ASSUME NEW w \in Ids' PROVE Found(w)'
    <3>1. CASE w \in Ids
      <4>1. PICK k \in 1 .. Len(windows) : windows[k] = w
        BY <1>1, <3>1 DEF Found
      <4> QED  BY <1>1, <2>1, <4>1 DEF Found
    <3>2. CASE w \notin Ids
      <4>1. w \in 0 .. Len(windows) + 1 - 1 /\ w \notin 0 .. Len(windows) - 1
        BY <2>1, <2>4, <3>2 DEF Ids
      <4>2. Len(windows) \in Int
        BY <1>1
      <4>3. \A n \in Int : \A v \in 0 .. n + 1 - 1 : v \notin 0 .. n - 1 => v = n
        OBVIOUS
      <4>4. w = Len(windows)
        BY ONLY <4>1, <4>2, <4>3
      <4> QED  BY <1>1, <2>1, <4>4 DEF Found
    <3> QED  BY <3>1, <3>2
  <2>5. windows' # <<>> /\ Focus' = Len(windows)
    BY <1>1, <2>1 DEF Focus, Last
  <2> QED  BY <2>2, <2>3, <2>4, <2>5
<1>4. ASSUME windows # <<>>, windows' = Append(Tail(windows), Head(windows))
      PROVE  /\ Ids' = Ids
             /\ windows' \in Seq(Ids') /\ \A w \in Ids' : Found(w)'
             /\ windows' # <<>> /\ Focus' = Head(windows)
  <2>1. /\ Tail(windows) \in Seq(Ids) /\ Len(Tail(windows)) = Len(windows) - 1
        /\ \A k \in 1 .. Len(windows) - 1 : Tail(windows)[k] = windows[k + 1]
        /\ Head(windows) \in Ids /\ Head(windows) = windows[1]
    BY <1>1, <1>4
  <2>2. /\ Len(windows') = Len(windows)
        /\ DOMAIN windows' = 1 .. Len(windows)
        /\ \A k \in 1 .. Len(windows) - 1 : windows'[k] = windows[k + 1]
        /\ windows'[Len(windows)] = windows[1]
        /\ windows' \in Seq(Ids)
    BY <1>1, <1>4, <2>1
  <2>3. Ids' = Ids
    BY <2>2 DEF Ids
  <2>4. ASSUME NEW w \in Ids PROVE Found(w)'
    <3>1. PICK k \in 1 .. Len(windows) : windows[k] = w
      <4>1. Found(w) /\ DOMAIN windows = 1 .. Len(windows)
        BY <1>1, <2>4
      <4> QED  BY ONLY <4>1 DEF Found
    <3>2. CASE k = 1
      BY <1>1, <1>4, <2>2, <3>1, <3>2 DEF Found
    <3>3. CASE k # 1
      <4>1. k - 1 \in 1 .. Len(windows) - 1 /\ k - 1 \in DOMAIN windows'
        BY <1>1, <2>2, <3>3
      <4>2. windows'[k - 1] = w
        BY <1>1, <2>2, <3>1, <4>1
      <4> QED  BY <4>1, <4>2 DEF Found
    <3> QED  BY <3>2, <3>3
  <2>5. windows' # <<>> /\ Focus' = Head(windows)
    BY <1>1, <1>4, <2>1, <2>2 DEF Focus, Last
  <2> QED  BY <2>2, <2>3, <2>4, <2>5
<1> QED  BY <1>2, <1>3, <1>4 DEF next_window_id

(* The window manager answers. *)
LEMMA ManagerAnswers ==
  ASSUME KeybInv, Runs(2, "wm_handle"), process_window_manager(2), UNCHANGED keybVars
  PROVE  KeybInv'
<1> USE Processes DEF keybVars, localVars
<1>1. /\ At(2, "user") /\ at[2] = "wm_handle" /\ Handles(2)
  BY ManagerHandles
<1>2. PICK m \in Proc :
              /\ m \in Proc
              /\ Sender(2) = m /\ Message(2) = m /\ Messenger(2) = m /\ Asks(m, 2)
              /\ rq.state[m] = "REPLY_BLOCKED" /\ pc[m] = "user" /\ PortOf(m) = 1
              /\ \/ m = 3 /\ at[3] \in Asking
                 \/ m > 4 /\ at[m] = "program" /\ ~Early /\ ~Reading(m)
              /\ \A p \in Proc : Asks(p, 2) => p = m
  BY ManagerHandles
<1>3. KeybInv /\ DataTyped /\ windows \in Seq(Ids) /\ \A w \in Ids : Found(w)
  BY DEF KeybInv, Inv, DataTyped
<1>4. /\ m = 3 => wm_msg[3].action = IF at[3] = "focus_changed" THEN "change_focus"
                                     ELSE IF at[3] = "moved" THEN "update"
                                     ELSE "current_focus"
      /\ m = 3 /\ at[3] = "moved" => wm_msg[3].window_id \in Ids
  BY <1>2 DEF KeybInv, Inv, ServiceAsks, Question
<1>5. m > 4 => \/ wm_msg[m].action = "create"
               \/ wm_msg[m].action = "update" /\ wm_msg[m].window_id \in Ids
  BY <1>2 DEF KeybInv, Inv, ProgramsHaveWindows
<1>6. m = 3 /\ at[3] # "moved" => windows # <<>>
  <2>1. at[3] \in WithKey => windows # <<>>
    BY DEF KeybInv, Inv, KeysAreKept
  <2>2. at[3] = "client_new_record" => keyb_window \in Ids
    BY DEF KeybInv, Inv, RecordsAreFound
  <2>3. keyb_window \in Ids => windows # <<>>
    BY DEF Ids
  <2> QED  BY <1>2, <2>1, <2>2, <2>3 DEF Asking, WithKey
<1>7. /\ wm_control_impl(m, wm_msg[m].action) /\ Replies(2, m, "wm") /\ wm_port' = wm_port
  <2>1. ~(/\ wm_msg[m].action = "update"
          /\ wm_msg[m].window_id # NoWindow /\ ~Found(wm_msg[m].window_id))
    BY <1>2, <1>3, <1>4, <1>5
  <2>2. at[2] # "wm"
    BY <1>1
  <2>3. wm_msg[Message(2)] = wm_msg[m] /\ Message(2) = m /\ Sender(2) = m
    BY <1>2
  <2> QED  BY ONLY <2>1, <2>2, <2>3, process_window_manager(2)
           DEF process_window_manager, Runs
<1>8. at'[3] = at[3]
  <2>1. "wm" \in Places
    BY DEF Places
  <2> QED  BY <1>1, <1>7, WhereTheyAre DEF Replies, Jump, KeybInv, Inv, Typed
<1>9. /\ wm_msg \in [Proc -> [action : {NULL, "create", "change_focus", "current_focus",
                                    "update"},
                              window_id : Ids \cup {NoWindow}]]
      /\ \A id : Answer(m, id) =>
           /\ wm_msg'[m] = Handled(id) /\ wm_msg'[m].window_id = id
           /\ \A q \in Proc : q # m => wm_msg'[q] = wm_msg[q]
           /\ \A I : Ids \cup {NoWindow} \subseteq I /\ id \in I =>
                wm_msg' \in [Proc -> [action : {NULL, "create", "change_focus",
                                                "current_focus", "update"},
                                      window_id : I]]
  <2>1. wm_msg \in [Proc -> [action : {NULL, "create", "change_focus", "current_focus",
                                    "update"},
                              window_id : Ids \cup {NoWindow}]]
    BY <1>3 DEF DataTyped
  <2>2. ASSUME NEW id, Answer(m, id)
        PROVE  /\ wm_msg'[m] = Handled(id) /\ wm_msg'[m].window_id = id
               /\ \A q \in Proc : q # m => wm_msg'[q] = wm_msg[q]
               /\ \A I : Ids \cup {NoWindow} \subseteq I /\ id \in I =>
                    wm_msg' \in [Proc -> [action : {NULL, "create", "change_focus",
                                                    "current_focus", "update"},
                                          window_id : I]]
    <3>1. /\ wm_msg' = [q \in Proc |-> wm_msg'[q]]
          /\ wm_msg'[m] = Handled(id) /\ \A q \in Proc : q # m => wm_msg'[q] = wm_msg[q]
      BY <1>2, <2>1, <2>2 DEF Answer
    <3>2. Handled(id).window_id = id
      BY DEF Handled
    <3>3. ASSUME NEW I, Ids \cup {NoWindow} \subseteq I, id \in I
          PROVE  \A q \in Proc : wm_msg'[q] \in
                   [action : {NULL, "create", "change_focus", "current_focus", "update"},
                    window_id : I]
      <4>1. Handled(id) \in [action : {NULL, "create", "change_focus", "current_focus",
                                       "update"}, window_id : I]
        BY <3>3 DEF Handled
      <4>2. \A q \in Proc : wm_msg[q] \in
              [action : {NULL, "create", "change_focus", "current_focus", "update"},
               window_id : I]
        BY <2>1, <3>3
      <4> QED  BY <3>1, <4>1, <4>2
    <3> QED  BY <3>1, <3>2, <3>3
  <2> QED  BY <2>1, <2>2
<1> HIDE DEF Answer
<1> DEFINE Hyps ==
         /\ \A q \in Proc : q # m => wm_msg'[q] = wm_msg[q]
         /\ Ids \subseteq Ids' /\ (windows # <<>> => windows' # <<>>)
         /\ m = 3 => (windows' # <<>> => windows # <<>>)
         /\ DataTyped' /\ FocusIsKnown'
         /\ m = 3 /\ at[3] # "moved" => wm_msg'[3].window_id = Focus'
         /\ m > 4 => /\ wm_msg'[m].window_id \in Ids'
                     /\ \/ wm_msg'[m].window_id = wm_msg[m].window_id
                        \/ wm_msg'[m].window_id \notin Ids
<1>10. ASSUME Ids \subseteq Ids', windows' \in Seq(Ids'), \A w \in Ids' : Found(w)',
              wm_msg' \in [Proc -> [action : {NULL, "create", "change_focus",
                                              "current_focus", "update"},
                                    window_id : Ids' \cup {NoWindow}]]
       PROVE  DataTyped'
  <2>1. DOMAIN keyb_clients \subseteq Ids
    BY <1>3 DEF DataTyped
  <2>2. \A q \in Proc : keyb_msg[q] \in [window_id : Ids' \cup {NoWindow}, block : BOOLEAN,
                                         key : Chars \cup {NoKey}]
    BY <1>3, <1>10 DEF DataTyped
  <2> QED  BY <1>3, <1>10, <2>1, <2>2 DEF DataTyped
<1>11. CASE m > 4 /\ wm_msg[m].action = "create"
  <2>1. windows' = Append(windows, next_window_id) /\ Answer(m, next_window_id)
    BY <1>7, <1>11 DEF wm_control_impl, wm_create_impl
  <2>2. /\ Ids \subseteq Ids' /\ next_window_id \in Ids' /\ next_window_id \notin Ids
        /\ windows' \in Seq(Ids') /\ \A w \in Ids' : Found(w)'
        /\ windows' # <<>> /\ Focus' = next_window_id
    BY <1>3, <2>1, WindowLists
  <2>3. DataTyped'
    BY <1>9, <1>10, <2>1, <2>2
  <2>4. FocusIsKnown'
    <3>1. ~Seen(Focus)'
      BY <1>3, <2>2 DEF DataTyped, Seen
    <3> QED  BY <3>1 DEF FocusIsKnown
  <2>5. Hyps
    BY <1>9, <1>11, <2>1, <2>2, <2>3, <2>4
  <2> QED  BY <1>2, <1>7, <2>5, ManagerReplies
<1>12. CASE m = 3 /\ at[3] = "focus_changed"
  <2>1. windows' = Append(Tail(windows), Head(windows)) /\ Answer(m, Head(windows))
    BY <1>4, <1>6, <1>7, <1>12 DEF wm_control_impl, wm_change_focus
  <2>2. /\ Ids' = Ids /\ Head(windows) \in Ids
        /\ windows' \in Seq(Ids') /\ \A w \in Ids' : Found(w)'
        /\ windows' # <<>> /\ Focus' = Head(windows)
    BY <1>3, <1>6, <1>12, <2>1, WindowLists
  <2>3. DataTyped'
    BY <1>9, <1>10, <2>1, <2>2
  <2>4. FocusIsKnown'
    BY <1>8, <1>12 DEF FocusIsKnown
  <2>5. Hyps
    BY <1>6, <1>9, <1>12, <2>1, <2>2, <2>3, <2>4
  <2> QED  BY <1>2, <1>7, <2>5, ManagerReplies
<1>13. CASE (m = 3 /\ at[3] # "focus_changed") \/ (m > 4 /\ wm_msg[m].action # "create")
  <2>1. PICK id \in Ids \cup {NoWindow} :
          /\ windows' = windows /\ Answer(m, id)
          /\ m = 3 /\ at[3] # "moved" => id = Focus
          /\ m > 4 => id = wm_msg[m].window_id /\ id \in Ids
    <3>1. Focus \in Ids \/ ~(m = 3 /\ at[3] # "moved")
      BY <1>3, <1>6, WindowLists
    <3>2. wm_msg[m].window_id \in Ids \cup {NoWindow}
      BY <1>9
    <3> QED  BY <1>4, <1>5, <1>7, <1>13, <3>1, <3>2
             DEF wm_control_impl, wm_current_focus
  <2>2. Ids' = Ids /\ Focus' = Focus /\ \A w : Found(w)' <=> Found(w)
    BY <2>1 DEF Ids, Focus, Found
  <2>3. DataTyped'
    BY <1>3, <1>9, <1>10, <2>1, <2>2
  <2>4. FocusIsKnown'
    <3>1. Seen(Focus)' <=> Seen(Focus)
      BY <2>2 DEF Seen
    <3>2. FocusIsKnown
      BY DEF KeybInv, Inv
    <3> QED  BY ONLY <1>8, <2>2, <3>1, <3>2, UNCHANGED keybVars
             DEF FocusIsKnown, keybVars, localVars
  <2>5. Hyps
    BY <1>9, <2>1, <2>2, <2>3, <2>4
  <2> QED  BY <1>2, <1>7, <2>5, ManagerReplies
<1> QED  BY <1>2, <1>11, <1>12, <1>13

LEMMA ManagerInv ==
  ASSUME KeybInv, NEW p \in Proc, WindowManager(p)
  PROVE  KeybInv'
<1> USE Processes DEF wmVars, dataVars, keybVars, localVars
<1>1. process_window_manager(p) /\ UNCHANGED keybVars /\ wm_port' = wm_port
  BY DEF WindowManager, process_window_manager
<1>2. p = 2
  BY <1>1, WhereTheyAre DEF process_window_manager, Runs, BootPlaces, WithKey, WithClient
<1>3. CASE Runs(2, "wm_handle")
  BY <1>1, <1>2, <1>3, ManagerAnswers
<1>4. CASE Runs(2, "wm")
  <2>1. /\ receive(2) /\ Jump(2, "wm_handle")
        /\ UNCHANGED <<ret, wm_port, keyb_port, dataVars>>
    BY <1>1, <1>2, <1>4 DEF process_window_manager, Runs, Receives
  <2>2. Exists(2)
    BY <1>4 DEF Runs, At, Exists
  <2>3. ports[2] # <<>>
    BY <2>2, OwnsPort
  <2>4. CASE receive_block(2)
    BY <1>4, <2>1, <2>3, <2>4, ManagerWaits
  <2>5. CASE receive_pending(2)
    BY <1>4, <2>1, <2>5, ManagerTakes
  <2> QED  BY <2>1, <2>3, <2>4, <2>5 DEF receive
<1> QED  BY <1>1, <1>2, <1>3, <1>4 DEF process_window_manager

-----------------------------------------------------------------------------
(* The keyboard process *)

LEMMA ServiceRuns ==
  ASSUME KeybInv, At(3, "user")
  PROVE  /\ pc[3] = "user" /\ active_proc = 3 /\ rq.state[3] = "READY"
         /\ Exists(2) /\ Exists(3) /\ wm_port = 1 /\ ~Reading(3) /\ PortOf(3) = 1
         /\ rq.state[2] \in {"READY", "RECEIVE_BLOCKED"} /\ at[2] \in {"wm", "wm_handle"}
         /\ rq.state[2] = "RECEIVE_BLOCKED" =>
              /\ pc[2] = "receive" /\ at[2] = "wm_handle" /\ \A q \in Proc : ~Asks(q, 2)
         /\ at[3] # "keyb_process" => Exists(4) /\ Returned(3) = 3 /\ port[3].owner = 4
<1> USE Processes
<1>1. pc[3] = "user" /\ active_proc = 3
  BY DEF At
<1>2. rq.state[3] = "READY"
  BY <1>1, KernelPlaces DEF KeybInv
<1>3. Exists(3) /\ pc[2] \in {"user", "receive"} /\ Exists(2)
  BY <1>1 DEF Exists, KeybInv, Inv, ManagerStages
<1>4. wm_port = 1
  <2>1. pc[2] \notin {"free", "embryo"} /\ pc[3] # "free"
    BY <1>3 DEF Exists
  <2>2. at[0] \notin {"init_wm", "assign_wm_port"}
    BY <2>1 DEF KeybInv, Inv, BootStages
  <2> QED  BY <2>2 DEF KeybInv, Inv, BootStages
<1>5. ~Reading(3) /\ PortOf(3) = 1
  BY DEF KeybInv, Inv, ProgramsHaveWindows, PortOf
<1>6. /\ rq.state[2] \in {"READY", "RECEIVE_BLOCKED"} /\ at[2] \in {"wm", "wm_handle"}
      /\ rq.state[2] = "RECEIVE_BLOCKED" => pc[2] = "receive" /\ at[2] = "wm_handle"
  BY <1>3, KernelPlaces DEF KeybInv, Inv, ManagerStages
<1>7. ASSUME rq.state[2] = "RECEIVE_BLOCKED", NEW q \in Proc
      PROVE  ~Asks(q, 2)
  <2>1. ~Handles(2)
    BY <1>7 DEF Handles
  <2> QED  BY <2>1 DEF KeybInv, Inv, OneAtATime
<1>8. ASSUME at[3] # "keyb_process"
      PROVE  Exists(4) /\ Returned(3) = 3 /\ port[3].owner = 4
  <2>1. Exists(4) /\ ret[3] = 3
    BY <1>1, <1>8 DEF KeybInv, Inv, ServiceStages
  <2>2. port[3].owner = 4
    BY <2>1, KernelTypes, KernelConstants DEF KeybInv, Inv, PortsAreOwned
  <2> QED  BY <2>1, <2>2 DEF Returned
<1> QED  BY <1>1, <1>2, <1>3, <1>4, <1>5, <1>6, <1>7, <1>8

(* The keyboard process asks the window manager.  Where that is handling   *)
(* the message of a program, it waits in the window manager's list.        *)
LEMMA ServiceSends ==
  ASSUME KeybInv, At(3, "user"), NEW action, NEW id, NEW next \in Places,
         wm_call(3, action, id, next), UNCHANGED <<keyb_port, keyb_msg>>
  PROVE  /\ Steps(3, next) /\ K!HighestStep /\ active_proc' = dispatcher(rq', active_proc)
         /\ rq.state[3] = "READY" /\ pc[3] = "user"
         /\ \A q \in Proc : q # 2 /\ q # 3 => /\ rq'.state[q] = rq.state[q]
                                              /\ param_data'[q] = param_data[q]
         /\ \A q \in Proc : q # 2 => param_proc'[q] = param_proc[q]
         /\ param_data'[3] = 3
         /\ \/ /\ rq'.state[3] = "REPLY_BLOCKED"
               /\ pc[2] = "receive" /\ at[2] = "wm_handle"
               /\ rq.state[2] = "RECEIVE_BLOCKED" /\ rq'.state[2] = "READY"
               /\ param_proc'[2] = 3 /\ param_data'[2] = 3
               /\ \A q \in Proc : ~Asks(q, 2)
            \/ /\ rq'.state[3] = "SEND_BLOCKED"
               /\ rq'.state[2] = rq.state[2] /\ param_data'[2] = param_data[2]
               /\ param_proc'[2] = param_proc[2]
         /\ UNCHANGED <<interrupt_table, pc, received>>
<1> USE Processes
<1>1. /\ pc[3] = "user" /\ rq.state[3] = "READY" /\ Exists(2) /\ wm_port = 1
      /\ ~Reading(3) /\ PortOf(3) = 1
      /\ rq.state[2] = "RECEIVE_BLOCKED" =>
              /\ pc[2] = "receive" /\ at[2] = "wm_handle" /\ \A q \in Proc : ~Asks(q, 2)
  BY ServiceRuns
<1>2. /\ send(3, 1, 3) /\ Jump(3, next)
      /\ UNCHANGED <<received, ret, wm_port, keyb_port>>
  BY <1>1 DEF wm_call, Sends
<1>3. \A q \in Proc : PortOf(q)' = PortOf(q)
  BY DEF PortOf, Reading
<1>4. CASE rq.state[2] = "RECEIVE_BLOCKED"
  <2>1. 3 \in Proc /\ 2 \in {2, 3} /\ 1 \in {1, 2} /\ 1 = 2 - 1
    OBVIOUS
  <2> QED  BY <1>1, <1>2, <1>3, <1>4, <2>1, SendDelivers
<1>5. CASE rq.state[2] # "RECEIVE_BLOCKED"
  <2>1. /\ KeybInv /\ At(3, "user") /\ Exists(2) /\ rq.state[2] # "RECEIVE_BLOCKED"
        /\ send(3, 1, 3) /\ keyb_msg' = keyb_msg /\ ~Reading(3)
        /\ next \in Places /\ Jump(3, next)
        /\ UNCHANGED <<received, ret, wm_port, keyb_port>>
    BY <1>1, <1>2, <1>5
  <2>2. /\ Steps(3, next) /\ K!HighestStep /\ active_proc' = dispatcher(rq', active_proc)
        /\ rq'.state[3] = "SEND_BLOCKED"
        /\ \A q \in Proc : q # 3 => /\ rq'.state[q] = rq.state[q]
                                    /\ param_data'[q] = param_data[q]
        /\ param_data'[3] = 3
        /\ UNCHANGED <<param_proc, interrupt_table, pc, received>>
    BY ONLY <2>1, SendBlocks
  <2>3. rq'.state[2] = rq.state[2] /\ param_data'[2] = param_data[2]
    BY ONLY <2>2, Processes
  <2>4. \A q \in Proc : q # 2 /\ q # 3 => /\ rq'.state[q] = rq.state[q]
                                          /\ param_data'[q] = param_data[q]
    BY ONLY <2>2
  <2>5. param_proc' = param_proc
    BY ONLY <2>2
  <2> QED  BY ONLY <1>1, <2>2, <2>3, <2>4, <2>5
<1> QED  BY <1>4, <1>5

LEMMA ServiceCalls ==
  ASSUME KeybInv, At(3, "user"), at[3] \in {"keyb_received", "move", "focus_asked"},
         NEW action, NEW id \in Ids \cup {NoWindow}, NEW next \in Asking,
         wm_call(3, action, id, next), UNCHANGED <<keyb_port, keyb_msg, keyb_clients>>,
         action = IF next = "focus_changed" THEN "change_focus"
                  ELSE IF next = "moved" THEN "update" ELSE "current_focus",
         next = "moved" => id \in Ids,
         new_key' = new_key \/ Unheard, new_key' \in Keys \cup {NoKey},
         keyb_key' \in Chars \cup {NoKey},
         next \in WithKey => keyb_key' \in RealKeys /\ windows # <<>>,
         {current_window', keyb_window'} \subseteq Ids \cup {NoWindow},
         next \in WithClient =>
           \E m \in Proc : /\ Messenger(3) = m /\ Asks(m, 3)
                           /\ keyb_window' = keyb_msg[m].window_id,
         next \in {"key_new_record", "client_new_record"} =>
           keyb_window' \in Ids /\ ~Seen(keyb_window'),
         Seen(Focus) => /\ next # "focus_changed" => current_window' = Focus
                        /\ next # "key_new_record",
         \A p \in Proc : Reading(p) /\ ServedNow(p) => next \in WithClient
  PROVE  KeybInv'
<1> USE Processes
<1>1. /\ Steps(3, next) /\ K!HighestStep /\ active_proc' = dispatcher(rq', active_proc)
      /\ rq.state[3] = "READY" /\ pc[3] = "user"
      /\ \A q \in Proc : q # 2 /\ q # 3 => /\ rq'.state[q] = rq.state[q]
                                              /\ param_data'[q] = param_data[q]
      /\ \A q \in Proc : q # 2 => param_proc'[q] = param_proc[q]
      /\ param_data'[3] = 3
      /\ \/ /\ rq'.state[3] = "REPLY_BLOCKED"
            /\ pc[2] = "receive" /\ at[2] = "wm_handle"
            /\ rq.state[2] = "RECEIVE_BLOCKED" /\ rq'.state[2] = "READY"
            /\ param_proc'[2] = 3 /\ param_data'[2] = 3
            /\ \A q \in Proc : ~Asks(q, 2)
         \/ /\ rq'.state[3] = "SEND_BLOCKED"
            /\ rq'.state[2] = rq.state[2] /\ param_data'[2] = param_data[2]
            /\ param_proc'[2] = param_proc[2]
      /\ UNCHANGED <<interrupt_table, pc, received>>
  <2>1. next \in Places
    BY DEF Places, Asking, WithKey, WithClient
  <2> QED  BY <2>1, ServiceSends
<1>2. /\ at'[3] = next /\ \A q \in Proc : q # 3 => at'[q] = at[q]
      /\ rq'.state[3] \in {"SEND_BLOCKED", "REPLY_BLOCKED"}
      /\ windows' = windows
      /\ wm_msg' = [wm_msg EXCEPT ![3] = [action |-> action, window_id |-> id]]
  BY <1>1 DEF Steps, wm_call
<1>3. FrameInv' /\ KeybNeverPanics'
  <2>1. ServiceMoves
    <3>1. Asking \subseteq WithKey \cup WithClient
      BY DEF Asking, WithKey, WithClient
    <3> QED  BY <1>1, <1>2, <3>1 DEF ServiceMoves, Running
  <2>2. ManagerMoves
    <3>1. CASE rq'.state[3] = "REPLY_BLOCKED"
      BY <1>1, <1>2, <3>1 DEF ManagerMoves, Running
    <3>2. CASE rq'.state[3] = "SEND_BLOCKED"
      BY <1>1, <1>2, <3>2, StaysMoves DEF Stays
    <3> QED  BY <1>2, <3>1, <3>2
  <2>3. \A q \in Proc : q # 2 /\ q # 3 => Stays(q)
    BY <1>1, <1>2 DEF Stays
  <2>4. Moves
    BY <2>1, <2>2, <2>3, StaysMoves DEF Moves
  <2> QED  BY <1>1, <1>2, <2>3, <2>4, Framed DEF Stays
<1>4. ServiceFirst'
  BY <1>1, <1>3, DispatchServesFirst DEF Steps, FrameInv
<1> USE DEF KeybInv, Inv
<1>5. /\ \A p \in Proc : Reading(p)' <=> Reading(p)
      /\ \A p \in Proc : Blocks(p)' <=> Blocks(p)
      /\ \A w : Seen(w)' <=> Seen(w)
      /\ \A p \in Proc : PortOf(p)' = PortOf(p)
      /\ Ids' = Ids /\ Focus' = Focus
  BY <1>2 DEF Reading, Blocks, Seen, PortOf, Ids, Focus
<1>6. PortOf(3) = 1 /\ ~Reading(3)
  BY ServiceRuns
<1>7. /\ \A p \in Proc : p # 3 => (Asks(p, 2)' <=> Asks(p, 2))
      /\ \A p \in Proc : Asks(p, 3)' <=> Asks(p, 3)
      /\ Asks(3, 2)' <=> rq'.state[3] = "REPLY_BLOCKED"
  <2>1. \A p \in Proc : p # 3 => (rq'.state[p] = "REPLY_BLOCKED" <=> rq.state[p] = "REPLY_BLOCKED")
    BY <1>1, ServiceRuns
  <2> QED  BY <1>1, <1>5, <1>6, <2>1 DEF Asks
<1>8. /\ Messenger(3)' = Messenger(3) /\ Content(3)' = Content(3)
      /\ ~Handles(3)' /\ ~Unheard'
  <2>1. next # "keyb_received"
    BY DEF Asking
  <2> QED  BY <1>1, <1>2, <2>1 DEF Handles, Messenger, Content, Unheard
<1>9. DataTyped'
  <2>1. DataTyped
    OBVIOUS
  <2>2. wm_msg' \in [Proc -> [action : {NULL, "create", "change_focus", "current_focus",
                                    "update"},
                              window_id : Ids' \cup {NoWindow}]]
    BY <1>2, <1>5, <2>1 DEF DataTyped
  <2>3. UNCHANGED <<windows, keyb_msg, keyb_clients>>
    BY <1>2
  <2> QED  BY <1>5, <2>1, <2>2, <2>3 DEF DataTyped, Found
<1>10. OneAtATime'
  <2>1. \A p \in Proc : rq'.state[p] = "SEND_BLOCKED" => p = 3
    BY <1>1 DEF OneAtATime
  <2>2. \A p \in Proc : rq'.state[p] \in {"SEND_BLOCKED", "MESSAGE_BLOCKED"} =>
          param_data'[p] = p
    BY <1>1 DEF OneAtATime
  <2>3. CASE rq'.state[3] = "REPLY_BLOCKED"
    <3>1. Handles(2)' /\ Messenger(2)' = 3 /\ Content(2)' = 3
      BY <1>1, <1>2, <2>3 DEF Handles, Messenger, Content
    <3>2. Asks(3, 2)' /\ \A p \in Proc : Asks(p, 2)' => p = 3
      BY <1>1, <1>7, <2>3
    <3> QED  BY ONLY Processes, <1>8, <2>1, <2>2, <3>1, <3>2 DEF OneAtATime
  <2>4. CASE rq'.state[3] = "SEND_BLOCKED"
    <3>1. /\ Handles(2)' <=> Handles(2)
          /\ Messenger(2)' = Messenger(2) /\ Content(2)' = Content(2)
      BY <1>1, <1>2, <2>4 DEF Handles, Messenger, Content
    <3>2. \A p \in Proc : Asks(p, 2)' <=> Asks(p, 2)
      BY <1>1, <1>7, <2>4 DEF Asks
    <3>3. OneAtATime
      OBVIOUS
    <3> QED  BY ONLY Processes, <1>8, <2>1, <2>2, <2>4, <3>1, <3>2, <3>3 DEF OneAtATime
  <2> QED  BY <1>2, <2>3, <2>4
<1>11. ServiceAsks'
  <2>1. wm_msg'[3].action = action /\ wm_msg'[3].window_id = id
    BY <1>2 DEF DataTyped
  <2>2. Question' = action
    BY <1>2 DEF Question
  <2> QED  BY <1>2, <1>5, <2>1, <2>2 DEF ServiceAsks
<1>12. ProgramsHaveWindows'
  <2>1. /\ \A p \in Proc : at'[p] = "program" <=> at[p] = "program"
        /\ at[3] # "program"
    BY <1>2 DEF Asking
  <2>2. \A p \in Proc : p # 3 => wm_msg'[p] = wm_msg[p]
    BY <1>2 DEF DataTyped
  <2>3. \A p \in Proc : Reading(p) => rq'.state[p] = rq.state[p]
    <3>1. ~Reading(2)
      BY DEF ProgramsHaveWindows
    <3> QED  BY <1>1, <1>6, <3>1
  <2>4. \A p \in Proc : p # 3 => (Asks(p, 2)' <=> Asks(p, 2))
    BY <1>7
  <2>5. ProgramsHaveWindows /\ keyb_msg' = keyb_msg
    OBVIOUS
  <2>6. \A p \in Proc : at'[p] = "program" =>
         \/ /\ Asks(p, 2)'
            /\ wm_msg'[p].action = "create" /\ wm_msg'[p].window_id = NoWindow
         \/ /\ wm_msg'[p].window_id \in Ids'
            /\ Asks(p, 2)' => wm_msg'[p].action = "update"
    BY ONLY <1>5, <2>1, <2>2, <2>4, <2>5 DEF ProgramsHaveWindows
  <2>7. /\ \A p \in Proc : p > 4 /\ at'[p] # "program" => wm_msg'[p].window_id = NoWindow
        /\ \A p, q \in Proc :
             p > 4 /\ q > 4 /\ wm_msg'[p].window_id = wm_msg'[q].window_id =>
               p = q \/ wm_msg'[p].window_id = NoWindow
    BY ONLY Processes, <2>1, <2>2, <2>5 DEF ProgramsHaveWindows
  <2>8. \A p \in Proc : Reading(p)' =>
          /\ p > 4 /\ at'[p] = "program" /\ rq'.state[p] = "REPLY_BLOCKED"
          /\ keyb_msg'[p].window_id = wm_msg'[p].window_id
    BY ONLY Processes, <1>5, <1>6, <2>1, <2>2, <2>3, <2>5 DEF ProgramsHaveWindows
  <2> QED  BY ONLY <2>6, <2>7, <2>8 DEF ProgramsHaveWindows
<1>13. KeysAreKept'
  <2>1. rq'.state[4] = rq.state[4] /\ at'[4] = at[4]
    BY <1>1, <1>2
  <2>2. KeysAreKept
    OBVIOUS
  <2>3. /\ new_key' = new_key \/ Unheard
        /\ next \in WithKey => keyb_key' \in RealKeys /\ windows # <<>>
    OBVIOUS
  <2> QED  BY ONLY <1>2, <1>8, <2>1, <2>2, <2>3 DEF KeysAreKept
<1>14. RecordsAreFound'
  <2>1. next \notin {"key_record", "key_given", "client_record"}
    BY DEF Asking
  <2> QED  BY <1>2, <1>5, <1>7, <1>8, <2>1 DEF RecordsAreFound
<1>15. RecordsAreRight'
  <2>1. \A w : ~BeingGiven(w)' /\ ~BeingGiven(w)
    BY <1>2 DEF BeingGiven, Asking
  <2>2. ASSUME NEW p \in Proc, Reading(p), ~ServedNow(p)' PROVE ~ServedNow(p)
    <3>1. SUFFICES ASSUME ServedNow(p) PROVE FALSE
      OBVIOUS
    <3>2. next \in WithClient
      BY <2>2, <3>1
    <3> QED  BY <1>2, <1>8, <2>2, <3>1, <3>2 DEF ServedNow
  <2>3. \A p \in Proc : rq.state[p] = "REPLY_BLOCKED" => rq'.state[p] = "REPLY_BLOCKED"
    BY <1>1, ServiceRuns
  <2>4. RecordsAreRight /\ UNCHANGED <<keyb_clients, keyb_msg>>
    OBVIOUS
  <2> QED  BY ONLY <2>1, <2>2, <2>3, <2>4 DEF RecordsAreRight, Reading, Blocks, Seen
<1>16. FocusIsKnown'
  <2>1. Seen(Focus)' <=> Seen(Focus)
    BY <1>5 DEF Seen
  <2>2. next # "key_record"
    BY DEF Asking
  <2> QED  BY <1>2, <1>5, <2>1, <2>2 DEF FocusIsKnown
<1>17. DataInv'
  BY <1>9, <1>10, <1>11, <1>12, <1>13, <1>14, <1>15, <1>16 DEF DataInv
<1> QED  BY <1>1, <1>3, <1>4, <1>17, Together DEF Steps

(* A step of the keyboard process alone.  It has asked for nothing, and    *)
(* its records say who waits when the messenger has been dealt with.       *)
LEMMA ServiceComputes ==
  ASSUME KeybInv, At(3, "user"),
         at[3] \in {"keyb_received"} \cup WithKey \cup WithClient,
         NEW next \in {"keyb_receive", "key_record", "client_record"},
         Computes(3, next),
         UNCHANGED <<wm_port, keyb_port, windows, keyb_msg>>,
         wm_msg' = wm_msg \/ wm_msg' = [wm_msg EXCEPT ![3] = Handled(NoWindow)],
         new_key' = new_key \/ Unheard,
         new_key' \in Keys \cup {NoKey} /\ keyb_key' \in Chars \cup {NoKey},
         {current_window', keyb_window'} \subseteq Ids \cup {NoWindow},
         /\ DOMAIN keyb_clients' \subseteq Ids
         /\ keyb_clients' \in [DOMAIN keyb_clients' -> [client : ProcOrNull,
                                                        is_waiting : BOOLEAN,
                                                        buffer : Seq(RealKeys)]]
         /\ \A w \in DOMAIN keyb_clients' : Len(keyb_clients'[w].buffer) < MAX_KEYB_BUFFER,
         next = "key_record" => keyb_key' \in RealKeys /\ windows # <<>>,
         next = "client_record" =>
           \E m \in Proc : /\ Messenger(3) = m /\ Asks(m, 3)
                           /\ keyb_window' = keyb_msg[m].window_id,
         next \in {"key_record", "client_record"} => keyb_window' \in DOMAIN keyb_clients',
         \A w \in DOMAIN keyb_clients' :
           keyb_clients'[w].is_waiting =>
             \E c \in Proc :
               /\ keyb_clients'[w].client = c
               /\ rq.state[c] = "REPLY_BLOCKED" /\ keyb_msg[c].window_id = w
               /\ Blocks(c) /\ keyb_clients'[w].buffer = <<>>,
         \A p \in Proc : Reading(p) /\ ~(next = "client_record" /\ p = Messenger(3)) =>
           LET w == keyb_msg[p].window_id IN
           /\ w \in DOMAIN keyb_clients'
           /\ keyb_clients'[w].is_waiting /\ keyb_clients'[w].client = p,
         Focus \in DOMAIN keyb_clients' =>
           /\ current_window' = Focus
           /\ next = "key_record" => keyb_window' = Focus
  PROVE  KeybInv'
<1> USE Processes
<1>1. /\ Steps(3, next) /\ pc[3] = "user" /\ active_proc = 3
      /\ UNCHANGED <<rq, active_proc, param_proc, param_data, port,
                     interrupt_table, pc, received>>
  <2>1. next \in Places
    BY DEF Places, WithKey, WithClient
  <2> QED  BY <2>1, ComputesStep
<1>2. /\ at'[3] = next /\ \A q \in Proc : q # 3 => at'[q] = at[q]
      /\ rq.state[3] = "READY" /\ PortOf(3) = 1 /\ ~Reading(3)
  BY <1>1, ServiceRuns DEF Steps
<1>3. FrameInv' /\ KeybNeverPanics'
  <2>1. ServiceMoves
    <3>1. /\ next \in {"keyb_receive", "keyb_received"} \cup WithKey \cup WithClient
          /\ at[3] # "keyb_process"
      BY DEF WithKey, WithClient
    <3> QED  BY <1>1, <1>2, <3>1 DEF ServiceMoves, Running
  <2>2. \A q \in Proc : q # 3 => Stays(q)
    BY <1>1, <1>2 DEF Stays
  <2>3. Moves
    BY <2>1, <2>2, StaysMoves DEF Moves
  <2> QED  BY <1>1, <1>2, <2>2, <2>3, Framed DEF Stays
<1>4. ServiceFirst'
  <2>1. at'[4] = at[4] /\ active_proc' = 3 /\ ServiceFirst
    BY <1>1, <1>2 DEF KeybInv, Inv
  <2> QED  BY <1>1, <2>1 DEF ServiceFirst, Services
<1> USE DEF KeybInv, Inv
<1>5. /\ \A p \in Proc : Reading(p)' <=> Reading(p)
      /\ \A p \in Proc : Blocks(p)' <=> Blocks(p)
      /\ \A p \in Proc : PortOf(p)' = PortOf(p)
      /\ Ids' = Ids /\ Focus' = Focus
  BY DEF Reading, Blocks, PortOf, Ids, Focus
<1>6. \A p \in Proc : \A r : Asks(p, r)' <=> Asks(p, r)
  BY <1>1, <1>5 DEF Asks
<1>7. /\ Handles(2)' <=> Handles(2)
      /\ Messenger(2)' = Messenger(2) /\ Content(2)' = Content(2)
      /\ ~Handles(3)' /\ ~Unheard' /\ Messenger(3)' = Messenger(3)
  BY <1>1, <1>2 DEF Handles, Messenger, Content, Unheard
<1>8. \A q \in Proc : q # 3 => wm_msg'[q] = wm_msg[q]
  BY DEF DataTyped
<1>9. DataTyped'
  <2>1. DataTyped
    OBVIOUS
  <2>2. wm_msg' \in [Proc -> [action : {NULL, "create", "change_focus", "current_focus",
                                    "update"},
                              window_id : Ids' \cup {NoWindow}]]
    <3>1. wm_msg \in [Proc -> [action : {NULL, "create", "change_focus", "current_focus",
                                       "update"},
                               window_id : Ids \cup {NoWindow}]]
      BY <2>1 DEF DataTyped
    <3>2. Handled(NoWindow) \in
            [action : {NULL, "create", "change_focus", "current_focus", "update"},
             window_id : Ids \cup {NoWindow}]
      BY DEF Handled
    <3>3. wm_msg' = wm_msg \/ wm_msg' = [wm_msg EXCEPT ![3] = Handled(NoWindow)]
      OBVIOUS
    <3> QED  BY ONLY <1>5, <3>1, <3>2, <3>3
  <2>3. keyb_msg' \in [Proc -> [window_id : Ids' \cup {NoWindow}, block : BOOLEAN,
                                key : Chars \cup {NoKey}]]
    BY <1>5, <2>1 DEF DataTyped
  <2>4. windows' \in Seq(Ids') /\ \A w \in Ids' : Found(w)'
    BY <1>5, <2>1 DEF DataTyped, Found
  <2>5. /\ DOMAIN keyb_clients' \subseteq Ids'
        /\ keyb_clients' \in [DOMAIN keyb_clients' -> [client : ProcOrNull,
                                                        is_waiting : BOOLEAN,
                                                        buffer : Seq(RealKeys)]]
        /\ \A w \in DOMAIN keyb_clients' : Len(keyb_clients'[w].buffer) < MAX_KEYB_BUFFER
        /\ new_key' \in Keys \cup {NoKey} /\ keyb_key' \in Chars \cup {NoKey}
        /\ {current_window', keyb_window'} \subseteq Ids' \cup {NoWindow}
    BY <1>5
  <2> QED  BY ONLY <2>2, <2>3, <2>4, <2>5 DEF DataTyped
<1>10. OneAtATime'
  <2>1. at'[3] \notin Asking
    BY <1>2 DEF Asking
  <2>2. OneAtATime
    OBVIOUS
  <2> QED  BY ONLY Processes, <1>1, <1>6, <1>7, <2>1, <2>2 DEF OneAtATime
<1>11. ServiceAsks'
  <2>1. at'[3] \notin Asking
    BY <1>2 DEF Asking
  <2> QED  BY <1>1, <1>2, <2>1 DEF ServiceAsks
<1>12. ProgramsHaveWindows'
  <2>1. /\ \A p \in Proc : at'[p] = "program" <=> at[p] = "program"
        /\ at[3] # "program"
    BY <1>2 DEF WithKey, WithClient
  <2>2. ProgramsHaveWindows /\ keyb_msg' = keyb_msg /\ rq' = rq
    BY <1>1
  <2>3. \A p \in Proc : at'[p] = "program" =>
         \/ /\ Asks(p, 2)'
            /\ wm_msg'[p].action = "create" /\ wm_msg'[p].window_id = NoWindow
         \/ /\ wm_msg'[p].window_id \in Ids'
            /\ Asks(p, 2)' => wm_msg'[p].action = "update"
    BY ONLY <1>5, <1>6, <1>8, <2>1, <2>2 DEF ProgramsHaveWindows
  <2>4. /\ \A p \in Proc : p > 4 /\ at'[p] # "program" => wm_msg'[p].window_id = NoWindow
        /\ \A p, q \in Proc :
             p > 4 /\ q > 4 /\ wm_msg'[p].window_id = wm_msg'[q].window_id =>
               p = q \/ wm_msg'[p].window_id = NoWindow
    <3>1. \A p \in Proc : p > 4 => /\ wm_msg'[p] = wm_msg[p]
                                   /\ at'[p] = "program" <=> at[p] = "program"
      BY ONLY Processes, <1>8, <2>1
    <3>2. /\ \A p \in Proc : p > 4 /\ at[p] # "program" => wm_msg[p].window_id = NoWindow
          /\ \A p, q \in Proc :
               p > 4 /\ q > 4 /\ wm_msg[p].window_id = wm_msg[q].window_id =>
                 p = q \/ wm_msg[p].window_id = NoWindow
      BY ONLY <2>2 DEF ProgramsHaveWindows
    <3> QED  BY ONLY <3>1, <3>2
  <2>5. \A p \in Proc : Reading(p)' =>
          /\ p > 4 /\ at'[p] = "program" /\ rq'.state[p] = "REPLY_BLOCKED"
          /\ keyb_msg'[p].window_id = wm_msg'[p].window_id
    BY ONLY Processes, <1>5, <1>8, <2>1, <2>2 DEF ProgramsHaveWindows
  <2> QED  BY ONLY <2>3, <2>4, <2>5 DEF ProgramsHaveWindows
<1>13. KeysAreKept'
  <2>1. rq'.state[4] = rq.state[4] /\ at'[4] = at[4] /\ KeysAreKept
    BY <1>1, <1>2
  <2>2. next \in WithKey => keyb_key' \in RealKeys /\ windows # <<>>
    BY DEF WithKey
  <2>3. (new_key' = new_key \/ Unheard) /\ windows' = windows
    OBVIOUS
  <2> QED  BY ONLY <1>2, <1>7, <2>1, <2>2, <2>3 DEF KeysAreKept
<1>14. RecordsAreFound'
  <2>1. next \in WithClient =>
           \E m \in Proc : /\ Messenger(3)' = m /\ Asks(m, 3)'
                           /\ keyb_window' = keyb_msg'[m].window_id
    BY <1>6, <1>7 DEF WithClient
  <2>2. next \in {"key_record", "key_given", "client_record"} =>
          keyb_window' \in DOMAIN keyb_clients'
    OBVIOUS
  <2>3. next \notin {"key_new_record", "client_new_record"}
    OBVIOUS
  <2> QED  BY ONLY <1>2, <2>1, <2>2, <2>3 DEF RecordsAreFound, Seen
<1>15. RecordsAreRight'
  <2>1. \A w : ~BeingGiven(w)'
    BY <1>2 DEF BeingGiven
  <2>2. \A p : ServedNow(p)' <=> next = "client_record" /\ p = Messenger(3)
    BY <1>2, <1>7 DEF ServedNow, WithClient
  <2>3. \A w \in DOMAIN keyb_clients' :
           keyb_clients'[w].is_waiting =>
             \E c \in Proc :
               /\ keyb_clients'[w].client = c
               /\ rq'.state[c] = "REPLY_BLOCKED" /\ keyb_msg'[c].window_id = w
               /\ Blocks(c)' /\ keyb_clients'[w].buffer = <<>>
    BY <1>1, <1>5
  <2>4. \A p \in Proc : Reading(p)' /\ ~ServedNow(p)' =>
           LET w == keyb_msg'[p].window_id IN
           /\ w \in DOMAIN keyb_clients'
           /\ keyb_clients'[w].is_waiting /\ keyb_clients'[w].client = p
    BY <1>5, <2>2
  <2> QED  BY ONLY <2>1, <2>3, <2>4 DEF RecordsAreRight, Seen, Blocks
<1>16. FocusIsKnown'
  BY <1>2, <1>5 DEF FocusIsKnown, Seen
<1>17. DataInv'
  BY <1>9, <1>10, <1>11, <1>12, <1>13, <1>14, <1>15, <1>16 DEF DataInv
<1> QED  BY <1>1, <1>3, <1>4, <1>17, Together DEF Steps

(* The keyboard process answers a program s that reads a key: that program *)
(* goes on, and the records are those of the others.                       *)
Answering(s, next) ==
  /\ Asks(s, 3) /\ Replies(3, s, next)
  /\ \E key \in Chars \cup {NoKey} : keyb_msg' = [keyb_msg EXCEPT ![s] = Answered(key)]
  /\ UNCHANGED <<wmVars, keyb_port, new_key, current_window>>
  /\ keyb_key' \in Chars \cup {NoKey} /\ keyb_window' \in Ids \cup {NoWindow}
  /\ DOMAIN keyb_clients' \subseteq Ids
  /\ keyb_clients' \in [DOMAIN keyb_clients' -> [client : ProcOrNull,
                                                 is_waiting : BOOLEAN,
                                                 buffer : Seq(RealKeys)]]
  /\ \A w \in DOMAIN keyb_clients' : Len(keyb_clients'[w].buffer) < MAX_KEYB_BUFFER
  /\ next = "key_given" => /\ keyb_key' \in RealKeys /\ windows # <<>>
                           /\ keyb_window' \in DOMAIN keyb_clients'
  /\ \A w \in DOMAIN keyb_clients' :
       keyb_clients'[w].is_waiting /\ ~(next = "key_given" /\ keyb_window' = w) =>
         \E c \in Proc :
           /\ c # s /\ keyb_clients'[w].client = c
           /\ rq.state[c] = "REPLY_BLOCKED" /\ keyb_msg[c].window_id = w
           /\ Blocks(c) /\ keyb_clients'[w].buffer = <<>>
  /\ \A p \in Proc : Reading(p) /\ p # s =>
       LET w == keyb_msg[p].window_id IN
       /\ w \in DOMAIN keyb_clients' /\ ~(next = "key_given" /\ keyb_window' = w)
       /\ keyb_clients'[w].is_waiting /\ keyb_clients'[w].client = p
  /\ Focus \in DOMAIN keyb_clients' => current_window = Focus

LEMMA ServiceReplies ==
  ASSUME KeybInv, At(3, "user"), at[3] \in {"client_record", "key_record"},
         NEW s \in Proc, NEW next \in {"keyb_receive", "key_given"}, Answering(s, next)
  PROVE  KeybInv'
<1> USE Processes DEF wmVars, Answering
<1>0. PICK key \in Chars \cup {NoKey} : keyb_msg' = [keyb_msg EXCEPT ![s] = Answered(key)]
  OBVIOUS
<1>1. /\ \A q \in Proc : q # s => keyb_msg'[q] = keyb_msg[q]
      /\ keyb_msg'[s] = Answered(key)
      /\ keyb_msg' \in [Proc -> [window_id : Ids \cup {NoWindow}, block : BOOLEAN,
                                 key : Chars \cup {NoKey}]]
  <2>1. keyb_msg \in [Proc -> [window_id : Ids \cup {NoWindow}, block : BOOLEAN,
                                key : Chars \cup {NoKey}]]
    BY DEF KeybInv, Inv, DataTyped
  <2>2. Answered(key) \in [window_id : Ids \cup {NoWindow}, block : BOOLEAN,
                           key : Chars \cup {NoKey}]
    BY DEF Answered
  <2> QED  BY <1>0, <2>1, <2>2
<1>2. /\ Steps(3, next) /\ K!HighestStep /\ pc[3] = "user" /\ active_proc = 3
      /\ active_proc' = dispatcher(rq', active_proc)
      /\ rq.state[3] = "READY" /\ s # 3 /\ pc[s] = "user"
      /\ rq.state[s] = "REPLY_BLOCKED" /\ rq'.state[s] = "READY"
      /\ \A q \in Proc : q # s => rq'.state[q] = rq.state[q]
      /\ UNCHANGED <<param_proc, param_data, port, interrupt_table, pc, received>>
  <2>1. next \in Places /\ 3 \in {2, 3}
    BY DEF Places, WithKey
  <2> QED  BY <1>1, <2>1, ReplyStep DEF Replies
<1>3. /\ at'[3] = next /\ \A q \in Proc : q # 3 => at'[q] = at[q]
      /\ PortOf(3) = 1 /\ ~Reading(3)
  BY <1>2, ServiceRuns DEF Steps
<1>4. s > 4 /\ at[s] = "program" /\ Reading(s) /\ PortOf(s) = 2
  <2>1. PortOf(s) = 2
    BY DEF Asks
  <2> QED  BY <1>2, <2>1, BlockedAre DEF SendStates
<1>5. FrameInv' /\ KeybNeverPanics'
  <2>1. ServiceMoves
    <3>1. /\ next \in {"keyb_receive", "keyb_received"} \cup WithKey \cup WithClient
          /\ at[3] # "keyb_process"
      BY DEF WithKey, WithClient
    <3> QED  BY <1>2, <1>3, <3>1 DEF ServiceMoves, Running
  <2>2. \A q \in Proc : q # 3 /\ q # s => Stays(q)
    BY <1>2, <1>3 DEF Stays
  <2>3. ProgramMoves
    <3>1. SUFFICES ASSUME NEW q \in Proc, q > 4, ~Stays(q)
                   PROVE  /\ pc[q] = "user" /\ pc'[q] = "user" /\ at[q] # "none"
                          /\ at'[q] = "program"
                          /\ rq'.state[q] \in {"READY", "REPLY_BLOCKED"}
      BY DEF ProgramMoves
    <3>2. q = s
      BY <2>2, <3>1
    <3> QED  BY <1>2, <1>3, <1>4, <3>1, <3>2
  <2>4. Stays(2) /\ Stays(4)
    BY <1>4, <2>2
  <2>5. Moves
    BY <2>1, <2>3, <2>4, StaysMoves DEF Moves
  <2> QED  BY <1>2, <1>3, <1>4, <2>2, <2>5, Framed DEF Stays
<1>6. ServiceFirst'
  BY <1>2, <1>5, DispatchServesFirst DEF Steps, FrameInv
<1> USE DEF KeybInv, Inv
<1>7. /\ \A p \in Proc : Reading(p)' <=> Reading(p) /\ p # s
      /\ \A p \in Proc : p # s => (Blocks(p)' <=> Blocks(p)) /\ PortOf(p)' = PortOf(p)
      /\ Ids' = Ids /\ Focus' = Focus
  BY <1>1 DEF Reading, Blocks, PortOf, Ids, Focus, Answered
<1>8. /\ \A p \in Proc : Asks(p, 2)' <=> Asks(p, 2)
      /\ \A p \in Proc : Asks(p, 3)' <=> Asks(p, 3) /\ p # s
  BY <1>2, <1>4, <1>7 DEF Asks
<1>9. /\ Handles(2)' <=> Handles(2)
      /\ Messenger(2)' = Messenger(2) /\ Content(2)' = Content(2)
      /\ ~Handles(3)' /\ ~Unheard' /\ Messenger(3)' = Messenger(3)
  BY <1>2, <1>3, <1>4 DEF Handles, Messenger, Content, Unheard
<1>10. DataTyped'
  <2>1. DataTyped
    OBVIOUS
  <2>2. wm_msg' \in [Proc -> [action : {NULL, "create", "change_focus", "current_focus",
                                    "update"},
                              window_id : Ids' \cup {NoWindow}]]
    BY <1>7, <2>1 DEF DataTyped
  <2>3. keyb_msg' \in [Proc -> [window_id : Ids' \cup {NoWindow}, block : BOOLEAN,
                                key : Chars \cup {NoKey}]]
    BY <1>1, <1>7
  <2>4. windows' \in Seq(Ids') /\ \A w \in Ids' : Found(w)'
    BY <1>7, <2>1 DEF DataTyped, Found
  <2>5. /\ DOMAIN keyb_clients' \subseteq Ids'
        /\ keyb_clients' \in [DOMAIN keyb_clients' -> [client : ProcOrNull,
                                                        is_waiting : BOOLEAN,
                                                        buffer : Seq(RealKeys)]]
        /\ \A w \in DOMAIN keyb_clients' : Len(keyb_clients'[w].buffer) < MAX_KEYB_BUFFER
        /\ keyb_key' \in Chars \cup {NoKey} /\ keyb_window' \in Ids' \cup {NoWindow}
    BY <1>7
  <2>6. new_key' \in Keys \cup {NoKey} /\ current_window' \in Ids' \cup {NoWindow}
    BY <1>7, <2>1 DEF DataTyped
  <2> QED  BY ONLY <2>2, <2>3, <2>4, <2>5, <2>6 DEF DataTyped
<1>11. OneAtATime'
  <2>1. at'[3] \notin Asking
    BY <1>3 DEF Asking
  <2>2. \A p \in Proc : \A t \in {"SEND_BLOCKED", "MESSAGE_BLOCKED"} :
          rq'.state[p] = t => rq.state[p] = t
    BY <1>2
  <2>3. Handles(2) => \A m \in Proc : Messenger(2) = m => (Asks(m, 2)' <=> Asks(m, 2))
    BY <1>8
  <2>4. OneAtATime /\ param_data' = param_data
    BY <1>2
  <2> QED  BY ONLY Processes, <1>8, <1>9, <2>1, <2>2, <2>4 DEF OneAtATime
<1>12. ServiceAsks'
  <2>1. at'[3] \notin Asking
    BY <1>3 DEF Asking
  <2> QED  BY <1>2, <1>3, <1>4, <2>1 DEF ServiceAsks
<1>13. ProgramsHaveWindows'
  <2>1. /\ \A p \in Proc : at'[p] = "program" <=> at[p] = "program"
        /\ at[3] # "program"
    BY <1>3 DEF WithKey, WithClient
  <2>2. ProgramsHaveWindows /\ wm_msg' = wm_msg
    OBVIOUS
  <2>3. \A p \in Proc : at'[p] = "program" =>
         \/ /\ Asks(p, 2)'
            /\ wm_msg'[p].action = "create" /\ wm_msg'[p].window_id = NoWindow
         \/ /\ wm_msg'[p].window_id \in Ids'
            /\ Asks(p, 2)' => wm_msg'[p].action = "update"
    BY ONLY <1>7, <1>8, <2>1, <2>2 DEF ProgramsHaveWindows
  <2>4. /\ \A p \in Proc : p > 4 /\ at'[p] # "program" => wm_msg'[p].window_id = NoWindow
        /\ \A p, q \in Proc :
             p > 4 /\ q > 4 /\ wm_msg'[p].window_id = wm_msg'[q].window_id =>
               p = q \/ wm_msg'[p].window_id = NoWindow
    BY ONLY Processes, <2>1, <2>2 DEF ProgramsHaveWindows
  <2>5. \A p \in Proc : Reading(p)' =>
          /\ p > 4 /\ at'[p] = "program" /\ rq'.state[p] = "REPLY_BLOCKED"
          /\ keyb_msg'[p].window_id = wm_msg'[p].window_id
    BY ONLY Processes, <1>1, <1>2, <1>7, <2>1, <2>2 DEF ProgramsHaveWindows
  <2> QED  BY ONLY <2>3, <2>4, <2>5 DEF ProgramsHaveWindows
<1>14. KeysAreKept'
  <2>1. rq'.state[4] = rq.state[4] /\ at'[4] = at[4] /\ KeysAreKept
    BY <1>2, <1>3, <1>4
  <2>2. next \in WithKey => keyb_key' \in RealKeys /\ windows # <<>>
    BY DEF WithKey
  <2>3. new_key' = new_key /\ windows' = windows
    OBVIOUS
  <2> QED  BY ONLY <1>3, <1>9, <2>1, <2>2, <2>3 DEF KeysAreKept
<1>15. RecordsAreFound'
  <2>1. next \notin WithClient
    BY DEF WithClient
  <2>2. next \in {"key_record", "key_given", "client_record"} =>
          keyb_window' \in DOMAIN keyb_clients'
    OBVIOUS
  <2>3. next \notin {"key_new_record", "client_new_record"}
    OBVIOUS
  <2> QED  BY ONLY <1>3, <2>1, <2>2, <2>3 DEF RecordsAreFound, Seen
<1>16. RecordsAreRight'
  <2>1. \A w : BeingGiven(w)' <=> next = "key_given" /\ keyb_window' = w
    BY <1>3 DEF BeingGiven
  <2>2. \A w \in DOMAIN keyb_clients' :
           keyb_clients'[w].is_waiting /\ ~BeingGiven(w)' =>
             \E c \in Proc :
               /\ keyb_clients'[w].client = c
               /\ rq'.state[c] = "REPLY_BLOCKED" /\ keyb_msg'[c].window_id = w
               /\ Blocks(c)' /\ keyb_clients'[w].buffer = <<>>
    <3>1. \A w \in DOMAIN keyb_clients' :
            keyb_clients'[w].is_waiting /\ ~(next = "key_given" /\ keyb_window' = w) =>
              \E c \in Proc :
                /\ c # s /\ keyb_clients'[w].client = c
                /\ rq.state[c] = "REPLY_BLOCKED" /\ keyb_msg[c].window_id = w
                /\ Blocks(c) /\ keyb_clients'[w].buffer = <<>>
      OBVIOUS
    <3>2. \A c \in Proc : c # s => /\ rq'.state[c] = rq.state[c]
                                   /\ keyb_msg'[c] = keyb_msg[c]
                                   /\ Blocks(c)' <=> Blocks(c)
      BY <1>1, <1>2, <1>7
    <3> QED  BY ONLY <2>1, <3>1, <3>2
  <2>3. \A p \in Proc : Reading(p)' =>
           LET w == keyb_msg'[p].window_id IN
           /\ w \in DOMAIN keyb_clients'
           /\ ~(next = "key_given" /\ keyb_window' = w)
           /\ keyb_clients'[w].is_waiting /\ keyb_clients'[w].client = p
    <3>1. SUFFICES ASSUME NEW p \in Proc, Reading(p)'
                   PROVE  LET w == keyb_msg'[p].window_id IN
                          /\ w \in DOMAIN keyb_clients'
                          /\ ~(next = "key_given" /\ keyb_window' = w)
                          /\ keyb_clients'[w].is_waiting /\ keyb_clients'[w].client = p
      OBVIOUS
    <3>2. Reading(p) /\ p # s /\ keyb_msg'[p] = keyb_msg[p]
      BY <1>1, <1>7, <3>1
    <3> QED  BY <3>2
  <2> QED  BY ONLY <1>3, <2>2, <2>3 DEF RecordsAreRight, Seen, Blocks, BeingGiven
<1>17. FocusIsKnown'
  <2>1. next \notin {"key_new_record", "key_record"}
    OBVIOUS
  <2> QED  BY <1>3, <1>7, <2>1 DEF FocusIsKnown, Seen
<1>18. DataInv'
  BY <1>10, <1>11, <1>12, <1>13, <1>14, <1>15, <1>16, <1>17 DEF DataInv
<1> QED  BY <1>2, <1>5, <1>6, <1>18, Together DEF Steps

(* The records while no key is being given, for the steps to cite. *)
LEMMA RecordsNow ==
  ASSUME KeybInv
  PROVE  /\ DOMAIN keyb_clients \subseteq Ids
         /\ keyb_clients \in [DOMAIN keyb_clients -> [client : ProcOrNull,
                                                      is_waiting : BOOLEAN,
                                                      buffer : Seq(RealKeys)]]
         /\ \A w \in DOMAIN keyb_clients : Len(keyb_clients[w].buffer) < MAX_KEYB_BUFFER
         /\ \A w \in DOMAIN keyb_clients :
              keyb_clients[w].is_waiting /\ ~(at[3] = "key_given" /\ keyb_window = w) =>
                \E c \in Proc :
                  /\ keyb_clients[w].client = c
                  /\ rq.state[c] = "REPLY_BLOCKED" /\ keyb_msg[c].window_id = w
                  /\ Blocks(c) /\ keyb_clients[w].buffer = <<>>
         /\ \A p \in Proc : Reading(p) /\ ~ServedNow(p) =>
              LET w == keyb_msg[p].window_id IN
              /\ w \in DOMAIN keyb_clients /\ ~(at[3] = "key_given" /\ keyb_window = w)
              /\ keyb_clients[w].is_waiting /\ keyb_clients[w].client = p
         /\ Focus \in DOMAIN keyb_clients =>
              /\ at[3] # "focus_changed" => current_window = Focus
              /\ at[3] # "key_new_record"
              /\ at[3] = "key_record" => keyb_window = Focus
         /\ new_key \in Keys \cup {NoKey} /\ keyb_key \in Chars \cup {NoKey}
         /\ {current_window, keyb_window} \subseteq Ids \cup {NoWindow}
         /\ NoWindow \in Ids \cup {NoWindow} /\ NoKey \in Chars \cup {NoKey}
         /\ NoWindow \notin Ids
         /\ windows # <<>> => Focus \in Ids
         /\ at[3] \in WithKey => keyb_key \in RealKeys /\ windows # <<>>
<1>1. /\ DOMAIN keyb_clients \subseteq Ids
      /\ keyb_clients \in [DOMAIN keyb_clients -> [client : ProcOrNull,
                                                      is_waiting : BOOLEAN,
                                                      buffer : Seq(RealKeys)]]
      /\ \A w \in DOMAIN keyb_clients : Len(keyb_clients[w].buffer) < MAX_KEYB_BUFFER
      /\ new_key \in Keys \cup {NoKey} /\ keyb_key \in Chars \cup {NoKey}
      /\ {current_window, keyb_window} \subseteq Ids \cup {NoWindow}
  BY DEF KeybInv, Inv, DataTyped
<1>2. \A w \in DOMAIN keyb_clients :
              keyb_clients[w].is_waiting /\ ~(at[3] = "key_given" /\ keyb_window = w) =>
                \E c \in Proc :
                  /\ keyb_clients[w].client = c
                  /\ rq.state[c] = "REPLY_BLOCKED" /\ keyb_msg[c].window_id = w
                  /\ Blocks(c) /\ keyb_clients[w].buffer = <<>>
  BY DEF KeybInv, Inv, RecordsAreRight, BeingGiven
<1>3. \A p \in Proc : Reading(p) /\ ~ServedNow(p) =>
              LET w == keyb_msg[p].window_id IN
              /\ w \in DOMAIN keyb_clients /\ ~(at[3] = "key_given" /\ keyb_window = w)
              /\ keyb_clients[w].is_waiting /\ keyb_clients[w].client = p
  BY DEF KeybInv, Inv, RecordsAreRight, BeingGiven, Seen
<1>4. Focus \in DOMAIN keyb_clients =>
              /\ at[3] # "focus_changed" => current_window = Focus
              /\ at[3] # "key_new_record"
              /\ at[3] = "key_record" => keyb_window = Focus
  BY DEF KeybInv, Inv, FocusIsKnown, Seen
<1>5. NoWindow \notin Ids
  BY DEF Ids, NoWindow
<1>6. windows # <<>> => Focus \in Ids
  BY WindowLists DEF KeybInv, Inv, DataTyped
<1>7. at[3] \in WithKey => keyb_key \in RealKeys /\ windows # <<>>
  BY DEF KeybInv, Inv, KeysAreKept
<1> QED  BY <1>1, <1>2, <1>3, <1>4, <1>5, <1>6, <1>7

(* No key has the character of none. *)
LEMMA RealChars ==
  ASSUME NEW k \in Keys \ {NoKey}
  PROVE  Char(k) \in RealKeys
BY DEF RealKeys, Chars, Char, NoKey, NUL

(* The keyboard process handles the message of the notifier or a program.  *)
LEMMA ServiceHandles ==
  ASSUME KeybInv, Runs(3, "keyb_received")
  PROVE  /\ At(3, "user") /\ at[3] = "keyb_received" /\ Handles(3)
         /\ \E m \in Proc :
              /\ Sender(3) = m /\ Message(3) = m /\ Messenger(3) = m
              /\ FromNotifier(3) <=> m = 4
              /\ m = 4 => Unheard /\ new_key \in Keys \ {NoKey} /\ windows # <<>>
              /\ m # 4 => /\ Asks(m, 3) /\ Reading(m) /\ m > 4
                          /\ keyb_msg[m].window_id \in Ids
              /\ \A p \in Proc : ServedNow(p) => p = m
<1> USE Processes
<1>1. /\ At(3, "user") /\ pc[3] = "user" /\ at[3] = "keyb_received"
      /\ rq.state[3] = "READY" /\ port[Returned(3)].owner = 4
  <2>1. At(3, "user") /\ pc[3] = "user" /\ at[3] = "keyb_received"
    BY DEF Runs, At
  <2> QED  BY <2>1, ServiceRuns
<1>2. Handles(3)
  BY <1>1 DEF Handles
<1>3. PICK m \in Proc : /\ Messenger(3) = m /\ Content(3) = m
                        /\ Asks(m, 3) \/ m = 4
  BY <1>2 DEF KeybInv, Inv, OneAtATime
<1>4. Sender(3) = m /\ Message(3) = m
  BY <1>1, <1>3 DEF Messenger, Content, Sender, Message
<1>5. FromNotifier(3) <=> m = 4
  BY <1>1, <1>4 DEF FromNotifier
<1>6. m = 4 => Unheard /\ new_key \in Keys \ {NoKey} /\ windows # <<>>
  BY <1>2, <1>3 DEF Unheard, KeybInv, Inv, KeysAreKept
<1>7. ASSUME m # 4
      PROVE  /\ Asks(m, 3) /\ Reading(m) /\ m > 4
             /\ keyb_msg[m].window_id \in Ids
  <2>1. Asks(m, 3) /\ rq.state[m] = "REPLY_BLOCKED" /\ PortOf(m) = 2
    BY <1>3, <1>7 DEF Asks
  <2>2. m > 4 /\ Reading(m)
    BY <2>1, BlockedAre DEF SendStates
  <2> QED  BY <2>1, <2>2 DEF Reading, KeybInv, Inv, DataTyped
<1>8. \A p \in Proc : ServedNow(p) => p = m
  BY <1>3 DEF ServedNow
<1> QED  BY <1>1, <1>2, <1>3, <1>4, <1>5, <1>6, <1>7, <1>8

(* A key of the notifier. *)
LEMMA KeyReceivedInv ==
  ASSUME KeybInv, Runs(3, "keyb_received"), FromNotifier(3), key_received(3),
         UNCHANGED <<keyb_msg, keyb_port>>
  PROVE  KeybInv'
<1> USE Processes DEF localVars
<1>1. /\ At(3, "user") /\ at[3] = "keyb_received" /\ Handles(3)
      /\ Unheard /\ new_key \in Keys \ {NoKey} /\ windows # <<>>
      /\ \A p \in Proc : ServedNow(p) => ~Reading(p)
  <2>1. ~Reading(4)
    BY DEF KeybInv, Inv, ProgramsHaveWindows
  <2> QED  BY <2>1, ServiceHandles
<1>2. /\ keyb_key' = Char(new_key) /\ new_key' = new_key
      /\ UNCHANGED <<keyb_clients, current_window, keyb_port, keyb_msg>>
  BY DEF key_received
<1>3. /\ new_key' = new_key \/ Unheard
      /\ new_key' \in Keys \cup {NoKey} /\ keyb_key' \in Chars \cup {NoKey}
      /\ keyb_key' \in RealKeys
  BY <1>1, <1>2, RealChars DEF RealKeys
<1>4. /\ DOMAIN keyb_clients \subseteq Ids
      /\ {current_window, keyb_window} \subseteq Ids \cup {NoWindow}
      /\ NoWindow \in Ids \cup {NoWindow}
      /\ Focus \in DOMAIN keyb_clients => current_window = Focus
  BY <1>1, RecordsNow
<1>5. ASSUME NEW action, NEW next \in {"focus_changed", "move", "focus_asked"},
             wm_call(3, action, NoWindow, next), UNCHANGED keyb_window,
             action = IF next = "focus_changed" THEN "change_focus" ELSE "current_focus"
      PROVE  KeybInv'
  <2>1. next \in Asking /\ next \notin WithClient
    BY DEF Asking, WithClient
  <2> QED  BY <1>1, <1>2, <1>3, <1>4, <1>5, <2>1, ServiceCalls DEF Seen
<1>6. ASSUME current_window # NoWindow, ~Seen(current_window),
             keyb_window' = current_window,
             wm_call(3, "current_focus", NoWindow, "key_new_record")
      PROVE  KeybInv'
  <2>1. "key_new_record" \in Asking /\ "key_new_record" \notin WithClient
    BY DEF Asking, WithClient
  <2>2. current_window \in Ids /\ ~Seen(Focus)
    BY <1>4, <1>6 DEF Seen
  <2> QED  BY <1>1, <1>2, <1>3, <1>4, <1>6, <2>1, <2>2, ServiceCalls
<1>7. ASSUME Seen(current_window), keyb_window' = current_window,
             Computes(3, "key_record"), UNCHANGED wmVars
      PROVE  KeybInv'
  <2>1. /\ \A w \in DOMAIN keyb_clients :
             keyb_clients[w].is_waiting =>
                \E c \in Proc :
                  /\ keyb_clients[w].client = c
                  /\ rq.state[c] = "REPLY_BLOCKED" /\ keyb_msg[c].window_id = w
                  /\ Blocks(c) /\ keyb_clients[w].buffer = <<>>
        /\ \A p \in Proc : Reading(p) =>
              LET w == keyb_msg[p].window_id IN
              /\ w \in DOMAIN keyb_clients
              /\ keyb_clients[w].is_waiting /\ keyb_clients[w].client = p
    BY <1>1, RecordsNow
  <2>2. /\ DOMAIN keyb_clients' \subseteq Ids
         /\ keyb_clients' \in [DOMAIN keyb_clients' -> [client : ProcOrNull,
                                                        is_waiting : BOOLEAN,
                                                        buffer : Seq(RealKeys)]]
         /\ \A w \in DOMAIN keyb_clients' : Len(keyb_clients'[w].buffer) < MAX_KEYB_BUFFER
    BY <1>2, RecordsNow
  <2>3. /\ UNCHANGED <<wm_port, keyb_port, windows, keyb_msg>> /\ wm_msg' = wm_msg
        /\ {current_window', keyb_window'} \subseteq Ids \cup {NoWindow}
        /\ keyb_window' \in DOMAIN keyb_clients'
    BY <1>2, <1>4, <1>7 DEF wmVars, Seen
  <2> QED  BY <1>1, <1>2, <1>3, <1>4, <1>7, <2>1, <2>2, <2>3, ServiceComputes
<1> QED  BY <1>5, <1>6, <1>7 DEF key_received, get_client_record

(* A program asks for a key. *)
LEMMA ClientAsksInv ==
  ASSUME KeybInv, Runs(3, "keyb_received"), ~FromNotifier(3),
         get_client_record(3, keyb_msg[Message(3)].window_id,
                           <<"client_record", "client_new_record">>),
         UNCHANGED <<keyb_clients, current_window, keyb_key, new_key, keyb_msg, keyb_port>>
  PROVE  KeybInv'
<1> USE Processes DEF localVars
<1>1. PICK m \in Proc :
        /\ m \in Proc /\ Message(3) = m /\ Messenger(3) = m
        /\ Asks(m, 3) /\ Reading(m) /\ keyb_msg[m].window_id \in Ids
        /\ At(3, "user") /\ at[3] = "keyb_received"
        /\ \A p \in Proc : ServedNow(p) => p = m
  BY ServiceHandles
<1>2. keyb_window' = keyb_msg[m].window_id
  BY <1>1 DEF get_client_record
<1>3. /\ DOMAIN keyb_clients \subseteq Ids
      /\ {current_window, keyb_window} \subseteq Ids \cup {NoWindow}
      /\ {current_window', keyb_window'} \subseteq Ids \cup {NoWindow}
      /\ new_key' \in Keys \cup {NoKey} /\ keyb_key' \in Chars \cup {NoKey}
      /\ new_key \in Keys \cup {NoKey} /\ keyb_key \in Chars \cup {NoKey}
      /\ NoWindow \in Ids \cup {NoWindow}
      /\ Focus \in DOMAIN keyb_clients => current_window = Focus
  BY <1>1, <1>2, RecordsNow
<1>4. ASSUME ~Seen(keyb_msg[m].window_id),
             wm_call(3, "current_focus", NoWindow, "client_new_record")
      PROVE  KeybInv'
  <2>1. "client_new_record" \in Asking /\ "client_new_record" \notin WithKey
        /\ "client_new_record" \in WithClient
    BY DEF Asking, WithClient, WithKey
  <2> QED  BY <1>1, <1>2, <1>3, <1>4, <2>1, ServiceCalls DEF Seen
<1>5. ASSUME Seen(keyb_msg[m].window_id),
             Computes(3, "client_record"), UNCHANGED wmVars
      PROVE  KeybInv'
  <2>1. /\ \A w \in DOMAIN keyb_clients :
             keyb_clients[w].is_waiting =>
                \E c \in Proc :
                  /\ keyb_clients[w].client = c
                  /\ rq.state[c] = "REPLY_BLOCKED" /\ keyb_msg[c].window_id = w
                  /\ Blocks(c) /\ keyb_clients[w].buffer = <<>>
        /\ \A p \in Proc : Reading(p) /\ p # m =>
              LET w == keyb_msg[p].window_id IN
              /\ w \in DOMAIN keyb_clients
              /\ keyb_clients[w].is_waiting /\ keyb_clients[w].client = p
    BY <1>1, RecordsNow
  <2>2. /\ DOMAIN keyb_clients' \subseteq Ids
         /\ keyb_clients' \in [DOMAIN keyb_clients' -> [client : ProcOrNull,
                                                        is_waiting : BOOLEAN,
                                                        buffer : Seq(RealKeys)]]
         /\ \A w \in DOMAIN keyb_clients' : Len(keyb_clients'[w].buffer) < MAX_KEYB_BUFFER
    BY RecordsNow
  <2>3. /\ UNCHANGED <<wm_port, keyb_port, windows, keyb_msg>> /\ wm_msg' = wm_msg
        /\ keyb_window' \in DOMAIN keyb_clients'
    BY <1>2, <1>5 DEF wmVars, Seen
  <2> QED  BY <1>1, <1>2, <1>3, <1>5, <2>1, <2>2, <2>3, ServiceComputes
<1> QED  BY <1>1, <1>4, <1>5 DEF get_client_record

(* The window manager has answered with the focus. *)
LEMMA FocusAnsweredInv ==
  ASSUME KeybInv, focus_answered(3) \/ moved(3), UNCHANGED <<new_key, keyb_msg, keyb_port>>
  PROVE  KeybInv'
<1> USE Processes DEF localVars
<1>1. /\ At(3, "user") /\ at[3] \in {"focus_changed", "move", "focus_asked", "moved"}
      /\ UNCHANGED keyb_clients
  BY DEF focus_answered, moved, Runs
<1>2. /\ at[3] \in WithKey /\ at[3] \notin WithClient /\ rq.state[3] = "READY"
      /\ at[3] # "keyb_received"
  BY <1>1, ServiceRuns DEF WithKey, WithClient
<1>3. /\ DOMAIN keyb_clients \subseteq Ids
      /\ {current_window, keyb_window} \subseteq Ids \cup {NoWindow}
      /\ new_key \in Keys \cup {NoKey} /\ keyb_key \in Chars \cup {NoKey}
      /\ NoWindow \in Ids \cup {NoWindow} /\ NoKey \in Chars \cup {NoKey}
      /\ NoWindow \notin Ids /\ keyb_key \in RealKeys /\ windows # <<>> /\ Focus \in Ids
      /\ Focus \in DOMAIN keyb_clients /\ at[3] # "focus_changed" =>
           current_window = Focus
  BY <1>2, RecordsNow
<1>4. \A p \in Proc : ~ServedNow(p)
  BY <1>2 DEF ServedNow, Handles
<1>5. /\ \A w \in DOMAIN keyb_clients :
             keyb_clients[w].is_waiting =>
                \E c \in Proc :
                  /\ keyb_clients[w].client = c
                  /\ rq.state[c] = "REPLY_BLOCKED" /\ keyb_msg[c].window_id = w
                  /\ Blocks(c) /\ keyb_clients[w].buffer = <<>>
      /\ \A p \in Proc : Reading(p) =>
              LET w == keyb_msg[p].window_id IN
              /\ w \in DOMAIN keyb_clients
              /\ keyb_clients[w].is_waiting /\ keyb_clients[w].client = p
      /\ DOMAIN keyb_clients' \subseteq Ids
      /\ keyb_clients' \in [DOMAIN keyb_clients' -> [client : ProcOrNull,
                                                        is_waiting : BOOLEAN,
                                                        buffer : Seq(RealKeys)]]
      /\ \A w \in DOMAIN keyb_clients' : Len(keyb_clients'[w].buffer) < MAX_KEYB_BUFFER
  BY <1>1, <1>4, RecordsNow
<1>6. at[3] # "moved" => wm_msg[3].window_id = Focus
  BY <1>1, <1>2 DEF Asking, KeybInv, Inv, ServiceAsks
<1>7. /\ focus_answered(3) => current_window' = Focus
      /\ moved(3) => current_window' = current_window
  BY <1>1, <1>6 DEF focus_answered, moved, Runs
<1>8. current_window' \in Ids \cup {NoWindow}
      /\ (Focus \in DOMAIN keyb_clients => current_window' = Focus)
  BY <1>1, <1>3, <1>7 DEF moved, Runs
<1>9. ASSUME NextMessage(3), wm_returned(3)
      PROVE  KeybInv'
  <2>1. /\ {current_window', keyb_window'} \subseteq Ids \cup {NoWindow}
        /\ new_key' \in Keys \cup {NoKey} /\ keyb_key' \in Chars \cup {NoKey}
        /\ Computes(3, "keyb_receive") /\ UNCHANGED <<wm_port, keyb_port, windows, keyb_msg>>
        /\ wm_msg' = [wm_msg EXCEPT ![3] = Handled(NoWindow)] /\ new_key' = new_key
    BY <1>3, <1>8, <1>9 DEF NextMessage, wm_returned
  <2> QED  BY <1>1, <1>2, <1>5, <1>8, <2>1, ServiceComputes
<1>10. ASSUME wm_call(3, "update", Focus, "moved"), UNCHANGED localVars, Runs(3, "move")
       PROVE  KeybInv'
  <2>1. "moved" \in Asking /\ "moved" \notin WithClient
    BY DEF Asking, WithClient
  <2>2. at[3] = "move"
    BY <1>10 DEF Runs
  <2> QED  BY <1>1, <1>3, <1>4, <1>8, <1>10, <2>1, <2>2, ServiceCalls DEF Seen
<1>11. ASSUME get_client_record(3, Focus, <<"key_record", "key_new_record">>),
              UNCHANGED keyb_key, Runs(3, "focus_asked")
       PROVE  KeybInv'
  <2>1. keyb_window' = Focus /\ at[3] = "focus_asked"
    BY <1>11 DEF get_client_record, Runs
  <2>2. ASSUME ~Seen(Focus), wm_call(3, "current_focus", NoWindow, "key_new_record")
        PROVE  KeybInv'
    <3>1. "key_new_record" \in Asking /\ "key_new_record" \notin WithClient
      BY DEF Asking, WithClient
    <3> QED  BY <1>1, <1>3, <1>4, <1>8, <1>11, <2>1, <2>2, <3>1, ServiceCalls DEF Seen
  <2>3. ASSUME Seen(Focus), Computes(3, "key_record"), UNCHANGED wmVars
        PROVE  KeybInv'
    <3>1. /\ UNCHANGED <<wm_port, keyb_port, windows, keyb_msg>> /\ wm_msg' = wm_msg
          /\ keyb_window' \in DOMAIN keyb_clients'
          /\ {current_window', keyb_window'} \subseteq Ids \cup {NoWindow}
          /\ new_key' \in Keys \cup {NoKey} /\ keyb_key' \in Chars \cup {NoKey} /\ new_key' = new_key
          /\ keyb_key' \in RealKeys /\ windows # <<>>
      BY <1>1, <1>3, <1>8, <1>11, <2>1, <2>3 DEF wmVars, Seen
    <3> QED  BY <1>1, <1>2, <1>5, <1>8, <2>1, <2>3, <3>1, ServiceComputes
  <2> QED  BY <2>2, <2>3, <1>11 DEF get_client_record
<1>12. CASE moved(3)
  BY <1>9, <1>12 DEF moved
<1>13. CASE focus_answered(3)
  <2>1. at[3] # "moved" /\ wm_msg[3].window_id = Focus
    BY <1>6, <1>13 DEF focus_answered, Runs
  <2>2. Focus # NoWindow
    BY <1>3
  <2> QED  BY <1>9, <1>10, <1>11, <1>13, <2>1, <2>2 DEF focus_answered
<1> QED  BY <1>12, <1>13

(* A record is made for a window seen first. *)
LEMMA NewRecordInv ==
  ASSUME KeybInv, NEW next \in {"key_record", "client_record"},
         \/ Runs(3, "key_new_record") /\ next = "key_record"
         \/ Runs(3, "client_new_record") /\ next = "client_record",
         new_client_record(3, next), UNCHANGED <<new_key, keyb_msg, keyb_port>>
  PROVE  KeybInv'
<1> USE Processes DEF localVars
<1>1. /\ At(3, "user") /\ rq.state[3] = "READY"
      /\ \/ at[3] = "key_new_record" /\ next = "key_record"
         \/ at[3] = "client_new_record" /\ next = "client_record"
      /\ keyb_window \in Ids /\ keyb_window \notin DOMAIN keyb_clients
  <2>1. At(3, "user") /\ (\/ at[3] = "key_new_record" /\ next = "key_record"
                          \/ at[3] = "client_new_record" /\ next = "client_record")
    BY DEF Runs
  <2> QED  BY <2>1, ServiceRuns DEF KeybInv, Inv, RecordsAreFound, Seen
<1>2. /\ keyb_clients' = [v \in DOMAIN keyb_clients \cup {keyb_window} |->
                            IF v = keyb_window THEN NewRecord ELSE keyb_clients[v]]
      /\ Computes(3, next) /\ UNCHANGED <<wm_port, windows, localVars>>
      /\ wm_msg' = [wm_msg EXCEPT ![3] = Handled(NoWindow)]
      /\ current_window' = wm_msg[3].window_id
  BY DEF new_client_record, AddRecord, wm_returned
<1>3. current_window' = Focus /\ Focus \in Ids
  <2>1. wm_msg[3].window_id = Focus
    BY <1>1 DEF Asking, KeybInv, Inv, ServiceAsks
  <2>2. windows # <<>>
    BY <1>1 DEF Ids
  <2> QED  BY <1>2, <2>1, <2>2, RecordsNow
<1>4. /\ DOMAIN keyb_clients' = DOMAIN keyb_clients \cup {keyb_window}
      /\ keyb_clients'[keyb_window] = NewRecord
      /\ \A w \in DOMAIN keyb_clients : keyb_clients'[w] = keyb_clients[w]
  BY <1>1, <1>2
<1>5. /\ NewRecord \in [client : ProcOrNull, is_waiting : BOOLEAN, buffer : Seq(RealKeys)]
      /\ ~NewRecord.is_waiting /\ Len(NewRecord.buffer) < MAX_KEYB_BUFFER
  BY KeybAssumption DEF NewRecord, ProcOrNull
<1>6. /\ DOMAIN keyb_clients' \subseteq Ids
      /\ keyb_clients' \in [DOMAIN keyb_clients' -> [client : ProcOrNull,
                                                        is_waiting : BOOLEAN,
                                                        buffer : Seq(RealKeys)]]
      /\ \A w \in DOMAIN keyb_clients' : Len(keyb_clients'[w].buffer) < MAX_KEYB_BUFFER
  <2>1. /\ DOMAIN keyb_clients \subseteq Ids
        /\ keyb_clients \in [DOMAIN keyb_clients -> [client : ProcOrNull,
                                                        is_waiting : BOOLEAN,
                                                        buffer : Seq(RealKeys)]]
        /\ \A w \in DOMAIN keyb_clients : Len(keyb_clients[w].buffer) < MAX_KEYB_BUFFER
    BY RecordsNow
  <2>2. \A w \in DOMAIN keyb_clients' :
          /\ keyb_clients'[w] \in [client : ProcOrNull, is_waiting : BOOLEAN,
                                   buffer : Seq(RealKeys)]
          /\ Len(keyb_clients'[w].buffer) < MAX_KEYB_BUFFER
    BY <1>4, <1>5, <2>1
  <2> QED  BY <1>1, <1>2, <1>4, <2>1, <2>2
<1>7. \A p : ServedNow(p) <=> next = "client_record" /\ p = Messenger(3)
  BY <1>1 DEF ServedNow, Handles, WithClient
<1>8. /\ \A w \in DOMAIN keyb_clients' :
             keyb_clients'[w].is_waiting =>
                \E c \in Proc :
                  /\ keyb_clients'[w].client = c
                  /\ rq.state[c] = "REPLY_BLOCKED" /\ keyb_msg[c].window_id = w
                  /\ Blocks(c) /\ keyb_clients'[w].buffer = <<>>
      /\ \A p \in Proc : Reading(p) /\ ~(next = "client_record" /\ p = Messenger(3)) =>
              LET w == keyb_msg[p].window_id IN
              /\ w \in DOMAIN keyb_clients'
              /\ keyb_clients'[w].is_waiting /\ keyb_clients'[w].client = p
  <2>1. /\ \A w \in DOMAIN keyb_clients :
             keyb_clients[w].is_waiting =>
                \E c \in Proc :
                  /\ keyb_clients[w].client = c
                  /\ rq.state[c] = "REPLY_BLOCKED" /\ keyb_msg[c].window_id = w
                  /\ Blocks(c) /\ keyb_clients[w].buffer = <<>>
        /\ \A p \in Proc : Reading(p) /\ ~(next = "client_record" /\ p = Messenger(3)) =>
              LET w == keyb_msg[p].window_id IN
              /\ w \in DOMAIN keyb_clients
              /\ keyb_clients[w].is_waiting /\ keyb_clients[w].client = p
    BY <1>1, <1>7, RecordsNow
  <2> QED  BY <1>4, <1>5, <2>1
<1>9. next = "client_record" =>
           \E m \in Proc : /\ Messenger(3) = m /\ Asks(m, 3)
                           /\ keyb_window' = keyb_msg[m].window_id
  BY <1>1, <1>2 DEF KeybInv, Inv, RecordsAreFound, WithClient
<1>10. next = "key_record" => keyb_key \in RealKeys /\ windows # <<>>
  BY <1>1, RecordsNow DEF WithKey
<1>11. Focus \in DOMAIN keyb_clients' =>
           /\ current_window' = Focus
           /\ next = "key_record" => keyb_window' = Focus
  BY <1>1, <1>2, <1>3, <1>4, RecordsNow
<1>12. /\ at[3] \in {"keyb_received"} \cup WithKey \cup WithClient
       /\ new_key' \in Keys \cup {NoKey} /\ keyb_key' \in Chars \cup {NoKey}
       /\ {current_window', keyb_window'} \subseteq Ids \cup {NoWindow}
       /\ keyb_window' \in DOMAIN keyb_clients' /\ keyb_key' = keyb_key
       /\ UNCHANGED <<wm_port, keyb_port, windows, keyb_msg>>
  BY <1>1, <1>2, <1>3, <1>4, RecordsNow DEF WithKey, WithClient
<1>13. /\ Computes(3, next) /\ wm_msg' = [wm_msg EXCEPT ![3] = Handled(NoWindow)]
       /\ new_key' = new_key /\ At(3, "user")
       /\ next = "key_record" => keyb_key' \in RealKeys /\ windows # <<>>
       /\ next \in {"key_record", "client_record"} => keyb_window' \in DOMAIN keyb_clients'
       /\ next \in {"keyb_receive", "key_record", "client_record"}
  BY <1>1, <1>2, <1>10, <1>12
<1> QED  BY <1>6, <1>8, <1>9, <1>11, <1>12, <1>13, ServiceComputes

(* A key of the buffer is the oldest. *)
LEMMA Buffers ==
  ASSUME NEW q \in Seq(RealKeys), Len(q) < MAX_KEYB_BUFFER
  PROVE  /\ q # <<>> => /\ Head(q) \in RealKeys /\ Tail(q) \in Seq(RealKeys)
                        /\ Len(Tail(q)) < MAX_KEYB_BUFFER
         /\ \A key \in RealKeys : /\ enqueue_key(q, key) \in Seq(RealKeys)
                                  /\ Len(enqueue_key(q, key)) < MAX_KEYB_BUFFER
<1>1. MAX_KEYB_BUFFER \in Nat /\ MAX_KEYB_BUFFER >= 2 /\ Len(q) \in Nat
  BY KeybAssumption
<1>2. q # <<>> => /\ Head(q) \in RealKeys /\ Tail(q) \in Seq(RealKeys)
                  /\ Len(Tail(q)) = Len(q) - 1
  OBVIOUS
<1>3. ASSUME NEW key \in RealKeys
      PROVE  /\ enqueue_key(q, key) \in Seq(RealKeys)
             /\ Len(enqueue_key(q, key)) < MAX_KEYB_BUFFER
  <2>1. CASE Len(q) + 1 = MAX_KEYB_BUFFER
    <3>1. q # <<>>
      BY <1>1, <2>1
    <3>2. enqueue_key(q, key) = Append(Tail(q), key)
      BY <2>1 DEF enqueue_key
    <3>3. Len(Append(Tail(q), key)) = Len(q) - 1 + 1 /\ Append(Tail(q), key) \in Seq(RealKeys)
      BY <1>2, <3>1
    <3> QED  BY <1>1, <3>2, <3>3
  <2>2. CASE Len(q) + 1 # MAX_KEYB_BUFFER
    <3>1. enqueue_key(q, key) = Append(q, key)
      BY <2>2 DEF enqueue_key
    <3> QED  BY <1>1, <2>2, <3>1
  <2> QED  BY <2>1, <2>2
<1> QED  BY <1>1, <1>2, <1>3

(* The record of a window changes; those of the other windows do not. *)
LEMMA OneRecord ==
  ASSUME KeybInv, NEW w0 \in DOMAIN keyb_clients,
         NEW r \in [client : ProcOrNull, is_waiting : BOOLEAN, buffer : Seq(RealKeys)],
         Len(r.buffer) < MAX_KEYB_BUFFER,
         keyb_clients' = [keyb_clients EXCEPT ![w0] = r]
  PROVE  /\ DOMAIN keyb_clients' = DOMAIN keyb_clients /\ DOMAIN keyb_clients \subseteq Ids
         /\ keyb_clients'[w0] = r
         /\ \A w \in DOMAIN keyb_clients : w # w0 => keyb_clients'[w] = keyb_clients[w]
         /\ DOMAIN keyb_clients' \subseteq Ids
         /\ keyb_clients' \in [DOMAIN keyb_clients' -> [client : ProcOrNull,
                                                        is_waiting : BOOLEAN,
                                                        buffer : Seq(RealKeys)]]
         /\ \A w \in DOMAIN keyb_clients' : Len(keyb_clients'[w].buffer) < MAX_KEYB_BUFFER
<1>1. /\ DOMAIN keyb_clients \subseteq Ids
      /\ keyb_clients \in [DOMAIN keyb_clients -> [client : ProcOrNull,
                                                        is_waiting : BOOLEAN,
                                                        buffer : Seq(RealKeys)]]
      /\ \A w \in DOMAIN keyb_clients : Len(keyb_clients[w].buffer) < MAX_KEYB_BUFFER
  BY RecordsNow
<1>2. /\ DOMAIN keyb_clients' = DOMAIN keyb_clients
      /\ keyb_clients'[w0] = r
      /\ \A w \in DOMAIN keyb_clients : w # w0 => keyb_clients'[w] = keyb_clients[w]
  BY <1>1
<1>3. \A w \in DOMAIN keyb_clients : Len(keyb_clients'[w].buffer) < MAX_KEYB_BUFFER
  BY <1>1, <1>2
<1>4. keyb_clients' \in [DOMAIN keyb_clients -> [client : ProcOrNull,
                                                 is_waiting : BOOLEAN,
                                                 buffer : Seq(RealKeys)]]
  BY <1>1
<1> QED  BY <1>1, <1>2, <1>3, <1>4

(* The record of the key is there: the program that waits gets the key. *)
LEMMA KeyIsGivenInv ==
  ASSUME KeybInv, Runs(3, "key_record"), keyb_clients[keyb_window].is_waiting,
         keyb_msg' = [keyb_msg EXCEPT ![keyb_clients[keyb_window].client] =
                        Answered(keyb_key)],
         Replies(3, keyb_clients[keyb_window].client, "key_given"),
         UNCHANGED <<wmVars, current_window, new_key, keyb_port, keyb_clients, localVars>>
  PROVE  KeybInv'
<1> USE Processes DEF localVars
<1>1. /\ At(3, "user") /\ at[3] = "key_record" /\ keyb_window \in DOMAIN keyb_clients
      /\ at[3] \in WithKey /\ keyb_key \in RealKeys /\ windows # <<>>
  BY RecordsNow DEF Runs, WithKey, KeybInv, Inv, RecordsAreFound, Seen
<1>2. PICK s \in Proc :
        /\ s \in Proc /\ keyb_clients[keyb_window].client = s
        /\ rq.state[s] = "REPLY_BLOCKED" /\ keyb_msg[s].window_id = keyb_window
  BY <1>1, RecordsNow
<1>3. Asks(s, 3) /\ Reading(s)
  <2>1. keyb_window # NoWindow
    BY <1>1, RecordsNow
  <2>2. Reading(s)
    BY <1>2, <2>1 DEF Reading
  <2> QED  BY <1>2, <2>2 DEF Asks, PortOf
<1>4. \A p : ~ServedNow(p)
  BY <1>1 DEF ServedNow, Handles, WithClient
<1>5. \A w \in DOMAIN keyb_clients' :
           keyb_clients'[w].is_waiting /\ ~(keyb_window' = w) =>
             \E c \in Proc :
               /\ c # s /\ keyb_clients'[w].client = c
               /\ rq.state[c] = "REPLY_BLOCKED" /\ keyb_msg[c].window_id = w
               /\ Blocks(c) /\ keyb_clients'[w].buffer = <<>>
  BY <1>1, <1>2, RecordsNow
<1>6. \A p \in Proc : Reading(p) /\ p # s =>
           LET w == keyb_msg[p].window_id IN
           /\ w \in DOMAIN keyb_clients' /\ ~(keyb_window' = w)
           /\ keyb_clients'[w].is_waiting /\ keyb_clients'[w].client = p
  BY <1>2, <1>4, RecordsNow
<1>7. /\ DOMAIN keyb_clients' \subseteq Ids
      /\ keyb_clients' \in [DOMAIN keyb_clients' -> [client : ProcOrNull,
                                                        is_waiting : BOOLEAN,
                                                        buffer : Seq(RealKeys)]]
      /\ \A w \in DOMAIN keyb_clients' : Len(keyb_clients'[w].buffer) < MAX_KEYB_BUFFER
      /\ keyb_key' \in Chars \cup {NoKey} /\ keyb_key \in Chars \cup {NoKey}
      /\ keyb_window' \in Ids \cup {NoWindow}
      /\ Focus \in DOMAIN keyb_clients' => current_window = Focus
  BY <1>1, RecordsNow
<1>8. /\ Replies(3, s, "key_given")
      /\ keyb_msg' = [keyb_msg EXCEPT ![s] = Answered(keyb_key)]
      /\ UNCHANGED <<wmVars, keyb_port, new_key, current_window>>
      /\ keyb_key' \in RealKeys /\ keyb_window' \in DOMAIN keyb_clients'
      /\ at[3] \in {"client_record", "key_record"} /\ KeybInv /\ At(3, "user")
      /\ windows # <<>> /\ s \in Proc /\ Asks(s, 3) /\ keyb_key \in Chars \cup {NoKey}
  BY <1>1, <1>2, <1>3, <1>7
<1>9. Answering(s, "key_given")
  <2>1. \E key \in Chars \cup {NoKey} : keyb_msg' = [keyb_msg EXCEPT ![s] = Answered(key)]
    BY <1>7, <1>8
  <2> QED  BY ONLY <1>5, <1>6, <1>7, <1>8, <2>1 DEF Answering
<1> QED  BY <1>8, <1>9, ServiceReplies

(* It has been given to it, or is kept for the program of the window. *)
LEMMA KeyIsDoneInv ==
  ASSUME KeybInv, NextMessage(3), UNCHANGED <<wmVars, current_window, new_key, keyb_port,
                                              keyb_msg>>,
         \/ /\ Runs(3, "key_given")
            /\ keyb_clients' = [keyb_clients EXCEPT ![keyb_window].is_waiting = FALSE]
         \/ /\ Runs(3, "key_record") /\ ~keyb_clients[keyb_window].is_waiting
            /\ keyb_clients' = [keyb_clients EXCEPT ![keyb_window].buffer =
                                  enqueue_key(@, keyb_key)]
  PROVE  KeybInv'
<1> USE Processes DEF localVars
<1>1. /\ At(3, "user") /\ at[3] \in {"key_given", "key_record"}
      /\ keyb_window \in DOMAIN keyb_clients
      /\ at[3] \in WithKey /\ keyb_key \in RealKeys
  BY RecordsNow DEF Runs, WithKey, KeybInv, Inv, RecordsAreFound, Seen
<1>2. /\ keyb_clients[keyb_window] \in
           [client : ProcOrNull, is_waiting : BOOLEAN, buffer : Seq(RealKeys)]
      /\ Len(keyb_clients[keyb_window].buffer) < MAX_KEYB_BUFFER
  BY <1>1, RecordsNow
<1>3. PICK r \in [client : ProcOrNull, is_waiting : BOOLEAN, buffer : Seq(RealKeys)] :
        /\ Len(r.buffer) < MAX_KEYB_BUFFER
        /\ keyb_clients' = [keyb_clients EXCEPT ![keyb_window] = r]
        /\ ~r.is_waiting
  <2>1. CASE at[3] = "key_given"
    <3>1. keyb_clients' = [keyb_clients EXCEPT ![keyb_window].is_waiting = FALSE]
      BY <2>1 DEF Runs
    <3> DEFINE r == [keyb_clients[keyb_window] EXCEPT !.is_waiting = FALSE]
    <3>2. /\ r \in [client : ProcOrNull, is_waiting : BOOLEAN, buffer : Seq(RealKeys)]
          /\ r.buffer = keyb_clients[keyb_window].buffer /\ r.is_waiting = FALSE
      BY <1>2
    <3>3. keyb_clients' = [keyb_clients EXCEPT ![keyb_window] = r]
      BY <3>1
    <3> HIDE DEF r
    <3> QED  BY <1>2, <3>2, <3>3
  <2>2. CASE at[3] = "key_record"
    <3>1. /\ keyb_clients' = [keyb_clients EXCEPT ![keyb_window].buffer =
                                enqueue_key(@, keyb_key)]
          /\ ~keyb_clients[keyb_window].is_waiting
      BY <2>2 DEF Runs
    <3> DEFINE b == enqueue_key(keyb_clients[keyb_window].buffer, keyb_key)
               r == [keyb_clients[keyb_window] EXCEPT !.buffer = b]
    <3>2. b \in Seq(RealKeys) /\ Len(b) < MAX_KEYB_BUFFER
      BY <1>1, <1>2, Buffers
    <3>3. keyb_clients' = [keyb_clients EXCEPT ![keyb_window] = r]
      BY <3>1
    <3> HIDE DEF b
    <3>4. /\ r \in [client : ProcOrNull, is_waiting : BOOLEAN, buffer : Seq(RealKeys)]
          /\ r.buffer = b /\ r.is_waiting = keyb_clients[keyb_window].is_waiting
      BY <1>2, <3>2
    <3> HIDE DEF r
    <3> QED  BY <3>1, <3>2, <3>3, <3>4
  <2> QED  BY <1>1, <2>1, <2>2
<1>4. /\ DOMAIN keyb_clients' = DOMAIN keyb_clients
      /\ keyb_clients'[keyb_window] = r
      /\ \A w \in DOMAIN keyb_clients : w # keyb_window => keyb_clients'[w] = keyb_clients[w]
      /\ DOMAIN keyb_clients' \subseteq Ids
      /\ keyb_clients' \in [DOMAIN keyb_clients' -> [client : ProcOrNull,
                                                        is_waiting : BOOLEAN,
                                                        buffer : Seq(RealKeys)]]
      /\ \A w \in DOMAIN keyb_clients' : Len(keyb_clients'[w].buffer) < MAX_KEYB_BUFFER
  BY <1>1, <1>3, OneRecord
<1>5. \A p : ~ServedNow(p)
  BY <1>1 DEF ServedNow, Handles, WithClient
<1>6. \A w \in DOMAIN keyb_clients' :
           keyb_clients'[w].is_waiting =>
                \E c \in Proc :
                  /\ keyb_clients'[w].client = c
                  /\ rq.state[c] = "REPLY_BLOCKED" /\ keyb_msg[c].window_id = w
                  /\ Blocks(c) /\ keyb_clients'[w].buffer = <<>>
  BY <1>3, <1>4, RecordsNow
<1>7. \A p \in Proc : Reading(p) =>
              LET w == keyb_msg[p].window_id IN
              /\ w \in DOMAIN keyb_clients'
              /\ keyb_clients'[w].is_waiting /\ keyb_clients'[w].client = p
  <2>1. SUFFICES ASSUME NEW p \in Proc, Reading(p), NEW w, w = keyb_msg[p].window_id
                 PROVE  /\ w \in DOMAIN keyb_clients'
                        /\ keyb_clients'[w].is_waiting /\ keyb_clients'[w].client = p
    OBVIOUS
  <2>2. /\ w \in DOMAIN keyb_clients /\ ~(at[3] = "key_given" /\ keyb_window = w)
        /\ keyb_clients[w].is_waiting /\ keyb_clients[w].client = p
    BY <1>5, <2>1, RecordsNow
  <2>3. w # keyb_window
    BY <1>1, <2>2 DEF Runs
  <2> QED  BY <1>4, <2>2, <2>3
<1>8. /\ Computes(3, "keyb_receive") /\ keyb_key' = NoKey /\ keyb_window' = NoWindow
      /\ UNCHANGED <<wm_port, keyb_port, windows, keyb_msg, wm_msg, new_key>>
      /\ new_key' \in Keys \cup {NoKey} /\ keyb_key' \in Chars \cup {NoKey}
      /\ {current_window', keyb_window'} \subseteq Ids \cup {NoWindow}
      /\ Focus \in DOMAIN keyb_clients' => current_window' = Focus
      /\ at[3] \in {"keyb_received"} \cup WithKey \cup WithClient
  BY <1>1, <1>4, RecordsNow DEF NextMessage, wmVars
<1> QED  BY <1>1, <1>4, <1>6, <1>7, <1>8, ServiceComputes

(* The record of a program that asks for a key is there: it gets the       *)
(* oldest key, or waits for one, or is told that there is none.            *)
LEMMA ClientRecordInv ==
  ASSUME KeybInv, client_record(3), UNCHANGED <<new_key, keyb_port>>
  PROVE  KeybInv'
<1> USE Processes DEF localVars
<1>1. /\ Runs(3, "client_record") /\ At(3, "user") /\ at[3] = "client_record"
      /\ pc[3] = "user" /\ UNCHANGED <<wmVars, current_window>>
  BY DEF client_record, Runs, At
<1>2. PICK s \in Proc :
        /\ s \in Proc /\ Messenger(3) = s /\ Sender(3) = s /\ Asks(s, 3)
        /\ rq.state[s] = "REPLY_BLOCKED" /\ keyb_msg[s].window_id = keyb_window
  <2>1. PICK m \in Proc : Messenger(3) = m /\ Asks(m, 3) /\ keyb_window = keyb_msg[m].window_id
    BY <1>1 DEF KeybInv, Inv, RecordsAreFound, WithClient
  <2> QED  BY <1>1, <2>1 DEF Messenger, Sender, Asks
<1>3. /\ keyb_window \in DOMAIN keyb_clients
      /\ at[3] # "key_given"
  BY <1>1 DEF KeybInv, Inv, RecordsAreFound, Seen
<1>4. Reading(s)
  <2>1. keyb_window # NoWindow
    BY <1>3, RecordsNow
  <2> QED  BY <1>2, <2>1 DEF Reading
<1>5. \A p \in Proc : Reading(p) /\ p # s => keyb_msg[p].window_id # keyb_window
  BY <1>2, <1>4 DEF KeybInv, Inv, ProgramsHaveWindows, Reading
<1>6. \A p : ServedNow(p) => p = s
  BY <1>2 DEF ServedNow
<1> DEFINE record == keyb_clients[keyb_window]
<1>7. /\ record \in [client : ProcOrNull, is_waiting : BOOLEAN, buffer : Seq(RealKeys)]
      /\ Len(record.buffer) < MAX_KEYB_BUFFER
      /\ DOMAIN keyb_clients \subseteq Ids
      /\ new_key \in Keys \cup {NoKey} /\ keyb_key \in Chars \cup {NoKey}
      /\ {current_window, keyb_window} \subseteq Ids \cup {NoWindow}
      /\ NoWindow \in Ids \cup {NoWindow} /\ NoKey \in Chars \cup {NoKey}
      /\ Focus \in DOMAIN keyb_clients => current_window = Focus
  BY <1>1, <1>3, RecordsNow
<1>8. /\ \A w \in DOMAIN keyb_clients :
           keyb_clients[w].is_waiting =>
             \E c \in Proc :
               /\ keyb_clients[w].client = c
               /\ rq.state[c] = "REPLY_BLOCKED" /\ keyb_msg[c].window_id = w
               /\ Blocks(c) /\ keyb_clients[w].buffer = <<>>
      /\ \A p \in Proc : Reading(p) /\ p # s =>
           LET w == keyb_msg[p].window_id IN
           /\ w \in DOMAIN keyb_clients
           /\ keyb_clients[w].is_waiting /\ keyb_clients[w].client = p
  BY <1>3, <1>6, RecordsNow
<1>9. CASE record.buffer # <<>>
  <2>1. /\ keyb_msg' = [keyb_msg EXCEPT ![s] = Answered(Head(record.buffer))]
        /\ Replies(3, s, "keyb_receive")
        /\ keyb_key' = NoKey /\ keyb_window' = NoWindow
        /\ keyb_clients' = [keyb_clients EXCEPT ![keyb_window].buffer = Tail(@)]
    BY <1>2, <1>9 DEF client_record, has_key_enqueued
  <2> DEFINE b == Tail(record.buffer)
             r == [record EXCEPT !.buffer = b]
  <2>2. b \in Seq(RealKeys) /\ Len(b) < MAX_KEYB_BUFFER /\ Head(record.buffer) \in RealKeys
    BY <1>7, <1>9, Buffers
  <2>3. keyb_clients' = [keyb_clients EXCEPT ![keyb_window] = r]
    BY <2>1
  <2> HIDE DEF b
  <2>4. /\ r \in [client : ProcOrNull, is_waiting : BOOLEAN, buffer : Seq(RealKeys)]
        /\ r.buffer = b /\ r.is_waiting = record.is_waiting /\ r.client = record.client
    BY <1>7, <2>2
  <2> HIDE DEF r
  <2>5. /\ DOMAIN keyb_clients' = DOMAIN keyb_clients
        /\ keyb_clients'[keyb_window] = r
        /\ \A w \in DOMAIN keyb_clients : w # keyb_window => keyb_clients'[w] = keyb_clients[w]
        /\ DOMAIN keyb_clients' \subseteq Ids
        /\ keyb_clients' \in [DOMAIN keyb_clients' -> [client : ProcOrNull,
                                                        is_waiting : BOOLEAN,
                                                        buffer : Seq(RealKeys)]]
        /\ \A w \in DOMAIN keyb_clients' : Len(keyb_clients'[w].buffer) < MAX_KEYB_BUFFER
    BY <1>3, <2>2, <2>3, <2>4, OneRecord
  <2>6. \A w \in DOMAIN keyb_clients' :
           keyb_clients'[w].is_waiting =>
             \E c \in Proc :
               /\ c # s /\ keyb_clients'[w].client = c
               /\ rq.state[c] = "REPLY_BLOCKED" /\ keyb_msg[c].window_id = w
               /\ Blocks(c) /\ keyb_clients'[w].buffer = <<>>
    <3>1. ~record.is_waiting
      BY <1>3, <1>8, <1>9
    <3> QED  BY <1>2, <1>8, <2>4, <2>5, <3>1
  <2>7. \A p \in Proc : Reading(p) /\ p # s =>
           LET w == keyb_msg[p].window_id IN
           /\ w \in DOMAIN keyb_clients'
           /\ keyb_clients'[w].is_waiting /\ keyb_clients'[w].client = p
    BY <1>5, <1>8, <2>5
  <2>8. Answering(s, "keyb_receive")
    <3>1. \E key \in Chars \cup {NoKey} : keyb_msg' = [keyb_msg EXCEPT ![s] = Answered(key)]
      BY <2>1, <2>2 DEF RealKeys
    <3>2. /\ Asks(s, 3) /\ Replies(3, s, "keyb_receive")
          /\ UNCHANGED <<wmVars, keyb_port, new_key, current_window>>
          /\ keyb_key' \in Chars \cup {NoKey} /\ keyb_window' \in Ids \cup {NoWindow}
          /\ Focus \in DOMAIN keyb_clients' => current_window = Focus
      BY <1>1, <1>2, <1>7, <2>1, <2>5
    <3> QED  BY ONLY <2>5, <2>6, <2>7, <3>1, <3>2 DEF Answering
  <2> QED  BY <1>1, <2>8, ServiceReplies
<1>10. CASE record.buffer = <<>> /\ ~Blocks(s)
  <2>1. /\ keyb_msg' = [keyb_msg EXCEPT ![s] = Answered(NoKey)]
        /\ Replies(3, s, "keyb_receive")
        /\ keyb_key' = NoKey /\ keyb_window' = NoWindow
        /\ keyb_clients' = keyb_clients
    BY <1>2, <1>10 DEF client_record, has_key_enqueued
  <2>2. /\ DOMAIN keyb_clients' \subseteq Ids
        /\ keyb_clients' \in [DOMAIN keyb_clients' -> [client : ProcOrNull,
                                                        is_waiting : BOOLEAN,
                                                        buffer : Seq(RealKeys)]]
        /\ \A w \in DOMAIN keyb_clients' : Len(keyb_clients'[w].buffer) < MAX_KEYB_BUFFER
    BY <2>1, RecordsNow
  <2>3. \A w \in DOMAIN keyb_clients' :
           keyb_clients'[w].is_waiting =>
             \E c \in Proc :
               /\ c # s /\ keyb_clients'[w].client = c
               /\ rq.state[c] = "REPLY_BLOCKED" /\ keyb_msg[c].window_id = w
               /\ Blocks(c) /\ keyb_clients'[w].buffer = <<>>
    BY <1>8, <1>10, <2>1
  <2>4. \A p \in Proc : Reading(p) /\ p # s =>
           LET w == keyb_msg[p].window_id IN
           /\ w \in DOMAIN keyb_clients'
           /\ keyb_clients'[w].is_waiting /\ keyb_clients'[w].client = p
    BY <1>8, <2>1
  <2>5. Answering(s, "keyb_receive")
    <3>1. \E key \in Chars \cup {NoKey} : keyb_msg' = [keyb_msg EXCEPT ![s] = Answered(key)]
      BY <1>7, <2>1
    <3>2. /\ Asks(s, 3) /\ Replies(3, s, "keyb_receive")
          /\ UNCHANGED <<wmVars, keyb_port, new_key, current_window>>
          /\ keyb_key' \in Chars \cup {NoKey} /\ keyb_window' \in Ids \cup {NoWindow}
          /\ Focus \in DOMAIN keyb_clients' => current_window = Focus
      BY <1>1, <1>2, <1>7, <2>1
    <3> QED  BY ONLY <2>2, <2>3, <2>4, <3>1, <3>2 DEF Answering
  <2> QED  BY <1>1, <2>5, ServiceReplies
<1>11. CASE record.buffer = <<>> /\ Blocks(s)
  <2>1. /\ keyb_msg' = keyb_msg /\ NextMessage(3)
        /\ keyb_clients' = [keyb_clients EXCEPT ![keyb_window].client = s,
                                                ![keyb_window].is_waiting = TRUE]
    BY <1>2, <1>11 DEF client_record, has_key_enqueued
  <2> DEFINE r == [record EXCEPT !.client = s, !.is_waiting = TRUE]
  <2>2. keyb_clients' = [keyb_clients EXCEPT ![keyb_window] = r]
    BY <1>3, <2>1, RecordsNow
  <2>3. /\ r \in [client : ProcOrNull, is_waiting : BOOLEAN, buffer : Seq(RealKeys)]
        /\ r.buffer = record.buffer /\ r.is_waiting = TRUE /\ r.client = s
    BY <1>2, <1>7 DEF ProcOrNull
  <2> HIDE DEF r
  <2>4. /\ DOMAIN keyb_clients' = DOMAIN keyb_clients
        /\ keyb_clients'[keyb_window] = r
        /\ \A w \in DOMAIN keyb_clients : w # keyb_window => keyb_clients'[w] = keyb_clients[w]
        /\ DOMAIN keyb_clients' \subseteq Ids
        /\ keyb_clients' \in [DOMAIN keyb_clients' -> [client : ProcOrNull,
                                                        is_waiting : BOOLEAN,
                                                        buffer : Seq(RealKeys)]]
        /\ \A w \in DOMAIN keyb_clients' : Len(keyb_clients'[w].buffer) < MAX_KEYB_BUFFER
    BY <1>3, <1>7, <2>2, <2>3, OneRecord
  <2>5. \A w \in DOMAIN keyb_clients' :
           keyb_clients'[w].is_waiting =>
             \E c \in Proc :
               /\ keyb_clients'[w].client = c
               /\ rq.state[c] = "REPLY_BLOCKED" /\ keyb_msg[c].window_id = w
               /\ Blocks(c) /\ keyb_clients'[w].buffer = <<>>
    BY <1>2, <1>8, <1>11, <2>3, <2>4
  <2>6. \A p \in Proc : Reading(p) =>
           LET w == keyb_msg[p].window_id IN
           /\ w \in DOMAIN keyb_clients'
           /\ keyb_clients'[w].is_waiting /\ keyb_clients'[w].client = p
    BY <1>2, <1>3, <1>5, <1>8, <2>3, <2>4
  <2>7. /\ Computes(3, "keyb_receive") /\ keyb_key' = NoKey /\ keyb_window' = NoWindow
        /\ UNCHANGED <<wm_port, keyb_port, windows, keyb_msg, wm_msg, new_key>>
        /\ new_key' \in Keys \cup {NoKey} /\ keyb_key' \in Chars \cup {NoKey}
        /\ {current_window', keyb_window'} \subseteq Ids \cup {NoWindow}
        /\ Focus \in DOMAIN keyb_clients' => current_window' = Focus
        /\ at[3] \in {"keyb_received"} \cup WithKey \cup WithClient
    BY <1>1, <1>7, <2>1, <2>4 DEF NextMessage, wmVars, WithClient
  <2> QED  BY <1>1, <2>4, <2>5, <2>6, <2>7, ServiceComputes
<1> QED  BY <1>9, <1>10, <1>11

(* The keyboard process waits for a message. *)
LEMMA ServiceWaits ==
  ASSUME KeybInv, Runs(3, "keyb_receive"), ports[3] # <<>>, receive(3), receive_block(3),
         Jump(3, "keyb_received"), UNCHANGED <<ret, wm_port, keyb_port, dataVars>>
  PROVE  KeybInv'
<1> USE Processes DEF dataVars, localVars
<1>1. /\ Steps(3, "keyb_received") /\ K!HighestStep /\ pc[3] = "user" /\ active_proc = 3
      /\ active_proc' = dispatcher(rq', active_proc)
      /\ pc'[3] = "receive" /\ \A q \in Proc : q # 3 => pc'[q] = pc[q]
      /\ rq.state[3] = "READY" /\ rq'.state[3] = "RECEIVE_BLOCKED"
      /\ \A q \in Proc : q # 3 => /\ rq'.state[q] = rq.state[q]
                                  /\ param_data'[q] = param_data[q]
                                  /\ received'[q] = received[q]
      /\ UNCHANGED <<param_proc, interrupt_table>>
  <2>1. "keyb_received" \in Places
    BY DEF Places
  <2> QED  BY <2>1, BlocksStep DEF Runs
<1>2. /\ at[3] = "keyb_receive" /\ at'[3] = "keyb_received"
      /\ \A q \in Proc : q # 3 => at'[q] = at[q]
  BY <1>1 DEF Runs, Steps
<1>3. FrameInv' /\ KeybNeverPanics'
  <2>1. \A q \in Proc : q # 3 => Stays(q)
    BY <1>1, <1>2 DEF Stays
  <2>2. ServiceMoves
    BY <1>1, <1>2 DEF ServiceMoves, Running
  <2>3. Moves
    BY <2>1, <2>2, StaysMoves DEF Moves
  <2> QED  BY <1>1, <2>1, <2>3, Framed DEF Stays
<1>4. ServiceFirst'
  BY <1>1, <1>3, DispatchServesFirst DEF FrameInv, Steps
<1> USE DEF KeybInv, Inv
<1>5. /\ \A p \in Proc : \A s \in SendStates : rq'.state[p] = s <=> rq.state[p] = s
      /\ \A p \in Proc : rq.state[p] \in SendStates => p # 3
  BY <1>1 DEF SendStates
<1>6. /\ \A p \in Proc : Reading(p)' <=> Reading(p)
      /\ \A p \in Proc : Blocks(p)' <=> Blocks(p)
      /\ \A w : Seen(w)' <=> Seen(w)
      /\ Ids' = Ids /\ Focus' = Focus
  BY DEF Reading, Blocks, Seen, Ids, Focus
<1>7. \A p \in Proc : \A r : Asks(p, r)' <=> Asks(p, r)
  BY <1>5, <1>6 DEF Asks, PortOf, SendStates
<1>8. /\ ~Handles(3) /\ ~Handles(3)'
      /\ Handles(2)' <=> Handles(2)
      /\ Messenger(2)' = Messenger(2) /\ Content(2)' = Content(2)
      /\ ~Unheard' /\ ~Unheard
  BY <1>1, <1>2 DEF Handles, Messenger, Content, Unheard
<1>9. DataTyped'
  BY <1>6 DEF DataTyped, Found
<1>10. OneAtATime'
  <2>1. \A p \in Proc : rq'.state[p] = "SEND_BLOCKED" => p = 3
    BY <1>5 DEF OneAtATime, SendStates
  <2>2. \A p \in Proc : rq'.state[p] \in {"SEND_BLOCKED", "MESSAGE_BLOCKED"} =>
          param_data'[p] = p
    BY <1>1, <1>5 DEF OneAtATime, SendStates
  <2>3. \A r \in {2, 3} : Handles(r)' =>
          \E m \in Proc : /\ Messenger(r)' = m /\ Content(r)' = m
                          /\ Asks(m, r)' \/ (r = 3 /\ m = 4)
    BY <1>7, <1>8 DEF OneAtATime
  <2>4. \A p \in Proc : Asks(p, 2)' => Handles(2)' /\ p = Messenger(2)'
    BY <1>7, <1>8 DEF OneAtATime
  <2>5. at'[3] \notin Asking
    BY <1>2 DEF Asking
  <2> QED  BY <2>1, <2>2, <2>3, <2>4, <2>5 DEF OneAtATime
<1>11. ServiceAsks'
  BY <1>1, <1>2 DEF ServiceAsks, Asking
<1>12. ProgramsHaveWindows'
  <2>1. \A p \in Proc : at'[p] = "program" <=> at[p] = "program"
    BY <1>2
  <2> QED  BY <1>5, <1>6, <1>7, <2>1 DEF ProgramsHaveWindows, SendStates
<1>13. KeysAreKept'
  BY <1>1, <1>2, <1>8 DEF KeysAreKept, WithKey
<1>14. RecordsAreFound'
  BY <1>2 DEF RecordsAreFound, WithClient
<1>15. RecordsAreRight'
  <2>1. \A w : ~BeingGiven(w)' /\ ~BeingGiven(w)
    BY <1>2 DEF BeingGiven
  <2>2. \A p : ~ServedNow(p)' /\ ~ServedNow(p)
    BY <1>2, <1>8 DEF ServedNow, WithClient
  <2>3. RecordsAreRight /\ UNCHANGED <<keyb_clients, keyb_msg>>
    OBVIOUS
  <2>4. \A p \in Proc : rq.state[p] = "REPLY_BLOCKED" => rq'.state[p] = "REPLY_BLOCKED"
    BY <1>5 DEF SendStates
  <2> QED  BY ONLY <2>1, <2>2, <2>3, <2>4 DEF RecordsAreRight, Reading, Blocks, Seen
<1>16. FocusIsKnown'
  BY <1>2, <1>6 DEF FocusIsKnown
<1>17. DataInv'
  BY <1>9, <1>10, <1>11, <1>12, <1>13, <1>14, <1>15, <1>16 DEF DataInv
<1> QED  BY <1>1, <1>3, <1>4, <1>17, Together DEF Steps

(* The notifier has told it of a key meanwhile. *)
LEMMA ServiceTakes ==
  ASSUME KeybInv, Runs(3, "keyb_receive"), receive(3), receive_pending(3),
         Jump(3, "keyb_received"), UNCHANGED <<ret, wm_port, keyb_port, dataVars>>
  PROVE  KeybInv'
<1> USE Processes DEF dataVars, localVars
<1>1. /\ Steps(3, "keyb_received") /\ pc[3] = "user" /\ active_proc = 3 /\ rq.state[3] = "READY"
      /\ rq.state[4] = "MESSAGE_BLOCKED" /\ rq'.state[4] = "READY"
      /\ \A q \in Proc : q # 4 => rq'.state[q] = rq.state[q]
      /\ received'[3][1] = 4 /\ received'[3][2] = param_data[4]
      /\ \A q \in Proc : q # 3 => received'[q] = received[q]
      /\ UNCHANGED <<active_proc, param_proc, param_data, interrupt_table, pc>>
  <2>1. "keyb_received" \in Places
    BY DEF Places
  <2>2. PICK h \in Proc :
          /\ h = 4 /\ rq.state[h] = "MESSAGE_BLOCKED" /\ rq'.state[h] = "READY"
          /\ \A q \in Proc : q # h => rq'.state[q] = rq.state[q]
          /\ received'[3][1] = h /\ received'[3][2] = param_data[h]
    BY <2>1, TakesStep DEF Runs
  <2> QED  BY <2>1, <2>2, TakesStep DEF Runs
<1>2. /\ at[3] = "keyb_receive" /\ at'[3] = "keyb_received"
      /\ \A q \in Proc : q # 3 => at'[q] = at[q]
  BY <1>1 DEF Runs, Steps
<1>3. at[4] = "keyb_notifier" /\ pc[4] = "user"
  BY <1>1, BlockedAre DEF SendStates
<1>4. FrameInv' /\ KeybNeverPanics'
  <2>1. ServiceMoves
    BY <1>1, <1>2 DEF ServiceMoves, Running
  <2>2. NotifierMoves
    BY <1>1, <1>2, <1>3 DEF NotifierMoves, Running
  <2>3. \A q \in Proc : q # 3 /\ q # 4 => Stays(q)
    BY <1>1, <1>2 DEF Stays
  <2>4. Moves
    BY <2>1, <2>2, <2>3, StaysMoves DEF Moves
  <2> QED  BY <1>1, <2>3, <2>4, Framed DEF Stays
<1> USE DEF KeybInv, Inv
<1>5. ServiceFirst'
  BY <1>1, <1>2, <1>3 DEF ServiceFirst, Services
<1>6. /\ \A p \in Proc : Reading(p)' <=> Reading(p)
      /\ \A p \in Proc : Blocks(p)' <=> Blocks(p)
      /\ \A w : Seen(w)' <=> Seen(w)
      /\ Ids' = Ids /\ Focus' = Focus
  BY DEF Reading, Blocks, Seen, Ids, Focus
<1>7. \A p \in Proc : \A r : Asks(p, r)' <=> Asks(p, r)
  BY <1>1, <1>6 DEF Asks, PortOf
<1>8. /\ ~Handles(3) /\ Handles(3)' /\ Messenger(3)' = 4 /\ Content(3)' = 4
      /\ Unheard' /\ ~Unheard
      /\ Handles(2)' <=> Handles(2)
      /\ Messenger(2)' = Messenger(2) /\ Content(2)' = Content(2)
  <2>1. param_data[4] = 4
    BY <1>1 DEF OneAtATime
  <2> QED  BY <1>1, <1>2, <2>1 DEF Handles, Messenger, Content, Unheard
<1>9. DataTyped'
  BY <1>6 DEF DataTyped, Found
<1>10. OneAtATime'
  <2>1. \A p \in Proc : rq'.state[p] = "SEND_BLOCKED" => p = 3
    <3>1. OneAtATime
      OBVIOUS
    <3> QED  BY ONLY <1>1, <3>1 DEF OneAtATime
  <2>2. \A p \in Proc : rq'.state[p] \in {"SEND_BLOCKED", "MESSAGE_BLOCKED"} =>
          param_data'[p] = p
    BY <1>1 DEF OneAtATime
  <2>3. \A r \in {2, 3} : Handles(r)' =>
          \E m \in Proc : /\ Messenger(r)' = m /\ Content(r)' = m
                          /\ Asks(m, r)' \/ (r = 3 /\ m = 4)
    BY <1>7, <1>8 DEF OneAtATime
  <2>4. \A p \in Proc : Asks(p, 2)' => Handles(2)' /\ p = Messenger(2)'
    BY <1>7, <1>8 DEF OneAtATime
  <2>5. at'[3] \notin Asking
    BY <1>2 DEF Asking
  <2> QED  BY <2>1, <2>2, <2>3, <2>4, <2>5 DEF OneAtATime
<1>11. ServiceAsks'
  BY <1>1, <1>2 DEF ServiceAsks, Asking
<1>12. ProgramsHaveWindows'
  <2>1. \A p \in Proc : at'[p] = "program" <=> at[p] = "program"
    BY <1>2
  <2> QED  BY <1>1, <1>6, <1>7, <2>1 DEF ProgramsHaveWindows
<1>13. KeysAreKept'
  BY <1>1, <1>2, <1>3, <1>8 DEF KeysAreKept, WithKey
<1>14. RecordsAreFound'
  BY <1>2 DEF RecordsAreFound, WithClient
<1>15. RecordsAreRight'
  <2>1. \A w : ~BeingGiven(w)' /\ ~BeingGiven(w)
    BY <1>2 DEF BeingGiven
  <2>2. \A p \in Proc : Reading(p) => ~ServedNow(p)' /\ ~ServedNow(p)
    <3>1. ~Reading(4)
      BY DEF ProgramsHaveWindows
    <3> QED  BY <1>2, <1>8, <3>1 DEF ServedNow, WithClient
  <2>3. RecordsAreRight /\ UNCHANGED <<keyb_clients, keyb_msg>>
    OBVIOUS
  <2>4. \A p \in Proc : rq.state[p] = "REPLY_BLOCKED" => rq'.state[p] = "REPLY_BLOCKED"
    BY <1>1
  <2> QED  BY ONLY <2>1, <2>2, <2>3, <2>4 DEF RecordsAreRight, Reading, Blocks, Seen
<1>16. FocusIsKnown'
  BY <1>2, <1>6 DEF FocusIsKnown
<1>17. DataInv'
  BY <1>9, <1>10, <1>11, <1>12, <1>13, <1>14, <1>15, <1>16 DEF DataInv
<1> QED  BY <1>1, <1>4, <1>5, <1>17, Together DEF Steps

LEMMA ServiceInv ==
  ASSUME KeybInv, NEW p \in Proc, KeybProcess(p)
  PROVE  KeybInv'
<1> USE Processes DEF localVars
<1>1. keyb_process(p) /\ keyb_port' = keyb_port
  BY DEF KeybProcess, keyb_process
<1>2. p = 3
  <2>1. \/ at[p] \in {"keyb_process", "keyb_receive", "keyb_received"}
        \/ at[p] \in WithKey \cup WithClient
    BY <1>1 DEF keyb_process, focus_answered, moved, key_record, key_given, client_record,
       Runs, WithKey, WithClient
  <2> QED  BY <2>1, WhereTheyAre DEF BootPlaces, WithKey, WithClient
<1>3. CASE /\ Runs(3, "keyb_process") /\ Create(3, "keyb_notifier", 7, "keyb_receive")
           /\ UNCHANGED <<wmVars, new_key, keyb_msg, keyb_clients, current_window, localVars>>
  <2>1. At(3, "user") /\ at[3] = "keyb_process"
    BY <1>3 DEF Runs
  <2>2. next_free_pcb = 4 /\ next_free_pcb # NULL
    BY <2>1, CreatesWhom
  <2>3. Creates(3, next_free_pcb, "keyb_notifier", 7, "keyb_receive")
    BY <2>1, <2>2 DEF Creates
  <2>4. /\ "keyb_notifier" \in Places /\ "keyb_receive" \in Places /\ 7 \in {5, 6, 7}
        /\ UNCHANGED <<wm_port, keyb_port, dataVars>>
    BY <1>1, <1>3 DEF Places, wmVars, dataVars
  <2> QED  BY <1>3, <2>2, <2>3, <2>4, CreateInv
<1>4. CASE /\ Runs(3, "keyb_receive") /\ Receives(3, "keyb_received")
           /\ UNCHANGED <<wmVars, new_key, keyb_msg, keyb_clients, current_window, localVars>>
  <2>1. /\ receive(3) /\ Jump(3, "keyb_received")
        /\ UNCHANGED <<ret, wm_port, keyb_port, dataVars>>
    BY <1>1, <1>4 DEF Receives, wmVars, dataVars
  <2>2. Exists(3)
    BY <1>4 DEF Runs, At, Exists
  <2>3. ports[3] # <<>>
    BY <2>2, OwnsPort
  <2>4. CASE receive_block(3)
    BY <1>4, <2>1, <2>3, <2>4, ServiceWaits
  <2>5. CASE receive_pending(3)
    BY <1>4, <2>1, <2>5, ServiceTakes
  <2> QED  BY <2>1, <2>3, <2>4, <2>5 DEF receive
<1>5. CASE Runs(3, "keyb_received") /\ FromNotifier(3) /\ key_received(3) /\ UNCHANGED keyb_msg
  BY <1>1, <1>5, KeyReceivedInv
<1>6. CASE (focus_answered(3) \/ moved(3)) /\ UNCHANGED <<new_key, keyb_msg>>
  BY <1>1, <1>6, FocusAnsweredInv
<1>7. CASE /\ Runs(3, "keyb_received") /\ ~FromNotifier(3)
           /\ get_client_record(3, keyb_msg[Message(3)].window_id,
                                <<"client_record", "client_new_record">>)
           /\ UNCHANGED <<keyb_clients, current_window, keyb_key, new_key, keyb_msg>>
  BY <1>1, <1>7, ClientAsksInv
<1>8. CASE /\ \/ Runs(3, "key_new_record") /\ new_client_record(3, "key_record")
              \/ Runs(3, "client_new_record") /\ new_client_record(3, "client_record")
           /\ UNCHANGED <<new_key, keyb_msg>>
  BY <1>1, <1>8, NewRecordInv
<1>9. CASE key_record(3) /\ UNCHANGED new_key
  <2>1. UNCHANGED <<wmVars, current_window>>
    BY <1>9 DEF key_record
  <2>2. CASE /\ Runs(3, "key_record") /\ keyb_clients[keyb_window].is_waiting
             /\ keyb_msg' = [keyb_msg EXCEPT ![keyb_clients[keyb_window].client] =
                               Answered(keyb_key)]
             /\ Replies(3, keyb_clients[keyb_window].client, "key_given")
             /\ UNCHANGED <<keyb_clients, localVars>>
    BY <1>1, <1>9, <2>1, <2>2, KeyIsGivenInv
  <2>3. CASE key_given(3) /\ UNCHANGED keyb_msg
    BY <1>1, <1>9, <2>1, <2>3, KeyIsDoneInv DEF key_given
  <2>4. CASE /\ Runs(3, "key_record") /\ ~keyb_clients[keyb_window].is_waiting
             /\ keyb_clients' = [keyb_clients EXCEPT ![keyb_window].buffer =
                                   enqueue_key(@, keyb_key)]
             /\ NextMessage(3) /\ UNCHANGED keyb_msg
    BY <1>1, <1>9, <2>1, <2>4, KeyIsDoneInv
  <2> QED  BY <1>9, <2>2, <2>3, <2>4 DEF key_record
<1>10. CASE client_record(3) /\ UNCHANGED new_key
  BY <1>1, <1>10, ClientRecordInv
<1> QED  BY <1>1, <1>2, <1>3, <1>4, <1>5, <1>6, <1>7, <1>8, <1>9, <1>10 DEF keyb_process

-----------------------------------------------------------------------------
(* The programs *)

(* A program sends its request to a service, which waits for one: every    *)
(* service has been through its loop before a program runs.                *)
LEMMA ProgramSends ==
  ASSUME KeybInv, NEW p \in Proc, At(p, "user"), at[p] \in {"start", "program"},
         NEW d \in {2, 3}, NEW po \in {1, 2}, po = d - 1,
         send(p, po, p), PortOf(p)' = po,
         \A q \in Proc : q # p => PortOf(q)' = PortOf(q),
         Jump(p, "program"), UNCHANGED <<received, ret, wm_port, keyb_port, windows>>
  PROVE  /\ Steps(p, "program") /\ FrameInv' /\ KeybNeverPanics' /\ ServiceFirst'
         /\ rq'.state[d] = "READY" /\ rq'.state[p] = "REPLY_BLOCKED"
         /\ \A q \in Proc : q # d /\ q # p => /\ rq'.state[q] = rq.state[q]
                                              /\ param_data'[q] = param_data[q]
         /\ param_proc'[d] = p /\ param_data'[d] = p /\ param_data'[p] = p
         /\ UNCHANGED <<pc, received>>
<1> USE Processes
<1>1. /\ p > 4 /\ pc[p] = "user" /\ Exists(2) /\ Exists(3) /\ ~Early /\ at[p] # "none"
      /\ pc[2] = "receive" /\ rq.state[2] = "RECEIVE_BLOCKED" /\ at[2] = "wm_handle"
      /\ pc[3] = "receive" /\ rq.state[3] = "RECEIVE_BLOCKED" /\ at[3] = "keyb_received"
  BY ProgramRuns
<1>2. /\ Steps(p, "program") /\ K!HighestStep
      /\ active_proc' = dispatcher(rq', active_proc)
      /\ rq'.state[d] = "READY" /\ rq'.state[p] = "REPLY_BLOCKED"
      /\ \A q \in Proc : q # d /\ q # p => /\ rq'.state[q] = rq.state[q]
                                           /\ param_data'[q] = param_data[q]
      /\ param_proc'[d] = p /\ param_data'[d] = p /\ param_data'[p] = p
      /\ UNCHANGED <<interrupt_table, pc, received>>
  <2>1. "program" \in Places
    BY DEF Places
  <2>2. Exists(d) /\ rq.state[d] = "RECEIVE_BLOCKED" /\ p # d /\ (p = 3 \/ p > 4)
    BY <1>1
  <2>3. /\ KeybInv /\ At(p, "user") /\ send(p, po, p) /\ PortOf(p)' = po
        /\ \A q \in Proc : q # p => PortOf(q)' = PortOf(q)
        /\ Jump(p, "program") /\ UNCHANGED <<received, ret, wm_port, keyb_port>>
        /\ p \in Proc /\ d \in {2, 3} /\ po \in {1, 2} /\ po = d - 1
    OBVIOUS
  <2> QED  BY ONLY <2>1, <2>2, <2>3, SendDelivers
<1>3. /\ at'[p] = "program" /\ \A q \in Proc : q # p => at'[q] = at[q]
  BY <1>2 DEF Steps
<1>4. \A q \in Proc : q # p /\ q # d => Stays(q)
  BY <1>2, <1>3 DEF Stays
<1>5. FrameInv' /\ KeybNeverPanics'
  <2>1. ManagerMoves
    <3>1. CASE d = 2
      BY <1>1, <1>2, <1>3, <3>1 DEF ManagerMoves, Running
    <3>2. CASE d # 2
      BY <1>1, <1>4, <3>2, StaysMoves
    <3> QED  BY <3>1, <3>2
  <2>2. ServiceMoves
    <3>1. CASE d = 3
      BY <1>1, <1>2, <1>3, <3>1 DEF ServiceMoves, Running
    <3>2. CASE d # 3
      BY <1>1, <1>4, <3>2, StaysMoves
    <3> QED  BY <3>1, <3>2
  <2>3. NotifierMoves
    BY <1>1, <1>4, StaysMoves
  <2>4. ProgramMoves
    BY <1>1, <1>2, <1>3, <1>4 DEF ProgramMoves
  <2>5. Moves
    BY <2>1, <2>2, <2>3, <2>4 DEF Moves
  <2>6. /\ p # 0 /\ p # 1
        /\ pc'[0] = pc[0] /\ rq'.state[0] = rq.state[0]
        /\ pc'[1] = pc[1] /\ rq'.state[1] = rq.state[1]
    BY <1>1, <1>2
  <2>7. /\ windows' # <<>> => windows # <<>> \/ ~Early
        /\ \A irq \in Irq : interrupt_table'[irq] # NULL =>
             irq = KEYB_IRQ \/ interrupt_table[irq] # NULL
    BY <1>2
  <2> QED  BY <1>2, <2>5, <2>6, <2>7, Framed
<1>6. ServiceFirst'
  BY <1>2, <1>5, DispatchServesFirst DEF Steps, FrameInv
<1> QED  BY <1>2, <1>5, <1>6

(* A call of the window manager, to make a window or to print. *)
LEMMA ProgramCallsInv ==
  ASSUME KeybInv, NEW p \in Proc, At(p, "user"), NEW action, NEW id,
         \/ at[p] = "start" /\ action = "create" /\ id = NoWindow
         \/ at[p] = "program" /\ action = "update" /\ id = wm_msg[p].window_id,
         wm_call(p, action, id, "program"), UNCHANGED keybVars
  PROVE  KeybInv'
<1> USE Processes
<1>1. /\ p > 4 /\ wm_port = 1 /\ pc[p] = "user" /\ ~Early
      /\ pc[2] = "receive" /\ rq.state[2] = "RECEIVE_BLOCKED" /\ at[2] = "wm_handle"
      /\ pc[3] = "receive" /\ rq.state[3] = "RECEIVE_BLOCKED" /\ at[3] = "keyb_received"
      /\ rq.state[4] \notin {"READY", "MESSAGE_BLOCKED"}
      /\ rq.state[p] = "READY" /\ ~Reading(p)
      /\ \A q \in Proc : ~Asks(q, 2)
  BY ProgramRuns
<1>2. /\ wm_msg' = [wm_msg EXCEPT ![p] = [action |-> action, window_id |-> id]]
      /\ send(p, 1, p) /\ Jump(p, "program")
      /\ UNCHANGED <<received, ret, wm_port, keyb_port, windows, keyb_msg, keyb_clients,
                     new_key, keyb_key, current_window, keyb_window>>
  BY <1>1 DEF wm_call, Sends, keybVars, localVars
<1>3. /\ \A q \in Proc : Reading(q)' <=> Reading(q)
      /\ \A q \in Proc : Blocks(q)' <=> Blocks(q)
      /\ \A w : Seen(w)' <=> Seen(w)
      /\ \A q \in Proc : PortOf(q)' = PortOf(q)
      /\ Ids' = Ids /\ Focus' = Focus /\ PortOf(p) = 1
  BY <1>1, <1>2 DEF Reading, Blocks, Seen, PortOf, Ids, Focus
<1>4. /\ Steps(p, "program") /\ FrameInv' /\ KeybNeverPanics' /\ ServiceFirst'
      /\ rq'.state[2] = "READY" /\ rq'.state[p] = "REPLY_BLOCKED"
      /\ \A q \in Proc : q # 2 /\ q # p => /\ rq'.state[q] = rq.state[q]
                                           /\ param_data'[q] = param_data[q]
      /\ param_proc'[2] = p /\ param_data'[2] = p /\ param_data'[p] = p
      /\ UNCHANGED <<pc, received>>
  <2>1. /\ at[p] \in {"start", "program"}
        /\ 2 \in {2, 3} /\ 1 \in {1, 2} /\ 1 = 2 - 1 /\ PortOf(p)' = 1
    BY <1>3
  <2> QED  BY <1>2, <1>3, <2>1, ProgramSends
<1>5. /\ at'[p] = "program" /\ \A q \in Proc : q # p => at'[q] = at[q]
  BY <1>4 DEF Steps
<1> USE DEF KeybInv, Inv
<1>6. /\ \A q \in Proc : Asks(q, 2)' <=> q = p
      /\ \A q \in Proc : Asks(q, 3)' <=> Asks(q, 3)
  BY <1>1, <1>3, <1>4 DEF Asks
<1>7. /\ Handles(2)' /\ Messenger(2)' = p /\ Content(2)' = p
      /\ ~Handles(3) /\ ~Handles(3)' /\ ~Unheard'
      /\ at'[3] = "keyb_received"
  BY <1>1, <1>4, <1>5 DEF Handles, Messenger, Content, Unheard
<1>8. /\ id \in Ids \cup {NoWindow} /\ action \in {"create", "update"}
      /\ action = "update" => id \in Ids
      /\ action = "create" => id = NoWindow
      /\ id = wm_msg[p].window_id
  BY <1>1 DEF ProgramsHaveWindows
<1>9. /\ wm_msg'[p].action = action /\ wm_msg'[p].window_id = id
      /\ \A q \in Proc : q # p => wm_msg'[q] = wm_msg[q]
  BY <1>2 DEF DataTyped
<1>10. DataTyped'
  <2>1. wm_msg' \in [Proc -> [action : {NULL, "create", "change_focus", "current_focus",
                                        "update"},
                              window_id : Ids' \cup {NoWindow}]]
    BY <1>2, <1>3, <1>8 DEF DataTyped
  <2>2. DataTyped
    OBVIOUS
  <2>3. \A w : Found(w)' <=> Found(w)
    BY ONLY <1>2 DEF Found
  <2> QED  BY ONLY <1>2, <1>3, <2>1, <2>2, <2>3 DEF DataTyped
<1>11. OneAtATime'
  <2>1. \A q \in Proc : rq'.state[q] = "SEND_BLOCKED" => q = 3
    BY <1>4 DEF OneAtATime
  <2>2. \A q \in Proc : rq'.state[q] \in {"SEND_BLOCKED", "MESSAGE_BLOCKED"} =>
          param_data'[q] = q
    BY <1>4 DEF OneAtATime
  <2>3. at'[3] \notin Asking
    BY <1>7 DEF Asking
  <2> QED  BY ONLY Processes, <1>6, <1>7, <2>1, <2>2, <2>3 DEF OneAtATime
<1>12. ServiceAsks'
  <2>1. rq'.state[3] = "RECEIVE_BLOCKED"
    BY <1>1, <1>4
  <2> QED  BY <1>7, <2>1 DEF ServiceAsks, Asking
<1>13. ProgramsHaveWindows'
  <2>1. ProgramsHaveWindows /\ keyb_msg' = keyb_msg
    BY <1>2
  <2>2. \A q \in Proc : at'[q] = "program" =>
         \/ /\ Asks(q, 2)'
            /\ wm_msg'[q].action = "create" /\ wm_msg'[q].window_id = NoWindow
         \/ /\ wm_msg'[q].window_id \in Ids'
            /\ Asks(q, 2)' => wm_msg'[q].action = "update"
    <3>1. \A q \in Proc : q # p /\ at[q] = "program" => wm_msg[q].window_id \in Ids
      BY <1>1 DEF ProgramsHaveWindows
    <3> QED  BY ONLY <1>3, <1>5, <1>6, <1>8, <1>9, <3>1
  <2>3. /\ \A q \in Proc : q > 4 /\ at'[q] # "program" => wm_msg'[q].window_id = NoWindow
        /\ \A q \in Proc : wm_msg'[q].window_id = wm_msg[q].window_id
    BY ONLY Processes, <1>5, <1>8, <1>9, <2>1 DEF ProgramsHaveWindows
  <2>4. \A q, r \in Proc :
          q > 4 /\ r > 4 /\ wm_msg'[q].window_id = wm_msg'[r].window_id =>
            q = r \/ wm_msg'[q].window_id = NoWindow
    BY ONLY Processes, <2>1, <2>3 DEF ProgramsHaveWindows
  <2>5. \A q \in Proc : Reading(q)' =>
          /\ q > 4 /\ at'[q] = "program" /\ rq'.state[q] = "REPLY_BLOCKED"
          /\ keyb_msg'[q].window_id = wm_msg'[q].window_id
    <3>1. \A q \in Proc : Reading(q) => q # p /\ rq'.state[q] = rq.state[q]
      BY <1>1, <1>4 DEF ProgramsHaveWindows
    <3> QED  BY ONLY Processes, <1>3, <1>5, <2>1, <2>3, <3>1 DEF ProgramsHaveWindows
  <2> QED  BY ONLY <2>2, <2>3, <2>4, <2>5 DEF ProgramsHaveWindows
<1>14. KeysAreKept'
  <2>1. rq'.state[4] \notin {"READY", "MESSAGE_BLOCKED"} /\ at'[3] \notin WithKey
    BY <1>1, <1>4, <1>7 DEF WithKey
  <2> QED  BY <1>7, <2>1 DEF KeysAreKept
<1>15. RecordsAreFound'
  BY <1>7 DEF RecordsAreFound, WithClient
<1>16. RecordsAreRight'
  <2>1. \A w : ~BeingGiven(w)' /\ ~BeingGiven(w)
    BY <1>1, <1>7 DEF BeingGiven
  <2>2. \A q : ~ServedNow(q)' /\ ~ServedNow(q)
    <3>1. at[3] \notin WithClient /\ at'[3] \notin WithClient
      BY <1>1, <1>7 DEF WithClient
    <3> QED  BY ONLY <1>7, <3>1 DEF ServedNow
  <2>3. \A q \in Proc : rq.state[q] = "REPLY_BLOCKED" => rq'.state[q] = "REPLY_BLOCKED"
    BY <1>1, <1>4
  <2>4. RecordsAreRight /\ UNCHANGED <<keyb_clients, keyb_msg>>
    BY <1>2
  <2> QED  BY ONLY <2>1, <2>2, <2>3, <2>4 DEF RecordsAreRight, Reading, Blocks, Seen
<1>17. FocusIsKnown'
  BY <1>1, <1>2, <1>3, <1>7 DEF FocusIsKnown
<1>18. DataInv'
  BY <1>10, <1>11, <1>12, <1>13, <1>14, <1>15, <1>16, <1>17 DEF DataInv
<1> QED  BY <1>4, <1>18, Together DEF Steps

(* A read: the keyboard process has the program's Keyb_Message, and its    *)
(* reply is what the program waits for.                                    *)
LEMMA ProgramReadsInv ==
  ASSUME KeybInv, NEW p \in Proc, Runs(p, "program"), NEW block \in BOOLEAN,
         keyb_get_keystroke(p, wm_msg[p].window_id, block, "program")
  PROVE  KeybInv'
<1> USE Processes
<1>1. /\ At(p, "user") /\ at[p] = "program"
      /\ p > 4 /\ keyb_port = 2 /\ pc[p] = "user" /\ ~Early
      /\ pc[2] = "receive" /\ rq.state[2] = "RECEIVE_BLOCKED" /\ at[2] = "wm_handle"
      /\ pc[3] = "receive" /\ rq.state[3] = "RECEIVE_BLOCKED" /\ at[3] = "keyb_received"
      /\ rq.state[4] \notin {"READY", "MESSAGE_BLOCKED"}
      /\ rq.state[p] = "READY" /\ ~Reading(p)
      /\ \A q \in Proc : ~Asks(q, 2)
  <2>1. At(p, "user") /\ at[p] \in {"start", "program"} /\ at[p] = "program"
    BY DEF Runs
  <2> QED  BY <2>1, ProgramRuns
<1>2. /\ keyb_msg' = [keyb_msg EXCEPT ![p] = [window_id |-> wm_msg[p].window_id,
                                              block |-> block, key |-> NoKey]]
      /\ send(p, 2, p) /\ Jump(p, "program")
      /\ UNCHANGED <<received, ret, wm_port, keyb_port, windows, wm_msg, keyb_clients,
                     new_key, keyb_key, current_window, keyb_window>>
  BY <1>1 DEF keyb_get_keystroke, Sends, wmVars, localVars
<1>3. /\ wm_msg[p].window_id \in Ids /\ NoWindow \notin Ids /\ NoKey \in Chars \cup {NoKey}
      /\ keyb_msg'[p].window_id = wm_msg[p].window_id
      /\ \A q \in Proc : q # p => keyb_msg'[q] = keyb_msg[q]
  <2>1. wm_msg[p].window_id \in Ids
    BY <1>1 DEF KeybInv, Inv, ProgramsHaveWindows
  <2>2. NoWindow \notin Ids
    BY DEF NoWindow, Ids
  <2> QED  BY <1>2, <2>1, <2>2 DEF KeybInv, Inv, DataTyped
<1>4. /\ Reading(p)' /\ PortOf(p)' = 2
      /\ \A q \in Proc : q # p => (Reading(q)' <=> Reading(q))
      /\ \A q \in Proc : q # p => (Blocks(q)' <=> Blocks(q))
      /\ \A q \in Proc : q # p => PortOf(q)' = PortOf(q)
      /\ \A w : Seen(w)' <=> Seen(w)
      /\ Ids' = Ids /\ Focus' = Focus
  BY <1>2, <1>3 DEF Reading, Blocks, Seen, PortOf, Ids, Focus
<1>5. /\ Steps(p, "program") /\ FrameInv' /\ KeybNeverPanics' /\ ServiceFirst'
      /\ rq'.state[3] = "READY" /\ rq'.state[p] = "REPLY_BLOCKED"
      /\ \A q \in Proc : q # 3 /\ q # p => /\ rq'.state[q] = rq.state[q]
                                           /\ param_data'[q] = param_data[q]
      /\ param_proc'[3] = p /\ param_data'[3] = p /\ param_data'[p] = p
      /\ UNCHANGED <<pc, received>>
  <2>1. /\ at[p] \in {"start", "program"}
        /\ 3 \in {2, 3} /\ 2 \in {1, 2} /\ 2 = 3 - 1
    BY <1>1
  <2> QED  BY <1>1, <1>2, <1>4, <2>1, ProgramSends
<1>6. /\ at'[p] = "program" /\ \A q \in Proc : q # p => at'[q] = at[q]
      /\ \A q \in Proc : at'[q] = at[q]
  BY <1>1, <1>5 DEF Steps
<1> USE DEF KeybInv, Inv
<1>7. /\ \A q \in Proc : ~Asks(q, 2)'
      /\ \A q \in Proc : q # p => (Asks(q, 3)' <=> Asks(q, 3))
      /\ Asks(p, 3)'
  BY <1>1, <1>4, <1>5 DEF Asks
<1>8. /\ Handles(3)' /\ Messenger(3)' = p /\ Content(3)' = p
      /\ ~Handles(2)' /\ ~Handles(3) /\ ~Unheard'
      /\ at'[3] = "keyb_received"
  <2>1. rq'.state[2] = rq.state[2]
    BY <1>1, <1>5
  <2> QED  BY <1>1, <1>5, <1>6, <2>1 DEF Handles, Messenger, Content, Unheard
<1>9. DataTyped'
  <2>1. keyb_msg' \in [Proc -> [window_id : Ids' \cup {NoWindow}, block : BOOLEAN,
                                key : Chars \cup {NoKey}]]
    BY <1>2, <1>3, <1>4 DEF DataTyped
  <2>2. DataTyped
    OBVIOUS
  <2> QED  BY <1>2, <1>4, <2>1, <2>2 DEF DataTyped, Found
<1>10. OneAtATime'
  <2>1. \A q \in Proc : rq'.state[q] = "SEND_BLOCKED" => q = 3
    BY <1>5 DEF OneAtATime
  <2>2. \A q \in Proc : rq'.state[q] \in {"SEND_BLOCKED", "MESSAGE_BLOCKED"} =>
          param_data'[q] = q
    BY <1>5 DEF OneAtATime
  <2> QED  BY ONLY Processes, <1>7, <1>8, <2>1, <2>2 DEF OneAtATime
<1>11. ServiceAsks'
  BY <1>5, <1>8 DEF ServiceAsks, Asking
<1>12. ProgramsHaveWindows'
  <2>1. ProgramsHaveWindows /\ wm_msg' = wm_msg
    BY <1>2
  <2>2. \A q \in Proc : at'[q] = "program" =>
         \/ /\ Asks(q, 2)'
            /\ wm_msg'[q].action = "create" /\ wm_msg'[q].window_id = NoWindow
         \/ /\ wm_msg'[q].window_id \in Ids'
            /\ Asks(q, 2)' => wm_msg'[q].action = "update"
    <3>1. \A q \in Proc : at[q] = "program" => wm_msg[q].window_id \in Ids
      BY <1>1 DEF ProgramsHaveWindows
    <3> QED  BY ONLY <1>4, <1>6, <1>7, <2>1, <3>1
  <2>3. /\ \A q \in Proc : q > 4 /\ at'[q] # "program" => wm_msg'[q].window_id = NoWindow
        /\ \A q, r \in Proc :
             q > 4 /\ r > 4 /\ wm_msg'[q].window_id = wm_msg'[r].window_id =>
               q = r \/ wm_msg'[q].window_id = NoWindow
    BY ONLY Processes, <1>6, <2>1 DEF ProgramsHaveWindows
  <2>4. \A q \in Proc : Reading(q)' =>
          /\ q > 4 /\ at'[q] = "program" /\ rq'.state[q] = "REPLY_BLOCKED"
          /\ keyb_msg'[q].window_id = wm_msg'[q].window_id
    <3>1. \A q \in Proc : q # p /\ Reading(q) =>
            rq'.state[q] = rq.state[q] /\ keyb_msg'[q] = keyb_msg[q]
      BY <1>1, <1>3, <1>5 DEF ProgramsHaveWindows
    <3> QED  BY ONLY Processes, <1>1, <1>3, <1>4, <1>5, <1>6, <2>1, <3>1
                DEF ProgramsHaveWindows
  <2> QED  BY ONLY <2>2, <2>3, <2>4 DEF ProgramsHaveWindows
<1>13. KeysAreKept'
  <2>1. rq'.state[4] \notin {"READY", "MESSAGE_BLOCKED"} /\ at'[3] \notin WithKey
    BY <1>1, <1>5, <1>8 DEF WithKey
  <2> QED  BY <1>8, <2>1 DEF KeysAreKept
<1>14. RecordsAreFound'
  BY <1>8 DEF RecordsAreFound, WithClient
<1>15. RecordsAreRight'
  <2>1. \A w : ~BeingGiven(w)' /\ ~BeingGiven(w)
    BY <1>1, <1>8 DEF BeingGiven
  <2>2. \A q : ~ServedNow(q) /\ (ServedNow(q)' <=> q = p)
    <3>1. at[3] \notin WithClient
      BY <1>1 DEF WithClient
    <3> QED  BY ONLY <1>8, <3>1 DEF ServedNow
  <2>3. \A q \in Proc : rq.state[q] = "REPLY_BLOCKED" =>
          rq'.state[q] = "REPLY_BLOCKED" /\ keyb_msg'[q] = keyb_msg[q]
    BY <1>1, <1>3, <1>5
  <2>4. \A q \in Proc : q # p => (Reading(q)' <=> Reading(q)) /\ keyb_msg'[q] = keyb_msg[q]
    BY <1>3, <1>4
  <2>5. RecordsAreRight /\ UNCHANGED keyb_clients
    BY <1>2
  <2> HIDE DEF KeybInv, Inv
  <2>6. \A w \in DOMAIN keyb_clients' :
          LET c == keyb_clients'[w].client IN
          keyb_clients'[w].is_waiting =>
            /\ c \in Proc /\ rq'.state[c] = "REPLY_BLOCKED" /\ keyb_msg'[c].window_id = w
            /\ keyb_msg'[c].block /\ keyb_clients'[w].buffer = <<>>
    BY ONLY <2>1, <2>3, <2>5 DEF RecordsAreRight, Blocks
  <2>7. \A q \in Proc : Reading(q)' /\ ~ServedNow(q)' =>
          LET w == keyb_msg'[q].window_id IN
          /\ w \in DOMAIN keyb_clients'
          /\ keyb_clients'[w].is_waiting /\ keyb_clients'[w].client = q
    BY ONLY <2>1, <2>2, <2>4, <2>5 DEF RecordsAreRight, Seen
  <2>8. at'[3] # "key_given"
    BY <1>8
  <2> QED  BY ONLY <2>6, <2>7, <2>8 DEF RecordsAreRight, Blocks, Seen, BeingGiven
<1>16. FocusIsKnown'
  BY <1>1, <1>2, <1>4, <1>8 DEF FocusIsKnown
<1>17. DataInv'
  BY <1>9, <1>10, <1>11, <1>12, <1>13, <1>14, <1>15, <1>16 DEF DataInv
<1> QED  BY <1>5, <1>17, Together DEF Steps

LEMMA ProgramInv ==
  ASSUME KeybInv, NEW p \in Proc, Program(p)
  PROVE  KeybInv'
<1>1. CASE MakeWindow(p)
  <2>1. /\ At(p, "user") /\ at[p] = "start" /\ wm_call(p, "create", NoWindow, "program")
        /\ UNCHANGED keybVars
    BY <1>1 DEF MakeWindow, Runs
  <2> QED  BY <2>1, ProgramCallsInv
<1>2. CASE Update(p)
  <2>1. /\ At(p, "user") /\ at[p] = "program"
        /\ wm_call(p, "update", wm_msg[p].window_id, "program") /\ UNCHANGED keybVars
    BY <1>2 DEF Update, Runs
  <2> QED  BY <2>1, ProgramCallsInv
<1>3. CASE Start(p)
  <2>1. /\ At(p, "user") /\ at[p] = "program" /\ next_free_pcb # NULL
        /\ Create(p, "start", 5, "program")
        /\ UNCHANGED <<wm_port, keyb_port, dataVars>>
    BY <1>3 DEF Start, Runs, wmVars, keybVars, dataVars
  <2>2. Creates(p, next_free_pcb, "start", 5, "program")
    BY <2>1, CreatesWhom DEF Creates
  <2>3. "start" \in Places /\ "program" \in Places /\ 5 \in {5, 6, 7}
    BY DEF Places
  <2> QED  BY <2>1, <2>2, <2>3, CreateInv
<1>4. CASE \E call \in {"wait", "poll"} : Read(p, call)
  <2>1. PICK call \in {"wait", "poll"} : Read(p, call)
    BY <1>4
  <2>2. /\ Runs(p, "program") /\ (call = "wait") \in BOOLEAN
        /\ keyb_get_keystroke(p, wm_msg[p].window_id, call = "wait", "program")
    BY <2>1 DEF Read
  <2> QED  BY <2>2, ProgramReadsInv
<1> QED  BY <1>1, <1>2, <1>3, <1>4 DEF Program

-----------------------------------------------------------------------------
(* The start, the returns of calls, and the loops *)

LEMMA BootProgramInv ==
  ASSUME KeybInv, NEW p \in Proc, BootProgram(p)
  PROVE  KeybInv'
<1> USE DEF wmVars, keybVars, dataVars, localVars
<1>1. CASE Runs(p, "init_wm") /\ Create(p, "wm", 6, "assign_wm_port")
           /\ UNCHANGED <<wm_port, keyb_port, dataVars>>
  <2>1. p = 0 /\ at[0] = "init_wm" /\ next_free_pcb = 2 /\ next_free_pcb # NULL
    BY <1>1, CreatesWhom, KernelConstants DEF Runs
  <2>2. Creates(p, next_free_pcb, "wm", 6, "assign_wm_port")
    BY <2>1 DEF Creates
  <2>3. "wm" \in Places /\ "assign_wm_port" \in Places /\ 6 \in {5, 6, 7}
    BY DEF Places
  <2> QED  BY <1>1, <2>1, <2>2, <2>3, CreateInv
<1>2. CASE Runs(p, "init_keyb") /\ Create(p, "keyb_process", 6, "assign_keyb_port")
           /\ UNCHANGED <<wm_port, keyb_port, dataVars>>
  <2>1. p = 0 /\ at[0] = "init_keyb" /\ next_free_pcb = 3 /\ next_free_pcb # NULL
    BY <1>2, CreatesWhom, KernelConstants DEF Runs
  <2>2. Creates(p, next_free_pcb, "keyb_process", 6, "assign_keyb_port")
    BY <2>1 DEF Creates
  <2>3. "keyb_process" \in Places /\ "assign_keyb_port" \in Places /\ 6 \in {5, 6, 7}
    BY DEF Places
  <2> QED  BY <1>2, <2>1, <2>2, <2>3, CreateInv
<1>3. CASE Runs(p, "start_shell") /\ Create(p, "start", 5, "become_zombie")
           /\ UNCHANGED <<wm_port, keyb_port, dataVars>>
  <2>1. /\ p = 0 /\ at[0] = "start_shell" /\ next_free_pcb > 4 /\ next_free_pcb # NULL
        /\ Exists(4)
    BY <1>3, CreatesWhom, KernelConstants DEF Runs
  <2>2. Creates(p, next_free_pcb, "start", 5, "become_zombie")
    BY <2>1 DEF Creates
  <2>3. "start" \in Places /\ "become_zombie" \in Places /\ 5 \in {5, 6, 7}
    BY DEF Places
  <2> QED  BY <1>3, <2>1, <2>2, <2>3, CreateInv
<1>4. CASE \/ Runs(p, "assign_wm_port") /\ wm_port' = Returned(p)
              /\ Jump(p, "init_keyb") /\ keyb_port' = keyb_port
              /\ Forget(p) /\ UNCHANGED <<vars, received, dataVars>>
           \/ Runs(p, "assign_keyb_port") /\ keyb_port' = Returned(p)
              /\ Jump(p, "resign_keyb") /\ wm_port' = wm_port
              /\ Forget(p) /\ UNCHANGED <<vars, received, dataVars>>
  BY <1>4, AssignInv DEF Runs
<1>5. CASE Runs(p, "resign_keyb") /\ Resigns(p, "start_shell")
           /\ UNCHANGED <<wm_port, keyb_port, dataVars>>
  BY <1>5, ResignKeybInv
<1>6. CASE Runs(p, "become_zombie") /\ Dies(p) /\ UNCHANGED <<wm_port, keyb_port, dataVars>>
  BY <1>6, DiesInv
<1> QED  BY <1>1, <1>2, <1>3, <1>4, <1>5, <1>6 DEF BootProgram, init_wm, init_keyb

LEMMA ReturnInv ==
  ASSUME KeybInv, NEW p \in Proc, Return(p)
  PROVE  KeybInv'
<1>1. UNCHANGED <<at, wm_port, keyb_port, dataVars>>
  BY DEF Return, Continue, wmVars, keybVars, dataVars
<1>2. CASE create_process_port(p) /\ UNCHANGED <<received, ret>>
  BY <1>1, <1>2, CreateProcessPortInv
<1>3. CASE /\ create_process_ready(p) /\ received' = received
           /\ ret' = [ret EXCEPT ![p] = Head(ports[new_proc[p]])]
  BY <1>1, <1>3, CreateProcessReadyInv
<1>4. CASE zombie_remove(p) /\ UNCHANGED <<received, ret>>
  BY <1>1, <1>4, ZombieRemoveInv
<1>5. CASE zombie_resign(p) /\ UNCHANGED <<received, ret>>
  BY <1>1, <1>5, ZombieResignInv
<1>6. CASE receive_return(p) /\ ret' = ret
  BY <1>1, <1>6, ReceiveReturnInv
<1>7. CASE wait_for_interrupt_return(p) /\ UNCHANGED <<received, ret>>
  BY <1>1, <1>7, WaitReturnInv
<1> QED  BY <1>2, <1>3, <1>4, <1>5, <1>6, <1>7 DEF Return, Continue

LEMMA LoopInv ==
  ASSUME KeybInv, Loop
  PROVE  KeybInv'
<1>1. UNCHANGED keybSystemVars
  BY DEF Loop, Loops, null_process, halted, zombie_loop, keybSystemVars
<1> QED  BY <1>1, StutterInv

LEMMA InitInv ==
  ASSUME KInit
  PROVE  KeybInv
<1> USE Processes
<1>1. K!IInv
  <2>1. Init
    BY DEF KInit, ProgramsInit
  <2>2. K!Init
    BY <2>1, SameSets DEF Init, K!Init
  <2>3. SentTo = [p \in Proc |-> NULL]
    BY <2>1 DEF Init, SentTo
  <2>4. ToReply = [p \in Proc |-> {}]
    BY <2>1 DEF Init, ToReply, Asks
  <2>5. K!GInit
    BY <2>2, <2>3, <2>4, SameSets DEF K!GInit
  <2> QED  BY <2>5, KernelConstants, SizesAssumption, NullAssumption, PortsAssumption, K!InitInv
<1>2. /\ at = [p \in Proc |-> CASE p = 0 -> "init_wm"
                                [] p = 1 -> "loop"
                                [] OTHER -> "none"]
      /\ ret = [p \in Proc |-> NULL]
      /\ wm_port = NULL /\ windows = <<>>
      /\ wm_msg = [p \in Proc |-> Handled(NoWindow)]
      /\ keyb_port = NULL /\ new_key = NoKey /\ keyb_key = NoKey
      /\ keyb_msg = [p \in Proc |-> Answered(NoKey)]
      /\ keyb_clients = [w \in {} |-> NULL]
      /\ current_window = NoWindow /\ keyb_window = NoWindow
  BY DEF KInit, ProgramsInit, WmInit, KeybInit
<1>3. /\ \A p \in Proc : rq.state[p] = "READY" /\ rq.priority[p] = (IF p = 0 THEN 1 ELSE 0)
      /\ active_proc = 0 /\ next_free_port = 1
      /\ \A p \in Proc : pc[p] = IF p = 0 \/ p = 1 THEN "user" ELSE "free"
      /\ \A p \in Proc : ports[p] = IF p = 1 THEN <<0>> ELSE <<>>
      /\ \A po \in Port : port[po].open = (po = 0)
      /\ \A irq \in Irq : interrupt_table[irq] = NULL
      /\ halt = "no"
  BY DEF KInit, ProgramsInit, Init
<1>4. /\ Ids = {} /\ \A w : ~Seen(w)
      /\ \A p \in Proc : ~Reading(p) /\ wm_msg[p].window_id = NoWindow
      /\ \A p, r \in Proc : ~Asks(p, r)
  BY <1>2, <1>3 DEF Ids, Seen, Reading, Asks, Handled, Answered
<1>5. Typed
  <2>1. at \in [Proc -> Places]
    BY <1>2 DEF Places
  <2> QED  BY <1>2, <2>1 DEF Typed
<1>6. DataTyped
  <2>1. wm_msg \in [Proc -> [action : {NULL, "create", "change_focus", "current_focus",
                                       "update"},
                             window_id : Ids \cup {NoWindow}]]
    BY <1>2 DEF Handled
  <2>2. keyb_msg \in [Proc -> [window_id : Ids \cup {NoWindow}, block : BOOLEAN,
                               key : Chars \cup {NoKey}]]
    BY <1>2 DEF Answered
  <2>3. windows \in Seq(Ids) /\ \A w \in Ids : Found(w)
    BY <1>2, <1>4
  <2>4. /\ DOMAIN keyb_clients = {}
        /\ keyb_clients \in [DOMAIN keyb_clients -> [client : ProcOrNull,
                                                     is_waiting : BOOLEAN,
                                                     buffer : Seq(RealKeys)]]
    BY <1>2
  <2> QED  BY <1>2, <2>1, <2>2, <2>3, <2>4 DEF DataTyped
<1>7. BootStages /\ ManagerStages /\ ServiceStages /\ NotifierStages /\ ProgramStages
  <2>1. BootStages
    BY <1>2, <1>3 DEF BootStages, Early
  <2>2. ManagerStages /\ ServiceStages /\ NotifierStages
    BY <1>2, <1>3 DEF ManagerStages, ServiceStages, NotifierStages
  <2>3. ProgramStages
    BY <1>2, <1>3 DEF ProgramStages
  <2> QED  BY <2>1, <2>2, <2>3
<1>8. PortsAreOwned
  <2>1. \A p \in Proc : ports[p] = <<0>> \/ ports[p] = <<>>
    BY <1>3
  <2>2. \A p \in Proc : Len(ports[p]) <= 1
    <3>1. Len(<<0>>) <= 1 /\ Len(<<>>) <= 1
      OBVIOUS
    <3> QED  BY ONLY <2>1, <3>1, Zenon
  <2>3. \A po \in Port : po < next_free_port => port[po].open
    <3>1. \A po \in Port : po < 1 => po = 0
      BY PortsAssumption DEF Port
    <3>2. \A po \in Port : po = 0 => port[po].open
      BY <1>3, Zenon
    <3> QED  BY <1>3, <3>1, <3>2
  <2>4. ports[0] = <<>> /\ \A p \in Proc : pc[p] # "create_port"
    BY <1>3
  <2>5. ~Exists(2) /\ ~Exists(3) /\ ~Exists(4)
    BY <1>3 DEF Exists
  <2>6. next_free_port = 1
    BY <1>3
  <2> QED  BY ONLY Processes, <2>2, <2>3, <2>4, <2>5, <2>6 DEF PortsAreOwned
<1>9. HavePriorities /\ ServiceFirst /\ OnlyKeysAreAwaited
  <2>1. HavePriorities
    <3>1. rq.priority[0] = 1 /\ rq.priority[1] = 0
      BY <1>3
    <3>2. \A p \in Proc : p > 1 => pc[p] = "free"
      BY <1>3
    <3> QED  BY <3>1, <3>2 DEF HavePriorities
  <2>2. ServiceFirst
    BY <1>2, <1>3 DEF ServiceFirst, Early
  <2>3. OnlyKeysAreAwaited
    BY <1>3 DEF OnlyKeysAreAwaited
  <2> QED  BY <2>1, <2>2, <2>3
<1>10. ~Handles(2) /\ ~Handles(3) /\ ~Unheard /\ at[3] = "none"
  BY <1>2, <1>3 DEF Handles, Unheard
<1>11. OneAtATime /\ ServiceAsks
  <2>1. OneAtATime
    BY <1>3, <1>4, <1>10 DEF OneAtATime
  <2>2. ServiceAsks
    BY <1>3, <1>10 DEF ServiceAsks, Asking
  <2> QED  BY <2>1, <2>2
<1>12. ProgramsHaveWindows /\ KeysAreKept
  <2>1. ProgramsHaveWindows
    BY <1>2, <1>4 DEF ProgramsHaveWindows
  <2>2. KeysAreKept
    BY <1>2, <1>3, <1>10 DEF KeysAreKept, WithKey
  <2> QED  BY <2>1, <2>2
<1>13. RecordsAreFound /\ RecordsAreRight /\ FocusIsKnown
  <2>1. RecordsAreFound
    BY <1>10 DEF RecordsAreFound, WithClient
  <2>2. RecordsAreRight
    BY <1>2, <1>4 DEF RecordsAreRight
  <2>3. FocusIsKnown
    BY <1>4 DEF FocusIsKnown
  <2> QED  BY <2>1, <2>2, <2>3
<1>14. KeybNeverPanics
  BY <1>3 DEF KeybNeverPanics
<1> QED  BY <1>1, <1>5, <1>6, <1>7, <1>8, <1>9, <1>11, <1>12, <1>13, <1>14 DEF KeybInv, Inv

LEMMA NextInv ==
  ASSUME Patient, KeybInv, [KNext]_keybSystemVars
  PROVE  KeybInv'
<1>1. ASSUME NEW p \in Proc, Step(p) PROVE KeybInv'
  BY <1>1, BootProgramInv, ManagerInv, NotifierInv, ServiceInv, ReturnInv DEF Step
<1>2. ASSUME NEW p \in Proc, Program(p) PROVE KeybInv'
  BY <1>2, ProgramInv
<1>3. CASE KeyStroke
  BY <1>3, KeyStrokeInv
<1>4. CASE Tick
  BY <1>4, TickInv
<1>5. CASE Loop
  BY <1>5, LoopInv
<1>6. CASE UNCHANGED keybSystemVars
  BY <1>6, StutterInv
<1> QED  BY <1>1, <1>2, <1>3, <1>4, <1>5, <1>6 DEF KNext

(* A step that answers a read is one of keyb_process: with the key at hand *)
(* or the oldest one kept, or without a key where there is none.           *)
Returns(p) ==
  Reading(p) /\ keyb_msg'[p].window_id = NoWindow =>
    \/ keyb_msg'[p].key \in RealKeys
    \/ ~Blocks(p) /\ keyb_clients[keyb_msg[p].window_id].buffer = <<>>

LEMMA NoAnswer ==
  ASSUME NEW p, keyb_msg' = keyb_msg
  PROVE  Returns(p)
BY DEF Returns, Reading

LEMMA KeyAnswers ==
  ASSUME KeybInv, NEW p \in Proc, NEW k \in Proc, key_record(k)
  PROVE  Returns(p)
<1> USE Processes
<1>1. CASE keyb_msg' = keyb_msg
  BY <1>1, NoAnswer
<1>2. CASE keyb_msg' # keyb_msg
  <2>1. /\ at[k] = "key_record"
        /\ keyb_msg' = [keyb_msg EXCEPT ![keyb_clients[keyb_window].client] =
                          Answered(keyb_key)]
    BY <1>2 DEF key_record, Runs
  <2>2. k = 3
    BY <2>1, WhereTheyAre DEF BootPlaces, WithKey, WithClient
  <2>3. keyb_key \in RealKeys
    BY <2>1, <2>2 DEF KeybInv, Inv, KeysAreKept, WithKey
  <2>4. p \in DOMAIN keyb_msg
    BY DEF KeybInv, Inv, DataTyped
  <2>5. CASE p = keyb_clients[keyb_window].client
    BY <2>1, <2>3, <2>4, <2>5 DEF Returns, Answered
  <2>6. CASE p # keyb_clients[keyb_window].client
    BY <2>1, <2>4, <2>6 DEF Returns, Reading
  <2> QED  BY <2>5, <2>6
<1> QED  BY <1>1, <1>2

LEMMA ClientIsAnswered ==
  ASSUME KeybInv, NEW p \in Proc, NEW k \in Proc, client_record(k)
  PROVE  Returns(p)
<1> USE Processes
<1>1. /\ at[k] = "client_record" /\ pc[k] = "user"
  BY DEF client_record, Runs, At
<1>2. k = 3
  BY <1>1, WhereTheyAre DEF BootPlaces, WithKey, WithClient
<1>3. PICK s \in Proc : /\ Sender(3) = s /\ keyb_window = keyb_msg[s].window_id
  <2>1. PICK m \in Proc : Messenger(3) = m /\ keyb_window = keyb_msg[m].window_id
    BY <1>1, <1>2 DEF KeybInv, Inv, RecordsAreFound, WithClient
  <2> QED  BY <1>1, <1>2, <2>1 DEF Messenger, Sender
<1>4. /\ keyb_clients[keyb_window].buffer \in Seq(RealKeys)
  <2>1. keyb_window \in DOMAIN keyb_clients
    BY <1>1, <1>2 DEF KeybInv, Inv, RecordsAreFound, Seen
  <2> QED  BY <2>1 DEF KeybInv, Inv, DataTyped
<1>5. p \in DOMAIN keyb_msg
  BY DEF KeybInv, Inv, DataTyped
<1>6. \/ keyb_msg' = keyb_msg
      \/ /\ keyb_clients[keyb_window].buffer # <<>>
         /\ keyb_msg' = [keyb_msg EXCEPT ![s] =
                           Answered(Head(keyb_clients[keyb_window].buffer))]
      \/ /\ keyb_clients[keyb_window].buffer = <<>> /\ ~Blocks(s)
         /\ keyb_msg' = [keyb_msg EXCEPT ![s] = Answered(NoKey)]
  BY <1>2, <1>3 DEF client_record, has_key_enqueued
<1>7. CASE keyb_msg' = keyb_msg
  BY <1>7, NoAnswer
<1>8. CASE p # s
  <2>1. keyb_msg'[p] = keyb_msg[p]
    BY <1>5, <1>6, <1>8
  <2> QED  BY <2>1 DEF Returns, Reading
<1>9. CASE /\ p = s /\ keyb_clients[keyb_window].buffer # <<>>
           /\ keyb_msg' = [keyb_msg EXCEPT ![s] =
                             Answered(Head(keyb_clients[keyb_window].buffer))]
  <2>1. Head(keyb_clients[keyb_window].buffer) \in RealKeys
    BY <1>4, <1>9
  <2> QED  BY <1>5, <1>9, <2>1 DEF Returns, Answered
<1>10. CASE /\ p = s /\ keyb_clients[keyb_window].buffer = <<>> /\ ~Blocks(s)
  BY <1>3, <1>10 DEF Returns
<1> QED  BY <1>6, <1>7, <1>8, <1>9, <1>10

LEMMA ReadsAreAnswered ==
  ASSUME KeybInv, KNext, NEW p \in Proc
  PROVE  Returns(p)
<1> USE DEF keybVars
<1>1. ASSUME NEW k \in Proc, Step(k) PROVE Returns(p)
  <2>1. CASE BootProgram(k) \/ WindowManager(k) \/ KeybNotifier(k) \/ Return(k)
    <3>1. keyb_msg' = keyb_msg
      BY <2>1 DEF BootProgram, init_keyb, WindowManager, KeybNotifier, keyb_notifier, Return
    <3> QED  BY <3>1, NoAnswer
  <2>2. CASE KeybProcess(k)
    <3>1. keyb_msg' = keyb_msg \/ key_record(k) \/ client_record(k)
      BY <2>2 DEF KeybProcess, keyb_process
    <3> QED  BY <3>1, NoAnswer, KeyAnswers, ClientIsAnswered
  <2> QED  BY <1>1, <2>1, <2>2 DEF Step
<1>2. ASSUME NEW k \in Proc, Program(k) PROVE Returns(p)
  <2>1. CASE MakeWindow(k) \/ Update(k) \/ Start(k)
    <3>1. keyb_msg' = keyb_msg
      BY <2>1 DEF MakeWindow, Update, Start
    <3> QED  BY <3>1, NoAnswer
  <2>2. CASE \E call \in {"wait", "poll"} : Read(k, call)
    <3>1. PICK call \in {"wait", "poll"} : Read(k, call)
      BY <2>2
    <3>2. /\ At(k, "user") /\ at[k] = "program"
          /\ keyb_msg' = [keyb_msg EXCEPT ![k] = [window_id |-> wm_msg[k].window_id,
                                                  block |-> (call = "wait"),
                                                  key |-> NoKey]]
      BY <3>1 DEF Read, keyb_get_keystroke, Runs
    <3>3. ~Reading(k)
      BY <3>2, ProgramRuns
    <3>4. p \in DOMAIN keyb_msg
      BY DEF KeybInv, Inv, DataTyped
    <3>5. p # k => keyb_msg'[p] = keyb_msg[p]
      BY <3>2, <3>4
    <3> QED  BY <3>3, <3>5 DEF Returns, Reading
  <2> QED  BY <1>2, <2>1, <2>2 DEF Program
<1>3. CASE KeyStroke \/ Tick \/ Loop
  <2>1. keyb_msg' = keyb_msg
    BY <1>3 DEF KeyStroke, key_stroke, Tick, Loop
  <2> QED  BY <2>1, NoAnswer
<1> QED  BY <1>1, <1>2, <1>3 DEF KNext

-----------------------------------------------------------------------------
(* The theorems *)

(* With a patient typist the keyboard service, the window manager, their   *)
(* programs and the kernel stay in the states of the invariant.            *)
THEOREM KeybInvariant ==
  ASSUME Patient
  PROVE  KSpec => []KeybInv
<1>1. KInit => KeybInv
  BY InitInv
<1>2. KeybInv /\ [KNext]_keybSystemVars => KeybInv'
  BY NextInv
<1> QED  BY <1>1, <1>2, PTL DEF KSpec

(* The services keep their types and no call of keyb.c or wm.c panics: no  *)
(* reply to a process that waits for none, no window that is not found, no *)
(* key while the notifier is elsewhere, no process without a port.         *)
THEOREM KeybStaysSound ==
  ASSUME Patient
  PROVE  KSpec => []KeybIsSound
<1>1. KeybInv => KeybIsSound
  <2> SUFFICES ASSUME KeybInv PROVE KeybIsSound
    OBVIOUS
  <2> USE DEF KeybInv, Inv
  <2>1. keyb_port \in Port \cup {NULL} /\ wm_port \in Port \cup {NULL}
    BY KernelConstants DEF Typed
  <2>2. new_key \in Keys \cup {NoKey} /\ keyb_key \in Chars \cup {NoKey}
    BY DEF DataTyped
  <2>3. current_window \in DOMAIN windows \cup {0, NoWindow, NullWord}
    <3>1. windows \in Seq(Ids) /\ current_window \in Ids \cup {NoWindow}
      BY DEF DataTyped
    <3>2. DOMAIN windows = 1 .. Len(windows) /\ Len(windows) \in Nat
      BY ONLY <3>1
    <3> QED  BY ONLY <3>1, <3>2 DEF Ids
  <2>4. ASSUME NEW w \in DOMAIN keyb_clients
        PROVE  /\ keyb_clients[w].client \in ProcOrNull
               /\ keyb_clients[w].is_waiting \in BOOLEAN
               /\ keyb_clients[w].buffer \in Seq(Chars \cup {NoKey})
               /\ Len(keyb_clients[w].buffer) < MAX_KEYB_BUFFER
    <3>1. /\ keyb_clients[w] \in [client : ProcOrNull, is_waiting : BOOLEAN,
                                  buffer : Seq(RealKeys)]
          /\ Len(keyb_clients[w].buffer) < MAX_KEYB_BUFFER
      BY DEF DataTyped
    <3>2. \A q \in Seq(RealKeys) : q \in Seq(Chars \cup {NoKey})
      BY DEF RealKeys
    <3> QED  BY ONLY <3>1, <3>2
  <2>5. KeybNeverPanics
    OBVIOUS
  <2> QED  BY ONLY <2>1, <2>2, <2>3, <2>4, <2>5 DEF KeybIsSound, KeybTypeOK
<1> QED  BY <1>1, KeybInvariant, PTL

(* Who is idle, or has a key's record at hand, is keyb_process.            *)
LEMMA OnlyTheService ==
  ASSUME KeybInv, NEW k \in Proc,
         at[k] \in {"keyb_received", "key_record", "key_given"}
  PROVE  k = 3
BY Processes, WhereTheyAre DEF BootPlaces, WithKey, WithClient

(* No program waits beside its key: those recorded as waiting wait, and    *)
(* have no key, and whoever waits is recorded when keyb_process is idle.   *)
THEOREM WaitersStayRecorded ==
  ASSUME Patient
  PROVE  KSpec => []WaitersAreRecorded
<1>1. KeybInv => WaitersAreRecorded
  <2> SUFFICES ASSUME KeybInv PROVE WaitersAreRecorded
    OBVIOUS
  <2> USE Processes
  <2>1. RecordsAreRight
    BY DEF KeybInv, Inv
  <2>2. ASSUME NEW w \in DOMAIN keyb_clients, keyb_clients[w].is_waiting
        PROVE  LET record == keyb_clients[w] IN
               \/ /\ rq.state[record.client] = "REPLY_BLOCKED"
                  /\ keyb_msg[record.client].window_id = w
                  /\ Blocks(record.client)
                  /\ record.buffer = <<>>
               \/ keyb_window = w /\ \E k \in Proc : at[k] = "key_given"
    <3>1. CASE BeingGiven(w)
      BY <3>1 DEF BeingGiven
    <3>2. CASE ~BeingGiven(w)
      BY <2>1, <2>2, <3>2 DEF RecordsAreRight
    <3> QED  BY <3>1, <3>2
  <2>3. ASSUME KeybIdle, NEW p \in Proc, rq.state[p] = "REPLY_BLOCKED", Reading(p)
        PROVE  keyb_clients[keyb_msg[p].window_id].is_waiting
    <3>1. at[3] = "keyb_received" /\ rq.state[3] = "RECEIVE_BLOCKED"
      BY <2>3, OnlyTheService DEF KeybIdle
    <3>2. ~ServedNow(p)
      BY <3>1 DEF ServedNow, Handles, WithClient
    <3> QED  BY <2>1, <2>3, <3>2 DEF RecordsAreRight
  <2> QED  BY ONLY <2>2, <2>3 DEF WaitersAreRecorded
<1> QED  BY <1>1, KeybInvariant, PTL

(* Keys go to the window with the focus, once its program has asked for a  *)
(* key: keyb_process knows that window whenever it is idle, and has the    *)
(* record of no other when it gives or keeps a key.                        *)
THEOREM KeysStayWithTheFocus ==
  ASSUME Patient
  PROVE  KSpec => []KeysGoToTheFocus
<1>1. KeybInv => KeysGoToTheFocus
  <2> SUFFICES ASSUME KeybInv, Focus \in DOMAIN keyb_clients
               PROVE  /\ KeybIdle => current_window = Focus
                      /\ \A k \in Proc : Runs(k, "key_record") => keyb_window = Focus
    BY DEF KeysGoToTheFocus
  <2>1. /\ at[3] # "focus_changed" => current_window = Focus
        /\ at[3] = "key_record" => keyb_window = Focus
    BY DEF KeybInv, Inv, FocusIsKnown, Seen
  <2>2. KeybIdle => at[3] = "keyb_received"
    BY OnlyTheService DEF KeybIdle
  <2>3. \A k \in Proc : Runs(k, "key_record") => at[3] = "key_record"
    BY OnlyTheService DEF Runs
  <2> QED  BY <2>1, <2>2, <2>3
<1> QED  BY <1>1, KeybInvariant, PTL

(* A read that waits returns the character of a key, and one that does not *)
(* wait returns without one only where its window has none.                *)
THEOREM ReadsStayReturningKeys ==
  ASSUME Patient
  PROVE  KSpec => ReadsReturnKeys
<1>1. KeybInv /\ [KNext]_keybSystemVars =>
        [\A p \in Proc :
           Reading(p) /\ keyb_msg'[p].window_id = NoWindow =>
             \/ keyb_msg'[p].key \in Chars \ {NoKey}
             \/ ~Blocks(p) /\ keyb_clients[keyb_msg[p].window_id].buffer = <<>>
        ]_keybSystemVars
  BY ReadsAreAnswered DEF Returns, RealKeys
<1> QED  BY <1>1, KeybInvariant, PTL DEF KSpec, ReadsReturnKeys

=============================================================================
