------------------------------ MODULE ComProofs ------------------------------
(***************************************************************************)
(* The serial line (com.c) on the kernel, with any number of programs that *)
(* wait for answers of any lengths: one request is served at a time, its   *)
(* bytes go to its own buffer, the answer is complete when send() returns, *)
(* and the machine never stops.                                            *)
(*                                                                         *)
(* As in TimerProofs the programs are a client of the kernel (K), whose    *)
(* invariant holds; the port a process waits on and the senders still to   *)
(* be replied to are told from the state.                                  *)
(***************************************************************************)
EXTENDS ComSystem, TLAPS

(* The boot process creates com_process first, which creates the reader    *)
(* before a program exists.  Their ports, in the order of their creation.  *)
Service == 2
Reader == 3
ComPort == 1
WriterPort == 2
ReaderPort == 3

PortOf == [p \in Proc |-> IF p = Reader THEN WriterPort
                          ELSE IF p = Service THEN ReaderPort ELSE ComPort]
SentTo == [p \in Proc |->
             IF rq.state[p] \in {"SEND_BLOCKED", "MESSAGE_BLOCKED", "REPLY_BLOCKED"}
             THEN PortOf[p] ELSE NULL]

(* The message of s is in the PCB of com_process. *)
InPcb(s) == /\ pc[Service] = "receive" /\ rq.state[Service] = "READY"
            /\ param_proc[Service] = s
ToReply == [p \in Proc |->
              {s \in Proc : /\ p = Service /\ rq.state[s] = "REPLY_BLOCKED"
                            /\ ~InPcb(s)}]

K == INSTANCE KernelProofs WITH
  Data <- Proc \cup {NULL},
  Payload <- [p \in Proc |-> Proc],
  Priorities <- {5, 6, 7},
  Calls <- {"create_port", "create_process", "resign", "become_zombie",
            "open_port", "close_port", "send", "message", "receive", "reply",
            "wait_for_interrupt", "isr_timer", "isr_com1"},
  KeepsResults <- TRUE,
  halt <- "no", waits_on <- SentTo, clients <- ToReply

-----------------------------------------------------------------------------
(* The invariant *)

Places == {"init_com", "assign_com_port", "resign_com", "create_programs",
           "dead", "loop", "none", "program",
           "com_process", "create_reader", "open_com_port", "close_writer_port",
           "com_receive", "start_reader", "send_cmd", "close_com_port",
           "open_writer_port", "await_reader", "com_reply",
           "com_reader", "reader_start", "reader_loop", "read_byte"}

Typed ==
  /\ at \in [Proc -> Places]
  /\ ret = [p \in Proc |-> ret[p]]
  /\ com_port \in {NULL, ComPort}
  /\ com_writer_port \in {NULL, WriterPort}
  /\ com_sender \in ProcOrNull
  /\ \E longest \in Lengths : reader_i \in 0 .. longest
  /\ len_input_buffer \in [Proc -> Lengths \cup {0}]
  /\ input_buffer = [p \in Proc |-> input_buffer[p]]
  /\ uart \in ProcOrNull
  /\ line \in Seq(Proc)

Exists(p) == pc[p] \notin {"free", "embryo"}
Early == at[Boot] \in {"init_com", "assign_com_port", "resign_com"}

(* The stages of the start, and where each process can be. *)
BootStages ==
  /\ rq.state[Boot] = IF at[Boot] = "dead" THEN "ZOMBIE" ELSE "READY"
  /\ com_port = IF at[Boot] \in {"init_com", "assign_com_port"} THEN NULL ELSE ComPort
  /\ \/ at[Boot] = "init_com" /\ pc[Boot] = "user"
        /\ pc[Service] = "free" /\ next_free_port = 1
     \/ at[Boot] = "assign_com_port" /\ pc[Boot] = "create_port"
        /\ new_proc[Boot] = Service /\ pc[Service] = "embryo" /\ next_free_port = 1
     \/ at[Boot] = "assign_com_port" /\ pc[Boot] = "create_ready"
        /\ new_proc[Boot] = Service /\ pc[Service] = "embryo" /\ next_free_port = 2
     \/ at[Boot] = "assign_com_port" /\ pc[Boot] = "user"
        /\ ret[Boot] = ComPort /\ Exists(Service)
     \/ at[Boot] \in {"resign_com", "create_programs"} /\ pc[Boot] = "user"
        /\ Exists(Service)
     \/ at[Boot] = "create_programs" /\ pc[Boot] \in {"create_port", "create_ready"}
        /\ new_proc[Boot] > Reader /\ Exists(Service) /\ Exists(Reader)
     \/ at[Boot] = "dead" /\ pc[Boot] \in {"zombie_remove", "zombie_resign", "zombie_loop"}
        /\ Exists(Service) /\ Exists(Reader)

Working == {"open_com_port", "close_writer_port", "com_receive", "start_reader",
            "send_cmd", "close_com_port", "open_writer_port", "await_reader", "com_reply"}
ServiceStages ==
  /\ pc[Service] # "receive" => rq.state[Service] = "READY"
  /\ \/ pc[Service] = "free" /\ at[Service] = "none" /\ pc[Reader] = "free"
     \/ pc[Service] = "embryo" /\ at[Service] = "com_process" /\ pc[Reader] = "free"
     \/ pc[Service] = "user" /\ at[Service] = "com_process"
        /\ pc[Reader] = "free" /\ next_free_port = 2
     \/ pc[Service] = "user" /\ at[Service] = "create_reader"
        /\ pc[Reader] = "free" /\ next_free_port = 3
     \/ pc[Service] = "create_port" /\ at[Service] = "open_com_port"
        /\ new_proc[Service] = Reader /\ pc[Reader] = "embryo" /\ next_free_port = 3
     \/ pc[Service] = "create_ready" /\ at[Service] = "open_com_port"
        /\ new_proc[Service] = Reader /\ pc[Reader] = "embryo" /\ next_free_port = 4
     \/ pc[Service] = "user" /\ at[Service] \in Working
        /\ Exists(Reader) /\ ret[Service] = ReaderPort
     \/ pc[Service] = "receive" /\ at[Service] \in {"start_reader", "com_reply"}
        /\ Exists(Reader) /\ ret[Service] = ReaderPort

ReaderStages ==
  \/ pc[Reader] = "free" /\ at[Reader] = "none"
  \/ pc[Reader] = "embryo" /\ at[Reader] = "com_reader"
  \/ pc[Reader] = "user" /\ at[Reader] = "com_reader"
     /\ rq.state[Reader] \in {"READY", "MESSAGE_BLOCKED"}
  \/ pc[Reader] = "receive" /\ at[Reader] = "reader_start"
  \/ pc[Reader] = "user" /\ at[Reader] \in {"reader_start", "reader_loop", "read_byte"}
     /\ rq.state[Reader] = "READY"
  \/ pc[Reader] = "wait_for_interrupt" /\ at[Reader] = "read_byte"

ProgramStages ==
  /\ pc[NullProcess] = "user" /\ at[NullProcess] = "loop"
  /\ \A p \in Proc : p > Reader =>
       /\ pc[p] # "free" => Exists(Reader) /\ ~Early
       /\ \/ pc[p] = "free" /\ at[p] = "none"
          \/ pc[p] = "embryo" /\ at[p] = "program"
          \/ pc[p] = "user" /\ at[p] = "program"
             /\ rq.state[p] \in {"READY", "SEND_BLOCKED", "REPLY_BLOCKED"}

(* Every process but the boot process gets one port, com_process two. *)
CreatedBelow == IF next_free_pcb = NULL THEN MAX_PROCS ELSE next_free_pcb

PortsAreLeft ==
  /\ next_free_port <= CreatedBelow
  /\ pc[Service] \in {"free", "embryo"} => next_free_port <= CreatedBelow - 1
  /\ at[Service] = "com_process" => next_free_port <= CreatedBelow - 1
  /\ \A p \in Proc : pc[p] = "create_port" => next_free_port <= CreatedBelow - 1
  /\ Exists(Service) => next_free_port >= 2
  /\ Exists(Reader) => next_free_port >= 4

(* The ports: com_process serves its first port until it has a request,    *)
(* and its second one until the reader has answered.                       *)
PortsAreOwned ==
  /\ next_free_port = 1 => ports[Service] = <<>>
  /\ next_free_port = 2 => ports[Service] = <<ComPort>>
  /\ next_free_port >= 2 => port[ComPort].owner = Service
  /\ next_free_port >= 3 => /\ Len(ports[Service]) = 2
                            /\ ports[Service][1] = WriterPort
                            /\ ports[Service][2] = ComPort
                            /\ port[WriterPort].owner = Service
                            /\ com_writer_port = WriterPort
  /\ next_free_port = 3 /\ pc[Reader] = "embryo" => ports[Reader] = <<>>
  /\ next_free_port >= 4 => /\ ports[Reader] = <<ReaderPort>>
                            /\ port[ReaderPort].owner = Reader
                            /\ port[ReaderPort].open

PortsAreServed ==
  /\ at[Service] \in {"close_writer_port", "com_receive", "start_reader", "send_cmd",
                      "close_com_port"} => port[ComPort].open
  /\ at[Service] \in {"open_writer_port", "await_reader", "com_reply"} =>
       ~port[ComPort].open
  /\ at[Service] \in {"await_reader", "com_reply"} => port[WriterPort].open
  /\ at[Service] \in {"com_receive", "start_reader", "send_cmd", "close_com_port",
                      "open_writer_port"} => ~port[WriterPort].open

HavePriorities ==
  /\ rq.priority[Boot] = 1 /\ rq.priority[NullProcess] = 0
  /\ pc[Service] # "free" => rq.priority[Service] = 6
  /\ pc[Reader] # "free" => rq.priority[Reader] = 7
  /\ \A p \in Proc : p > Reader /\ pc[p] # "free" => rq.priority[p] = 5

(* Nobody runs while com_process or the reader can, but before the boot    *)
(* process has called resign(); and com_process does not run while the     *)
(* reader can, but before there are programs and when it has just taken    *)
(* the reader's answer.                                                    *)
Busy(p) == Exists(p) /\ rq.state[p] = "READY"
NoPrograms == \A p \in Proc : p > Reader => pc[p] = "free"
ServiceFirst ==
  /\ \/ active_proc \in {Service, Reader}
     \/ active_proc = Boot /\ Early
     \/ ~Busy(Service) /\ ~Busy(Reader)
  /\ active_proc = Reader \/ NoPrograms \/ at[Service] = "com_reply" \/ ~Busy(Reader)

OnlyTheLineIsAwaited ==
  \A irq \in Irq : interrupt_table[irq] # NULL => irq = COM1_IRQ

(* The phases of a request: com_process has it, the reader has it, the     *)
(* reader has answered.                                                    *)
Asked == at[Service] = "start_reader" /\ rq.state[Service] = "READY"
Serving == \/ at[Service] \in {"send_cmd", "close_com_port", "open_writer_port", "await_reader"}
           \/ at[Service] = "com_reply" /\ rq.state[Service] = "RECEIVE_BLOCKED"
Answered == at[Service] = "com_reply" /\ rq.state[Service] = "READY"
InService == Asked \/ Serving \/ Answered

(* What com_process and the reader have been sent, in the PCB until their  *)
(* receive() returns.                                                      *)
Messenger == IF pc[Service] = "receive" THEN param_proc[Service] ELSE received[Service][1]
Content == IF pc[Service] = "receive" THEN param_data[Service] ELSE received[Service][2]
Told == IF pc[Reader] = "receive" THEN param_data[Reader] ELSE received[Reader][2]
Customer == IF Asked THEN Messenger ELSE com_sender

(* The only sender that waits for a reply is the one whose request it is.  *)
OneCustomer ==
  /\ InService => Customer \in Proc
  /\ \A p \in Proc : rq.state[p] = "REPLY_BLOCKED" <=> p = Customer /\ InService
  /\ \A p \in Proc : rq.state[p] = "SEND_BLOCKED" => param_data[p] = p
  /\ Asked \/ at[Service] = "send_cmd" => Content = Customer
  /\ Answered => Messenger = Reader

(* The reader reads while it is asked to, and waits otherwise.             *)
ReaderHasRequest ==
  \/ at[Reader] = "reader_start" /\ rq.state[Reader] = "READY"
  \/ at[Reader] \in {"reader_loop", "read_byte"}
ReaderHasAnswer == rq.state[Reader] = "MESSAGE_BLOCKED"
ReaderIsAsked ==
  /\ ReaderHasRequest \/ ReaderHasAnswer <=> Serving
  /\ Asked => rq.state[Reader] = "RECEIVE_BLOCKED"
  /\ ReaderHasRequest => Told = com_sender

(* The bytes of the answer: read, in the UART, or still on the line.  No   *)
(* command goes out before the reader waits for the first byte.            *)
Bytes(p) == Len(input_buffer[p])
InUart == IF uart = NULL THEN 0 ELSE 1
Fresh(p) == \/ rq.state[p] = "SEND_BLOCKED"
            \/ p = Customer /\ (Asked \/ at[Service] = "send_cmd")
BuffersAreRight ==
  \A p \in Proc : /\ input_buffer[p] \in Seq({p})
                  /\ Bytes(p) <= len_input_buffer[p]
                  /\ Fresh(p) => input_buffer[p] = <<>>
BytesAddUp ==
  /\ Serving => /\ uart \in {NULL, com_sender}
                /\ \A k \in DOMAIN line : line[k] = com_sender
                /\ at[Service] # "send_cmd" =>
                     Bytes(com_sender) + InUart + Len(line) = len_input_buffer[com_sender]
  /\ ~Serving \/ at[Service] = "send_cmd" => line = <<>> /\ uart = NULL
  /\ ReaderHasAnswer \/ Answered => Bytes(com_sender) = len_input_buffer[com_sender]
  /\ at[Reader] = "reader_start" /\ Serving => at[Service] = "send_cmd"
  /\ at[Reader] = "reader_loop" => /\ uart = NULL
                                   /\ line # <<>> => input_buffer[com_sender] # <<>>
  /\ at[Reader] \in {"reader_loop", "read_byte"} => reader_i = Bytes(com_sender)
  /\ at[Reader] = "read_byte" => /\ reader_i < len_input_buffer[com_sender]
                                 /\ uart # NULL <=> rq.state[Reader] = "READY"

Inv ==
  /\ Typed
  /\ BootStages /\ ServiceStages /\ ReaderStages /\ ProgramStages
  /\ PortsAreLeft /\ PortsAreOwned /\ PortsAreServed /\ HavePriorities
  /\ ServiceFirst
  /\ OnlyTheLineIsAwaited
  /\ OneCustomer /\ ReaderIsAsked /\ BuffersAreRight /\ BytesAddUp
  /\ ComNeverPanics

ComInv == K!IInv /\ Inv

-----------------------------------------------------------------------------
(* The kernel under these programs *)

LEMMA KernelConstants ==
  /\ K!ProgramsAssumption
  /\ MAX_PROCS \in Nat /\ MAX_PROCS >= 4 /\ MAX_PORTS >= MAX_PROCS
  /\ {0, 1, 2, 3} \subseteq Proc /\ Proc \subseteq Int
  /\ {5, 6, 7} \subseteq Priority
  /\ {0, 1, 2, 3} \subseteq Port /\ NULL \notin Int
  /\ Boot = 0 /\ NullProcess = 1
BY SizesAssumption, RoomAssumption, PortsAssumption, NullAssumption
   DEF K!ProgramsAssumption, K!AllCalls, K!Proc, Proc, Priority, Port, Boot, NullProcess

LEMMA SameSets ==
  /\ K!Proc = Proc /\ K!Port = Port /\ K!Priority = Priority
  /\ K!ProcOrNull = ProcOrNull /\ K!States = States /\ K!Labels = Labels
  /\ K!QueueRecord = QueueRecord /\ K!Irq = Irq
  /\ K!Programs = Proc \ {NullProcess} /\ K!NullProcess = NullProcess
  /\ K!Boot = Boot
BY DEF K!Proc, Proc, K!Port, Port, K!Priority, Priority, K!ProcOrNull,
       ProcOrNull, K!States, States, K!Labels, Labels, K!CallLabels, CallLabels,
       K!QueueRecord, QueueRecord, K!Irq, Irq, K!TIMER_IRQ, TIMER_IRQ,
       K!KEYB_IRQ, KEYB_IRQ, K!COM1_IRQ, COM1_IRQ, K!Programs, K!NullProcess,
       NullProcess, K!Boot, Boot

LEMMA SameRings ==
  ASSUME NEW q, NEW p
  PROVE  /\ K!add_ready_queue(q, p) = add_ready_queue(q, p)
         /\ K!remove_ready_queue(q, p) = remove_ready_queue(q, p)
         /\ K!dispatcher(q, p) = dispatcher(q, p)
BY DEF K!add_ready_queue, add_ready_queue, K!remove_ready_queue,
       remove_ready_queue, K!dispatcher, dispatcher, K!MostSignificantBit,
       MostSignificantBit

(* A call that does not panic is a step of the kernel's actions. *)
LEMMA SameCalls ==
  ASSUME NEW p, halt' = halt
  PROVE  /\ \A prio : create_process(p, prio) => K!create_process(p, prio)
         /\ create_process_port(p) => K!create_process_port(p)
         /\ create_process_ready(p) => K!create_process_ready(p)
         /\ resign_call(p) => K!resign_call(p)
         /\ become_zombie(p) => K!become_zombie(p)
         /\ zombie_remove(p) => K!zombie_remove(p)
         /\ zombie_resign(p) => K!zombie_resign(p)
         /\ zombie_loop(p) => K!zombie_loop(p)
         /\ create_port(p) => K!create_port(p)
         /\ \A po : open_port(p, po) => K!open_port(p, po)
         /\ \A po : close_port(p, po) => K!close_port(p, po)
<1> USE SameRings DEF vars, schedVars, ipcVars, portVars, procVars, K!vars, K!schedVars,
        K!ipcVars, K!portVars, K!procVars, At, K!At, Goto, K!Goto, Panic, K!Panic,
        resign, K!resign
<1>1. ASSUME NEW prio, create_process(p, prio) PROVE K!create_process(p, prio)
  BY <1>1 DEF create_process, K!create_process
<1>2. create_process_port(p) => K!create_process_port(p)
  BY DEF create_process_port, K!create_process_port, create_new_port,
         K!create_new_port, PortFull, K!PortFull
<1>3. create_process_ready(p) => K!create_process_ready(p)
  BY DEF create_process_ready, K!create_process_ready
<1>4. /\ resign_call(p) => K!resign_call(p)
      /\ become_zombie(p) => K!become_zombie(p)
      /\ zombie_remove(p) => K!zombie_remove(p)
      /\ zombie_resign(p) => K!zombie_resign(p)
      /\ zombie_loop(p) => K!zombie_loop(p)
  BY DEF resign_call, K!resign_call, become_zombie, K!become_zombie,
         zombie_remove, K!zombie_remove, zombie_resign, K!zombie_resign,
         zombie_loop, K!zombie_loop
<1>5. create_port(p) => K!create_port(p)
  BY DEF create_port, K!create_port, create_new_port, K!create_new_port,
         PortFull, K!PortFull
<1>6. ASSUME NEW po
      PROVE  /\ open_port(p, po) => K!open_port(p, po)
             /\ close_port(p, po) => K!close_port(p, po)
  BY DEF open_port, K!open_port, close_port, K!close_port
<1> QED  BY <1>1, <1>2, <1>3, <1>4, <1>5, <1>6

LEMMA SameMessageCalls ==
  ASSUME NEW p, halt' = halt
  PROVE  /\ \A po, data : send(p, po, data) => K!send(p, po, data)
         /\ \A po, data : message(p, po, data) => K!message(p, po, data)
         /\ receive(p) => K!receive(p)
         /\ receive_return(p) => K!receive_return(p)
         /\ \A s : reply(p, s) => K!reply(p, s)
<1> USE SameRings DEF vars, schedVars, ipcVars, portVars, procVars, K!vars, K!schedVars,
        K!ipcVars, K!portVars, K!procVars, At, K!At, Goto, K!Goto, Panic, K!Panic,
        resign, K!resign
<1>1. /\ \A po : CanDeliver(po) = K!CanDeliver(po)
      /\ \A dest : Deliver(p, dest) = K!Deliver(p, dest)
      /\ \A po : add_to_send_blocked_list(po, p) = K!add_to_send_blocked_list(po, p)
      /\ Pending(p) = K!Pending(p)
  BY DEF CanDeliver, K!CanDeliver, Deliver, K!Deliver, Pending, K!Pending,
         add_to_send_blocked_list, K!add_to_send_blocked_list
<1>2. ASSUME NEW po, NEW data, send(p, po, data) PROVE K!send(p, po, data)
  BY <1>1, <1>2 DEF send, K!send
<1>3. ASSUME NEW po, NEW data, message(p, po, data) PROVE K!message(p, po, data)
  BY <1>1, <1>3, SMTT(30) DEF message, K!message
<1>4. receive(p) => K!receive(p)
  <2>1. /\ K!Pending(p) = Pending(p)
        /\ \A q, x : K!add_ready_queue(q, x) = add_ready_queue(q, x)
    BY <1>1
  <2>2. ASSUME receive_pending(p) PROVE K!receive_pending(p)
    <3>1. PICK k \in K!Pending(p) : receive_pending(p)!(k)
      BY <2>1, <2>2 DEF receive_pending
    <3> QED  BY <2>1, <3>1 DEF K!receive_pending
  <2>3. receive_block(p) => K!receive_block(p)
    BY <1>1, SameSets DEF receive_block, K!receive_block
  <2> QED  BY <2>2, <2>3 DEF receive, K!receive
<1>5. receive_return(p) => K!receive_return(p)
  BY DEF receive_return, K!receive_return
<1>6. ASSUME NEW s, reply(p, s) PROVE K!reply(p, s)
  BY <1>6 DEF reply, K!reply
<1> QED  BY <1>2, <1>3, <1>4, <1>5, <1>6

LEMMA SameInterruptCalls ==
  ASSUME NEW p, halt' = halt
  PROVE  /\ \A irq : wait_for_interrupt(p, irq) => K!wait_for_interrupt(p, irq)
         /\ wait_for_interrupt_return(p) => K!wait_for_interrupt_return(p)
         /\ isr_timer => K!isr_timer
         /\ isr_com1 => K!isr_com1
         /\ null_process => K!null_process
<1> USE SameRings DEF vars, schedVars, ipcVars, portVars, procVars, K!vars, K!schedVars,
        K!ipcVars, K!portVars, K!procVars, At, K!At, Goto, K!Goto, Panic, K!Panic,
        resign, K!resign
<1>1. ASSUME NEW irq, wait_for_interrupt(p, irq) PROVE K!wait_for_interrupt(p, irq)
  BY <1>1 DEF wait_for_interrupt, K!wait_for_interrupt
<1>2. wait_for_interrupt_return(p) => K!wait_for_interrupt_return(p)
  BY SameSets DEF wait_for_interrupt_return, K!wait_for_interrupt_return
<1>3. isr_timer => K!isr_timer
  BY DEF isr_timer, K!isr_timer, InterruptsEnabled, K!InterruptsEnabled,
         CallLabels, K!CallLabels, TIMER_IRQ, K!TIMER_IRQ
<1>4. null_process => K!null_process
  BY DEF null_process, K!null_process, NullProcess, K!NullProcess
<1>5. isr_com1 => K!isr_com1
  BY DEF isr_com1, K!isr_com1, isr_device, K!isr_device, InterruptsEnabled,
         K!InterruptsEnabled, CallLabels, K!CallLabels, COM1_IRQ, K!COM1_IRQ
<1> QED  BY <1>1, <1>2, <1>3, <1>4, <1>5

(* What the lists and rings hold beside the state and the priority. *)
LEMMA StateOf ==
  ASSUME NEW q \in QueueRecord, NEW p \in Proc
  PROVE  /\ add_ready_queue(q, p).state = [q.state EXCEPT ![p] = "READY"]
         /\ add_ready_queue(q, p).priority = q.priority
         /\ remove_ready_queue(q, p).state = q.state
         /\ remove_ready_queue(q, p).priority = q.priority
BY DEF QueueRecord, add_ready_queue, remove_ready_queue

(* The ready queues after a send to a process that waits. *)
Sent(q, p, dest) ==
  remove_ready_queue(add_ready_queue([q EXCEPT !.state[p] = "REPLY_BLOCKED"], dest), p)

LEMMA SendStateOf ==
  ASSUME NEW q \in QueueRecord, NEW p \in Proc, NEW d \in Proc, p # d
  PROVE  LET r == Sent(q, p, d)
         IN  /\ r.state[d] = "READY" /\ r.state[p] = "REPLY_BLOCKED"
             /\ r.priority = q.priority
             /\ \A x \in Proc : x # d /\ x # p => r.state[x] = q.state[x]
<1> DEFINE b == [q EXCEPT !.state[p] = "REPLY_BLOCKED"]
           a == add_ready_queue(b, d)
           r == remove_ready_queue(a, p)
<1>1. /\ b \in QueueRecord /\ b.priority = q.priority
      /\ b.state = [q.state EXCEPT ![p] = "REPLY_BLOCKED"]
  BY DEF QueueRecord, States
<1> HIDE DEF b
<1>2. a = [ready_queue |-> a.ready_queue, ready_procs |-> a.ready_procs, next |-> a.next,
           prev |-> a.prev, state |-> a.state, priority |-> a.priority]
  BY <1>1 DEF QueueRecord, add_ready_queue
<1>3. a.state = [b.state EXCEPT ![d] = "READY"] /\ a.priority = b.priority
  BY <1>1, StateOf
<1> HIDE DEF a
<1>4. r.state = a.state /\ r.priority = a.priority
  BY ONLY <1>2 DEF remove_ready_queue
<1> HIDE DEF r
<1>5. Sent(q, p, d) = r
  BY DEF Sent, a, b, r
<1>6. q.state \in [Proc -> States]
  BY DEF QueueRecord
<1> QED  BY <1>1, <1>3, <1>4, <1>5, <1>6

LEMMA KernelTypes ==
  ASSUME K!IInv
  PROVE  /\ rq \in QueueRecord /\ active_proc \in Proc
         /\ next_free_pcb \in ProcOrNull /\ next_free_port \in 0 .. MAX_PORTS
         /\ param_proc \in [Proc -> ProcOrNull]
         /\ param_data \in [Proc -> Proc \cup {NULL}]
         /\ next_blocked \in [Proc -> ProcOrNull]
         /\ ports \in [Proc -> Seq(Port)]
         /\ port \in [Port -> [open : BOOLEAN, owner : ProcOrNull,
                               blocked_list_head : ProcOrNull,
                               blocked_list_tail : ProcOrNull]]
         /\ interrupt_table \in [Irq -> ProcOrNull]
         /\ pc \in [Proc -> Labels] /\ new_proc \in [Proc -> ProcOrNull]
BY SameSets DEF K!IInv, K!GTypeOK, K!TypeOK

LEMMA KernelPlaces ==
  ASSUME K!IInv
  PROVE  /\ \A p \in Proc :
              /\ pc[p] = "user" => rq.state[p] \in
                   {"READY", "SEND_BLOCKED", "MESSAGE_BLOCKED", "REPLY_BLOCKED"}
              /\ pc[p] = "receive" => rq.state[p] \in {"READY", "RECEIVE_BLOCKED"}
              /\ pc[p] = "wait_for_interrupt" =>
                   rq.state[p] \in {"READY", "INTR_BLOCKED"}
              /\ pc[p] \in {"zombie_remove", "zombie_resign", "zombie_loop"} =>
                   rq.state[p] = "ZOMBIE"
              /\ pc[p] \in {"create_port", "create_ready", "embryo", "free"} =>
                   rq.state[p] = "READY"
         /\ pc[active_proc] \notin {"embryo", "free"}
         /\ \/ rq.state[active_proc] = "READY"
            \/ pc[active_proc] \in {"zombie_remove", "zombie_resign", "zombie_loop"}
         /\ IF next_free_pcb = NULL THEN \A p \in Proc : pc[p] # "free"
            ELSE \A p \in Proc : pc[p] = "free" <=> p >= next_free_pcb
         /\ \A p \in Proc : pc[p] = "free" =>
              rq.next[p] = IF p = MAX_PROCS - 1 THEN NULL ELSE p + 1
         /\ \A p \in Proc : pc[p] \in {"create_port", "create_ready"} =>
              new_proc[p] \in Proc /\ pc[new_proc[p]] = "embryo"
<1> USE SameSets, KernelTypes DEF K!IInv
<1>1. \A p \in Proc :
              /\ pc[p] = "user" => rq.state[p] \in
                   {"READY", "SEND_BLOCKED", "MESSAGE_BLOCKED", "REPLY_BLOCKED"}
              /\ pc[p] = "receive" => rq.state[p] \in {"READY", "RECEIVE_BLOCKED"}
              /\ pc[p] = "wait_for_interrupt" =>
                   rq.state[p] \in {"READY", "INTR_BLOCKED"}
              /\ pc[p] \in {"zombie_remove", "zombie_resign", "zombie_loop"} =>
                   rq.state[p] = "ZOMBIE"
              /\ pc[p] \in {"create_port", "create_ready", "embryo", "free"} =>
                   rq.state[p] = "READY"
  <2> TAKE p \in Proc
  <2>1. rq.state[p] \in K!StatesAt(pc[p])
    BY DEF K!LabelsMatchStates
  <2>2. pc[p] \in {"user", "receive", "wait_for_interrupt", "zombie_remove",
                   "zombie_resign", "zombie_loop", "create_port", "create_ready",
                   "embryo", "free"}
    BY DEF Labels, CallLabels
  <2> QED  BY <2>1, <2>2 DEF K!StatesAt
<1>2. /\ pc[active_proc] \notin {"embryo", "free"}
      /\ \/ rq.state[active_proc] = "READY"
         \/ pc[active_proc] \in {"zombie_remove", "zombie_resign", "zombie_loop"}
  BY DEF K!ActiveIsReady, K!Queued
<1>3. /\ IF next_free_pcb = NULL THEN \A p \in Proc : pc[p] # "free"
         ELSE \A p \in Proc : pc[p] = "free" <=> p >= next_free_pcb
      /\ \A p \in Proc : pc[p] = "free" =>
           rq.next[p] = IF p = MAX_PROCS - 1 THEN NULL ELSE p + 1
      /\ \A p \in Proc : pc[p] \in {"create_port", "create_ready"} =>
           new_proc[p] \in Proc /\ pc[new_proc[p]] = "embryo"
  BY DEF K!FreeListIsFree, K!EmbryosHaveOneCreator, K!Creating
<1> QED  BY <1>1, <1>2, <1>3

(* Every action of the kernel keeps its invariant. *)
LEMMA KernelStep ==
  ASSUME K!IInv, K!GNext
  PROVE  K!IInv' /\ K!HighestStep
<1>1. K!IInv' /\ (K!HighestStep \/ UNCHANGED K!allVars)
  BY KernelConstants, SizesAssumption, NullAssumption, PortsAssumption, K!NextInv
<1>2. UNCHANGED K!allVars => K!HighestStep
  BY DEF K!allVars, K!vars, K!schedVars, K!HighestStep
<1> QED  BY <1>1, <1>2

(* A dispatch that finds the reader ready runs it, and then com_process.   *)
LEMMA DispatchServesFirst ==
  ASSUME K!IInv', K!HighestStep, active_proc' = dispatcher(rq', active_proc),
         HavePriorities'
  PROVE  ServiceFirst'
<1>1. \A p \in K!Queued' : rq'.priority[p] <= rq'.priority[active_proc']
  <2>1. rq' \in K!QueueRecord /\ K!RingsHoldTheReady' /\ K!Queued' # {}
    <3>1. rq' \in K!QueueRecord /\ K!RingsHoldTheReady' /\ K!LabelsMatchStates'
      BY DEF K!IInv, K!GTypeOK, K!TypeOK
    <3>2. K!NullProcess \in K!Queued'
      BY <3>1, SameSets, KernelConstants DEF K!LabelsMatchStates, K!Queued
    <3> QED  BY <3>1, <3>2
  <2>2. active_proc' = K!dispatcher(rq', active_proc)
    BY SameRings
  <2> QED  BY <2>1, <2>2, K!DispatchedHighest, KernelConstants, SizesAssumption,
              NullAssumption, PortsAssumption
<1>2. ASSUME NEW p \in {2, 3}, Busy(p)'
      PROVE  active_proc' = 3 \/ (p = 2 /\ active_proc' = 2)
  <2>1. p \in K!Queued'
    BY <1>2, KernelConstants, SameSets DEF Busy, Exists, K!Queued
  <2>2. rq'.priority[p] = IF p = 2 THEN 6 ELSE 7
    BY <1>2 DEF HavePriorities, Busy, Exists, Service, Reader
  <2>3. active_proc' \in Proc /\ rq' \in QueueRecord /\ pc'[active_proc'] # "free"
    BY SameSets DEF K!IInv, K!GTypeOK, K!TypeOK, K!ActiveIsReady, K!Queued
  <2>4. rq'.priority[active_proc'] \in Int /\ rq'.priority[p] \in Int
    BY <2>3, <1>2, KernelConstants DEF QueueRecord, Priority
  <2>5. rq'.priority[active_proc'] >= IF p = 2 THEN 6 ELSE 7
    BY <1>1, <2>1, <2>2, <2>4
  <2>6. active_proc' \in {0, 1, 2, 3} \/ active_proc' > 3
    BY <2>3, KernelConstants DEF Proc
  <2>7. CASE active_proc' \in {0, 1} \/ active_proc' > 3
    BY <1>2, <2>3, <2>5, <2>7 DEF HavePriorities, Boot, NullProcess, Reader
  <2>8. CASE active_proc' = 2
    BY <1>2, <2>3, <2>5, <2>8 DEF HavePriorities, Service
  <2> QED  BY <2>6, <2>7, <2>8
<1> QED  BY <1>2 DEF ServiceFirst, Service, Reader

-----------------------------------------------------------------------------
(* What most steps leave alone *)

USE DEF Boot, NullProcess, Service, Reader, ComPort, WriterPort, ReaderPort

LEMMA Processes ==
  /\ 0 \in Proc /\ 1 \in Proc /\ 2 \in Proc /\ 3 \in Proc
  /\ Proc \subseteq Int /\ NULL \notin Int
  /\ \A p \in Proc : p = 0 \/ p = 1 \/ p = 2 \/ p = 3 \/ p > 3
BY KernelConstants DEF Service, Reader, Proc

(* Where a process is in its program tells which process it is. *)
LEMMA WhereTheyAre ==
  ASSUME ComInv
  PROVE  /\ at[0] \in {"init_com", "assign_com_port", "resign_com",
                       "create_programs", "dead"}
         /\ at[1] = "loop"
         /\ at[2] \in {"none", "com_process", "create_reader", "open_com_port"} \cup Working
         /\ at[3] \in {"none", "com_reader", "reader_start", "reader_loop", "read_byte"}
         /\ \A p \in Proc : p > 3 => at[p] \in {"none", "program"}
<1> USE Processes
<1>1. /\ at[0] \in {"init_com", "assign_com_port", "resign_com",
                       "create_programs", "dead"}
      /\ at[1] = "loop"
  BY DEF ComInv, Inv, BootStages, ProgramStages
<1>2. at[2] \in {"none", "com_process", "create_reader", "open_com_port"} \cup Working
  BY DEF ComInv, Inv, ServiceStages, Working
<1>3. at[3] \in {"none", "com_reader", "reader_start", "reader_loop", "read_byte"}
  BY DEF ComInv, Inv, ReaderStages
<1>4. \A p \in Proc : p > 3 => at[p] \in {"none", "program"}
  BY DEF ComInv, Inv, ProgramStages
<1> QED  BY <1>1, <1>2, <1>3, <1>4

LEMMA NoPanicIsKept ==
  ASSUME ComNeverPanics, halt' = halt, com_port' = com_port
  PROVE  ComNeverPanics'
BY Zenon DEF ComNeverPanics

(* The ports and counts of the senders, when nobody begins or ends to wait. *)
LEMMA SameWaiting ==
  ASSUME received' = received,
         \A p \in Proc : /\ rq'.state[p] \in {"SEND_BLOCKED", "MESSAGE_BLOCKED", "REPLY_BLOCKED"}
                              <=> rq.state[p] \in {"SEND_BLOCKED", "MESSAGE_BLOCKED", "REPLY_BLOCKED"}
                         /\ rq'.state[p] = "REPLY_BLOCKED" <=> rq.state[p] = "REPLY_BLOCKED"
                         /\ rq.state[p] = "REPLY_BLOCKED" => (InPcb(p)' <=> InPcb(p))
  PROVE  K!Unchanged
<1>1. SentTo' = SentTo
  BY DEF SentTo
<1>2. ToReply' = ToReply
  BY DEF ToReply
<1> QED  BY <1>1, <1>2 DEF K!Unchanged, K!NoResult, K!clientVars

(* A step that leaves the requests, the reader's work and the bytes alone. *)
requestVars == <<com_sender, reader_i, len_input_buffer, input_buffer, line, uart>>

LEMMA SamePhase ==
  ASSUME ComInv, UNCHANGED requestVars,
         Asked' <=> Asked, Serving' <=> Serving, Answered' <=> Answered,
         at'[2] = "send_cmd" <=> at[2] = "send_cmd",
         Asked \/ Answered => Messenger' = Messenger,
         Asked \/ at[2] = "send_cmd" => Content' = Content,
         Asked \/ Serving => rq'.state[3] = rq.state[3],
         Serving => at'[3] = at[3] /\ Told' = Told,
         ~Serving => ~ReaderHasRequest' /\ ~ReaderHasAnswer',
         \A p \in Proc : /\ rq'.state[p] = "REPLY_BLOCKED" <=> rq.state[p] = "REPLY_BLOCKED"
                         /\ rq'.state[p] = "SEND_BLOCKED" =>
                              rq.state[p] = "SEND_BLOCKED" /\ param_data'[p] = param_data[p]
  PROVE  OneCustomer' /\ ReaderIsAsked' /\ BuffersAreRight' /\ BytesAddUp'
<1> USE DEF ComInv, Inv, requestVars
<1>1. (InService' <=> InService) /\ (InService => Customer' = Customer)
  BY DEF InService, Customer
<1>2. Asked => at[2] = "start_reader" /\ at'[2] = "start_reader"
  BY DEF Asked
<1>3. OneCustomer'
  BY <1>1 DEF OneCustomer, InService, Serving
<1>4. /\ ReaderHasRequest' \/ ReaderHasAnswer' <=> Serving'
      /\ ReaderHasRequest' => Serving /\ (ReaderHasRequest' <=> ReaderHasRequest)
      /\ ReaderHasAnswer' => Serving /\ (ReaderHasAnswer' <=> ReaderHasAnswer)
      /\ Serving => (ReaderHasAnswer' <=> ReaderHasAnswer)
  BY DEF ReaderIsAsked, ReaderHasRequest, ReaderHasAnswer
<1>5. ReaderIsAsked'
  BY <1>4 DEF ReaderIsAsked
<1>6. \A p \in Proc : Fresh(p)' => Fresh(p)
  BY <1>1 DEF Fresh, InService, Serving
<1>7. BuffersAreRight'
  BY <1>6 DEF BuffersAreRight, Bytes
<1>8. /\ at'[3] \in {"reader_loop", "read_byte"} => Serving /\ at[3] = at'[3]
      /\ at'[3] = "reader_start" /\ Serving' => at[3] = "reader_start"
  BY <1>4 DEF ReaderHasRequest
<1>9. BytesAddUp'
  BY <1>4, <1>8 DEF BytesAddUp, Bytes, InUart
<1> QED  BY <1>3, <1>5, <1>7, <1>9

(* Neither com_process nor the reader gets further in its program. *)
LEMMA SameRequests ==
  ASSUME ComInv, UNCHANGED <<requestVars, received, param_proc, param_data>>,
         at'[2] = at[2], at'[3] = at[3],
         \A p \in Proc : rq'.state[p] = rq.state[p],
         pc'[2] = "receive" <=> pc[2] = "receive",
         pc'[3] = "receive" <=> pc[3] = "receive"
  PROVE  OneCustomer' /\ ReaderIsAsked' /\ BuffersAreRight' /\ BytesAddUp'
<1> USE Processes
<1>1. /\ Asked' <=> Asked
      /\ Serving' <=> Serving
      /\ Answered' <=> Answered
      /\ ReaderHasRequest' <=> ReaderHasRequest
      /\ ReaderHasAnswer' <=> ReaderHasAnswer
  BY DEF Asked, Serving, Answered, ReaderHasRequest, ReaderHasAnswer
<1>2. Messenger' = Messenger /\ Content' = Content /\ Told' = Told
  BY DEF Messenger, Content, Told
<1>3. ~Serving => ~ReaderHasRequest /\ ~ReaderHasAnswer
  BY DEF ComInv, Inv, ReaderIsAsked
<1> QED  BY <1>1, <1>2, <1>3, SamePhase

(* p has created process f, as far as the first part of create_process goes. *)
Created(p, f, entry, prio, next) ==
  /\ K!IInv' /\ halt' = halt /\ active_proc' = active_proc
  /\ f \in Proc /\ f # p /\ \A q \in Proc : pc[q] = "free" <=> q >= f
  /\ pc'[p] = "create_port" /\ pc'[f] = "embryo"
  /\ \A q \in Proc : q # p /\ q # f => pc'[q] = pc[q]
  /\ at'[p] = next /\ at'[f] = entry /\ at' \in [Proc -> Places]
  /\ \A q \in Proc : q # p /\ q # f => at'[q] = at[q]
  /\ new_proc'[p] = f /\ \A q \in Proc : q # p => new_proc'[q] = new_proc[q]
  /\ \A q \in Proc : rq'.state[q] = rq.state[q]
  /\ rq'.priority[f] = prio
  /\ \A q \in Proc : q # f => rq'.priority[q] = rq.priority[q]
  /\ ports'[f] = <<>> /\ \A q \in Proc : q # f => ports'[q] = ports[q]
  /\ CreatedBelow = f /\ CreatedBelow' = f + 1
  /\ UNCHANGED <<param_proc, param_data, port, next_free_port,
                 interrupt_table, received, ret>>

LEMMA CreateStep ==
  ASSUME ComInv, NEW p \in {0, 2}, NEW entry \in Places,
         NEW prio \in {5, 6, 7}, NEW next \in Places,
         Create(p, entry, prio, next), next_free_pcb # NULL
  PROVE  Created(p, next_free_pcb, entry, prio, next)
<1> DEFINE f == next_free_pcb
<1>1. /\ At(p, "user") /\ halt' = halt
      /\ next_free_pcb' = rq.next[next_free_pcb]
      /\ rq' = [rq EXCEPT !.state[next_free_pcb] = "READY",
                          !.priority[next_free_pcb] = prio]
      /\ ports' = [ports EXCEPT ![next_free_pcb] = <<>>]
      /\ new_proc' = [new_proc EXCEPT ![p] = next_free_pcb]
      /\ pc' = [pc EXCEPT ![p] = "create_port", ![next_free_pcb] = "embryo"]
      /\ UNCHANGED <<active_proc, ipcVars, next_free_port, interrupt_table,
                     received, ret>>
  <2>1. create_process(p, prio) /\ UNCHANGED <<received, ret>>
    BY DEF Create
  <2>2. ~(prio >= MAX_READY_QUEUES)
    BY RoomAssumption, SizesAssumption
  <2> QED  BY ONLY <2>1, <2>2, next_free_pcb # NULL DEF create_process
<1>2. /\ rq \in QueueRecord /\ pc \in [Proc -> Labels] /\ next_free_pcb \in ProcOrNull
      /\ new_proc \in [Proc -> ProcOrNull] /\ ports \in [Proc -> Seq(Port)]
      /\ at \in [Proc -> Places]
  BY KernelTypes DEF ComInv, Inv, Typed
<1>3. /\ f \in Proc /\ p \in Proc /\ pc[f] = "free" /\ f # p
      /\ rq.state[f] = "READY"
      /\ rq.next[f] = IF f = MAX_PROCS - 1 THEN NULL ELSE f + 1
      /\ \A q \in Proc : pc[q] = "free" <=> q >= f
  BY <1>1, <1>2, Processes, KernelPlaces DEF ComInv, ProcOrNull, At
<1>4. /\ pc'[p] = "create_port" /\ pc'[f] = "embryo"
      /\ \A q \in Proc : q # p /\ q # f => pc'[q] = pc[q]
      /\ new_proc'[p] = f /\ \A q \in Proc : q # p => new_proc'[q] = new_proc[q]
      /\ ports'[f] = <<>> /\ \A q \in Proc : q # f => ports'[q] = ports[q]
  BY <1>1, <1>2, <1>3
<1>5. /\ \A q \in Proc : rq'.state[q] = rq.state[q]
      /\ rq'.priority[f] = prio
      /\ \A q \in Proc : q # f => rq'.priority[q] = rq.priority[q]
  BY <1>1, <1>2, <1>3 DEF QueueRecord
<1>6. /\ at'[p] = next /\ at'[f] = entry /\ at' \in [Proc -> Places]
      /\ \A q \in Proc : q # p /\ q # f => at'[q] = at[q]
  <2>1. at' = [q \in Proc |-> CASE q = p -> next
                               [] q = next_free_pcb -> entry
                               [] OTHER -> at[q]]
    BY DEF Create
  <2> QED  BY ONLY <1>2, <1>3, <2>1, entry \in Places, next \in Places
<1>7. K!IInv'
  <2>1. K!Unchanged
    <3>1. \A q \in Proc : InPcb(q)' <=> InPcb(q)
      BY <1>1, <1>3, <1>4, <1>5, Processes DEF InPcb, ipcVars, At
    <3> QED  BY <1>1, <1>5, <3>1, SameWaiting
  <2>2. K!create_process(p, prio)
    BY <1>1, SameCalls DEF Create
  <2>3. K!CreateProcess(p) /\ p \in K!Programs
    BY <2>1, <2>2, SameSets, <1>3 DEF K!CreateProcess
  <2> QED  BY <2>3, KernelStep DEF K!GNext, K!Call, ComInv
<1>8. CreatedBelow = f /\ CreatedBelow' = f + 1
  BY <1>1, <1>3, Processes, SizesAssumption DEF CreatedBelow, Proc
<1> QED  BY <1>1, <1>3, <1>4, <1>5, <1>6, <1>7, <1>8 DEF ipcVars, Created

-----------------------------------------------------------------------------
(* The start *)

Running == {"user", "receive", "wait_for_interrupt"}

(* No step but the reply of com_process wakes a sender that waits for one. *)
NobodyIsAnswered ==
  \A p \in Proc : rq.state[p] = "REPLY_BLOCKED" => rq'.state[p] = "REPLY_BLOCKED"

(* The boot process creates com_process. *)
LEMMA InitComInv ==
  ASSUME ComInv, Runs(0, "init_com"), Create(0, "com_process", 6, "assign_com_port"),
         UNCHANGED comVars
  PROVE  ComInv' /\ NobodyIsAnswered
<1> USE Processes
<1>1. pc[0] = "user" /\ at[0] = "init_com" /\ active_proc = 0
  BY DEF Runs, At
<1>2. /\ pc[2] = "free" /\ next_free_port = 1 /\ com_port = NULL
      /\ pc[3] = "free" /\ at[2] = "none" /\ at[3] = "none"
      /\ pc[1] = "user" /\ rq.state[0] = "READY" /\ rq.state[2] = "READY"
      /\ rq.state[3] = "READY"
  <2>1. /\ pc[2] = "free" /\ next_free_port = 1 /\ com_port = NULL
        /\ rq.state[0] = "READY"
    BY <1>1 DEF ComInv, Inv, BootStages
  <2>2. at[2] = "none" /\ pc[3] = "free" /\ at[3] = "none" /\ pc[1] = "user"
    BY <2>1 DEF ComInv, Inv, ServiceStages, ReaderStages, ProgramStages
  <2> QED  BY <2>1, <2>2, KernelPlaces DEF ComInv
<1>3. 2 = next_free_pcb
  BY <1>2, KernelPlaces, KernelTypes DEF ComInv, ProcOrNull, Proc
<1>4. Created(0, 2, "com_process", 6, "assign_com_port")
  <2>1. "com_process" \in Places /\ "assign_com_port" \in Places
    BY DEF Places
  <2> QED  BY <1>3, <2>1, CreateStep
<1>5. \A q \in Proc : q # 0 /\ q # 1 => pc[q] = "free"
  BY <1>4 DEF Created
<1>6. UNCHANGED <<com_port, com_writer_port, requestVars>>
  BY DEF comVars, requestVars
<1> USE DEF ComInv, Inv, Created
<1>7. Typed' /\ OnlyTheLineIsAwaited' /\ ComNeverPanics'
  <2>1. Typed' /\ OnlyTheLineIsAwaited'
    BY <1>4, <1>6 DEF Typed, OnlyTheLineIsAwaited, requestVars
  <2> QED  BY <1>4, <1>6, <2>1, NoPanicIsKept
<1>8. BootStages'
  BY <1>2, <1>4, <1>6 DEF BootStages
<1>9. ServiceStages' /\ ReaderStages'
  BY <1>2, <1>4 DEF ServiceStages, ReaderStages
<1>10. ProgramStages'
  <2>1. \A q \in Proc : q > 3 => pc'[q] = "free" /\ at'[q] = "none"
    BY <1>4, <1>5 DEF ProgramStages
  <2>2. pc'[1] = "user" /\ at'[1] = "loop"
    BY <1>2, <1>4 DEF ProgramStages
  <2> QED  BY <2>1, <2>2 DEF ProgramStages
<1>11. PortsAreLeft' /\ PortsAreOwned' /\ PortsAreServed'
  <2>1. PortsAreLeft'
    BY <1>2, <1>4, <1>5 DEF PortsAreLeft, Exists
  <2>2. PortsAreOwned'
    BY <1>2, <1>4 DEF PortsAreOwned
  <2>3. PortsAreServed'
    BY <1>4 DEF PortsAreServed
  <2> QED  BY <2>1, <2>2, <2>3
<1>12. HavePriorities'
  BY <1>2, <1>4, <1>5 DEF HavePriorities
<1>13. ServiceFirst'
  BY <1>1, <1>4, <1>5 DEF ServiceFirst, Early, NoPrograms
<1>14. OneCustomer' /\ ReaderIsAsked' /\ BuffersAreRight' /\ BytesAddUp'
  BY <1>2, <1>4, <1>6, SamePhase
     DEF Asked, Serving, Answered, ReaderHasRequest, ReaderHasAnswer
<1> QED  BY <1>4, <1>7, <1>8, <1>9, <1>10, <1>11, <1>12, <1>13, <1>14 DEF NobodyIsAnswered

(* The boot process creates a program: com_process and the reader wait.    *)
LEMMA TheyWait ==
  ASSUME ComInv, active_proc = 0, at[0] \in {"create_programs", "dead"}
  PROVE  /\ Exists(Service) /\ Exists(Reader) /\ ~Busy(Service) /\ ~Busy(Reader)
         /\ pc[2] = "receive" /\ pc[3] \in Running
<1> USE Processes DEF ComInv, Inv
<1>1. ~Busy(Service) /\ ~Busy(Reader) /\ Exists(Service)
  BY DEF ServiceFirst, Early, BootStages
<1>2. pc[2] = "receive" /\ Exists(Reader)
  BY <1>1 DEF ServiceStages, Busy, Exists
<1> QED  BY <1>1, <1>2 DEF ReaderStages, Exists, Running

LEMMA CreateProgramInv ==
  ASSUME ComInv, Runs(0, "create_programs"), next_free_pcb # NULL,
         Create(0, "program", 5, "create_programs"),
         UNCHANGED comVars
  PROVE  ComInv' /\ NobodyIsAnswered
<1> USE Processes
<1>1. pc[0] = "user" /\ at[0] = "create_programs" /\ active_proc = 0
  BY DEF Runs, At
<1>2. /\ Exists(Service) /\ Exists(Reader) /\ ~Busy(Service) /\ ~Busy(Reader)
      /\ pc[2] = "receive" /\ pc[3] \in Running
  BY <1>1, TheyWait
<1>3. PICK f : /\ f = next_free_pcb
               /\ Created(0, f, "program", 5, "create_programs")
  <2>1. /\ "program" \in Places /\ "create_programs" \in Places
        /\ 0 \in {0, 2} /\ 5 \in {5, 6, 7}
    BY DEF Places
  <2>2. Created(0, next_free_pcb, "program", 5, "create_programs")
    BY <2>1, CreateStep
  <2> QED  BY <2>2
<1>4. f > 3
  <2>1. pc[0] # "free" /\ pc[1] # "free" /\ pc[2] # "free" /\ pc[3] # "free"
    BY <1>1, <1>2 DEF Exists, ComInv, Inv, ProgramStages
  <2>2. f \in Proc /\ \A q \in Proc : pc[q] = "free" <=> q >= f
    BY <1>3 DEF Created
  <2>3. f # 0 /\ f # 1 /\ f # 2 /\ f # 3
    BY <2>1, <2>2
  <2> QED  BY <2>2, <2>3
<1>5. UNCHANGED <<com_port, com_writer_port, requestVars>>
  BY DEF comVars, requestVars
<1> HIDE DEF Created
<1>6. /\ pc'[0] = "create_port" /\ at'[0] = "create_programs" /\ new_proc'[0] = f
      /\ pc'[f] = "embryo" /\ at'[f] = "program" /\ rq'.priority[f] = 5
      /\ \A q \in Proc : q # 0 /\ q # f => pc'[q] = pc[q] /\ at'[q] = at[q]
      /\ \A q \in Proc : q # f => /\ rq'.priority[q] = rq.priority[q]
                                  /\ ports'[q] = ports[q]
      /\ \A q \in Proc : rq'.state[q] = rq.state[q]
      /\ \A q \in Proc : q # 0 => new_proc'[q] = new_proc[q]
      /\ UNCHANGED <<param_proc, param_data, port, next_free_port,
                     interrupt_table, received, ret, halt, active_proc>>
      /\ at' \in [Proc -> Places] /\ CreatedBelow = f /\ CreatedBelow' = f + 1
      /\ K!IInv' /\ f \in Proc
  BY <1>3 DEF Created
<1> USE DEF ComInv, Inv
<1>7. Typed' /\ OnlyTheLineIsAwaited' /\ ComNeverPanics'
  <2>1. Typed' /\ OnlyTheLineIsAwaited'
    BY <1>5, <1>6 DEF Typed, OnlyTheLineIsAwaited, requestVars
  <2> QED  BY <1>5, <1>6, <2>1, NoPanicIsKept
<1>8. BootStages'
  BY <1>1, <1>2, <1>4, <1>5, <1>6 DEF BootStages, Exists
<1>9. ServiceStages' /\ ReaderStages'
  BY <1>4, <1>6 DEF ServiceStages, ReaderStages, Exists
<1>10. ProgramStages'
  <2>1. ~Early' /\ Exists(Reader)'
    BY <1>1, <1>2, <1>4, <1>6 DEF Early, Exists
  <2>2. pc'[1] = "user" /\ at'[1] = "loop"
    BY <1>4, <1>6 DEF ProgramStages
  <2>3. ASSUME NEW q \in Proc, q > 3 PROVE ProgramStages!2!(q)'
    <3>1. CASE q = f
      BY ONLY <1>6, <2>1, <3>1
    <3>2. CASE q # f
      <4>1. pc'[q] = pc[q] /\ at'[q] = at[q] /\ rq'.state[q] = rq.state[q]
        BY <1>6, <2>3, <3>2
      <4>2. ProgramStages!2!(q)
        BY <2>3 DEF ProgramStages
      <4> QED  BY ONLY <2>1, <4>1, <4>2
    <3> QED  BY <3>1, <3>2
  <2> QED  BY <2>2, <2>3 DEF ProgramStages
<1>11. PortsAreLeft'
  <2>1. next_free_port \in Int
    BY KernelTypes
  <2>2. next_free_port <= f
    BY <1>6 DEF PortsAreLeft
  <2>3. next_free_port' <= CreatedBelow' - 1
    BY <1>6, <2>1, <2>2
  <2> QED  BY <1>4, <1>6, <2>1, <2>3 DEF PortsAreLeft, Exists
<1>12. PortsAreOwned' /\ PortsAreServed'
  BY <1>4, <1>5, <1>6 DEF PortsAreOwned, PortsAreServed
<1>13. HavePriorities'
  <2>1. \A q \in Proc : q # f => (pc'[q] = "free" <=> pc[q] = "free")
    BY <1>1, <1>6
  <2>2. HavePriorities
    OBVIOUS
  <2> QED  BY ONLY <1>4, <1>6, <2>1, <2>2, Processes DEF HavePriorities
<1>14. ServiceFirst'
  BY <1>1, <1>2, <1>4, <1>6 DEF ServiceFirst, Busy, Exists
<1>15. OneCustomer' /\ ReaderIsAsked' /\ BuffersAreRight' /\ BytesAddUp'
  BY <1>4, <1>5, <1>6, SameRequests
<1> QED  BY <1>6, <1>7, <1>8, <1>9, <1>10, <1>11, <1>12, <1>13, <1>14, <1>15
         DEF NobodyIsAnswered

(* Where a process is inside of a call tells which process it is. *)
LEMMA CallersAre ==
  ASSUME ComInv, NEW p \in Proc
  PROVE  /\ pc[p] \in {"create_port", "create_ready"} => p = 0 \/ p = 2
         /\ pc[p] \in {"zombie_remove", "zombie_resign", "zombie_loop"} => p = 0
         /\ pc[p] = "receive" => p = 2 \/ p = 3
         /\ pc[p] = "wait_for_interrupt" => p = 3
<1> USE Processes DEF ComInv, Inv
<1>1. p = 0 => pc[p] \notin {"receive", "wait_for_interrupt"}
  BY DEF BootStages
<1>2. p = 1 => pc[p] = "user"
  BY DEF ProgramStages
<1>3. p = 2 => pc[p] \notin {"wait_for_interrupt", "zombie_remove",
                             "zombie_resign", "zombie_loop"}
  BY DEF ServiceStages
<1>4. p = 3 => pc[p] \in {"free", "embryo", "user", "receive", "wait_for_interrupt"}
  BY DEF ReaderStages
<1>5. p > 3 => pc[p] \in {"free", "embryo", "user"}
  BY DEF ProgramStages
<1> QED  BY <1>1, <1>2, <1>3, <1>4, <1>5

(* com_process creates its second port, before a program exists. *)
LEMMA ComPortsInv ==
  ASSUME ComInv, Runs(2, "com_process"), create_port(2),
         com_writer_port' = next_free_port, Jump(2, "create_reader"),
         UNCHANGED <<received, ret, com_port, requestVars>>
  PROVE  ComInv' /\ NobodyIsAnswered
<1> USE Processes
<1>1. pc[2] = "user" /\ at[2] = "com_process" /\ active_proc = 2
  BY DEF Runs, At
<1>2. /\ pc[3] = "free" /\ next_free_port = 2 /\ rq.state[2] = "READY"
      /\ next_free_port <= CreatedBelow - 1
  <2>1. ServiceStages /\ PortsAreLeft
    BY DEF ComInv, Inv
  <2>2. pc[3] = "free" /\ next_free_port = 2 /\ rq.state[2] = "READY"
    BY ONLY <1>1, <2>1 DEF ServiceStages, Working
  <2> QED  BY <1>1, <2>1, <2>2 DEF PortsAreLeft
<1>3. next_free_port \in Port /\ next_free_port # MAX_PORTS
  BY <1>2, KernelConstants DEF Port
<1>4. /\ create_new_port(2)
      /\ UNCHANGED <<schedVars, param_proc, param_data, next_blocked,
                     procVars, interrupt_table, halt, pc>>
  BY <1>3 DEF create_port, PortFull
<1>5. /\ ports \in [Proc -> Seq(Port)]
      /\ port \in [Port -> [open : BOOLEAN, owner : ProcOrNull,
                            blocked_list_head : ProcOrNull,
                            blocked_list_tail : ProcOrNull]]
  BY KernelTypes DEF ComInv
<1>6. /\ next_free_port' = 3 /\ port'[2].owner = 2
      /\ \A x \in Port : x # 2 => port'[x] = port[x]
      /\ ports'[2] = <<2>> \o ports[2]
      /\ \A q \in Proc : q # 2 => ports'[q] = ports[q]
  BY <1>2, <1>3, <1>4, <1>5 DEF create_new_port
<1>7. /\ at'[2] = "create_reader" /\ at' \in [Proc -> Places]
      /\ \A q \in Proc : q # 2 => at'[q] = at[q]
  BY DEF ComInv, Inv, Typed, Jump, Places
<1>8. /\ UNCHANGED <<rq, active_proc, param_proc, param_data, next_free_pcb,
                     new_proc, interrupt_table, halt, pc, received, ret,
                     com_port, requestVars>>
      /\ com_writer_port' = 2
  BY <1>2, <1>4 DEF schedVars, procVars
<1>9. K!IInv'
  <2>1. K!Unchanged
    BY <1>8, SameWaiting DEF InPcb
  <2>2. K!create_port(2)
    BY <1>8, SameCalls
  <2>3. K!CreatePort(2) /\ 2 \in K!Programs
    BY <2>1, <2>2, SameSets DEF K!CreatePort
  <2> QED  BY <2>3, KernelStep DEF K!GNext, K!Call, ComInv
<1> USE DEF ComInv, Inv
<1>10. Typed' /\ OnlyTheLineIsAwaited' /\ ComNeverPanics'
  <2>1. Typed' /\ OnlyTheLineIsAwaited'
    BY <1>7, <1>8 DEF Typed, OnlyTheLineIsAwaited, requestVars
  <2> QED  BY <1>8, <2>1, NoPanicIsKept
<1>11. BootStages'
  BY <1>1, <1>2, <1>6, <1>7, <1>8 DEF BootStages, Exists
<1>12. ServiceStages' /\ ReaderStages' /\ ProgramStages'
  <2>1. ServiceStages'
    BY <1>1, <1>2, <1>6, <1>7, <1>8 DEF ServiceStages
  <2>2. ReaderStages'
    BY <1>7, <1>8 DEF ReaderStages
  <2>3. ProgramStages'
    BY <1>7, <1>8 DEF ProgramStages, Exists, Early
  <2> QED  BY <2>1, <2>2, <2>3
<1>13. PortsAreLeft'
  <2>1. \A q \in Proc : pc[q] # "create_port"
    <3>1. pc[0] # "create_port"
      BY <1>1, <1>2 DEF BootStages, Exists
    <3> QED  BY <1>1, <3>1, CallersAre
  <2>2. CreatedBelow' = CreatedBelow /\ CreatedBelow \in Int
    <3>1. next_free_pcb \in ProcOrNull
      BY KernelTypes
    <3> QED  BY <1>8, <3>1, SizesAssumption DEF CreatedBelow, ProcOrNull
  <2> QED  BY <1>1, <1>2, <1>6, <1>7, <1>8, <2>1, <2>2 DEF PortsAreLeft, Exists
<1>14. PortsAreOwned' /\ PortsAreServed'
  <2>1. port'[1] = port[1] /\ ports[2] = <<1>> /\ port[1].owner = 2
    BY <1>2, <1>6, KernelConstants DEF PortsAreOwned
  <2>2. ports'[2] = <<2>> \o <<1>>
    BY <1>6, <2>1
  <2>3. <<2>> \in Seq(Port) /\ <<1>> \in Seq(Port)
    BY KernelConstants
  <2>4. Len(ports'[2]) = 2 /\ ports'[2][1] = 2 /\ ports'[2][2] = 1
    BY ONLY <2>2, <2>3
  <2>5. PortsAreOwned'
    BY ONLY <1>2, <1>6, <1>8, <2>1, <2>4 DEF PortsAreOwned
  <2>6. PortsAreServed'
    BY ONLY <1>7 DEF PortsAreServed
  <2> QED  BY <2>5, <2>6
<1>15. HavePriorities' /\ ServiceFirst'
  BY <1>1, <1>2, <1>7, <1>8 DEF HavePriorities, ServiceFirst, Early, NoPrograms, Busy, Exists
<1>16. OneCustomer' /\ ReaderIsAsked' /\ BuffersAreRight' /\ BytesAddUp'
  BY <1>1, <1>2, <1>7, <1>8, SamePhase
     DEF Asked, Serving, Answered, ReaderHasRequest, ReaderHasAnswer, ReaderIsAsked
<1> QED  BY <1>8, <1>9, <1>10, <1>11, <1>12, <1>13, <1>14, <1>15, <1>16
         DEF NobodyIsAnswered

(* com_process creates the reader. *)
LEMMA CreateReaderInv ==
  ASSUME ComInv, Runs(2, "create_reader"), Create(2, "com_reader", 7, "open_com_port"),
         UNCHANGED comVars
  PROVE  ComInv' /\ NobodyIsAnswered
<1> USE Processes
<1>1. pc[2] = "user" /\ at[2] = "create_reader" /\ active_proc = 2
  BY DEF Runs, At
<1>2. /\ pc[3] = "free" /\ at[3] = "none" /\ next_free_port = 3
      /\ rq.state[2] = "READY" /\ rq.state[3] = "READY" /\ pc[1] = "user"
  <2>1. pc[3] = "free" /\ next_free_port = 3 /\ rq.state[2] = "READY"
    <3>1. ServiceStages
      BY DEF ComInv, Inv
    <3> QED  BY ONLY <1>1, <3>1 DEF ServiceStages, Working
  <2>2. at[3] = "none" /\ pc[1] = "user" /\ rq.state[3] = "READY"
    BY <2>1, KernelPlaces DEF ComInv, Inv, ReaderStages, ProgramStages
  <2> QED  BY <2>1, <2>2
<1>3. 3 = next_free_pcb
  BY <1>1, <1>2, KernelPlaces, KernelTypes DEF ComInv, ProcOrNull, Proc
<1>4. Created(2, 3, "com_reader", 7, "open_com_port")
  <2>1. "com_reader" \in Places /\ "open_com_port" \in Places
    BY DEF Places
  <2> QED  BY <1>3, <2>1, CreateStep
<1>5. /\ pc'[2] = "create_port" /\ at'[2] = "open_com_port" /\ new_proc'[2] = 3
      /\ pc'[3] = "embryo" /\ at'[3] = "com_reader" /\ rq'.priority[3] = 7
      /\ \A q \in Proc : q # 2 /\ q # 3 => pc'[q] = pc[q] /\ at'[q] = at[q]
      /\ \A q \in Proc : q # 3 => /\ rq'.priority[q] = rq.priority[q]
                                  /\ ports'[q] = ports[q]
      /\ \A q \in Proc : rq'.state[q] = rq.state[q]
      /\ \A q \in Proc : q # 2 => new_proc'[q] = new_proc[q]
      /\ UNCHANGED <<param_proc, param_data, port, next_free_port,
                     interrupt_table, received, ret, halt, active_proc>>
      /\ at' \in [Proc -> Places] /\ CreatedBelow' = 4 /\ ports'[3] = <<>>
      /\ \A q \in Proc : pc[q] = "free" <=> q >= 3
      /\ K!IInv'
  BY ONLY <1>4, Processes DEF Created
<1>6. UNCHANGED <<com_port, com_writer_port, requestVars>>
  BY DEF comVars, requestVars
<1>7. \A q \in Proc : q > 3 => pc[q] = "free"
  BY <1>5
<1> USE DEF ComInv, Inv
<1>8. Typed' /\ OnlyTheLineIsAwaited' /\ ComNeverPanics'
  <2>1. Typed' /\ OnlyTheLineIsAwaited'
    BY <1>5, <1>6 DEF Typed, OnlyTheLineIsAwaited, requestVars
  <2> QED  BY <1>5, <1>6, <2>1, NoPanicIsKept
<1>9. BootStages'
  BY <1>1, <1>2, <1>5, <1>6 DEF BootStages, Exists
<1>10. ServiceStages' /\ ReaderStages'
  BY <1>2, <1>5 DEF ServiceStages, ReaderStages
<1>11. ProgramStages'
  BY <1>2, <1>5, <1>7 DEF ProgramStages
<1>12. PortsAreLeft'
  BY <1>2, <1>5 DEF PortsAreLeft, Exists
<1>13. PortsAreOwned' /\ PortsAreServed'
  BY <1>1, <1>2, <1>5, <1>6 DEF PortsAreOwned, PortsAreServed
<1>14. HavePriorities'
  <2>1. pc[2] # "free" /\ HavePriorities
    BY <1>1
  <2>2. \A q \in Proc : q # 3 => rq'.priority[q] = rq.priority[q]
    BY <1>5
  <2>3. rq'.priority[3] = 7
    BY <1>5
  <2>4. \A q \in Proc : q > 3 => pc'[q] = "free"
    BY <1>5, <1>7
  <2> QED  BY ONLY <2>1, <2>2, <2>3, <2>4, Processes, KernelConstants DEF HavePriorities
<1>15. ServiceFirst'
  <2>1. \A q \in Proc : q > 3 => pc'[q] = "free"
    BY <1>5, <1>7
  <2>2. active_proc' = 2
    BY <1>1, <1>5
  <2> QED  BY ONLY <2>1, <2>2 DEF ServiceFirst, NoPrograms
<1>16. OneCustomer' /\ ReaderIsAsked' /\ BuffersAreRight' /\ BytesAddUp'
  BY <1>1, <1>2, <1>5, <1>6, SamePhase
     DEF Asked, Serving, Answered, ReaderHasRequest, ReaderHasAnswer
<1> QED  BY <1>5, <1>8, <1>9, <1>10, <1>11, <1>12, <1>13, <1>14, <1>15, <1>16
         DEF NobodyIsAnswered

(* The second part of create_process: process f gets port po. *)
Ported(p, f, po) ==
  /\ K!IInv' /\ halt' = halt /\ active_proc' = active_proc
  /\ f = new_proc[p] /\ f \in Proc /\ pc[f] = "embryo" /\ pc[p] = "create_port"
  /\ po = next_free_port /\ po \in Port /\ next_free_port' = po + 1
  /\ pc'[p] = "create_ready" /\ \A q \in Proc : q # p => pc'[q] = pc[q]
  /\ port'[po].owner = f /\ port'[po].open
  /\ \A x \in Port : x # po => port'[x] = port[x]
  /\ ports'[f] = <<po>> \o ports[f] /\ \A q \in Proc : q # f => ports'[q] = ports[q]
  /\ CreatedBelow' = CreatedBelow
  /\ UNCHANGED <<rq, new_proc, param_proc, param_data, interrupt_table,
                 received, at, ret>>

LEMMA PortStep ==
  ASSUME ComInv, NEW p \in Proc, create_process_port(p),
         UNCHANGED <<received, at, ret>>
  PROVE  Ported(p, new_proc[p], next_free_port)
<1> DEFINE f == new_proc[p]
           po == next_free_port
<1>1. /\ rq \in QueueRecord /\ pc \in [Proc -> Labels] /\ next_free_pcb \in ProcOrNull
      /\ ports \in [Proc -> Seq(Port)] /\ po \in Int /\ po >= 0
      /\ port \in [Port -> [open : BOOLEAN, owner : ProcOrNull,
                            blocked_list_head : ProcOrNull,
                            blocked_list_tail : ProcOrNull]]
  BY KernelTypes DEF ComInv
<1>2. At(p, "create_port") /\ pc[p] = "create_port"
  BY DEF create_process_port, At
<1>3. f \in Proc /\ pc[f] = "embryo"
  BY <1>2, KernelPlaces DEF ComInv
<1>4. po \in Port /\ po < MAX_PORTS
  <2>1. po <= CreatedBelow - 1
    BY <1>2 DEF ComInv, Inv, PortsAreLeft
  <2>2. CreatedBelow \in Int /\ CreatedBelow <= MAX_PROCS
    BY <1>1, Processes, SizesAssumption DEF CreatedBelow, ProcOrNull, Proc
  <2> QED  BY <1>1, <2>1, <2>2, RoomAssumption, SizesAssumption, PortsAssumption DEF Port
<1>5. /\ create_new_port(f) /\ Goto(p, "create_ready")
      /\ UNCHANGED <<schedVars, param_proc, param_data, next_blocked,
                     procVars, interrupt_table, halt>>
  <2>1. po # MAX_PORTS
    BY <1>4, PortsAssumption
  <2> QED  BY <2>1 DEF create_process_port, PortFull
<1>6. /\ pc'[p] = "create_ready" /\ \A q \in Proc : q # p => pc'[q] = pc[q]
      /\ next_free_port' = po + 1
      /\ port'[po].owner = f /\ port'[po].open
      /\ \A x \in Port : x # po => port'[x] = port[x]
      /\ ports'[f] = <<po>> \o ports[f]
      /\ \A q \in Proc : q # f => ports'[q] = ports[q]
  BY <1>1, <1>3, <1>4, <1>5 DEF create_new_port, Goto
<1>7. UNCHANGED <<rq, active_proc, param_proc, param_data, next_free_pcb,
                  new_proc, interrupt_table, halt, received, at, ret>>
  BY <1>5 DEF schedVars, procVars
<1>8. K!IInv'
  <2>1. \A q \in Proc : InPcb(q)' <=> InPcb(q)
    BY <1>2, <1>6, <1>7, Processes DEF InPcb
  <2>2. K!Unchanged
    BY <1>7, <2>1, SameWaiting
  <2>3. K!create_process_port(p)
    BY <1>7, SameCalls
  <2>4. p # 1
    BY <1>2, CallersAre
  <2>5. K!CreateProcessPort(p) /\ p \in K!Programs
    BY <2>2, <2>3, <2>4, SameSets DEF K!CreateProcessPort
  <2> QED  BY <2>5, KernelStep DEF K!GNext, K!Call, ComInv
<1>9. CreatedBelow' = CreatedBelow
  BY <1>7 DEF CreatedBelow
<1> QED  BY <1>2, <1>3, <1>4, <1>6, <1>7, <1>8, <1>9 DEF Ported

(* The last part: process f is put on a ready queue. *)
Started(p, f) ==
  /\ K!IInv' /\ halt' = halt /\ active_proc' = active_proc
  /\ f = new_proc[p] /\ f \in Proc /\ f # p /\ pc[f] = "embryo" /\ pc[p] = "create_ready"
  /\ pc'[p] = "user" /\ pc'[f] = "user"
  /\ \A q \in Proc : q # p /\ q # f => pc'[q] = pc[q]
  /\ \A q \in Proc : rq'.state[q] = rq.state[q] /\ rq'.priority[q] = rq.priority[q]
  /\ \A q \in Proc : q # p => new_proc'[q] = new_proc[q]
  /\ ret' = [ret EXCEPT ![p] = Head(ports[f])]
  /\ CreatedBelow' = CreatedBelow
  /\ UNCHANGED <<param_proc, param_data, port, ports, next_free_port,
                 interrupt_table, received, at>>

LEMMA StartStep ==
  ASSUME ComInv, NEW p \in Proc, create_process_ready(p),
         ret' = [ret EXCEPT ![p] = Head(ports[new_proc[p]])],
         UNCHANGED <<received, at>>
  PROVE  Started(p, new_proc[p])
<1> DEFINE f == new_proc[p]
<1>1. /\ rq \in QueueRecord /\ pc \in [Proc -> Labels] /\ new_proc \in [Proc -> ProcOrNull]
  BY KernelTypes DEF ComInv
<1>2. At(p, "create_ready") /\ pc[p] = "create_ready"
  BY DEF create_process_ready, At
<1>3. f \in Proc /\ pc[f] = "embryo" /\ f # p /\ rq.state[f] = "READY"
  BY <1>2, KernelPlaces DEF ComInv
<1>4. /\ pc'[p] = "user" /\ pc'[f] = "user"
      /\ \A q \in Proc : q # p /\ q # f => pc'[q] = pc[q]
      /\ \A q \in Proc : q # p => new_proc'[q] = new_proc[q]
  BY <1>1, <1>3 DEF create_process_ready
<1>5. \A q \in Proc : rq'.state[q] = rq.state[q] /\ rq'.priority[q] = rq.priority[q]
  <2>1. rq' = add_ready_queue(rq, f)
    BY DEF create_process_ready
  <2>2. rq'.state = [rq.state EXCEPT ![f] = "READY"] /\ rq'.priority = rq.priority
    BY <1>1, <1>3, <2>1, StateOf
  <2> QED  BY <1>1, <1>3, <2>2 DEF QueueRecord
<1>6. UNCHANGED <<active_proc, param_proc, param_data, port, ports,
                  next_free_port, next_free_pcb, interrupt_table, halt, received>>
  BY DEF create_process_ready, ipcVars, portVars
<1>7. K!IInv'
  <2>1. \A q \in Proc : InPcb(q)' <=> InPcb(q)
    BY <1>2, <1>3, <1>4, <1>5, <1>6, Processes DEF InPcb
  <2>2. K!Unchanged
    BY <1>5, <1>6, <2>1, SameWaiting
  <2>3. K!create_process_ready(p)
    BY <1>6, SameCalls
  <2>4. p # 1
    BY <1>2, CallersAre
  <2>5. K!CreateProcessReady(p) /\ p \in K!Programs
    BY <2>2, <2>3, <2>4, SameSets DEF K!CreateProcessReady
  <2> QED  BY <2>5, KernelStep DEF K!GNext, K!Call, ComInv
<1>8. CreatedBelow' = CreatedBelow
  BY <1>6 DEF CreatedBelow
<1> QED  BY <1>2, <1>3, <1>4, <1>5, <1>6, <1>7, <1>8 DEF Started

(* Whose create_process it is. *)
LEMMA Creations ==
  ASSUME ComInv, NEW p \in Proc, pc[p] \in {"create_port", "create_ready"},
         active_proc = p
  PROVE  /\ \/ /\ p = 0 /\ at[0] = "assign_com_port" /\ new_proc[0] = 2
               /\ pc[2] = "embryo" /\ at[2] = "com_process" /\ pc[3] = "free"
               /\ next_free_port = IF pc[0] = "create_port" THEN 1 ELSE 2
            \/ /\ p = 0 /\ at[0] = "create_programs" /\ new_proc[0] > 3
               /\ pc[2] = "receive" /\ pc[3] \in Running
               /\ ~Busy(Service) /\ ~Busy(Reader) /\ next_free_port >= 4
            \/ /\ p = 2 /\ at[2] = "open_com_port" /\ new_proc[2] = 3
               /\ pc[3] = "embryo" /\ at[3] = "com_reader" /\ pc[0] = "user"
               /\ next_free_port = IF pc[2] = "create_port" THEN 3 ELSE 4
               /\ NoPrograms
         /\ \A q \in Proc : q # p => pc[q] \notin {"create_port", "create_ready"}
<1> USE Processes DEF ComInv, Inv
<1>1. p = 0 \/ p = 2
  BY CallersAre
<1>2. CASE p = 0
  <2>1. \/ /\ at[0] = "assign_com_port" /\ new_proc[0] = 2 /\ pc[2] = "embryo"
           /\ next_free_port = IF pc[0] = "create_port" THEN 1 ELSE 2
        \/ at[0] = "create_programs" /\ new_proc[0] > 3
    BY <1>2 DEF BootStages
  <2>2. CASE at[0] = "assign_com_port"
    <3>1. pc[2] = "embryo" /\ at[2] = "com_process" /\ pc[3] = "free"
      BY <2>1, <2>2 DEF ServiceStages
    <3> QED  BY <1>2, <2>1, <2>2, <3>1, CallersAre
  <2>3. CASE at[0] = "create_programs"
    <3>1. /\ pc[2] = "receive" /\ pc[3] \in Running
          /\ ~Busy(Service) /\ ~Busy(Reader) /\ Exists(Reader)
      BY <1>2, <2>3, TheyWait
    <3>2. next_free_port >= 4
      BY <3>1 DEF PortsAreLeft
    <3> QED  BY <1>2, <2>1, <2>3, <3>1, <3>2, CallersAre
  <2> QED  BY <2>1, <2>2, <2>3
<1>3. CASE p = 2
  <2>1. /\ at[2] = "open_com_port" /\ new_proc[2] = 3 /\ pc[3] = "embryo"
        /\ next_free_port = IF pc[2] = "create_port" THEN 3 ELSE 4
    BY <1>3 DEF ServiceStages
  <2>2. at[3] = "com_reader" /\ ~Exists(Reader)
    BY <2>1 DEF ReaderStages, Exists
  <2>3. pc[0] = "user"
    BY <1>3, <2>1, <2>2 DEF BootStages, Exists
  <2>4. NoPrograms
    BY <2>2 DEF ProgramStages, NoPrograms
  <2> QED  BY <1>3, <2>1, <2>2, <2>3, <2>4, CallersAre
<1> QED  BY <1>1, <1>2, <1>3

LEMMA CreateProcessPortInv ==
  ASSUME ComInv, NEW p \in Proc, create_process_port(p),
         UNCHANGED <<received, at, ret, comVars>>
  PROVE  ComInv' /\ NobodyIsAnswered
<1> USE Processes
<1>1. PICK f, po : Ported(p, f, po)
  BY PortStep
<1>2. active_proc = p /\ pc[p] = "create_port"
  BY DEF create_process_port, At
<1>3. UNCHANGED <<com_port, com_writer_port, requestVars>>
  BY DEF comVars, requestVars
<1>4. /\ \/ /\ p = 0 /\ at[0] = "assign_com_port" /\ f = 2 /\ po = 1
            /\ pc[2] = "embryo" /\ at[2] = "com_process" /\ pc[3] = "free"
         \/ /\ p = 0 /\ at[0] = "create_programs" /\ f > 3 /\ po >= 4
            /\ pc[2] = "receive" /\ pc[3] \in Running
            /\ ~Busy(Service) /\ ~Busy(Reader)
         \/ /\ p = 2 /\ at[2] = "open_com_port" /\ f = 3 /\ po = 3
            /\ pc[3] = "embryo" /\ at[3] = "com_reader" /\ pc[0] = "user" /\ NoPrograms
      /\ \A q \in Proc : q # p => pc[q] \notin {"create_port", "create_ready"}
  BY <1>1, <1>2, Creations DEF Ported
<1>5. /\ next_free_port <= CreatedBelow - 1
      /\ CreatedBelow \in Int /\ next_free_port \in Int
  <2>1. next_free_pcb \in ProcOrNull /\ next_free_port \in 0 .. MAX_PORTS
    BY KernelTypes DEF ComInv
  <2>2. CreatedBelow \in Int
    BY <2>1, SizesAssumption DEF CreatedBelow, ProcOrNull
  <2>3. next_free_port <= CreatedBelow - 1
    BY <1>2 DEF ComInv, Inv, PortsAreLeft
  <2> QED  BY <2>1, <2>2, <2>3, PortsAssumption
<1>6. /\ f = new_proc[p] /\ f \in Proc /\ pc[f] = "embryo"
      /\ po = next_free_port /\ po \in Port /\ next_free_port' = po + 1
      /\ pc'[p] = "create_ready" /\ \A q \in Proc : q # p => pc'[q] = pc[q]
      /\ port'[po].owner = f /\ port'[po].open
      /\ \A x \in Port : x # po => port'[x] = port[x]
      /\ ports'[f] = <<po>> \o ports[f] /\ \A q \in Proc : q # f => ports'[q] = ports[q]
      /\ CreatedBelow' = CreatedBelow
      /\ UNCHANGED <<rq, new_proc, param_proc, param_data, interrupt_table,
                     received, at, ret, halt, active_proc>>
      /\ K!IInv'
  BY <1>1 DEF Ported
<1> USE DEF ComInv, Inv
<1>7. Typed' /\ OnlyTheLineIsAwaited' /\ ComNeverPanics'
  <2>1. Typed' /\ OnlyTheLineIsAwaited'
    BY <1>3, <1>6 DEF Typed, OnlyTheLineIsAwaited, requestVars
  <2> QED  BY <1>3, <1>6, <2>1, NoPanicIsKept
<1>8. BootStages'
  <2>1. Exists(Service) => Exists(Service)'
    BY <1>4, <1>6 DEF Exists
  <2>2. Exists(Reader) => Exists(Reader)'
    BY <1>4, <1>6 DEF Exists
  <2>3. CASE p = 0 /\ f = 2
    <3>1. /\ pc'[0] = "create_ready" /\ pc'[2] = "embryo" /\ new_proc'[0] = 2
          /\ next_free_port' = 2 /\ at'[0] = "assign_com_port"
          /\ rq'.state[0] = rq.state[0] /\ com_port' = com_port
      BY <1>3, <1>4, <1>6, <2>3
    <3> QED  BY <1>4, <2>3, <3>1 DEF BootStages
  <2>4. CASE p = 0 /\ f > 3
    <3>1. /\ pc'[0] = "create_ready" /\ new_proc'[0] = new_proc[0] /\ new_proc[0] = f
          /\ at'[0] = "create_programs"
          /\ rq'.state[0] = rq.state[0] /\ com_port' = com_port
      BY <1>3, <1>4, <1>6, <2>4
    <3>2. Exists(Service)' /\ Exists(Reader)'
      BY <1>4, <1>6, <2>4 DEF Exists, Running
    <3> QED  BY <1>4, <2>4, <3>1, <3>2 DEF BootStages
  <2>5. CASE p = 2
    <3>1. /\ pc'[0] = "user" /\ pc[0] = "user" /\ at'[0] = at[0] /\ ret' = ret
          /\ rq'.state[0] = rq.state[0] /\ com_port' = com_port
      BY <1>3, <1>4, <1>6, <2>5
    <3>2. pc[2] # "free" /\ BootStages
      BY <1>2, <2>5
    <3> QED  BY ONLY <2>1, <2>2, <3>1, <3>2 DEF BootStages
  <2> QED  BY <1>4, <2>3, <2>4, <2>5
<1>9. ServiceStages'
  BY <1>4, <1>6 DEF ServiceStages, Exists
<1>10. ReaderStages' /\ ProgramStages'
  <2>1. ReaderStages'
    BY <1>4, <1>6 DEF ReaderStages
  <2>2. ProgramStages'
    BY <1>4, <1>6 DEF ProgramStages, Exists, Early
  <2> QED  BY <2>1, <2>2
<1>11. PortsAreLeft'
  <2>1. next_free_port' <= CreatedBelow'
    BY <1>5, <1>6
  <2>2. \A q \in Proc : pc'[q] # "create_port"
    BY <1>4, <1>6
  <2>3. CASE f = 2
    <3>1. po = 1 /\ at[2] = "com_process" /\ pc[2] = "embryo" /\ pc[3] = "free" /\ p = 0
      BY <1>4, <2>3
    <3>2. /\ next_free_port' = 2 /\ next_free_port = 1
          /\ pc'[2] = "embryo" /\ pc'[3] = "free"
      BY <1>6, <3>1
    <3>3. 2 <= CreatedBelow' - 1
      <4>1. \A q \in Proc : pc[q] = "free" => q >= CreatedBelow
        <5>1. \A q \in Proc : q < MAX_PROCS
          BY SizesAssumption DEF Proc
        <5> QED  BY <5>1, KernelPlaces, SizesAssumption DEF CreatedBelow
      <4>2. 2 < CreatedBelow
        <5>1. next_free_pcb \in ProcOrNull
          BY KernelTypes
        <5> QED  BY <3>1, <5>1, KernelPlaces, SizesAssumption, KernelConstants
                 DEF CreatedBelow, ProcOrNull
      <4> QED  BY ONLY <1>5, <1>6, <4>2
    <3> QED  BY ONLY <2>1, <2>2, <3>2, <3>3 DEF PortsAreLeft, Exists
  <2>4. CASE f # 2
    <3>1. po \in Int /\ po >= 3
      BY ONLY <1>4, <1>5, <1>6, <2>4
    <3>2. next_free_port' \in Int /\ next_free_port' >= 4
      BY ONLY <1>6, <3>1
    <3>3. at'[2] # "com_process" /\ pc'[2] \notin {"free", "embryo"}
      <4>1. CASE p = 2
        BY <1>4, <1>6, <4>1
      <4>2. CASE p = 0
        <5>1. pc[2] = "receive" /\ pc'[2] = pc[2] /\ at'[2] = at[2]
          BY <1>4, <1>6, <2>4, <4>2
        <5>2. ServiceStages
          OBVIOUS
        <5> QED  BY ONLY <5>1, <5>2 DEF ServiceStages, Working
      <4> QED  BY <1>4, <4>1, <4>2
    <3> QED  BY ONLY <2>1, <2>2, <3>2, <3>3 DEF PortsAreLeft, Exists
  <2> QED  BY <2>3, <2>4
<1>12. PortsAreOwned'
  <2>1. ports[f] = <<>> => ports'[f] = <<po>>
    BY <1>6
  <2>2. CASE f = 2
    <3>1. ports[2] = <<>>
      BY <1>4, <1>6, <2>2 DEF PortsAreOwned
    <3> QED  BY <1>4, <1>6, <2>1, <2>2, <3>1 DEF PortsAreOwned
  <2>3. CASE f = 3
    <3>1. ports[3] = <<>>
      BY <1>4, <1>6, <2>3 DEF PortsAreOwned
    <3>2. port'[1] = port[1] /\ port'[2] = port[2] /\ ports'[2] = ports[2]
      BY <1>4, <1>6, <2>3, KernelConstants
    <3> QED  BY <1>3, <1>4, <1>6, <2>1, <2>3, <3>1, <3>2 DEF PortsAreOwned
  <2>4. CASE f > 3
    <3>1. /\ port'[1] = port[1] /\ port'[2] = port[2] /\ port'[3] = port[3]
          /\ ports'[2] = ports[2] /\ ports'[3] = ports[3]
          /\ next_free_port >= 4 /\ next_free_port' >= 4
      BY <1>4, <1>5, <1>6, <2>4, KernelConstants
    <3> QED  BY <1>3, <1>5, <1>6, <3>1 DEF PortsAreOwned
  <2> QED  BY <1>4, <2>2, <2>3, <2>4
<1>13. PortsAreServed'
  <2>1. CASE f > 3
    <3>1. port'[1] = port[1] /\ port'[2] = port[2]
      BY <1>4, <1>6, <2>1, KernelConstants
    <3> QED  BY <1>6, <3>1 DEF PortsAreServed
  <2> QED  BY <1>4, <1>6, <2>1 DEF PortsAreServed
<1>14. HavePriorities' /\ ServiceFirst'
  <2>1. \A q \in Proc : pc'[q] = "free" <=> pc[q] = "free"
    BY <1>2, <1>6
  <2>2. HavePriorities'
    BY <1>6, <2>1 DEF HavePriorities
  <2>3. ServiceFirst'
    BY <1>2, <1>4, <1>6, <2>1 DEF ServiceFirst, Busy, Exists, NoPrograms, Early
  <2> QED  BY <2>2, <2>3
<1>15. OneCustomer' /\ ReaderIsAsked' /\ BuffersAreRight' /\ BytesAddUp'
  BY <1>2, <1>3, <1>6, SameRequests
<1> QED  BY <1>6, <1>7, <1>8, <1>9, <1>10, <1>11, <1>12, <1>13, <1>14, <1>15
         DEF NobodyIsAnswered

LEMMA CreateProcessReadyInv ==
  ASSUME ComInv, NEW p \in Proc, create_process_ready(p),
         ret' = [ret EXCEPT ![p] = Head(ports[new_proc[p]])],
         UNCHANGED <<received, at, comVars>>
  PROVE  ComInv' /\ NobodyIsAnswered
<1> USE Processes
<1>1. PICK f : Started(p, f)
  BY StartStep
<1>2. active_proc = p /\ pc[p] = "create_ready"
  BY DEF create_process_ready, At
<1>3. UNCHANGED <<com_port, com_writer_port, requestVars>>
  BY DEF comVars, requestVars
<1>4. /\ \/ /\ p = 0 /\ at[0] = "assign_com_port" /\ f = 2 /\ next_free_port = 2
            /\ pc[2] = "embryo" /\ at[2] = "com_process" /\ pc[3] = "free"
         \/ /\ p = 0 /\ at[0] = "create_programs" /\ f > 3
            /\ pc[2] = "receive" /\ pc[3] \in Running
            /\ ~Busy(Service) /\ ~Busy(Reader)
         \/ /\ p = 2 /\ at[2] = "open_com_port" /\ f = 3 /\ next_free_port = 4
            /\ pc[3] = "embryo" /\ at[3] = "com_reader" /\ pc[0] = "user" /\ NoPrograms
      /\ \A q \in Proc : q # p => pc[q] \notin {"create_port", "create_ready"}
  BY <1>1, <1>2, Creations DEF Started
<1>5. /\ f \in Proc /\ f # p /\ pc[f] = "embryo"
      /\ pc'[p] = "user" /\ pc'[f] = "user"
      /\ \A q \in Proc : q # p /\ q # f => pc'[q] = pc[q]
      /\ \A q \in Proc : rq'.state[q] = rq.state[q] /\ rq'.priority[q] = rq.priority[q]
      /\ \A q \in Proc : q # p => new_proc'[q] = new_proc[q]
      /\ CreatedBelow' = CreatedBelow
      /\ UNCHANGED <<param_proc, param_data, port, ports, next_free_port,
                     interrupt_table, received, at, halt, active_proc>>
      /\ K!IInv'
  BY <1>1 DEF Started
<1>6. rq.state[f] = "READY" /\ rq.state[p] = "READY"
  BY <1>2, <1>5, KernelPlaces DEF ComInv
<1>7. /\ ret' = [q \in Proc |-> ret'[q]]
      /\ f = 2 => ret'[0] = 1
      /\ f = 3 => ret'[2] = 3
      /\ f > 3 => ret'[2] = ret[2]
  <2>1. ret' = [ret EXCEPT ![p] = Head(ports[f])] /\ ret = [q \in Proc |-> ret[q]]
    BY <1>1 DEF Started, ComInv, Inv, Typed
  <2>2. (f = 2 => ports[2] = <<1>>) /\ (f = 3 => ports[3] = <<3>>)
    BY <1>4, <1>5 DEF ComInv, Inv, PortsAreOwned
  <2>3. (f = 2 => ret'[0] = 1) /\ (f = 3 => ret'[2] = 3)
    BY <1>4, <2>1, <2>2
  <2>4. f > 3 => ret'[2] = ret[2]
    BY <1>4, <2>1
  <2> QED  BY <2>1, <2>3, <2>4
<1> USE DEF ComInv, Inv
<1>8. Typed' /\ OnlyTheLineIsAwaited' /\ ComNeverPanics'
  <2>1. Typed' /\ OnlyTheLineIsAwaited'
    BY <1>3, <1>5, <1>7 DEF Typed, OnlyTheLineIsAwaited, requestVars
  <2> QED  BY <1>3, <1>5, <2>1, NoPanicIsKept
<1>9. BootStages'
  BY <1>3, <1>4, <1>5, <1>7 DEF BootStages, Exists
<1>10. ServiceStages'
  BY <1>4, <1>5, <1>6, <1>7 DEF ServiceStages, Exists, Working, Running
<1>11. ReaderStages'
  BY <1>4, <1>5, <1>6 DEF ReaderStages
<1>12. ProgramStages'
  <2>1. pc'[1] = "user" /\ at'[1] = "loop"
    BY <1>4, <1>5 DEF ProgramStages
  <2>2. Early' = Early
    BY <1>5 DEF Early
  <2>3. Exists(Reader) => Exists(Reader)'
    BY <1>5 DEF Exists
  <2>4. ASSUME NEW q \in Proc, q > 3 PROVE ProgramStages!2!(q)'
    <3>1. ProgramStages!2!(q)
      BY <2>4 DEF ProgramStages
    <3>2. CASE q = f
      BY <1>5, <1>6, <2>2, <2>3, <2>4, <3>1, <3>2
    <3>3. CASE q # f
      <4>1. q # p
        BY <1>4, <2>4
      <4>2. pc'[q] = pc[q] /\ at'[q] = at[q] /\ rq'.state[q] = rq.state[q]
        BY <1>5, <3>3, <4>1
      <4> QED  BY ONLY <2>2, <2>3, <3>1, <4>2
    <3> QED  BY <3>2, <3>3
  <2> QED  BY <2>1, <2>4 DEF ProgramStages
<1>13. PortsAreLeft'
  <2>1. PortsAreLeft
    OBVIOUS
  <2>2. \A q \in Proc : pc'[q] = "create_port" => pc[q] = "create_port"
    BY <1>5
  <2>3. pc'[2] \in {"free", "embryo"} => pc[2] \in {"free", "embryo"}
    BY <1>5
  <2>4. next_free_port >= 2 /\ (Exists(Reader)' => next_free_port >= 4)
    BY <1>4, <1>5, <2>1 DEF PortsAreLeft, Exists
  <2> QED  BY ONLY <1>5, <2>1, <2>2, <2>3, <2>4 DEF PortsAreLeft
<1>14. PortsAreOwned' /\ PortsAreServed'
  BY <1>3, <1>4, <1>5 DEF PortsAreOwned, PortsAreServed
<1>15. HavePriorities' /\ ServiceFirst'
  <2>1. \A q \in Proc : pc'[q] = "free" <=> pc[q] = "free"
    BY <1>2, <1>5
  <2>2. HavePriorities'
    BY <1>5, <2>1 DEF HavePriorities
  <2>3. ServiceFirst'
    BY <1>2, <1>4, <1>5, <2>1 DEF ServiceFirst, Busy, Exists, NoPrograms, Early
  <2> QED  BY <2>2, <2>3
<1>16. OneCustomer' /\ ReaderIsAsked' /\ BuffersAreRight' /\ BytesAddUp'
  BY <1>2, <1>3, <1>5, SameRequests
<1> QED  BY <1>5, <1>8, <1>9, <1>10, <1>11, <1>12, <1>13, <1>14, <1>15, <1>16
         DEF NobodyIsAnswered

-----------------------------------------------------------------------------
(* The rest of the boot process *)

LEMMA KernelStutter ==
  ASSUME K!IInv,
         UNCHANGED <<rq, active_proc, param_proc, param_data, next_blocked, port,
                     ports, next_free_port, next_free_pcb, new_proc,
                     interrupt_table, pc, received>>
  PROVE  K!IInv'
<1>1. SentTo' = SentTo
  BY DEF SentTo
<1>2. ToReply' = ToReply
  BY DEF ToReply, InPcb
<1>3. UNCHANGED K!allVars
  BY <1>1, <1>2 DEF K!allVars, K!vars, K!schedVars, K!ipcVars, K!portVars,
     K!procVars, K!clientVars
<1> QED  BY <1>3, K!NextInv, KernelConstants, SizesAssumption, NullAssumption,
            PortsAssumption

(* init_com assigns its result. *)
LEMMA AssignInv ==
  ASSUME ComInv, Runs(0, "assign_com_port"),
         com_port' = Returned(0), Forget(0), Jump(0, "resign_com"),
         UNCHANGED <<vars, received, com_writer_port, requestVars>>
  PROVE  ComInv' /\ NobodyIsAnswered
<1> USE Processes
<1>1. pc[0] = "user" /\ at[0] = "assign_com_port" /\ active_proc = 0
  BY DEF Runs, At
<1>2. ret[0] = 1 /\ Exists(Service) /\ halt = "no" /\ rq.state[0] = "READY"
  <2>1. BootStages
    BY DEF ComInv, Inv
  <2>2. halt = "no"
    BY Zenon DEF Runs, At
  <2> QED  BY <1>1, <2>1, <2>2 DEF BootStages
<1>3. /\ com_port' = 1 /\ at'[0] = "resign_com"
      /\ \A q \in Proc : q # 0 => at'[q] = at[q] /\ ret'[q] = ret[q]
      /\ at' \in [Proc -> Places] /\ ret' = [q \in Proc |-> ret'[q]]
  BY <1>2 DEF ComInv, Inv, Typed, Returned, Forget, Jump, Places
<1>4. UNCHANGED <<rq, active_proc, param_proc, param_data, next_blocked, port,
                  ports, next_free_port, next_free_pcb, new_proc,
                  interrupt_table, halt, pc, received, com_writer_port, requestVars>>
  BY DEF vars, schedVars, ipcVars, portVars, procVars
<1>5. K!IInv'
  BY <1>4, KernelStutter DEF ComInv
<1> USE DEF ComInv, Inv
<1>6. Typed' /\ OnlyTheLineIsAwaited'
  BY <1>3, <1>4 DEF Typed, OnlyTheLineIsAwaited, requestVars
<1>7. ComNeverPanics'
  BY <1>2, <1>4, Zenon DEF ComNeverPanics
<1>8. BootStages'
  BY <1>1, <1>2, <1>3, <1>4 DEF BootStages, Exists
<1>9. ServiceStages' /\ ReaderStages'
  BY <1>3, <1>4 DEF ServiceStages, ReaderStages, Exists
<1>10. ProgramStages'
  BY <1>1, <1>3, <1>4 DEF ProgramStages, Exists, Early
<1>11. PortsAreLeft' /\ HavePriorities' /\ PortsAreServed'
  BY <1>3, <1>4 DEF PortsAreLeft, HavePriorities, CreatedBelow, Exists, PortsAreServed
<1>12. PortsAreOwned'
  BY <1>4 DEF PortsAreOwned
<1>13. ServiceFirst'
  BY <1>1, <1>3, <1>4 DEF ServiceFirst, Early, NoPrograms, Busy, Exists
<1>14. OneCustomer' /\ ReaderIsAsked' /\ BuffersAreRight' /\ BytesAddUp'
  BY <1>3, <1>4, SameRequests
<1> QED  BY <1>4, <1>5, <1>6, <1>7, <1>8, <1>9, <1>10, <1>11, <1>12, <1>13, <1>14
         DEF NobodyIsAnswered

LEMMA ResignComInv ==
  ASSUME ComInv, Runs(0, "resign_com"), Resigns(0, "create_programs"),
         UNCHANGED comVars
  PROVE  ComInv' /\ NobodyIsAnswered
<1> USE Processes
<1>1. pc[0] = "user" /\ at[0] = "resign_com" /\ active_proc = 0
  BY DEF Runs, At
<1>2. /\ at'[0] = "create_programs" /\ at' \in [Proc -> Places]
      /\ \A q \in Proc : q # 0 => at'[q] = at[q]
  BY DEF ComInv, Inv, Typed, Resigns, Jump, Places
<1>3. /\ UNCHANGED <<rq, param_proc, param_data, next_blocked, port,
                     ports, next_free_port, next_free_pcb, new_proc,
                     interrupt_table, halt, pc, received, ret, com_port,
                     com_writer_port, requestVars>>
      /\ active_proc' = dispatcher(rq', active_proc)
  BY DEF Resigns, resign_call, resign, ipcVars, portVars, procVars, comVars, requestVars
<1>4. K!IInv' /\ K!HighestStep
  <2>1. K!Unchanged
    BY <1>3, SameWaiting DEF InPcb
  <2>2. K!resign_call(0)
    BY <1>3, SameCalls DEF Resigns
  <2>3. K!Resign(0) /\ 0 \in K!Programs
    BY <2>1, <2>2, SameSets DEF K!Resign
  <2> QED  BY <2>3, KernelStep DEF K!GNext, K!Call, ComInv
<1> USE DEF ComInv, Inv
<1>5. Typed' /\ OnlyTheLineIsAwaited' /\ ComNeverPanics'
  <2>1. Typed' /\ OnlyTheLineIsAwaited'
    BY <1>2, <1>3 DEF Typed, OnlyTheLineIsAwaited, requestVars
  <2> QED  BY <1>3, <2>1, NoPanicIsKept
<1>6. BootStages'
  BY <1>1, <1>2, <1>3 DEF BootStages, Exists
<1>7. ServiceStages' /\ ReaderStages'
  BY <1>2, <1>3 DEF ServiceStages, ReaderStages, Exists
<1>8. ProgramStages'
  BY <1>1, <1>2, <1>3 DEF ProgramStages, Exists, Early
<1>9. PortsAreLeft' /\ HavePriorities' /\ PortsAreServed'
  BY <1>2, <1>3 DEF PortsAreLeft, HavePriorities, CreatedBelow, Exists, PortsAreServed
<1>10. PortsAreOwned'
  BY <1>3 DEF PortsAreOwned
<1>11. ServiceFirst'
  BY <1>3, <1>4, <1>9, DispatchServesFirst
<1>12. OneCustomer' /\ ReaderIsAsked' /\ BuffersAreRight' /\ BytesAddUp'
  BY <1>2, <1>3, SameRequests
<1> QED  BY <1>3, <1>4, <1>5, <1>6, <1>7, <1>8, <1>9, <1>10, <1>11, <1>12
         DEF NobodyIsAnswered

(* The boot process becomes a zombie: what changes is its own state.       *)
LEMMA ZombieKeeps ==
  ASSUME ComInv, UNCHANGED <<next_free_port, next_free_pcb, new_proc, interrupt_table,
                    param_proc, param_data, port, ports, halt, received, ret, com_port,
                    com_writer_port, requestVars>>,
         at[0] \in {"create_programs", "dead"}, at'[0] = "dead", at' \in [Proc -> Places],
         pc[0] \in {"user", "zombie_remove", "zombie_resign"},
         rq'.state[0] = "ZOMBIE", rq.state[0] \in {"READY", "ZOMBIE"},
         pc'[0] \in {"zombie_remove", "zombie_resign", "zombie_loop"},
         \A q \in Proc : q # 0 => /\ at'[q] = at[q] /\ pc'[q] = pc[q]
                                  /\ rq'.state[q] = rq.state[q],
         \A q \in Proc : rq'.priority[q] = rq.priority[q],
         Exists(Service), Exists(Reader)
  PROVE  /\ Typed' /\ OnlyTheLineIsAwaited' /\ ComNeverPanics' /\ BootStages'
         /\ ServiceStages' /\ ReaderStages' /\ ProgramStages'
         /\ PortsAreLeft' /\ PortsAreOwned' /\ PortsAreServed' /\ HavePriorities'
         /\ OneCustomer' /\ ReaderIsAsked' /\ BuffersAreRight' /\ BytesAddUp'
         /\ NobodyIsAnswered
<1> USE Processes
<1>1. OneCustomer' /\ ReaderIsAsked' /\ BuffersAreRight' /\ BytesAddUp'
  <2>1. at'[2] = at[2] /\ at'[3] = at[3] /\ pc'[2] = pc[2] /\ pc'[3] = pc[3]
    OBVIOUS
  <2>2. /\ Asked' <=> Asked
        /\ Serving' <=> Serving
        /\ Answered' <=> Answered
        /\ ReaderHasRequest' <=> ReaderHasRequest
        /\ ReaderHasAnswer' <=> ReaderHasAnswer
    BY <2>1 DEF Asked, Serving, Answered, ReaderHasRequest, ReaderHasAnswer
  <2>3. Messenger' = Messenger /\ Content' = Content /\ Told' = Told
    BY <2>1 DEF Messenger, Content, Told
  <2>4. ~Serving => ~ReaderHasRequest /\ ~ReaderHasAnswer
    BY DEF ReaderIsAsked, ComInv, Inv
  <2>5. \A q \in Proc : /\ rq'.state[q] = "REPLY_BLOCKED" <=> rq.state[q] = "REPLY_BLOCKED"
                        /\ rq'.state[q] = "SEND_BLOCKED" =>
                              rq.state[q] = "SEND_BLOCKED" /\ param_data'[q] = param_data[q]
    OBVIOUS
  <2> QED  BY <2>1, <2>2, <2>3, <2>4, <2>5, SamePhase
<1> USE DEF ComInv, Inv
<1>2. Typed' /\ OnlyTheLineIsAwaited' /\ ComNeverPanics'
  <2>1. Typed' /\ OnlyTheLineIsAwaited'
    BY DEF Typed, OnlyTheLineIsAwaited, requestVars
  <2> QED  BY <2>1, NoPanicIsKept
<1>3. BootStages'
  BY DEF BootStages, Exists
<1>4. ServiceStages' /\ ReaderStages'
  BY DEF ServiceStages, ReaderStages, Exists
<1>5. ProgramStages'
  BY DEF ProgramStages, Exists, Early
<1>6. CreatedBelow' = CreatedBelow
  BY DEF CreatedBelow
<1>7. \A q \in Proc : /\ pc'[q] = "create_port" => pc[q] = "create_port"
                      /\ pc'[q] = "free" <=> pc[q] = "free"
                      /\ Exists(q)' <=> Exists(q)
  BY DEF Exists
<1>8. PortsAreLeft'
  BY <1>6, <1>7 DEF PortsAreLeft
<1>9. PortsAreOwned' /\ PortsAreServed'
  BY DEF PortsAreOwned, PortsAreServed
<1>10. HavePriorities'
  <2>1. HavePriorities
    OBVIOUS
  <2> QED  BY ONLY <1>7, <2>1, Processes,
              \A q \in Proc : rq'.priority[q] = rq.priority[q] DEF HavePriorities
<1> QED  BY <1>1, <1>2, <1>3, <1>4, <1>5, <1>8, <1>9, <1>10 DEF NobodyIsAnswered

LEMMA DiesInv ==
  ASSUME ComInv, Runs(0, "create_programs"), next_free_pcb = NULL, Dies(0),
         UNCHANGED comVars
  PROVE  ComInv' /\ NobodyIsAnswered
<1> USE Processes
<1>1. pc[0] = "user" /\ at[0] = "create_programs" /\ active_proc = 0
  BY DEF Runs, At
<1>2. /\ Exists(Service) /\ Exists(Reader) /\ ~Busy(Service) /\ ~Busy(Reader)
  BY <1>1, TheyWait
<1>3. /\ rq \in QueueRecord /\ pc \in [Proc -> Labels]
  BY KernelTypes DEF ComInv
<1>4. /\ at'[0] = "dead" /\ at' \in [Proc -> Places]
      /\ \A q \in Proc : q # 0 => at'[q] = at[q]
  BY DEF ComInv, Inv, Typed, Dies, Jump, Places
<1>5. /\ rq'.state[0] = "ZOMBIE" /\ pc'[0] = "zombie_remove"
      /\ \A q \in Proc : q # 0 => rq'.state[q] = rq.state[q] /\ pc'[q] = pc[q]
      /\ \A q \in Proc : rq'.priority[q] = rq.priority[q]
  BY <1>3 DEF Dies, become_zombie, Goto, QueueRecord
<1>6. UNCHANGED <<active_proc, param_proc, param_data, next_blocked, port,
                  ports, next_free_port, next_free_pcb, new_proc,
                  interrupt_table, halt, received, ret, com_port, com_writer_port,
                  requestVars>>
  BY DEF Dies, become_zombie, ipcVars, portVars, procVars, comVars, requestVars
<1>7. rq.state[0] = "READY"
  BY <1>1 DEF ComInv, Inv, BootStages
<1>8. K!IInv'
  <2>1. K!Unchanged
    <3>1. \A q \in Proc : InPcb(q)' <=> InPcb(q)
      BY <1>5, <1>6 DEF InPcb
    <3> QED  BY <1>5, <1>6, <1>7, <3>1, SameWaiting
  <2>2. K!become_zombie(0)
    BY <1>6, SameCalls DEF Dies
  <2>3. K!BecomeZombie(0) /\ 0 \in K!Programs
    BY <2>1, <2>2, SameSets DEF K!BecomeZombie
  <2> QED  BY <2>3, KernelStep DEF K!GNext, K!Call, ComInv
<1>9. ServiceFirst'
  BY <1>2, <1>5 DEF ServiceFirst, Busy, Exists
<1> QED  BY <1>1, <1>2, <1>4, <1>5, <1>6, <1>7, <1>8, <1>9, ZombieKeeps DEF ComInv, Inv

LEMMA DeadBoot ==
  ASSUME ComInv, pc[0] \in {"zombie_remove", "zombie_resign", "zombie_loop"}
  PROVE  /\ at[0] = "dead" /\ Exists(Service) /\ Exists(Reader) /\ rq.state[0] = "ZOMBIE"
         /\ at \in [Proc -> Places]
BY Processes DEF ComInv, Inv, BootStages, Typed

LEMMA ZombieRemoveInv ==
  ASSUME ComInv, NEW p \in Proc, zombie_remove(p),
         UNCHANGED <<received, at, ret, comVars>>
  PROVE  ComInv' /\ NobodyIsAnswered
<1> USE Processes
<1>1. p = 0 /\ pc[0] = "zombie_remove" /\ active_proc = 0
  BY CallersAre DEF zombie_remove, At
<1>2. /\ rq \in QueueRecord /\ pc \in [Proc -> Labels]
  BY KernelTypes DEF ComInv
<1>3. /\ pc'[0] = "zombie_resign" /\ \A q \in Proc : q # 0 => pc'[q] = pc[q]
      /\ rq'.state = rq.state /\ rq'.priority = rq.priority
  BY <1>1, <1>2, StateOf DEF zombie_remove, Goto
<1>4. UNCHANGED <<active_proc, param_proc, param_data, next_blocked, port,
                  ports, next_free_port, next_free_pcb, new_proc,
                  interrupt_table, halt, received, at, ret, com_port, com_writer_port,
                  requestVars>>
  BY DEF zombie_remove, ipcVars, portVars, procVars, comVars, requestVars
<1>5. K!IInv'
  <2>1. \A q \in Proc : InPcb(q)' <=> InPcb(q)
    BY <1>3, <1>4 DEF InPcb
  <2>2. K!Unchanged
    BY <1>3, <1>4, <2>1, SameWaiting
  <2>3. K!zombie_remove(0)
    BY <1>1, <1>4, SameCalls
  <2>4. K!ZombieRemove(0) /\ 0 \in K!Programs
    BY <2>2, <2>3, SameSets DEF K!ZombieRemove
  <2> QED  BY <2>4, KernelStep DEF K!GNext, K!Call, ComInv
<1>6. /\ at[0] = "dead" /\ Exists(Service) /\ Exists(Reader) /\ rq.state[0] = "ZOMBIE"
      /\ at \in [Proc -> Places]
  BY <1>1, DeadBoot
<1>7. ServiceFirst'
  <2>1. ~Busy(Service) /\ ~Busy(Reader)
    BY <1>1, <1>6, TheyWait
  <2> QED  BY <1>3, <2>1 DEF ServiceFirst, Busy, Exists
<1> QED  BY <1>1, <1>3, <1>4, <1>5, <1>6, <1>7, ZombieKeeps DEF ComInv, Inv

LEMMA ZombieResignInv ==
  ASSUME ComInv, NEW p \in Proc, zombie_resign(p),
         UNCHANGED <<received, at, ret, comVars>>
  PROVE  ComInv' /\ NobodyIsAnswered
<1> USE Processes
<1>1. p = 0 /\ pc[0] = "zombie_resign"
  BY CallersAre DEF zombie_resign, At
<1>2. pc \in [Proc -> Labels]
  BY KernelTypes DEF ComInv
<1>3. pc'[0] = "zombie_loop" /\ \A q \in Proc : q # 0 => pc'[q] = pc[q]
  BY <1>1, <1>2 DEF zombie_resign, Goto
<1>4. /\ UNCHANGED <<rq, param_proc, param_data, next_blocked, port,
                  ports, next_free_port, next_free_pcb, new_proc,
                  interrupt_table, halt, received, at, ret, com_port, com_writer_port,
                  requestVars>>
      /\ active_proc' = dispatcher(rq', active_proc)
  BY DEF zombie_resign, resign, ipcVars, portVars, procVars, comVars, requestVars
<1>5. K!IInv' /\ K!HighestStep
  <2>1. \A q \in Proc : InPcb(q)' <=> InPcb(q)
    BY <1>3, <1>4 DEF InPcb
  <2>2. K!Unchanged
    BY <1>4, <2>1, SameWaiting
  <2>3. K!zombie_resign(0)
    BY <1>1, <1>4, SameCalls
  <2>4. K!ZombieResign(0) /\ 0 \in K!Programs
    BY <2>2, <2>3, SameSets DEF K!ZombieResign
  <2> QED  BY <2>4, KernelStep DEF K!GNext, K!Call, ComInv
<1>6. /\ at[0] = "dead" /\ Exists(Service) /\ Exists(Reader) /\ rq.state[0] = "ZOMBIE"
      /\ at \in [Proc -> Places]
  BY <1>1, DeadBoot
<1>7. /\ Typed' /\ OnlyTheLineIsAwaited' /\ ComNeverPanics' /\ BootStages'
      /\ ServiceStages' /\ ReaderStages' /\ ProgramStages'
      /\ PortsAreLeft' /\ PortsAreOwned' /\ PortsAreServed' /\ HavePriorities'
      /\ OneCustomer' /\ ReaderIsAsked' /\ BuffersAreRight' /\ BytesAddUp'
      /\ NobodyIsAnswered
  BY <1>1, <1>3, <1>4, <1>6, ZombieKeeps
<1>8. ServiceFirst'
  BY <1>4, <1>5, <1>7, DispatchServesFirst
<1> QED  BY <1>5, <1>7, <1>8 DEF ComInv, Inv

(* A step that changes nothing but halt. *)
LEMMA NothingChanges ==
  ASSUME ComInv,
         UNCHANGED <<schedVars, ipcVars, portVars, procVars, interrupt_table, pc,
                     received, progVars, comVars>>
  PROVE  (ComNeverPanics' => ComInv') /\ NobodyIsAnswered
<1>1. UNCHANGED <<rq, active_proc, param_proc, param_data, next_blocked, port,
                  ports, next_free_port, next_free_pcb, new_proc,
                  interrupt_table, pc, received, at, ret, com_port,
                  com_writer_port, requestVars>>
  BY DEF schedVars, ipcVars, portVars, procVars, progVars, comVars, requestVars
<1>2. K!IInv'
  BY <1>1, KernelStutter DEF ComInv
<1> USE DEF ComInv, Inv
<1>3. Typed' /\ OnlyTheLineIsAwaited'
  BY <1>1 DEF Typed, OnlyTheLineIsAwaited, requestVars
<1>4. BootStages' /\ ServiceStages' /\ ReaderStages' /\ ProgramStages'
  BY <1>1 DEF BootStages, ServiceStages, ReaderStages, ProgramStages, Exists, Early
<1>5. PortsAreLeft' /\ PortsAreServed' /\ HavePriorities' /\ ServiceFirst'
  BY <1>1 DEF PortsAreLeft, CreatedBelow, HavePriorities, ServiceFirst, Busy, Exists,
              PortsAreServed, Early, NoPrograms
<1>6. PortsAreOwned'
  BY <1>1 DEF PortsAreOwned
<1>7. OneCustomer' /\ ReaderIsAsked' /\ BuffersAreRight' /\ BytesAddUp'
  BY <1>1, SameRequests
<1> QED  BY <1>1, <1>2, <1>3, <1>4, <1>5, <1>6, <1>7 DEF NobodyIsAnswered

(* The machine may stop. *)
LEMMA HaltInv ==
  ASSUME ComInv, halt' = halt \/ (halt' = "Failed assertion" /\ com_port = NULL),
         UNCHANGED <<schedVars, ipcVars, portVars, procVars, interrupt_table, pc,
                     received, progVars, comVars>>
  PROVE  ComInv' /\ NobodyIsAnswered
<1>1. com_port' = com_port
  BY Zenon DEF comVars
<1>2. ComNeverPanics'
  BY <1>1, Zenon DEF ComNeverPanics, ComInv, Inv
<1> QED  BY <1>2, NothingChanges, Zenon

-----------------------------------------------------------------------------
(* What the steps after the start have in common *)

(* A step of com_process, the reader, a program or the device: nobody is   *)
(* created and nobody gets a port.                                         *)
LEMMA FrameIsKept ==
  ASSUME ComInv,
         UNCHANGED <<ports, next_free_port, next_free_pcb, new_proc, ret, com_port,
                     com_writer_port>>,
         \A q \in Proc : q # 2 /\ q # 3 => at'[q] = at[q] /\ pc'[q] = pc[q],
         at'[2] = "com_process" => at[2] = "com_process",
         \A q \in {2, 3} : pc'[q] = pc[q] \/ (pc[q] \in Running /\ pc'[q] \in Running),
         rq'.state[0] = rq.state[0],
         \A q \in Proc : rq'.priority[q] = rq.priority[q],
         \A q \in Proc : q > 3 =>
           rq'.state[q] = rq.state[q]
             \/ rq'.state[q] \in {"READY", "SEND_BLOCKED", "REPLY_BLOCKED"},
         \A x \in {1, 2, 3} : port'[x].owner = port[x].owner,
         port'[3].open = port[3].open
  PROVE  BootStages' /\ ProgramStages' /\ PortsAreLeft' /\ PortsAreOwned' /\ HavePriorities'
<1> USE Processes
<1>1. \A q \in Proc : /\ Exists(q)' <=> Exists(q)
                      /\ pc'[q] = "free" <=> pc[q] = "free"
                      /\ pc'[q] = "embryo" <=> pc[q] = "embryo"
                      /\ pc'[q] = "create_port" <=> pc[q] = "create_port"
  BY DEF Exists, Running
<1>2. /\ pc'[0] = pc[0] /\ at'[0] = at[0] /\ pc'[1] = pc[1] /\ at'[1] = at[1]
      /\ CreatedBelow' = CreatedBelow
  BY DEF CreatedBelow
<1>3. /\ BootStages /\ ProgramStages /\ PortsAreLeft /\ PortsAreOwned /\ HavePriorities
  BY DEF ComInv, Inv
<1>4. BootStages'
  BY <1>1, <1>2, <1>3 DEF BootStages
<1>5. ProgramStages'
  <2>1. Early' = Early
    BY <1>2 DEF Early
  <2>2. ASSUME NEW q \in Proc, q > 3 PROVE ProgramStages!2!(q)'
    <3>1. ProgramStages!2!(q) /\ at'[q] = at[q] /\ pc'[q] = pc[q]
      BY <1>3, <2>2 DEF ProgramStages
    <3>2. Exists(Reader)' <=> Exists(Reader)
      BY <1>1
    <3> QED  BY <2>1, <2>2, <3>1, <3>2
  <2> QED  BY <1>2, <1>3, <2>2 DEF ProgramStages
<1>6. PortsAreLeft'
  BY <1>1, <1>2, <1>3 DEF PortsAreLeft
<1>7. PortsAreOwned'
  BY <1>1, <1>3 DEF PortsAreOwned
<1>8. HavePriorities'
  BY <1>1, <1>3 DEF HavePriorities
<1> QED  BY <1>4, <1>5, <1>6, <1>7, <1>8

LEMMA TypesAreKept ==
  ASSUME ComInv, at' \in [Proc -> Places],
         UNCHANGED <<ret, com_port, com_writer_port, requestVars>>
  PROVE  Typed'
BY DEF ComInv, Inv, Typed, requestVars

(* The sender of a call that com_process or the reader may be waiting for. *)
LEMMA NewWaiter ==
  ASSUME NEW p \in Proc, rq.state[p] = "READY",
         \A q \in Proc : q # p =>
           (rq'.state[q] \in {"SEND_BLOCKED", "MESSAGE_BLOCKED", "REPLY_BLOCKED"}
              <=> rq.state[q] \in {"SEND_BLOCKED", "MESSAGE_BLOCKED", "REPLY_BLOCKED"})
  PROVE  K!WaitsOn(p, PortOf[p])
<1>1. /\ SentTo = [q \in Proc |-> SentTo[q]] /\ SentTo' = [q \in Proc |-> SentTo'[q]]
  BY DEF SentTo
<1>2. \A q \in Proc : q # p => SentTo'[q] = SentTo[q]
  BY DEF SentTo
<1>3. SentTo'[p] = IF rq'.state[p] \in {"SEND_BLOCKED", "MESSAGE_BLOCKED", "REPLY_BLOCKED"}
                   THEN PortOf[p] ELSE SentTo[p]
  BY DEF SentTo
<1> QED  BY ONLY <1>1, <1>2, <1>3 DEF K!WaitsOn, K!SendStates

LEMMA SameClients ==
  ASSUME \A q \in Proc :
           /\ rq'.state[q] = "REPLY_BLOCKED" /\ ~InPcb(q)' =>
                rq.state[q] = "REPLY_BLOCKED" /\ ~InPcb(q)
           /\ rq.state[q] = "REPLY_BLOCKED" /\ ~InPcb(q) =>
                rq'.state[q] = "REPLY_BLOCKED" /\ ~InPcb(q)'
  PROVE  ToReply' = ToReply
BY DEF ToReply

(* The senders after a receive(). *)
LEMMA WaitsAfterReceive ==
  ASSUME \A q \in Proc :
           rq'.state[q] \in {"SEND_BLOCKED", "MESSAGE_BLOCKED", "REPLY_BLOCKED"} =>
             rq.state[q] \in {"SEND_BLOCKED", "MESSAGE_BLOCKED", "REPLY_BLOCKED"}
  PROVE  SentTo' = [s \in Proc |-> IF rq'.state[s] \in K!SendStates
                                   THEN SentTo[s] ELSE NULL]
BY DEF SentTo, K!SendStates

(* Programs wait for com_process, the reader for it to take its message,   *)
(* and nobody else waits for anybody.                                      *)
LEMMA BlockedAre ==
  ASSUME ComInv, NEW s \in Proc,
         rq.state[s] \in {"SEND_BLOCKED", "MESSAGE_BLOCKED", "REPLY_BLOCKED"}
  PROVE  \/ /\ s = 3 /\ rq.state[s] = "MESSAGE_BLOCKED"
            /\ pc[s] = "user" /\ at[s] = "com_reader"
         \/ /\ s > 3 /\ rq.state[s] \in {"SEND_BLOCKED", "REPLY_BLOCKED"}
            /\ pc[s] = "user" /\ at[s] = "program"
<1> USE Processes
<1>1. s # 0
  BY DEF ComInv, Inv, BootStages
<1>2. s # 1
  BY SameSets DEF ComInv, K!IInv, K!LabelsMatchStates
<1>3. s # 2
  <2>1. ServiceStages
    BY DEF ComInv, Inv
  <2>2. pc[2] = "receive" => rq.state[2] \in {"READY", "RECEIVE_BLOCKED"}
    BY KernelPlaces DEF ComInv
  <2> QED  BY ONLY <2>1, <2>2,
              rq.state[s] \in {"SEND_BLOCKED", "MESSAGE_BLOCKED", "REPLY_BLOCKED"}
           DEF ServiceStages
<1>4. CASE s = 3
  <2>1. /\ ReaderStages
        /\ pc[3] \in {"free", "embryo"} => rq.state[3] = "READY"
        /\ pc[3] = "receive" => rq.state[3] \in {"READY", "RECEIVE_BLOCKED"}
        /\ pc[3] = "wait_for_interrupt" => rq.state[3] \in {"READY", "INTR_BLOCKED"}
    BY KernelPlaces DEF ComInv, Inv
  <2> QED  BY <1>4, <2>1 DEF ReaderStages
<1>5. CASE s > 3
  <2>1. ProgramStages /\ (pc[s] \in {"free", "embryo"} => rq.state[s] = "READY")
    BY KernelPlaces DEF ComInv, Inv
  <2> QED  BY <1>5, <2>1 DEF ProgramStages
<1> QED  BY <1>1, <1>2, <1>3, <1>4, <1>5

(* Who is in the lists of blocked senders of the three ports. *)
LEMMA TheLists ==
  ASSUME ComInv
  PROVE  /\ port[1].blocked_list_head # NULL =>
              /\ port[1].blocked_list_head \in Proc /\ port[1].blocked_list_head > 3
              /\ rq.state[port[1].blocked_list_head] = "SEND_BLOCKED"
         /\ port[2].blocked_list_head = IF rq.state[3] = "MESSAGE_BLOCKED" THEN 3 ELSE NULL
         /\ port[3].blocked_list_head = NULL
<1> USE Processes
<1>1. \A po \in {1, 2, 3} : K!ListHolds(next_blocked, port[po].blocked_list_head,
                  port[po].blocked_list_tail, K!BlockedOn(po))
  BY KernelConstants, SameSets DEF ComInv, K!IInv, K!BlockedListsAreQueues
<1>2. \A po \in {1, 2, 3} :
        K!BlockedOn(po) = {s \in Proc : /\ rq.state[s] \in {"SEND_BLOCKED", "MESSAGE_BLOCKED"}
                                        /\ PortOf[s] = po}
  BY SameSets DEF K!BlockedOn, SentTo
<1>3. \A s \in Proc : PortOf[s] = IF s = 3 THEN 2 ELSE IF s = 2 THEN 3 ELSE 1
  BY DEF PortOf
<1>4. /\ K!BlockedOn(1) = {s \in Proc : rq.state[s] = "SEND_BLOCKED" /\ s > 3}
      /\ K!BlockedOn(2) = IF rq.state[3] = "MESSAGE_BLOCKED" THEN {3} ELSE {}
      /\ K!BlockedOn(3) = {}
  <2> HIDE DEF PortOf
  <2>1. \A s \in Proc : rq.state[s] \in {"SEND_BLOCKED", "MESSAGE_BLOCKED"} =>
          (s = 3 /\ rq.state[s] = "MESSAGE_BLOCKED") \/ (s > 3 /\ rq.state[s] = "SEND_BLOCKED")
    BY BlockedAre
  <2>2. K!BlockedOn(1) = {s \in Proc : rq.state[s] = "SEND_BLOCKED" /\ s > 3}
    <3>1. ASSUME NEW s \in Proc
          PROVE  /\ rq.state[s] \in {"SEND_BLOCKED", "MESSAGE_BLOCKED"} /\ PortOf[s] = 1
                      <=> rq.state[s] = "SEND_BLOCKED" /\ s > 3
      BY <1>3, <2>1
    <3> QED  BY <1>2, <3>1
  <2>3. K!BlockedOn(2) = IF rq.state[3] = "MESSAGE_BLOCKED" THEN {3} ELSE {}
    <3>1. ASSUME NEW s \in Proc
          PROVE  /\ rq.state[s] \in {"SEND_BLOCKED", "MESSAGE_BLOCKED"} /\ PortOf[s] = 2
                      <=> rq.state[s] = "MESSAGE_BLOCKED" /\ s = 3
      BY <1>3, <2>1
    <3> QED  BY <1>2, <3>1
  <2>4. K!BlockedOn(3) = {}
    <3>1. ASSUME NEW s \in Proc
          PROVE  ~(rq.state[s] \in {"SEND_BLOCKED", "MESSAGE_BLOCKED"} /\ PortOf[s] = 3)
      BY <1>3, <2>1
    <3> QED  BY <1>2, <3>1
  <2> QED  BY <2>2, <2>3, <2>4
<1>5. \A po \in {1, 2, 3} :
        IF K!BlockedOn(po) = {} THEN port[po].blocked_list_head = NULL
        ELSE port[po].blocked_list_head \in K!BlockedOn(po)
  BY <1>1, Zenon DEF K!ListHolds
<1> QED  BY ONLY <1>4, <1>5

(* The reader, when nothing is asked of it and it cannot run.              *)
LEMMA ReaderIdle ==
  ASSUME ComInv, Exists(Reader), ~Busy(Reader), ~Serving
  PROVE  rq.state[3] = "RECEIVE_BLOCKED" /\ pc[3] = "receive" /\ at[3] = "reader_start"
<1> USE Processes
<1>1. /\ ReaderStages /\ ~ReaderHasRequest /\ ~ReaderHasAnswer
      /\ pc[3] = "receive" => rq.state[3] \in {"READY", "RECEIVE_BLOCKED"}
  BY KernelPlaces DEF ComInv, Inv, ReaderIsAsked
<1>2. pc[3] \notin {"free", "embryo"} /\ rq.state[3] # "READY"
  BY DEF Exists, Busy
<1> QED  BY ONLY <1>1, <1>2 DEF ReaderStages, ReaderHasRequest, ReaderHasAnswer

(* While a program runs, com_process and the reader wait. *)
LEMMA ProgramRuns ==
  ASSUME ComInv, NEW p \in Proc, active_proc = p, at[p] = "program"
  PROVE  /\ p > 3 /\ com_port = 1 /\ Exists(Service) /\ Exists(Reader)
         /\ pc[2] = "receive" /\ rq.state[2] = "RECEIVE_BLOCKED"
         /\ at[2] \in {"start_reader", "com_reply"} /\ rq.state[3] # "READY"
         /\ rq.state[p] = "READY"
<1> USE Processes
<1>1. p > 3
  BY WhereTheyAre DEF Working
<1>2. pc[p] # "free" /\ pc[p] \in {"embryo", "user"}
  BY <1>1, KernelPlaces DEF ComInv, Inv, ProgramStages
<1>3. Exists(Reader) /\ ~Early
  BY <1>1, <1>2 DEF ComInv, Inv, ProgramStages
<1>4. com_port = 1 /\ Exists(Service)
  BY <1>3 DEF ComInv, Inv, BootStages, Early
<1>5. rq.state[2] # "READY" /\ rq.state[3] # "READY"
  BY <1>1, <1>3, <1>4 DEF ComInv, Inv, ServiceFirst, Busy
<1>6. /\ pc[2] = "receive" /\ rq.state[2] = "RECEIVE_BLOCKED"
      /\ at[2] \in {"start_reader", "com_reply"}
  BY <1>5, KernelPlaces DEF ComInv, Inv, ServiceStages
<1>7. rq.state[p] = "READY"
  BY <1>2, KernelPlaces DEF ComInv
<1> QED  BY <1>1, <1>3, <1>4, <1>5, <1>6, <1>7

(* Process p gets to label next of its program, what others hold is kept.  *)
Steps(p, next) ==
  /\ K!IInv' /\ BootStages' /\ ProgramStages'
  /\ PortsAreLeft' /\ PortsAreOwned' /\ HavePriorities' /\ ComNeverPanics'
  /\ at'[p] = next /\ at' \in [Proc -> Places]
  /\ \A q \in Proc : q # p => at'[q] = at[q]
  /\ UNCHANGED <<ret, com_port, com_writer_port>>

(* What process p does alone. *)
LEMMA ComputesStep ==
  ASSUME ComInv, NEW p \in {2, 3}, At(p, "user"),
         NEW next \in Places \ {"com_process"}, Computes(p, next),
         UNCHANGED <<com_port, com_writer_port>>
  PROVE  /\ Steps(p, next) /\ pc[p] = "user" /\ active_proc = p
         /\ UNCHANGED <<rq, active_proc, param_proc, param_data, port,
                        interrupt_table, pc, received>>
<1> USE Processes
<1>1. pc[p] = "user" /\ active_proc = p
  BY DEF At
<1>2. UNCHANGED <<rq, active_proc, param_proc, param_data, next_blocked, port, ports,
                  next_free_port, next_free_pcb, new_proc, interrupt_table, halt, pc,
                  received, ret>>
  BY DEF Computes, vars, schedVars, ipcVars, portVars, procVars
<1>3. /\ at'[p] = next /\ at' \in [Proc -> Places]
      /\ \A q \in Proc : q # p => at'[q] = at[q]
  BY DEF Computes, Jump, ComInv, Inv, Typed
<1>4. K!IInv'
  BY <1>2, KernelStutter DEF ComInv
<1>5. BootStages' /\ ProgramStages' /\ PortsAreLeft' /\ PortsAreOwned' /\ HavePriorities'
  <2>1. at'[2] = "com_process" => at[2] = "com_process"
    BY <1>3
  <2> QED  BY <1>2, <1>3, <2>1, FrameIsKept
<1>6. ComNeverPanics'
  BY <1>2, NoPanicIsKept DEF ComInv, Inv
<1> QED  BY <1>1, <1>2, <1>3, <1>4, <1>5, <1>6 DEF Steps

(* com_process opens or closes one of its ports. *)
LEMMA PortSetStep ==
  ASSUME ComInv, At(2, "user"), NEW po \in {1, 2}, NEW value \in BOOLEAN,
         port' = [port EXCEPT ![po].open = value],
         UNCHANGED <<schedVars, param_proc, param_data, next_blocked, portVars,
                     procVars, interrupt_table, halt, pc, received, ret,
                     com_port, com_writer_port>>,
         NEW next \in Places \ {"com_process"}, Jump(2, next),
         at[2] \in Working,
         IF value THEN open_port(2, po) ELSE close_port(2, po)
  PROVE  /\ Steps(2, next) /\ pc[2] = "user" /\ active_proc = 2
         /\ port'[po].open = value
         /\ \A x \in {1, 2, 3} : x # po => port'[x].open = port[x].open
         /\ UNCHANGED <<rq, active_proc, param_proc, param_data,
                        interrupt_table, pc, received>>
<1> USE Processes
<1>1. pc[2] = "user" /\ active_proc = 2
  BY DEF At
<1>2. UNCHANGED <<rq, active_proc, param_proc, param_data, next_blocked, ports,
                  next_free_port, next_free_pcb, new_proc, interrupt_table, halt, pc,
                  received, ret>>
  BY DEF schedVars, portVars, procVars
<1>3. /\ at'[2] = next /\ at' \in [Proc -> Places]
      /\ \A q \in Proc : q # 2 => at'[q] = at[q]
  BY DEF Jump, ComInv, Inv, Typed
<1>4. /\ port \in [Port -> [open : BOOLEAN, owner : ProcOrNull,
                            blocked_list_head : ProcOrNull,
                            blocked_list_tail : ProcOrNull]]
      /\ {1, 2, 3} \subseteq Port
  BY KernelTypes, KernelConstants DEF ComInv
<1>5. /\ port'[po].open = value
      /\ \A x \in {1, 2, 3} : /\ x # po => port'[x].open = port[x].open
                              /\ port'[x].owner = port[x].owner
  BY <1>4
<1>6. port[po].owner = 2
  <2>1. next_free_port >= 4
    BY <1>1 DEF ComInv, Inv, ServiceStages, PortsAreLeft, Working
  <2>2. next_free_port \in Int
    BY KernelTypes, PortsAssumption DEF ComInv
  <2> QED  BY <2>1, <2>2 DEF ComInv, Inv, PortsAreOwned
<1>7. K!IInv'
  <2>1. K!Unchanged
    BY <1>2, SameWaiting DEF InPcb
  <2>2. po \in K!Own(2) /\ 2 \in K!Programs
    BY <1>4, <1>6, SameSets DEF K!Own
  <2>3. IF value THEN K!open_port(2, po) ELSE K!close_port(2, po)
    BY <1>2, SameCalls
  <2>4. K!OpenPort(2) \/ K!ClosePort(2)
    BY <2>1, <2>2, <2>3 DEF K!OpenPort, K!ClosePort
  <2> QED  BY <2>2, <2>4, KernelStep DEF K!GNext, K!Call, ComInv
<1>8. BootStages' /\ ProgramStages' /\ PortsAreLeft' /\ PortsAreOwned' /\ HavePriorities'
  <2>1. at'[2] = "com_process" => at[2] = "com_process"
    BY <1>3
  <2>2. port'[3].open = port[3].open
    BY <1>5
  <2> QED  BY <1>2, <1>3, <1>5, <2>1, <2>2, FrameIsKept
<1>9. ComNeverPanics'
  BY <1>2, NoPanicIsKept DEF ComInv, Inv
<1> QED  BY <1>1, <1>2, <1>3, <1>5, <1>7, <1>8, <1>9 DEF Steps

(* com_process or the reader waits for a message. *)
LEMMA BlocksStep ==
  ASSUME ComInv, NEW p \in {2, 3}, At(p, "user"), ports[p] # <<>>,
         receive(p), receive_block(p),
         NEW next \in Places \ {"com_process"}, Jump(p, next),
         UNCHANGED <<ret, com_port, com_writer_port>>
  PROVE  /\ Steps(p, next) /\ K!HighestStep /\ pc[p] = "user"
         /\ Pending(p) = {}
         /\ active_proc' = dispatcher(rq', active_proc)
         /\ pc'[p] = "receive" /\ \A q \in Proc : q # p => pc'[q] = pc[q]
         /\ rq.state[p] \notin {"SEND_BLOCKED", "MESSAGE_BLOCKED", "REPLY_BLOCKED"}
         /\ rq'.state[p] = "RECEIVE_BLOCKED"
         /\ \A q \in Proc : q # p => /\ rq'.state[q] = rq.state[q]
                                     /\ param_data'[q] = param_data[q]
                                     /\ received'[q] = received[q]
         /\ UNCHANGED <<param_proc, port, interrupt_table>>
<1> USE Processes
<1>1. pc[p] = "user" /\ active_proc = p /\ rq.state[p] = "READY"
  BY KernelPlaces DEF At, ComInv
<1>2. /\ rq \in QueueRecord /\ pc \in [Proc -> Labels]
      /\ param_data \in [Proc -> Proc \cup {NULL}]
      /\ received = [q \in Proc |-> received[q]]
  BY KernelTypes, SameSets DEF ComInv, K!IInv, K!GTypeOK, K!TypeOK
<1>3. /\ Pending(p) = {}
      /\ rq' = [remove_ready_queue(rq, p) EXCEPT !.state[p] = "RECEIVE_BLOCKED"]
      /\ active_proc' = dispatcher(rq', active_proc)
      /\ param_data' = [param_data EXCEPT ![p] = NULL]
      /\ received' = [received EXCEPT ![p] = NULL]
      /\ pc' = [pc EXCEPT ![p] = "receive"]
      /\ UNCHANGED <<param_proc, next_blocked, port>>
  BY DEF receive_block, resign, Goto
<1>4. UNCHANGED <<portVars, procVars, interrupt_table, halt>>
  BY Zenon DEF receive
<1>5. /\ rq'.state[p] = "RECEIVE_BLOCKED" /\ rq'.priority = rq.priority
      /\ \A q \in Proc : q # p => rq'.state[q] = rq.state[q]
  BY ONLY <1>2, <1>3, Processes DEF QueueRecord, remove_ready_queue
<1>6. /\ pc'[p] = "receive"
      /\ \A q \in Proc : q # p => /\ pc'[q] = pc[q]
                                  /\ param_data'[q] = param_data[q]
                                  /\ received'[q] = received[q]
  BY ONLY <1>2, <1>3, Processes
<1>7. /\ at'[p] = next /\ at' \in [Proc -> Places]
      /\ \A q \in Proc : q # p => at'[q] = at[q]
  BY DEF Jump, ComInv, Inv, Typed
<1>8. UNCHANGED <<param_proc, port, ports, next_free_port, next_free_pcb, new_proc,
                  interrupt_table, halt, ret>>
  BY <1>3, <1>4 DEF portVars, procVars
<1>9. K!IInv' /\ K!HighestStep
  <2>1. ToReply' = ToReply
    <3>1. \A q \in Proc : InPcb(q)' <=> InPcb(q)
      BY <1>1, <1>5, <1>6, <1>8 DEF InPcb
    <3> QED  BY <1>1, <1>5, <3>1, SameClients
  <2>2. SentTo' = [s \in Proc |-> IF rq'.state[s] \in K!SendStates THEN SentTo[s] ELSE NULL]
    BY <1>5, WaitsAfterReceive
  <2>3. K!receive(p) /\ K!Pending(p) = {}
    BY <1>3, <1>8, SameMessageCalls DEF K!Pending, Pending
  <2>4. ToReply' = [ToReply EXCEPT ![p] = IF K!Pending(p) = {} THEN @ ELSE @ \cup K!NewClient(p)]
    <3>1. ToReply = [q \in Proc |-> ToReply[q]]
      BY DEF ToReply
    <3> HIDE DEF ToReply
    <3> QED  BY ONLY <2>1, <2>3, <3>1
  <2>5. K!Receive(p) /\ p \in K!Programs
    BY <2>2, <2>3, <2>4, SameSets DEF K!Receive
  <2> QED  BY <2>5, KernelStep DEF K!GNext, K!Call, ComInv
<1>10. BootStages' /\ ProgramStages' /\ PortsAreLeft' /\ PortsAreOwned' /\ HavePriorities'
  <2>1. at'[2] = "com_process" => at[2] = "com_process"
    BY <1>7
  <2>2. \A q \in {2, 3} : pc'[q] = pc[q] \/ (pc[q] \in Running /\ pc'[q] \in Running)
    BY <1>1, <1>6 DEF Running
  <2> QED  BY <1>5, <1>6, <1>7, <1>8, <2>1, <2>2, FrameIsKept
<1>11. ComNeverPanics'
  BY <1>8, NoPanicIsKept DEF ComInv, Inv
<1> QED  BY <1>1, <1>3, <1>5, <1>6, <1>7, <1>8, <1>9, <1>10, <1>11 DEF Steps

(* receive() returns what was left in the PCB. *)
LEMMA ReturnStep ==
  ASSUME ComInv, NEW p \in Proc, receive_return(p),
         UNCHANGED <<at, ret, com_port, com_writer_port>>
  PROVE  /\ p \in {2, 3} /\ Steps(p, at[p]) /\ active_proc = p /\ pc[p] = "receive"
         /\ pc'[p] = "user" /\ \A q \in Proc : q # p => pc'[q] = pc[q]
         /\ received'[p][1] = param_proc[p] /\ received'[p][2] = param_data[p]
         /\ \A q \in Proc : q # p => received'[q] = received[q]
         /\ rq.state[p] = "READY"
         /\ UNCHANGED <<rq, active_proc, param_proc, param_data, port, interrupt_table, at>>
<1> USE Processes
<1>1. p \in {2, 3} /\ pc[p] = "receive" /\ active_proc = p /\ rq.state[p] = "READY"
  BY CallersAre, KernelPlaces DEF receive_return, At, ComInv
<1>2. /\ pc \in [Proc -> Labels] /\ received = [q \in Proc |-> received[q]]
  BY KernelTypes, SameSets DEF ComInv, K!IInv, K!GTypeOK, K!TypeOK
<1>3. /\ pc'[p] = "user" /\ \A q \in Proc : q # p => pc'[q] = pc[q]
      /\ received'[p] = <<param_proc[p], param_data[p]>>
      /\ \A q \in Proc : q # p => received'[q] = received[q]
  BY <1>1, <1>2 DEF receive_return, Goto
<1>4. UNCHANGED <<rq, active_proc, param_proc, param_data, next_blocked, port, ports,
                  next_free_port, next_free_pcb, new_proc, interrupt_table, halt>>
  BY DEF receive_return, schedVars, ipcVars, portVars, procVars
<1>5. K!IInv'
  <2>1. SentTo' = SentTo
    BY <1>4 DEF SentTo
  <2>2. K!receive_return(p)
    BY <1>4, SameMessageCalls
  <2>3. CASE p = 2
    <3>1. port[1].owner = 2
      <4>1. next_free_port >= 2
        BY <1>1, <2>3 DEF ComInv, Inv, PortsAreLeft, Exists
      <4> QED  BY <4>1 DEF ComInv, Inv, PortsAreOwned
    <3>2. 1 \in K!Own(2)
      BY <3>1, KernelConstants, SameSets DEF K!Own
    <3>3. \A s \in Proc : rq.state[s] = "REPLY_BLOCKED" => SentTo[s] = 1
      BY BlockedAre DEF SentTo, PortOf
    <3>4. K!NewClient(2) = {s \in Proc : s = param_proc[2] /\ rq.state[s] = "REPLY_BLOCKED"}
      <4>1. \A s \in Proc : rq.state[s] = "REPLY_BLOCKED" => SentTo[s] \in K!Own(2)
        BY <3>2, <3>3
      <4>2. received'[2][1] = param_proc[2] /\ rq' = rq
        BY <1>3, <1>4, <2>3
      <4> HIDE DEF SentTo
      <4> QED  BY ONLY <4>1, <4>2, SameSets DEF K!NewClient
    <3>5. \A s \in Proc : InPcb(s) <=> s = param_proc[2]
      BY <1>1, <2>3 DEF InPcb
    <3>6. \A s \in Proc : ~InPcb(s)'
      BY <1>3, <2>3 DEF InPcb
    <3>7. ToReply' = [ToReply EXCEPT ![2] = @ \cup K!NewClient(2)]
      <4>1. ToReply'[2] = ToReply[2] \cup K!NewClient(2)
        BY <1>4, <3>4, <3>5, <3>6 DEF ToReply
      <4>2. \A q \in Proc : q # 2 => ToReply'[q] = ToReply[q]
        BY DEF ToReply
      <4>3. /\ ToReply = [q \in Proc |-> ToReply[q]]
            /\ ToReply' = [q \in Proc |-> ToReply'[q]]
        BY DEF ToReply
      <4> HIDE DEF ToReply
      <4> QED  BY ONLY <4>1, <4>2, <4>3
    <3>8. K!ReceiveReturn(2) /\ 2 \in K!Programs
      BY <2>1, <2>2, <2>3, <3>7, SameSets DEF K!ReceiveReturn
    <3> QED  BY <3>8, KernelStep DEF K!GNext, K!Call, ComInv
  <2>4. CASE p = 3
    <3>1. K!NewClient(3) = {}
      <4>1. ASSUME NEW s \in Proc, rq.state[s] = "REPLY_BLOCKED", SentTo[s] \in K!Own(3)
            PROVE  FALSE
        <5>1. SentTo[s] = 1
          BY <4>1, BlockedAre DEF SentTo, PortOf
        <5>2. port[1].owner = 3
          BY <4>1, <5>1, SameSets DEF K!Own
        <5>3. port[1].owner = 2
          <6>1. next_free_port >= 4 /\ next_free_port \in Int
            BY <1>1, <2>4, KernelTypes, PortsAssumption DEF ComInv, Inv, PortsAreLeft, Exists
          <6> QED  BY <6>1 DEF ComInv, Inv, PortsAreOwned
        <5> QED  BY <5>2, <5>3
      <4> QED  BY <1>4, <4>1, SameSets DEF K!NewClient
    <3>2. ToReply' = ToReply
      <4>1. \A q \in Proc : InPcb(q)' <=> InPcb(q)
        BY <1>3, <1>4, <2>4 DEF InPcb
      <4> QED  BY <1>4, <4>1, SameClients
    <3>3. ToReply' = [ToReply EXCEPT ![3] = @ \cup K!NewClient(3)]
      <4>1. ToReply = [q \in Proc |-> ToReply[q]]
        BY DEF ToReply
      <4> HIDE DEF ToReply
      <4> QED  BY ONLY <3>1, <3>2, <4>1
    <3>4. K!ReceiveReturn(3) /\ 3 \in K!Programs
      BY <2>1, <2>2, <2>4, <3>3, SameSets DEF K!ReceiveReturn
    <3> QED  BY <3>4, KernelStep DEF K!GNext, K!Call, ComInv
  <2> QED  BY <1>1, <2>3, <2>4
<1>6. BootStages' /\ ProgramStages' /\ PortsAreLeft' /\ PortsAreOwned' /\ HavePriorities'
  <2>1. \A q \in {2, 3} : pc'[q] = pc[q] \/ (pc[q] \in Running /\ pc'[q] \in Running)
    BY <1>1, <1>3 DEF Running
  <2>2. \A q \in Proc : q # 2 /\ q # 3 => pc'[q] = pc[q]
    BY <1>1, <1>3
  <2> QED  BY <1>4, <2>1, <2>2, FrameIsKept
<1>7. ComNeverPanics'
  BY <1>4, NoPanicIsKept DEF ComInv, Inv
<1>8. at' \in [Proc -> Places]
  BY DEF ComInv, Inv, Typed
<1> QED  BY <1>1, <1>3, <1>4, <1>5, <1>6, <1>7, <1>8 DEF Steps


(* A message is delivered: between com_process and the reader. *)
LEMMA DeliversStep ==
  ASSUME ComInv, NEW p \in {2, 3}, NEW d \in {2, 3}, p # d, NEW po, po = PortOf[p],
         At(p, "user"), port[po].owner = d, CanDeliver(po),
         NEW data \in Proc, message(p, po, data),
         NEW next \in Places \ {"com_process"}, Jump(p, next),
         UNCHANGED <<received, ret, com_port, com_writer_port>>
  PROVE  /\ Steps(p, next) /\ K!HighestStep /\ pc[p] = "user" /\ active_proc = p
         /\ active_proc' = dispatcher(rq', active_proc)
         /\ rq.state[p] = "READY" /\ rq.state[d] = "RECEIVE_BLOCKED"
         /\ rq'.state[d] = "READY" /\ pc[d] = "receive"
         /\ param_proc'[d] = p /\ param_data'[d] = data
         /\ \A q \in Proc : q # d => /\ rq'.state[q] = rq.state[q]
                                     /\ param_proc'[q] = param_proc[q]
                                     /\ param_data'[q] = param_data[q]
         /\ UNCHANGED <<port, interrupt_table, pc, received>>
<1> USE Processes
<1>1. pc[p] = "user" /\ active_proc = p /\ rq.state[p] = "READY"
  BY KernelPlaces DEF At, ComInv
<1>2. /\ rq \in QueueRecord /\ param_proc \in [Proc -> ProcOrNull]
      /\ param_data \in [Proc -> Proc \cup {NULL}] /\ pc \in [Proc -> Labels]
  BY KernelTypes DEF ComInv
<1>3. rq.state[d] = "RECEIVE_BLOCKED"
  BY DEF CanDeliver
<1>4. pc[d] = "receive"
  <2>1. pc[d] \in Labels
    BY <1>2
  <2> QED  BY <1>3, <2>1, KernelPlaces DEF Labels, CallLabels, ComInv
<1>5. po \in {2, 3}
  BY DEF PortOf
<1>6. /\ param_proc' = [param_proc EXCEPT ![d] = p]
      /\ param_data' = [param_data EXCEPT ![d] = data]
      /\ rq' = add_ready_queue(rq, d)
      /\ active_proc' = dispatcher(rq', active_proc)
      /\ UNCHANGED <<next_blocked, port, portVars, procVars, interrupt_table, halt, pc>>
  BY DEF message, Deliver, resign
<1>7. /\ param_proc'[d] = p /\ param_data'[d] = data
      /\ \A q \in Proc : q # d => /\ param_proc'[q] = param_proc[q]
                                  /\ param_data'[q] = param_data[q]
  BY <1>2, <1>6
<1>8. /\ rq'.state[d] = "READY" /\ rq'.priority = rq.priority
      /\ \A q \in Proc : q # d => rq'.state[q] = rq.state[q]
  <2>1. rq'.state = [rq.state EXCEPT ![d] = "READY"] /\ rq'.priority = rq.priority
    BY <1>2, <1>6, StateOf
  <2> QED  BY <1>2, <2>1 DEF QueueRecord
<1>9. UNCHANGED <<next_blocked, port, ports, next_free_port, next_free_pcb, new_proc,
                  interrupt_table, halt, pc, received, ret>>
  BY <1>6 DEF portVars, procVars
<1>10. /\ at'[p] = next /\ at' \in [Proc -> Places]
       /\ \A q \in Proc : q # p => at'[q] = at[q]
  BY DEF Jump, ComInv, Inv, Typed
<1>11. K!IInv' /\ K!HighestStep
  <2>1. ToReply' = ToReply
    <3>1. CASE d = 2
      <4>1. \A q \in Proc : ~InPcb(q) /\ (InPcb(q)' => q = 3)
        BY <1>3, <1>7, <3>1 DEF InPcb
      <4> QED  BY <1>1, <1>3, <1>8, <3>1, <4>1, SameClients
    <3>2. CASE d = 3
      <4>1. \A q \in Proc : InPcb(q)' <=> InPcb(q)
        BY <1>7, <1>8, <1>9, <3>2 DEF InPcb
      <4> QED  BY <1>1, <1>3, <1>8, <3>2, <4>1, SameClients
    <3> QED  BY <3>1, <3>2
  <2>2. K!WaitsOn(p, po)
    BY <1>1, <1>3, <1>8, NewWaiter
  <2>3. K!message(p, po, data)
    BY <1>9, SameMessageCalls
  <2>4. po \in K!Known
    BY <1>4, <1>5, SameSets, KernelConstants DEF K!Known
  <2>5. K!Message(p) /\ p \in K!Programs
    BY <1>9, <2>1, <2>2, <2>3, <2>4, SameSets DEF K!Message, K!NoResult
  <2> QED  BY <2>5, KernelStep DEF K!GNext, K!Call, ComInv
<1>12. BootStages' /\ ProgramStages' /\ PortsAreLeft' /\ PortsAreOwned' /\ HavePriorities'
  <2>1. at'[2] = "com_process" => at[2] = "com_process"
    BY <1>10
  <2>2. \A q \in Proc : q # 2 /\ q # 3 => at'[q] = at[q] /\ pc'[q] = pc[q]
    BY <1>9, <1>10
  <2> QED  BY <1>8, <1>9, <2>1, <2>2, FrameIsKept
<1>13. ComNeverPanics'
  BY <1>9, NoPanicIsKept DEF ComInv, Inv
<1> QED  BY <1>1, <1>3, <1>4, <1>6, <1>7, <1>8, <1>9, <1>10, <1>11, <1>12, <1>13 DEF Steps

(* The list of a port gets longer; its owner is the same and it stays open *)
(* or closed.                                                              *)
LEMMA ListsGrow ==
  ASSUME ComInv, NEW po \in {1, 2}, NEW p \in Proc, add_to_send_blocked_list(po, p)
  PROVE  \A x \in {1, 2, 3} : port'[x].owner = port[x].owner /\ port'[x].open = port[x].open
<1>1. /\ po \in Port /\ {1, 2, 3} \subseteq Port
      /\ port \in [Port -> [open : BOOLEAN, owner : ProcOrNull,
                            blocked_list_head : ProcOrNull,
                            blocked_list_tail : ProcOrNull]]
  BY KernelTypes, KernelConstants DEF ComInv
<1>2. port[po] \in [open : BOOLEAN, owner : ProcOrNull,
                    blocked_list_head : ProcOrNull, blocked_list_tail : ProcOrNull]
  BY <1>1
<1>3. CASE port' = [port EXCEPT ![po].blocked_list_head = p, ![po].blocked_list_tail = p]
  <2>1. port'[po] = [port[po] EXCEPT !.blocked_list_head = p, !.blocked_list_tail = p]
    BY ONLY <1>1, <1>3
  <2>2. port'[po].owner = port[po].owner /\ port'[po].open = port[po].open
    BY ONLY <1>2, <2>1
  <2>3. \A x \in Port : x # po => port'[x] = port[x]
    BY ONLY <1>1, <1>3
  <2> QED  BY ONLY <1>1, <2>2, <2>3
<1>4. CASE port' = [port EXCEPT ![po].blocked_list_tail = p]
  <2>1. port'[po] = [port[po] EXCEPT !.blocked_list_tail = p]
    BY ONLY <1>1, <1>4
  <2>2. port'[po].owner = port[po].owner /\ port'[po].open = port[po].open
    BY ONLY <1>2, <2>1
  <2>3. \A x \in Port : x # po => port'[x] = port[x]
    BY ONLY <1>1, <1>4
  <2> QED  BY ONLY <1>1, <2>2, <2>3
<1> QED  BY <1>3, <1>4 DEF add_to_send_blocked_list

(* The reader's message waits until it is taken. *)
LEMMA MessageBlocksStep ==
  ASSUME ComInv, At(3, "user"), port[2].owner = 2, ~CanDeliver(2),
         pc[2] \notin {"free", "embryo"},
         NEW data \in Proc, message(3, 2, data),
         NEW next \in Places \ {"com_process"}, Jump(3, next),
         UNCHANGED <<received, ret, com_port, com_writer_port>>
  PROVE  /\ Steps(3, next) /\ K!HighestStep /\ pc[3] = "user" /\ active_proc = 3
         /\ active_proc' = dispatcher(rq', active_proc)
         /\ rq.state[3] = "READY" /\ rq'.state[3] = "MESSAGE_BLOCKED"
         /\ \A q \in Proc : q # 3 => /\ rq'.state[q] = rq.state[q]
                                     /\ param_data'[q] = param_data[q]
         /\ \A x \in {1, 2, 3} : port'[x].open = port[x].open
         /\ UNCHANGED <<param_proc, interrupt_table, pc, received>>
<1> USE Processes
<1>1. pc[3] = "user" /\ active_proc = 3 /\ rq.state[3] = "READY"
  BY KernelPlaces DEF At, ComInv
<1>2. rq \in QueueRecord /\ param_data \in [Proc -> Proc \cup {NULL}]
  BY KernelTypes DEF ComInv
<1>3. /\ add_to_send_blocked_list(2, 3)
      /\ param_data' = [param_data EXCEPT ![3] = data]
      /\ rq' = [remove_ready_queue(rq, 3) EXCEPT !.state[3] = "MESSAGE_BLOCKED"]
      /\ active_proc' = dispatcher(rq', active_proc)
      /\ UNCHANGED <<portVars, procVars, interrupt_table, halt, pc>>
  BY DEF message, resign
<1>4. \A x \in {1, 2, 3} : port'[x].owner = port[x].owner /\ port'[x].open = port[x].open
  BY <1>3, ListsGrow
<1>5. /\ rq'.state[3] = "MESSAGE_BLOCKED" /\ rq'.priority = rq.priority
      /\ \A q \in Proc : q # 3 => /\ rq'.state[q] = rq.state[q]
                                  /\ param_data'[q] = param_data[q]
  BY ONLY <1>2, <1>3, Processes DEF QueueRecord, remove_ready_queue
<1>6. UNCHANGED <<param_proc, ports, next_free_port, next_free_pcb, new_proc,
                  interrupt_table, halt, pc, received, ret>>
  BY <1>3 DEF portVars, procVars, add_to_send_blocked_list
<1>7. /\ at'[3] = next /\ at' \in [Proc -> Places]
      /\ \A q \in Proc : q # 3 => at'[q] = at[q]
  BY DEF Jump, ComInv, Inv, Typed
<1>8. K!IInv' /\ K!HighestStep
  <2>1. ToReply' = ToReply
    <3>1. \A q \in Proc : InPcb(q)' <=> InPcb(q)
      BY <1>5, <1>6 DEF InPcb
    <3> QED  BY <1>1, <1>5, <3>1, SameClients
  <2>2. K!WaitsOn(3, 2)
    <3>1. PortOf[3] = 2
      BY DEF PortOf
    <3>2. K!WaitsOn(3, PortOf[3])
      BY <1>1, <1>5, NewWaiter
    <3> QED  BY <3>1, <3>2
  <2>3. K!message(3, 2, data)
    BY <1>6, SameMessageCalls
  <2>4. 2 \in K!Known
    BY SameSets, KernelConstants DEF K!Known
  <2>5. K!Message(3) /\ 3 \in K!Programs
    BY <1>6, <2>1, <2>2, <2>3, <2>4, SameSets DEF K!Message, K!NoResult
  <2> QED  BY <2>5, KernelStep DEF K!GNext, K!Call, ComInv
<1>9. BootStages' /\ ProgramStages' /\ PortsAreLeft' /\ PortsAreOwned' /\ HavePriorities'
  BY <1>4, <1>5, <1>6, <1>7, FrameIsKept
<1>10. ComNeverPanics'
  BY <1>6, NoPanicIsKept DEF ComInv, Inv
<1> QED  BY <1>1, <1>3, <1>4, <1>5, <1>6, <1>7, <1>8, <1>9, <1>10 DEF Steps

(* The reader waits for a byte. *)
LEMMA WaitStep ==
  ASSUME ComInv, At(3, "user"), Waits(3, COM1_IRQ, "read_byte"),
         UNCHANGED <<com_port, com_writer_port>>
  PROVE  /\ Steps(3, "read_byte") /\ K!HighestStep /\ OnlyTheLineIsAwaited'
         /\ active_proc' = dispatcher(rq', active_proc)
         /\ pc[3] = "user" /\ pc'[3] = "wait_for_interrupt"
         /\ rq.state[3] = "READY" /\ rq'.state[3] = "INTR_BLOCKED"
         /\ \A q \in Proc : q # 3 => rq'.state[q] = rq.state[q] /\ pc'[q] = pc[q]
         /\ UNCHANGED <<param_proc, param_data, port, received>>
<1> USE Processes
<1>1. pc[3] = "user" /\ active_proc = 3 /\ rq.state[3] = "READY"
  BY KernelPlaces DEF At, ComInv
<1>2. /\ rq \in QueueRecord /\ pc \in [Proc -> Labels]
      /\ interrupt_table \in [Irq -> ProcOrNull]
  BY KernelTypes DEF ComInv
<1>3. interrupt_table[COM1_IRQ] = NULL
  <2>1. ASSUME NEW n \in Proc, interrupt_table[COM1_IRQ] = n PROVE FALSE
    <3>1. pc[n] = "wait_for_interrupt"
      BY <2>1, SameSets DEF ComInv, K!IInv, K!WaitersAreRegistered, Irq, COM1_IRQ
    <3> QED  BY <1>1, <3>1, CallersAre
  <2> QED  BY <1>2, <2>1 DEF Irq, ProcOrNull
<1>4. /\ interrupt_table' = [interrupt_table EXCEPT ![COM1_IRQ] = 3]
      /\ resign([remove_ready_queue(rq, 3) EXCEPT !.state[3] = "INTR_BLOCKED"])
      /\ Goto(3, "wait_for_interrupt")
      /\ UNCHANGED <<ipcVars, portVars, procVars, halt>>
      /\ Jump(3, "read_byte") /\ UNCHANGED <<received, ret>>
  <2>1. wait_for_interrupt(3, COM1_IRQ) /\ Jump(3, "read_byte") /\ UNCHANGED <<received, ret>>
    BY <1>1 DEF Waits
  <2> QED  BY ONLY <1>3, <2>1 DEF wait_for_interrupt
<1>5. /\ pc'[3] = "wait_for_interrupt" /\ \A q \in Proc : q # 3 => pc'[q] = pc[q]
      /\ at'[3] = "read_byte" /\ \A q \in Proc : q # 3 => at'[q] = at[q]
      /\ at' \in [Proc -> Places]
  BY <1>2, <1>4 DEF Goto, Jump, ComInv, Inv, Typed, Places
<1>6. /\ rq'.state[3] = "INTR_BLOCKED" /\ \A q \in Proc : q # 3 => rq'.state[q] = rq.state[q]
      /\ rq'.priority = rq.priority
      /\ active_proc' = dispatcher(rq', active_proc)
  <2>1. rq' = [remove_ready_queue(rq, 3) EXCEPT !.state[3] = "INTR_BLOCKED"]
    BY <1>4 DEF resign
  <2>2. /\ rq'.state[3] = "INTR_BLOCKED" /\ rq'.priority = rq.priority
        /\ \A q \in Proc : q # 3 => rq'.state[q] = rq.state[q]
    BY ONLY <1>2, <2>1, Processes DEF QueueRecord, remove_ready_queue
  <2> QED  BY <1>4, <2>2 DEF resign
<1>7. UNCHANGED <<param_proc, param_data, next_blocked, port, ports, next_free_port,
                  next_free_pcb, new_proc, halt, received, ret>>
  BY <1>4 DEF ipcVars, portVars, procVars
<1>8. K!IInv' /\ K!HighestStep
  <2>1. \A q \in Proc : InPcb(q)' <=> InPcb(q)
    BY <1>5, <1>6, <1>7 DEF InPcb
  <2>2. K!Unchanged
    BY <1>1, <1>6, <1>7, <2>1, SameWaiting
  <2>3. K!wait_for_interrupt(3, COM1_IRQ)
    BY <1>1, <1>7, SameInterruptCalls DEF Waits
  <2>4. K!WaitForInterrupt(3) /\ 3 \in K!Programs
    BY <2>2, <2>3, SameSets DEF K!WaitForInterrupt, Irq
  <2> QED  BY <2>4, KernelStep DEF K!GNext, K!Call, ComInv
<1>9. BootStages' /\ ProgramStages' /\ PortsAreLeft' /\ PortsAreOwned' /\ HavePriorities'
  <2>1. \A q \in {2, 3} : pc'[q] = pc[q] \/ (pc[q] \in Running /\ pc'[q] \in Running)
    BY <1>1, <1>5 DEF Running
  <2> QED  BY <1>5, <1>6, <1>7, <2>1, FrameIsKept
<1>10. ComNeverPanics'
  BY <1>7, NoPanicIsKept DEF ComInv, Inv
<1>11. OnlyTheLineIsAwaited'
  BY <1>2, <1>4 DEF OnlyTheLineIsAwaited, ComInv, Inv
<1> QED  BY <1>1, <1>5, <1>6, <1>7, <1>8, <1>9, <1>10, <1>11 DEF Steps

-----------------------------------------------------------------------------
(* Interrupts *)

(* The reader goes on after an interrupt. *)
LEMMA WaitReturnInv ==
  ASSUME ComInv, NEW p \in Proc, wait_for_interrupt_return(p),
         UNCHANGED <<received, at, ret, comVars>>
  PROVE  ComInv' /\ NobodyIsAnswered
<1> USE Processes
<1>1. p = 3 /\ pc[3] = "wait_for_interrupt" /\ active_proc = 3
  BY CallersAre DEF wait_for_interrupt_return, At
<1>2. /\ rq.state[3] = "READY" /\ pc \in [Proc -> Labels] /\ at[3] = "read_byte"
      /\ interrupt_table \in [Irq -> ProcOrNull]
  <2>1. rq.state[3] = "READY"
    BY <1>1, KernelPlaces DEF ComInv
  <2>2. at[3] = "read_byte"
    BY <1>1 DEF ComInv, Inv, ReaderStages
  <2> QED  BY <2>1, <2>2, KernelTypes DEF ComInv
<1>3. /\ pc'[3] = "user" /\ \A q \in Proc : q # 3 => pc'[q] = pc[q]
      /\ interrupt_table' = [irq \in Irq |-> IF interrupt_table[irq] = 3
                                             THEN NULL ELSE interrupt_table[irq]]
  BY <1>1, <1>2 DEF wait_for_interrupt_return, Goto
<1>4. UNCHANGED <<rq, active_proc, param_proc, param_data, next_blocked, port, ports,
                  next_free_port, next_free_pcb, new_proc, halt, received, at, ret,
                  com_port, com_writer_port, requestVars>>
  BY DEF wait_for_interrupt_return, schedVars, ipcVars, portVars, procVars, comVars,
         requestVars
<1>5. K!IInv'
  <2>1. \A q \in Proc : InPcb(q)' <=> InPcb(q)
    BY <1>3, <1>4 DEF InPcb
  <2>2. K!Unchanged
    BY <1>4, <2>1, SameWaiting
  <2>3. K!wait_for_interrupt_return(3)
    BY <1>1, <1>4, SameInterruptCalls
  <2>4. K!WaitForInterruptReturn(3) /\ 3 \in K!Programs
    BY <2>2, <2>3, SameSets DEF K!WaitForInterruptReturn
  <2> QED  BY <2>4, KernelStep DEF K!GNext, K!Call, ComInv
<1>6. at' \in [Proc -> Places]
  BY <1>4 DEF ComInv, Inv, Typed
<1>7. BootStages' /\ ProgramStages' /\ PortsAreLeft' /\ PortsAreOwned' /\ HavePriorities'
  <2>1. \A q \in {2, 3} : pc'[q] = pc[q] \/ (pc[q] \in Running /\ pc'[q] \in Running)
    BY <1>1, <1>3 DEF Running
  <2> QED  BY <1>3, <1>4, <2>1, FrameIsKept
<1>8. OneCustomer' /\ ReaderIsAsked' /\ BuffersAreRight' /\ BytesAddUp'
  BY <1>1, <1>3, <1>4, SameRequests
<1> USE DEF ComInv, Inv
<1>9. Typed' /\ ComNeverPanics'
  BY <1>4, <1>6, TypesAreKept, NoPanicIsKept
<1>10. ServiceStages'
  BY <1>1, <1>3, <1>4 DEF ServiceStages, Exists
<1>11. ReaderStages'
  BY <1>2, <1>3, <1>4 DEF ReaderStages
<1>12. PortsAreServed'
  BY <1>4 DEF PortsAreServed
<1>13. ServiceFirst'
  BY <1>1, <1>4 DEF ServiceFirst
<1>14. OnlyTheLineIsAwaited'
  BY <1>3 DEF OnlyTheLineIsAwaited
<1> QED  BY <1>4, <1>5, <1>7, <1>8, <1>9, <1>10, <1>11, <1>12, <1>13, <1>14
         DEF NobodyIsAnswered

(* A tick: nobody waits for the timer. *)
LEMMA TickInv ==
  ASSUME ComInv, isr_timer, UNCHANGED <<received, progVars, comVars>>
  PROVE  ComInv' /\ NobodyIsAnswered
<1> USE Processes
<1>1. interrupt_table[TIMER_IRQ] = NULL
  BY DEF ComInv, Inv, OnlyTheLineIsAwaited, Irq, TIMER_IRQ, COM1_IRQ
<1>2. /\ rq' = rq /\ active_proc' = dispatcher(rq', active_proc)
      /\ UNCHANGED <<ipcVars, portVars, procVars, interrupt_table, halt, pc>>
  BY <1>1 DEF isr_timer, resign
<1>3. UNCHANGED <<rq, param_proc, param_data, next_blocked, port, ports,
                  next_free_port, next_free_pcb, new_proc, interrupt_table, halt, pc,
                  received, at, ret, com_port, com_writer_port, requestVars>>
  BY <1>2 DEF ipcVars, portVars, procVars, progVars, comVars, requestVars
<1>4. K!IInv' /\ K!HighestStep
  <2>1. \A q \in Proc : InPcb(q)' <=> InPcb(q)
    BY <1>3 DEF InPcb
  <2>2. K!Unchanged
    BY <1>3, <2>1, SameWaiting
  <2>3. K!isr_timer
    BY <1>3, SameInterruptCalls
  <2>4. K!IsrTimer
    BY <2>2, <2>3 DEF K!IsrTimer
  <2> QED  BY <2>4, KernelStep DEF K!GNext, K!Interrupt, ComInv
<1>5. OneCustomer' /\ ReaderIsAsked' /\ BuffersAreRight' /\ BytesAddUp'
  BY <1>3, SameRequests
<1>6. BootStages' /\ ProgramStages' /\ PortsAreLeft' /\ PortsAreOwned' /\ HavePriorities'
  BY <1>3, FrameIsKept
<1> USE DEF ComInv, Inv
<1>7. Typed' /\ ComNeverPanics' /\ OnlyTheLineIsAwaited'
  <2>1. at' \in [Proc -> Places]
    BY <1>3 DEF Typed
  <2> QED  BY <1>3, <2>1, TypesAreKept, NoPanicIsKept DEF OnlyTheLineIsAwaited
<1>8. ServiceStages' /\ ReaderStages' /\ PortsAreServed'
  BY <1>3 DEF ServiceStages, ReaderStages, PortsAreServed, Exists
<1>9. ServiceFirst'
  BY <1>2, <1>4, <1>6, DispatchServesFirst
<1> QED  BY <1>3, <1>4, <1>5, <1>6, <1>7, <1>8, <1>9 DEF NobodyIsAnswered

(* A byte finds the reader waiting for it. *)
LEMMA ByteFindsReader ==
  ASSUME ComInv, line # <<>>, FirstOfAnswer \/ ReaderWaits
  PROVE  /\ uart = NULL /\ Serving /\ at[2] # "send_cmd"
         /\ at[3] = "read_byte" /\ pc[3] = "wait_for_interrupt"
         /\ rq.state[3] = "INTR_BLOCKED" /\ interrupt_table[COM1_IRQ] = 3
<1> USE Processes DEF ComInv, Inv
<1>1. uart = NULL
  BY DEF FirstOfAnswer, ReaderWaits
<1>2. Serving /\ at[2] # "send_cmd" /\ com_sender \in Proc
  <2>1. Serving /\ at[2] # "send_cmd"
    BY DEF BytesAddUp
  <2>2. ~Asked
    BY <2>1 DEF Asked, Serving
  <2> QED  BY <2>1, <2>2 DEF OneCustomer, InService, Customer
<1>3. Head(line) = com_sender /\ Len(line) \in Nat /\ Len(line) > 0
  <2>1. line \in Seq(Proc) /\ \A k \in DOMAIN line : line[k] = com_sender
    BY <1>2 DEF Typed, BytesAddUp
  <2> QED  BY ONLY <2>1, line # <<>>
<1>4. at[3] = "read_byte" /\ pc[3] = "wait_for_interrupt"
  <2>1. CASE FirstOfAnswer
    <3>1. input_buffer[com_sender] = <<>>
      BY <1>3, <2>1 DEF FirstOfAnswer
    <3>2. Bytes(com_sender) + InUart + Len(line) = len_input_buffer[com_sender]
          /\ InUart = 0 /\ Bytes(com_sender) = 0
      BY <1>1, <1>2, <3>1 DEF BytesAddUp, InUart, Bytes
    <3>3. ~ReaderHasAnswer
      BY <1>3, <3>2 DEF BytesAddUp
    <3>4. ReaderHasRequest
      BY <1>2, <3>3 DEF ReaderIsAsked
    <3>5. at[3] = "read_byte" /\ rq.state[3] # "READY"
      <4>1. at[3] # "reader_start"
        BY <1>2 DEF BytesAddUp
      <4>2. at[3] # "reader_loop"
        BY <3>1 DEF BytesAddUp
      <4>3. at[3] = "read_byte"
        BY <3>4, <4>1, <4>2 DEF ReaderHasRequest
      <4> QED  BY <1>1, <4>3 DEF BytesAddUp
    <3> QED  BY <3>5 DEF ReaderStages
  <2>2. CASE ReaderWaits
    <3>1. interrupt_table \in [Irq -> ProcOrNull] /\ pc \in [Proc -> Labels]
      BY KernelTypes
    <3>2. PICK n \in Proc : interrupt_table[COM1_IRQ] = n
      BY <2>2, <3>1 DEF ReaderWaits, Irq, ProcOrNull, COM1_IRQ
    <3>3. pc[n] = "wait_for_interrupt"
      BY <3>2, SameSets DEF K!IInv, K!WaitersAreRegistered, Irq, COM1_IRQ
    <3>4. n = 3
      BY <3>3, CallersAre
    <3> QED  BY <3>3, <3>4 DEF ReaderStages
  <2> QED  BY <2>1, <2>2
<1>5. rq.state[3] = "INTR_BLOCKED"
  <2>1. rq.state[3] \in {"READY", "INTR_BLOCKED"}
    BY <1>4, KernelPlaces
  <2>2. rq.state[3] # "READY"
    BY <1>1, <1>4 DEF BytesAddUp
  <2> QED  BY <2>1, <2>2
<1>6. interrupt_table[COM1_IRQ] = 3
  <2>1. PICK irq \in Irq : interrupt_table[irq] = 3
    BY <1>4, SameSets DEF K!IInv, K!WaitersAreRegistered
  <2>2. irq = COM1_IRQ
    BY <2>1 DEF OnlyTheLineIsAwaited
  <2> QED  BY <2>1, <2>2
<1> QED  BY <1>1, <1>2, <1>4, <1>5, <1>6

LEMMA ByteInv ==
  ASSUME ComInv, com1_byte
  PROVE  ComInv' /\ NobodyIsAnswered
<1> USE Processes
<1>1. /\ uart = NULL /\ Serving /\ at[2] # "send_cmd"
      /\ at[3] = "read_byte" /\ pc[3] = "wait_for_interrupt"
      /\ rq.state[3] = "INTR_BLOCKED" /\ interrupt_table[COM1_IRQ] = 3
  BY ByteFindsReader DEF com1_byte
<1>2. /\ rq' = add_ready_queue(rq, 3) /\ active_proc' = dispatcher(rq', active_proc)
      /\ UNCHANGED <<ipcVars, portVars, procVars, interrupt_table, halt, pc>>
  BY <1>1 DEF com1_byte, isr_com1, isr_device, resign
<1>3. /\ rq'.state[3] = "READY" /\ rq'.priority = rq.priority
      /\ \A q \in Proc : q # 3 => rq'.state[q] = rq.state[q]
  <2>1. rq \in QueueRecord
    BY KernelTypes DEF ComInv
  <2>2. rq'.state = [rq.state EXCEPT ![3] = "READY"] /\ rq'.priority = rq.priority
    BY <1>2, <2>1, StateOf
  <2> QED  BY <2>1, <2>2 DEF QueueRecord
<1>4. UNCHANGED <<param_proc, param_data, next_blocked, port, ports,
                  next_free_port, next_free_pcb, new_proc, interrupt_table, halt, pc,
                  received, at, ret, com_port, com_writer_port, com_sender, reader_i,
                  len_input_buffer, input_buffer>>
  BY <1>2 DEF ipcVars, portVars, procVars, progVars, messageVars, com1_byte
<1>5. K!IInv' /\ K!HighestStep
  <2>1. \A q \in Proc : InPcb(q)' <=> InPcb(q)
    BY <1>3, <1>4 DEF InPcb
  <2>2. K!Unchanged
    BY <1>1, <1>3, <1>4, <2>1, SameWaiting
  <2>3. K!isr_com1
    BY <1>4, SameInterruptCalls DEF com1_byte
  <2>4. K!IsrCom1
    BY <2>2, <2>3 DEF K!IsrCom1
  <2> QED  BY <2>4, KernelStep DEF K!GNext, K!Interrupt, ComInv
<1>6. BootStages' /\ ProgramStages' /\ PortsAreLeft' /\ PortsAreOwned' /\ HavePriorities'
  BY <1>3, <1>4, FrameIsKept
<1> USE DEF ComInv, Inv
<1>7. /\ line \in Seq(Proc) /\ \A k \in DOMAIN line : line[k] = com_sender
      /\ line # <<>> /\ uart' = Head(line) /\ line' = Tail(line)
      /\ Bytes(com_sender) + InUart + Len(line) = len_input_buffer[com_sender]
      /\ com_sender \in Proc
  <2>1. com_sender \in Proc
    BY <1>1 DEF OneCustomer, InService, Customer, Asked, Serving
  <2> QED  BY <1>1, <2>1 DEF Typed, BytesAddUp, com1_byte
<1>8. /\ uart' = com_sender /\ line' \in Seq(Proc)
      /\ \A k \in DOMAIN line' : line'[k] = com_sender
      /\ Len(line') = Len(line) - 1 /\ Len(line) \in Nat
  BY ONLY <1>7
<1>9. Typed' /\ ComNeverPanics' /\ OnlyTheLineIsAwaited'
  <2>1. Typed'
    BY <1>4, <1>7, <1>8 DEF Typed, ProcOrNull
  <2> QED  BY <1>4, <2>1, NoPanicIsKept DEF OnlyTheLineIsAwaited
<1>10. ServiceStages' /\ ReaderStages' /\ PortsAreServed'
  BY <1>1, <1>3, <1>4 DEF ServiceStages, ReaderStages, PortsAreServed, Exists
<1>11. ServiceFirst'
  BY <1>2, <1>5, <1>6, DispatchServesFirst
<1>12. /\ Serving' /\ ~Asked /\ ~Asked' /\ ~Answered /\ ~Answered'
       /\ ReaderHasRequest /\ ReaderHasRequest'
       /\ ~ReaderHasAnswer' /\ Messenger' = Messenger /\ Content' = Content /\ Told' = Told
  BY <1>1, <1>3, <1>4 DEF Serving, Asked, Answered, ReaderHasRequest, ReaderHasAnswer,
                          Messenger, Content, Told
<1>13. OneCustomer' /\ ReaderIsAsked'
  <2>1. OneCustomer'
    BY <1>1, <1>3, <1>4, <1>12 DEF OneCustomer, InService, Customer
  <2>2. ReaderIsAsked'
    BY <1>4, <1>12 DEF ReaderIsAsked
  <2> QED  BY <2>1, <2>2
<1>14. BuffersAreRight'
  <2>1. \A q \in Proc : Fresh(q)' => Fresh(q)
    BY <1>1, <1>3, <1>4, <1>12 DEF Fresh, Customer
  <2> QED  BY <1>4, <2>1 DEF BuffersAreRight, Bytes
<1>15. BytesAddUp'
  <2>1. Bytes(com_sender)' = Bytes(com_sender) /\ InUart = 0 /\ InUart' = 1
    BY <1>1, <1>4, <1>7, <1>8 DEF Bytes, InUart
  <2>2. (Bytes(com_sender) + InUart + Len(line))' = len_input_buffer'[com_sender]
    <3>1. Bytes(com_sender) \in Int
      BY <1>7 DEF BuffersAreRight, Bytes
    <3> QED  BY <1>4, <1>7, <1>8, <2>1, <3>1
  <2>3. /\ at'[2] # "send_cmd" /\ at'[3] = "read_byte" /\ uart' # NULL
        /\ rq'.state[3] = "READY"
    BY <1>1, <1>3, <1>4, <1>7, <1>8
  <2>4. reader_i' = Bytes(com_sender)' /\ reader_i' < len_input_buffer'[com_sender']
    BY <1>1, <1>4, <2>1 DEF BytesAddUp
  <2> QED  BY <1>4, <1>8, <1>12, <2>2, <2>3, <2>4 DEF BytesAddUp
<1> QED  BY <1>1, <1>3, <1>5, <1>6, <1>9, <1>10, <1>11, <1>13, <1>14, <1>15 DEF NobodyIsAnswered

-----------------------------------------------------------------------------
(* The reader *)

(* Its steps leave com_process where it is. *)
LEMMA ServiceStays ==
  ASSUME ComInv, NEW next, Steps(3, next), pc[3] \in Running, pc'[3] \in Running,
         pc'[2] = pc[2], rq'.state[2] = rq.state[2] \/ pc[2] = "receive",
         \A x \in {1, 2, 3} : port'[x].open = port[x].open
  PROVE  ServiceStages' /\ PortsAreServed'
<1> USE Processes
<1>1. /\ at'[2] = at[2] /\ ret' = ret /\ Exists(3) /\ Exists(3)'
      /\ ServiceStages /\ PortsAreServed
  BY DEF Steps, Exists, Running, ComInv, Inv
<1>2. ServiceStages'
  BY <1>1 DEF ServiceStages, Exists
<1>3. PortsAreServed'
  BY <1>1 DEF PortsAreServed
<1> QED  BY <1>2, <1>3

LEMMA ReaderRuns ==
  ASSUME ComInv, pc[3] = "user"
  PROVE  /\ ports[3] = <<3>> /\ Len(ports[3]) = 1 /\ port[3].owner = 3 /\ port[3].open
         /\ port[2].owner = 2 /\ com_writer_port = 2 /\ Exists(2)
         /\ next_free_port >= 4
<1>1. next_free_port \in Int /\ next_free_port >= 4
  BY KernelTypes, PortsAssumption DEF ComInv, Inv, PortsAreLeft, Exists
<1>2. Exists(2)
  BY DEF ComInv, Inv, ServiceStages, Exists
<1>3. next_free_port >= 3 /\ PortsAreOwned
  BY <1>1 DEF ComInv, Inv
<1>4. ports[3] = <<3>> /\ port[3].owner = 3 /\ port[3].open
  BY <1>1, <1>3 DEF PortsAreOwned
<1>5. port[2].owner = 2 /\ com_writer_port = 2
  BY <1>3 DEF PortsAreOwned
<1>6. Len(ports[3]) = 1
  BY <1>4
<1> QED  BY <1>1, <1>2, <1>4, <1>5, <1>6

LEMMA ReaderReceivesInv ==
  ASSUME ComInv, Runs(3, "com_reader"), Receives(3, "reader_start"), UNCHANGED comVars
  PROVE  ComInv' /\ NobodyIsAnswered
<1> USE Processes
<1>1. pc[3] = "user" /\ at[3] = "com_reader" /\ active_proc = 3
  BY DEF Runs, At
<1>2. rq.state[3] = "READY"
  BY <1>1, KernelPlaces DEF ComInv
<1>3. receive_block(3) /\ ports[3] # <<>>
  <2>1. ports[3] = <<3>> /\ Len(ports[3]) = 1 /\ port[3].blocked_list_head = NULL
    BY <1>1, ReaderRuns, TheLists
  <2>2. ports[3] # <<>> /\ Pending(3) = {}
    BY <2>1 DEF Pending
  <2>3. receive(3)
    BY DEF Receives
  <2> QED  BY <2>2, <2>3, Zenon DEF receive, receive_pending
<1>4. UNCHANGED <<com_port, com_writer_port, requestVars>>
  BY DEF comVars, requestVars
<1>5. /\ Steps(3, "reader_start") /\ K!HighestStep
      /\ active_proc' = dispatcher(rq', active_proc)
      /\ pc'[3] = "receive" /\ \A q \in Proc : q # 3 => pc'[q] = pc[q]
      /\ rq'.state[3] = "RECEIVE_BLOCKED"
      /\ \A q \in Proc : q # 3 => /\ rq'.state[q] = rq.state[q]
                                  /\ param_data'[q] = param_data[q]
                                  /\ received'[q] = received[q]
      /\ UNCHANGED <<param_proc, port, interrupt_table>>
  <2>1. "reader_start" \in Places \ {"com_process"}
    BY DEF Places
  <2>2. At(3, "user") /\ receive(3) /\ Jump(3, "reader_start") /\ UNCHANGED ret
    BY DEF Runs, Receives
  <2> QED  BY <1>3, <1>4, <2>1, <2>2, BlocksStep
<1>6. /\ at'[3] = "reader_start" /\ at' \in [Proc -> Places]
      /\ \A q \in Proc : q # 3 => at'[q] = at[q]
      /\ K!IInv' /\ BootStages' /\ ProgramStages'
      /\ PortsAreLeft' /\ PortsAreOwned' /\ HavePriorities' /\ ComNeverPanics'
      /\ UNCHANGED <<ret, com_port, com_writer_port>>
  BY <1>5 DEF Steps
<1>7. ServiceStages' /\ PortsAreServed'
  <2>1. pc[3] \in Running /\ pc'[3] \in Running
    BY <1>1, <1>5 DEF Running
  <2> QED  BY <1>5, <2>1, ServiceStays
<1>8. ServiceFirst'
  BY <1>5, <1>6, DispatchServesFirst
<1>9. Typed' /\ OnlyTheLineIsAwaited' /\ ReaderStages'
  <2>1. Typed'
    BY <1>4, <1>6, TypesAreKept
  <2> QED  BY <1>5, <1>6, <2>1 DEF OnlyTheLineIsAwaited, ReaderStages, ComInv, Inv
<1>10. OneCustomer' /\ ReaderIsAsked' /\ BuffersAreRight' /\ BytesAddUp'
  <2>1. ~ReaderHasRequest /\ ~ReaderHasAnswer /\ ~ReaderHasRequest' /\ ~ReaderHasAnswer'
    BY <1>1, <1>2, <1>5, <1>6 DEF ReaderHasRequest, ReaderHasAnswer
  <2>2. ~Serving /\ ~Asked
    BY <1>2, <2>1 DEF ComInv, Inv, ReaderIsAsked
  <2>3. /\ Asked' <=> Asked
        /\ Serving' <=> Serving
        /\ Answered' <=> Answered
        /\ at'[2] = at[2]
    BY <1>5, <1>6 DEF Asked, Serving, Answered
  <2>4. Messenger' = Messenger /\ Content' = Content
    <3>1. pc'[2] = pc[2] /\ received'[2] = received[2] /\ param_data'[2] = param_data[2]
      BY <1>5
    <3> QED  BY <1>5, <3>1 DEF Messenger, Content
  <2>5. \A p \in Proc : /\ rq'.state[p] = "REPLY_BLOCKED" <=> rq.state[p] = "REPLY_BLOCKED"
                        /\ rq'.state[p] = "SEND_BLOCKED" =>
                             rq.state[p] = "SEND_BLOCKED" /\ param_data'[p] = param_data[p]
    BY <1>2, <1>5
  <2> QED  BY <1>4, <2>1, <2>2, <2>3, <2>4, <2>5, SamePhase
<1> QED  BY <1>2, <1>5, <1>6, <1>7, <1>8, <1>9, <1>10 DEF ComInv, Inv, NobodyIsAnswered

(* What the reader knows while it reads. *)
LEMMA ReaderReads ==
  ASSUME ComInv, Runs(3, "reader_start") \/ Runs(3, "reader_loop") \/ Runs(3, "read_byte")
  PROVE  /\ pc[3] = "user" /\ rq.state[3] = "READY" /\ active_proc = 3
         /\ ReaderHasRequest /\ ~ReaderHasAnswer /\ Serving /\ ~Asked /\ ~Answered
         /\ Message(3) = com_sender /\ Told = com_sender
         /\ com_sender \in Proc /\ Customer = com_sender
         /\ rq.state[com_sender] = "REPLY_BLOCKED"
         /\ Bytes(com_sender) \in Nat /\ Bytes(com_sender) <= len_input_buffer[com_sender]
         /\ len_input_buffer[com_sender] \in Nat
<1> USE Processes DEF ComInv, Inv
<1>1. pc[3] = "user" /\ rq.state[3] = "READY" /\ active_proc = 3
  BY KernelPlaces DEF Runs, At
<1>2. ReaderHasRequest /\ ~ReaderHasAnswer
  BY <1>1 DEF ReaderHasRequest, ReaderHasAnswer, Runs
<1>3. Serving /\ ~Asked /\ ~Answered /\ Told = com_sender
  BY <1>2 DEF ReaderIsAsked, Serving, Asked, Answered
<1>4. Message(3) = com_sender
  BY <1>1, <1>3 DEF Told, Message
<1>5. com_sender \in Proc /\ Customer = com_sender /\ rq.state[com_sender] = "REPLY_BLOCKED"
  BY <1>3 DEF OneCustomer, InService, Customer
<1>6. Bytes(com_sender) \in Nat /\ Bytes(com_sender) <= len_input_buffer[com_sender]
  <2>1. /\ input_buffer[com_sender] \in Seq({com_sender})
        /\ Bytes(com_sender) <= len_input_buffer[com_sender]
    BY <1>5 DEF BuffersAreRight
  <2>2. Len(input_buffer[com_sender]) \in Nat
    BY <2>1
  <2> QED  BY <2>1, <2>2 DEF Bytes
<1>7. len_input_buffer[com_sender] \in Nat
  BY <1>5, LengthsAssumption DEF Typed
<1> QED  BY <1>1, <1>2, <1>3, <1>4, <1>5, <1>6, <1>7

(* A step of the reader that only computes. *)
LEMMA ReaderComputesStep ==
  ASSUME ComInv, Runs(3, "reader_start") \/ Runs(3, "read_byte"),
         Computes(3, "reader_loop"), UNCHANGED <<com_port, com_writer_port>>
  PROVE  /\ Steps(3, "reader_loop") /\ at'[3] = "reader_loop" /\ at'[2] = at[2]
         /\ UNCHANGED <<rq, active_proc, param_proc, param_data, port,
                        interrupt_table, pc, received, ret>>
         /\ ServiceStages' /\ PortsAreServed' /\ ServiceFirst' /\ OnlyTheLineIsAwaited'
         /\ ReaderStages' /\ at' \in [Proc -> Places]
<1> USE Processes
<1>1. /\ Steps(3, "reader_loop") /\ pc[3] = "user"
      /\ UNCHANGED <<rq, active_proc, param_proc, param_data, port,
                     interrupt_table, pc, received>>
  <2>1. "reader_loop" \in Places \ {"com_process"} /\ At(3, "user")
    BY DEF Places, Runs
  <2> QED  BY <2>1, ComputesStep
<1>2. /\ at'[3] = "reader_loop" /\ at'[2] = at[2] /\ ret' = ret /\ at' \in [Proc -> Places]
      /\ rq.state[3] = "READY" /\ active_proc = 3
  BY <1>1, ReaderReads DEF Steps
<1>3. ServiceStages' /\ PortsAreServed'
  <2>1. pc[3] \in Running /\ pc'[3] \in Running
    BY <1>1 DEF Running
  <2> QED  BY <1>1, <2>1, ServiceStays
<1>4. ServiceFirst' /\ OnlyTheLineIsAwaited' /\ ReaderStages'
  BY <1>1, <1>2 DEF ServiceFirst, OnlyTheLineIsAwaited, ReaderStages, ComInv, Inv
<1> QED  BY <1>1, <1>2, <1>3, <1>4

LEMMA ReaderStartInv ==
  ASSUME ComInv, reader_start(3)
  PROVE  ComInv' /\ NobodyIsAnswered
<1> USE Processes
<1>1. /\ Runs(3, "reader_start") /\ Computes(3, "reader_loop") /\ reader_i' = 0
      /\ UNCHANGED <<com_port, com_writer_port, com_sender, len_input_buffer,
                     input_buffer, line, uart>>
  BY DEF reader_start, messageVars, deviceVars
<1>2. /\ Steps(3, "reader_loop") /\ at'[3] = "reader_loop" /\ at'[2] = at[2]
      /\ UNCHANGED <<rq, active_proc, param_proc, param_data, port,
                     interrupt_table, pc, received, ret>>
      /\ ServiceStages' /\ PortsAreServed' /\ ServiceFirst' /\ OnlyTheLineIsAwaited'
      /\ ReaderStages' /\ at' \in [Proc -> Places]
  BY <1>1, ReaderComputesStep
<1>3. /\ pc[3] = "user" /\ rq.state[3] = "READY" /\ Serving /\ ~Asked /\ ~Answered
      /\ Told = com_sender /\ com_sender \in Proc /\ Customer = com_sender
      /\ ~ReaderHasAnswer
  BY <1>1, ReaderReads
<1> USE DEF ComInv, Inv
<1>4. at[2] = "send_cmd" /\ input_buffer[com_sender] = <<>> /\ line = <<>> /\ uart = NULL
  <2>1. at[2] = "send_cmd"
    BY <1>1, <1>3 DEF BytesAddUp, Runs
  <2>2. line = <<>> /\ uart = NULL
    BY <2>1 DEF BytesAddUp
  <2>3. Fresh(com_sender)
    BY <1>3, <2>1 DEF Fresh
  <2> QED  BY <1>3, <2>1, <2>2, <2>3 DEF BuffersAreRight
<1>5. Typed'
  <2>1. \E longest \in Lengths : 0 \in 0 .. longest
    <3>1. PICK longest \in Lengths : longest \in Nat
      BY LengthsAssumption
    <3>2. 0 \in 0 .. longest
      BY <3>1
    <3> QED  BY <3>1, <3>2
  <2> QED  BY <1>1, <1>2, <2>1 DEF Typed
<1>6. /\ Serving' /\ ~Asked' /\ ~Answered' /\ ReaderHasRequest' /\ ~ReaderHasAnswer'
      /\ Told' = Told /\ Customer' = Customer /\ Content' = Content
      /\ InService /\ InService'
  BY <1>1, <1>2, <1>3 DEF Serving, Asked, Answered, ReaderHasRequest, ReaderHasAnswer,
                          Told, Customer, Content, InService
<1>7. OneCustomer' /\ ReaderIsAsked'
  <2>1. OneCustomer'
    BY <1>1, <1>2, <1>3, <1>6 DEF OneCustomer
  <2>2. ReaderIsAsked'
    BY <1>1, <1>3, <1>6 DEF ReaderIsAsked
  <2> QED  BY <2>1, <2>2
<1>8. BuffersAreRight'
  <2>1. \A q \in Proc : Fresh(q)' <=> Fresh(q)
    BY <1>2, <1>3, <1>6 DEF Fresh
  <2> QED  BY <1>1, <2>1 DEF BuffersAreRight, Bytes
<1>9. BytesAddUp'
  <2>1. Bytes(com_sender)' = 0
    BY <1>1, <1>4 DEF Bytes
  <2> QED  BY <1>1, <1>2, <1>3, <1>4, <1>6, <2>1 DEF BytesAddUp
<1>10. NobodyIsAnswered
  BY <1>2 DEF NobodyIsAnswered
<1> QED  BY <1>2, <1>5, <1>7, <1>8, <1>9, <1>10 DEF Steps

LEMMA ReadByteInv ==
  ASSUME ComInv, Runs(3, "read_byte"), Computes(3, "reader_loop"),
         input_buffer' = [input_buffer EXCEPT ![Message(3)] = Append(@, uart)],
         uart' = NULL, reader_i' = reader_i + 1,
         UNCHANGED <<com_port, com_writer_port, com_sender, len_input_buffer, line>>
  PROVE  ComInv' /\ NobodyIsAnswered
<1> USE Processes
<1>1. /\ Steps(3, "reader_loop") /\ at'[3] = "reader_loop" /\ at'[2] = at[2]
      /\ UNCHANGED <<rq, active_proc, param_proc, param_data, port,
                     interrupt_table, pc, received, ret>>
      /\ ServiceStages' /\ PortsAreServed' /\ ServiceFirst' /\ OnlyTheLineIsAwaited'
      /\ ReaderStages' /\ at' \in [Proc -> Places]
  BY ReaderComputesStep
<1>2. /\ pc[3] = "user" /\ rq.state[3] = "READY" /\ at[3] = "read_byte"
      /\ Serving /\ ~Asked /\ ~Answered
      /\ Told = com_sender /\ com_sender \in Proc /\ Customer = com_sender
      /\ ~ReaderHasAnswer /\ Message(3) = com_sender
      /\ rq.state[com_sender] = "REPLY_BLOCKED"
      /\ Bytes(com_sender) \in Nat /\ len_input_buffer[com_sender] \in Nat
  BY ReaderReads DEF Runs
<1> USE DEF ComInv, Inv
<1>3. /\ at[2] # "send_cmd" /\ uart = com_sender /\ InUart = 1
      /\ reader_i = Bytes(com_sender) /\ reader_i < len_input_buffer[com_sender]
      /\ Bytes(com_sender) + 1 + Len(line) = len_input_buffer[com_sender]
  <2>1. uart # NULL
    BY <1>2 DEF BytesAddUp
  <2>2. at[2] # "send_cmd"
    BY <2>1 DEF BytesAddUp
  <2> QED  BY <1>2, <2>1, <2>2 DEF BytesAddUp, InUart
<1>4. /\ input_buffer'[com_sender] = Append(input_buffer[com_sender], com_sender)
      /\ \A q \in Proc : q # com_sender => input_buffer'[q] = input_buffer[q]
      /\ input_buffer' = [q \in Proc |-> input_buffer'[q]]
  BY <1>2, <1>3 DEF Typed
<1>5. /\ input_buffer'[com_sender] \in Seq({com_sender})
      /\ Bytes(com_sender)' = Bytes(com_sender) + 1
      /\ input_buffer'[com_sender] # <<>>
  <2>1. input_buffer[com_sender] \in Seq({com_sender})
    BY <1>2 DEF BuffersAreRight
  <2>2. /\ input_buffer'[com_sender] \in Seq({com_sender})
        /\ Len(input_buffer'[com_sender]) = Len(input_buffer[com_sender]) + 1
        /\ input_buffer'[com_sender] # <<>>
    <3>1. PICK s : s = input_buffer[com_sender] /\ s \in Seq({com_sender})
      BY <2>1
    <3>2. /\ Append(s, com_sender) \in Seq({com_sender})
          /\ Len(Append(s, com_sender)) = Len(s) + 1
          /\ Len(s) \in Nat
      BY ONLY <3>1
    <3>3. Len(Append(s, com_sender)) # 0
      BY ONLY <3>2
    <3> QED  BY ONLY <1>4, <3>1, <3>2, <3>3
  <2> QED  BY <2>2 DEF Bytes
<1>6. Typed'
  <2>1. len_input_buffer[com_sender] \in Lengths \cup {0}
    BY <1>2 DEF Typed
  <2>2. len_input_buffer[com_sender] \in Lengths
    BY <1>2, <1>3, <2>1
  <2>3. reader_i' \in 0 .. len_input_buffer[com_sender]
    BY <1>2, <1>3
  <2> QED  BY <1>1, <1>4, <2>2, <2>3 DEF Typed, ProcOrNull
<1>7. /\ Serving' /\ ~Asked' /\ ~Answered' /\ ReaderHasRequest' /\ ~ReaderHasAnswer'
      /\ Told' = Told /\ Customer' = Customer /\ Content' = Content
      /\ InService /\ InService'
  BY <1>1, <1>2 DEF Serving, Asked, Answered, ReaderHasRequest, ReaderHasAnswer,
                    Told, Customer, Content, InService
<1>8. OneCustomer' /\ ReaderIsAsked'
  <2>1. OneCustomer'
    BY <1>1, <1>2, <1>7 DEF OneCustomer
  <2>2. ReaderIsAsked'
    BY <1>2, <1>7 DEF ReaderIsAsked
  <2> QED  BY <2>1, <2>2
<1>9. BuffersAreRight'
  <2>1. \A q \in Proc : /\ Fresh(q)' <=> Fresh(q)
                        /\ Fresh(q) => q # com_sender
    BY <1>1, <1>2, <1>3, <1>7 DEF Fresh
  <2>2. ASSUME NEW q \in Proc PROVE BuffersAreRight!(q)'
    <3>1. BuffersAreRight!(q)
      BY DEF BuffersAreRight
    <3>2. CASE q = com_sender
      BY <1>2, <1>3, <1>5, <2>1, <3>2
    <3>3. CASE q # com_sender
      <4>1. Bytes(q)' = Bytes(q) /\ input_buffer'[q] = input_buffer[q]
        BY <1>4, <3>3 DEF Bytes
      <4> QED  BY <2>1, <3>1, <4>1
    <3> QED  BY <3>2, <3>3
  <2> QED  BY <2>2 DEF BuffersAreRight
<1>10. BytesAddUp'
  <2>1. InUart' = 0
    BY DEF InUart
  <2>2. (Bytes(com_sender) + InUart + Len(line))' = len_input_buffer'[com_sender]
    <3>1. line \in Seq(Proc) /\ Len(line) \in Nat
      BY DEF Typed
    <3> QED  BY <1>2, <1>3, <1>5, <2>1, <3>1
  <2>3. reader_i' = Bytes(com_sender)'
    BY <1>2, <1>3, <1>5
  <2>4. \A k \in DOMAIN line' : line'[k] = com_sender'
    BY <1>2 DEF BytesAddUp
  <2> QED  BY <1>1, <1>3, <1>5, <1>7, <2>2, <2>3, <2>4 DEF BytesAddUp
<1>11. NobodyIsAnswered
  BY <1>1 DEF NobodyIsAnswered
<1> QED  BY <1>1, <1>6, <1>8, <1>9, <1>10, <1>11 DEF Steps

(* The reader is in its loop: it knows how many bytes it has read. *)
LEMMA ReaderLoops ==
  ASSUME ComInv, Runs(3, "reader_loop")
  PROVE  /\ reader_i = Bytes(com_sender) /\ uart = NULL /\ InUart = 0
         /\ Full(3) <=> Bytes(com_sender) = len_input_buffer[com_sender]
         /\ ~Full(3) => reader_i < len_input_buffer[com_sender]
<1>1. reader_i = Bytes(com_sender) /\ uart = NULL
  BY DEF ComInv, Inv, BytesAddUp, Runs
<1> QED  BY <1>1, ReaderReads DEF Full, InUart

LEMMA ReaderWaitsInv ==
  ASSUME ComInv, Runs(3, "reader_loop"), ~Full(3), Waits(3, COM1_IRQ, "read_byte"),
         UNCHANGED comVars
  PROVE  ComInv' /\ NobodyIsAnswered
<1> USE Processes
<1>1. UNCHANGED <<com_port, com_writer_port, requestVars>>
  BY DEF comVars, requestVars
<1>2. /\ Steps(3, "read_byte") /\ K!HighestStep /\ OnlyTheLineIsAwaited'
      /\ active_proc' = dispatcher(rq', active_proc)
      /\ pc[3] = "user" /\ pc'[3] = "wait_for_interrupt"
      /\ rq'.state[3] = "INTR_BLOCKED"
      /\ \A q \in Proc : q # 3 => rq'.state[q] = rq.state[q] /\ pc'[q] = pc[q]
      /\ UNCHANGED <<param_proc, param_data, port, received>>
  BY <1>1, WaitStep DEF Runs
<1>3. /\ at'[3] = "read_byte" /\ at' \in [Proc -> Places] /\ at'[2] = at[2]
      /\ K!IInv' /\ BootStages' /\ ProgramStages'
      /\ PortsAreLeft' /\ PortsAreOwned' /\ HavePriorities' /\ ComNeverPanics'
      /\ UNCHANGED ret
  BY <1>2 DEF Steps
<1>4. /\ rq.state[3] = "READY"
      /\ Serving /\ ~Asked /\ ~Answered /\ ~ReaderHasAnswer
      /\ Told = com_sender /\ com_sender \in Proc /\ Customer = com_sender
      /\ reader_i = Bytes(com_sender) /\ uart = NULL
      /\ reader_i < len_input_buffer[com_sender]
  BY ReaderReads, ReaderLoops
<1>5. ServiceStages' /\ PortsAreServed'
  <2>1. pc[3] \in Running /\ pc'[3] \in Running
    BY <1>2 DEF Running
  <2> QED  BY <1>2, <2>1, ServiceStays
<1>6. ServiceFirst'
  BY <1>2, <1>3, DispatchServesFirst
<1>7. Typed' /\ ReaderStages'
  BY <1>1, <1>2, <1>3, TypesAreKept DEF ReaderStages
<1>8. /\ Serving' /\ ~Asked' /\ ~Answered' /\ ReaderHasRequest' /\ ~ReaderHasAnswer'
      /\ Told' = Told /\ Customer' = Customer /\ Content' = Content
      /\ InService /\ InService'
  BY <1>1, <1>2, <1>3, <1>4 DEF Serving, Asked, Answered, ReaderHasRequest, ReaderHasAnswer,
                    Told, Customer, Content, InService, requestVars
<1>9. \A q \in Proc : /\ rq'.state[q] = "REPLY_BLOCKED" <=> rq.state[q] = "REPLY_BLOCKED"
                      /\ rq'.state[q] = "SEND_BLOCKED" <=> rq.state[q] = "SEND_BLOCKED"
  BY <1>2, <1>4
<1> USE DEF ComInv, Inv
<1>10. OneCustomer' /\ ReaderIsAsked'
  <2>1. OneCustomer'
    BY <1>2, <1>3, <1>4, <1>8, <1>9 DEF OneCustomer
  <2>2. ReaderIsAsked'
    BY <1>1, <1>4, <1>8 DEF ReaderIsAsked, requestVars
  <2> QED  BY <2>1, <2>2
<1>11. BuffersAreRight'
  <2>1. \A q \in Proc : Fresh(q)' <=> Fresh(q)
    BY <1>3, <1>4, <1>8, <1>9 DEF Fresh
  <2> QED  BY <1>1, <2>1 DEF BuffersAreRight, Bytes, requestVars
<1>12. BytesAddUp'
  <2>1. Bytes(com_sender)' = Bytes(com_sender) /\ InUart' = InUart
    BY <1>1 DEF Bytes, InUart, requestVars
  <2> QED  BY <1>1, <1>2, <1>3, <1>4, <1>8, <2>1 DEF BytesAddUp, requestVars
<1> QED  BY <1>2, <1>3, <1>5, <1>6, <1>7, <1>9, <1>10, <1>11, <1>12 DEF NobodyIsAnswered

(* The reader has the answer, and com_process waits for it. *)
LEMMA ReaderDeliversInv ==
  ASSUME ComInv, Runs(3, "reader_loop"), Full(3), CanDeliver(2),
         message(3, 2, 3), Jump(3, "com_reader"), UNCHANGED <<received, ret, comVars>>
  PROVE  ComInv' /\ NobodyIsAnswered
<1> USE Processes
<1>1. UNCHANGED <<com_port, com_writer_port, requestVars, received, ret>>
  BY DEF comVars, requestVars
<1>2. /\ pc[3] = "user" /\ rq.state[3] = "READY"
      /\ Serving /\ ~Asked /\ ~Answered
      /\ com_sender \in Proc /\ Customer = com_sender
      /\ Bytes(com_sender) = len_input_buffer[com_sender]
      /\ uart = NULL /\ InUart = 0 /\ Bytes(com_sender) \in Nat
  BY ReaderReads, ReaderLoops
<1>3. port[2].owner = 2 /\ Exists(2)
  BY <1>2, ReaderRuns
<1>4. /\ Steps(3, "com_reader") /\ K!HighestStep
      /\ active_proc' = dispatcher(rq', active_proc)
      /\ rq.state[2] = "RECEIVE_BLOCKED" /\ rq'.state[2] = "READY" /\ pc[2] = "receive"
      /\ param_proc'[2] = 3 /\ param_data'[2] = 3
      /\ \A q \in Proc : q # 2 => /\ rq'.state[q] = rq.state[q]
                                  /\ param_proc'[q] = param_proc[q]
                                  /\ param_data'[q] = param_data[q]
      /\ UNCHANGED <<port, interrupt_table, pc, received>>
  <2>1. 2 = PortOf[3] /\ At(3, "user") /\ "com_reader" \in Places \ {"com_process"}
    BY DEF PortOf, Runs, Places
  <2> QED  BY <1>1, <1>3, <2>1, DeliversStep
<1>5. /\ at'[3] = "com_reader" /\ at' \in [Proc -> Places] /\ at'[2] = at[2]
      /\ K!IInv' /\ BootStages' /\ ProgramStages'
      /\ PortsAreLeft' /\ PortsAreOwned' /\ HavePriorities' /\ ComNeverPanics'
  BY <1>4 DEF Steps
<1>6. at[2] = "com_reply"
  <2>1. port[2].open
    BY DEF CanDeliver
  <2>2. ServiceStages /\ PortsAreServed
    BY DEF ComInv, Inv
  <2>3. at[2] \in {"start_reader", "com_reply"}
    BY ONLY <1>4, <2>2 DEF ServiceStages
  <2> QED  BY <2>1, <2>2, <2>3 DEF PortsAreServed
<1>7. ServiceStages' /\ PortsAreServed'
  <2>1. pc[3] \in Running /\ pc'[3] \in Running
    BY <1>2, <1>4 DEF Running
  <2> QED  BY <1>4, <2>1, ServiceStays
<1>8. ServiceFirst'
  BY <1>4, <1>5, DispatchServesFirst
<1>9. Typed' /\ ReaderStages' /\ OnlyTheLineIsAwaited'
  <2>1. Typed'
    BY <1>1, <1>5, TypesAreKept
  <2> QED  BY <1>2, <1>4, <1>5, <2>1 DEF ReaderStages, OnlyTheLineIsAwaited, ComInv, Inv
<1>10. /\ ~Serving' /\ ~Asked' /\ Answered' /\ ~ReaderHasRequest' /\ ~ReaderHasAnswer'
       /\ Messenger' = 3 /\ Customer' = Customer /\ InService /\ InService'
  BY <1>1, <1>2, <1>4, <1>5, <1>6
     DEF Serving, Asked, Answered, ReaderHasRequest, ReaderHasAnswer,
         Messenger, Customer, InService, requestVars
<1>11. \A q \in Proc : /\ rq'.state[q] = "REPLY_BLOCKED" <=> rq.state[q] = "REPLY_BLOCKED"
                       /\ rq'.state[q] = "SEND_BLOCKED" <=> rq.state[q] = "SEND_BLOCKED"
                       /\ rq'.state[q] = "SEND_BLOCKED" => param_data'[q] = param_data[q]
  BY <1>4
<1> USE DEF ComInv, Inv
<1>12. OneCustomer' /\ ReaderIsAsked'
  <2>1. OneCustomer'
    BY <1>2, <1>5, <1>6, <1>10, <1>11 DEF OneCustomer
  <2>2. ReaderIsAsked'
    BY <1>10 DEF ReaderIsAsked
  <2> QED  BY <2>1, <2>2
<1>13. BuffersAreRight'
  <2>1. \A q \in Proc : Fresh(q)' <=> Fresh(q)
    BY <1>2, <1>5, <1>10, <1>11 DEF Fresh
  <2> QED  BY <1>1, <2>1 DEF BuffersAreRight, Bytes, requestVars
<1>14. BytesAddUp'
  <2>1. Bytes(com_sender)' = Bytes(com_sender)
    BY <1>1 DEF Bytes, requestVars
  <2>2. line = <<>>
    <3>1. Len(line) \in Nat /\ line \in Seq(Proc)
      BY DEF Typed
    <3>2. Bytes(com_sender) + 0 + Len(line) = Bytes(com_sender)
      BY <1>2, <1>6 DEF BytesAddUp
    <3>3. Len(line) = 0
      BY <1>2, <3>1, <3>2
    <3> QED  BY ONLY <3>1, <3>3
  <2> QED  BY <1>1, <1>2, <1>5, <1>10, <2>1, <2>2 DEF BytesAddUp, requestVars
<1> QED  BY <1>5, <1>7, <1>8, <1>9, <1>11, <1>12, <1>13, <1>14 DEF NobodyIsAnswered

(* The reader has the answer before com_process waits for it. *)
LEMMA ReaderBlocksInv ==
  ASSUME ComInv, Runs(3, "reader_loop"), Full(3), ~CanDeliver(2),
         message(3, 2, 3), Jump(3, "com_reader"), UNCHANGED <<received, ret, comVars>>
  PROVE  ComInv' /\ NobodyIsAnswered
<1> USE Processes
<1>1. UNCHANGED <<com_port, com_writer_port, requestVars, received, ret>>
  BY DEF comVars, requestVars
<1>2. /\ pc[3] = "user" /\ rq.state[3] = "READY"
      /\ Serving /\ ~Asked /\ ~Answered
      /\ com_sender \in Proc /\ Customer = com_sender
      /\ Bytes(com_sender) = len_input_buffer[com_sender]
  BY ReaderReads, ReaderLoops
<1>3. port[2].owner = 2 /\ pc[2] \notin {"free", "embryo"}
  BY <1>2, ReaderRuns DEF Exists
<1>4. /\ Steps(3, "com_reader") /\ K!HighestStep
      /\ active_proc' = dispatcher(rq', active_proc)
      /\ rq'.state[3] = "MESSAGE_BLOCKED"
      /\ \A q \in Proc : q # 3 => /\ rq'.state[q] = rq.state[q]
                                  /\ param_data'[q] = param_data[q]
      /\ \A x \in {1, 2, 3} : port'[x].open = port[x].open
      /\ UNCHANGED <<param_proc, interrupt_table, pc, received>>
  <2>1. At(3, "user") /\ "com_reader" \in Places \ {"com_process"}
    BY DEF Runs, Places
  <2> QED  BY <1>1, <1>3, <2>1, MessageBlocksStep
<1>5. /\ at'[3] = "com_reader" /\ at' \in [Proc -> Places] /\ at'[2] = at[2]
      /\ K!IInv' /\ BootStages' /\ ProgramStages'
      /\ PortsAreLeft' /\ PortsAreOwned' /\ HavePriorities' /\ ComNeverPanics'
  BY <1>4 DEF Steps
<1>6. ServiceStages' /\ PortsAreServed'
  <2>1. pc[3] \in Running /\ pc'[3] \in Running
    BY <1>2, <1>4 DEF Running
  <2> QED  BY <1>4, <2>1, ServiceStays
<1>7. ServiceFirst'
  BY <1>4, <1>5, DispatchServesFirst
<1>8. Typed' /\ ReaderStages' /\ OnlyTheLineIsAwaited'
  <2>1. Typed'
    BY <1>1, <1>5, TypesAreKept
  <2> QED  BY <1>2, <1>4, <1>5, <2>1 DEF ReaderStages, OnlyTheLineIsAwaited, ComInv, Inv
<1>9. /\ Serving' /\ ~Asked' /\ ~Answered' /\ ~ReaderHasRequest' /\ ReaderHasAnswer'
      /\ Content' = Content /\ Customer' = Customer /\ InService /\ InService'
  BY <1>1, <1>2, <1>4, <1>5
     DEF Serving, Asked, Answered, ReaderHasRequest, ReaderHasAnswer,
         Content, Customer, InService, requestVars
<1>10. \A q \in Proc : /\ rq'.state[q] = "REPLY_BLOCKED" <=> rq.state[q] = "REPLY_BLOCKED"
                       /\ rq'.state[q] = "SEND_BLOCKED" <=> rq.state[q] = "SEND_BLOCKED"
                       /\ rq'.state[q] = "SEND_BLOCKED" => param_data'[q] = param_data[q]
  BY <1>2, <1>4
<1> USE DEF ComInv, Inv
<1>11. OneCustomer' /\ ReaderIsAsked'
  <2>1. OneCustomer'
    BY <1>2, <1>5, <1>9, <1>10 DEF OneCustomer
  <2>2. ReaderIsAsked'
    BY <1>9 DEF ReaderIsAsked
  <2> QED  BY <2>1, <2>2
<1>12. BuffersAreRight'
  <2>1. \A q \in Proc : Fresh(q)' <=> Fresh(q)
    BY <1>2, <1>5, <1>9, <1>10 DEF Fresh
  <2> QED  BY <1>1, <2>1 DEF BuffersAreRight, Bytes, requestVars
<1>13. BytesAddUp'
  <2>1. Bytes(com_sender)' = Bytes(com_sender) /\ InUart' = InUart
    BY <1>1 DEF Bytes, InUart, requestVars
  <2> QED  BY <1>1, <1>2, <1>5, <1>9, <2>1 DEF BytesAddUp, requestVars
<1> QED  BY <1>5, <1>6, <1>7, <1>8, <1>10, <1>11, <1>12, <1>13 DEF NobodyIsAnswered

LEMMA ReaderInv ==
  ASSUME ComInv, NEW p \in Proc, com_reader_process(p)
  PROVE  ComInv' /\ NobodyIsAnswered
<1>1. /\ p = 3
      /\ \/ Runs(3, "com_reader") /\ Receives(3, "reader_start") /\ UNCHANGED comVars
         \/ reader_start(3)
         \/ /\ Runs(3, "reader_loop")
            /\ \/ ~Full(3) /\ Waits(3, COM1_IRQ, "read_byte")
               \/ Full(3) /\ Messages(3, com_writer_port, 3, "com_reader")
            /\ UNCHANGED comVars
         \/ /\ Runs(3, "read_byte")
            /\ input_buffer' = [input_buffer EXCEPT ![Message(3)] = Append(@, uart)]
            /\ uart' = NULL
            /\ reader_i' = reader_i + 1
            /\ Computes(3, "reader_loop")
            /\ UNCHANGED <<com_port, com_writer_port, com_sender, len_input_buffer, line>>
  <2>1. p = 3
    BY Processes, WhereTheyAre, Zenon DEF com_reader_process, reader_start, Runs, Working
  <2> QED  BY <2>1 DEF com_reader_process
<1>2. CASE Runs(3, "com_reader") /\ Receives(3, "reader_start") /\ UNCHANGED comVars
  BY <1>2, ReaderReceivesInv
<1>3. CASE reader_start(3)
  BY <1>3, ReaderStartInv
<1>4. CASE /\ Runs(3, "reader_loop")
           /\ ~Full(3) /\ Waits(3, COM1_IRQ, "read_byte") /\ UNCHANGED comVars
  BY <1>4, ReaderWaitsInv
<1>5. CASE /\ Runs(3, "reader_loop") /\ Full(3)
           /\ Messages(3, com_writer_port, 3, "com_reader") /\ UNCHANGED comVars
  <2>1. com_writer_port = 2
    BY <1>5, ReaderReads, ReaderRuns
  <2>2. message(3, 2, 3) /\ Jump(3, "com_reader") /\ UNCHANGED <<received, ret>>
    BY <1>5, <2>1, NullAssumption, Processes, Zenon DEF Messages
  <2> QED  BY <1>5, <2>2, ReaderDeliversInv, ReaderBlocksInv
<1>6. CASE /\ Runs(3, "read_byte")
           /\ input_buffer' = [input_buffer EXCEPT ![Message(3)] = Append(@, uart)]
           /\ uart' = NULL /\ reader_i' = reader_i + 1
           /\ Computes(3, "reader_loop")
           /\ UNCHANGED <<com_port, com_writer_port, com_sender, len_input_buffer, line>>
  BY <1>6, ReadByteInv
<1> QED  BY <1>1, <1>2, <1>3, <1>4, <1>5, <1>6

-----------------------------------------------------------------------------
(* The programs *)

(* A program's request is taken at once: com_process waits for one.        *)
LEMMA RequestDelivered ==
  ASSUME ComInv, NEW p \in Proc, Runs(p, "program"), NEW len \in Lengths,
         CanDeliver(1), send(p, 1, p), Jump(p, "program"), UNCHANGED <<received, ret>>,
         len_input_buffer' = [len_input_buffer EXCEPT ![p] = len],
         input_buffer' = [input_buffer EXCEPT ![p] = <<>>],
         UNCHANGED <<com_port, com_writer_port, com_sender, reader_i, line, uart>>
  PROVE  ComInv' /\ NobodyIsAnswered
<1> USE Processes
<1>1. /\ pc[p] = "user" /\ at[p] = "program" /\ active_proc = p
      /\ p > 3 /\ Exists(Service) /\ Exists(Reader)
      /\ pc[2] = "receive" /\ rq.state[2] = "RECEIVE_BLOCKED"
      /\ at[2] \in {"start_reader", "com_reply"} /\ rq.state[3] # "READY"
      /\ rq.state[p] = "READY" /\ p # 2 /\ p # 3
  BY ProgramRuns DEF Runs, At
<1>2. /\ rq \in QueueRecord /\ param_proc \in [Proc -> ProcOrNull]
      /\ param_data \in [Proc -> Proc \cup {NULL}]
  BY KernelTypes DEF ComInv
<1>3. port[1].owner = 2 /\ port[1].open /\ 1 \in K!Known
  <2>1. next_free_port >= 4 /\ next_free_port \in Int
    BY <1>1, KernelTypes, PortsAssumption DEF ComInv, Inv, PortsAreLeft
  <2>2. port[1].owner = 2
    BY <2>1 DEF ComInv, Inv, PortsAreOwned
  <2> QED  BY <1>1, <2>2, SameSets, KernelConstants DEF CanDeliver, K!Known
<1>4. at[2] = "start_reader"
  BY <1>1, <1>3 DEF ComInv, Inv, PortsAreServed
<1>5. /\ ~Asked /\ ~Serving /\ ~Answered /\ ~InService
      /\ \A q \in Proc : rq.state[q] # "REPLY_BLOCKED"
  <2>1. ~Asked /\ ~Serving /\ ~Answered
    BY <1>1, <1>4 DEF Asked, Serving, Answered
  <2> QED  BY <2>1 DEF InService, ComInv, Inv, OneCustomer
<1>6. rq.state[3] = "RECEIVE_BLOCKED" /\ at[3] = "reader_start"
  BY <1>1, <1>5, ReaderIdle DEF Busy
<1>7. /\ param_proc' = [param_proc EXCEPT ![2] = p]
      /\ param_data' = [param_data EXCEPT ![2] = p, ![p] = p]
      /\ rq' = Sent(rq, p, 2)
      /\ active_proc' = dispatcher(rq', active_proc)
      /\ UNCHANGED <<next_blocked, port, portVars, procVars, interrupt_table, halt, pc>>
  BY <1>3 DEF send, Deliver, resign, Sent
<1>8. /\ param_proc'[2] = p /\ param_data'[2] = p
      /\ \A q \in Proc : q # 2 /\ q # p => param_data'[q] = param_data[q]
  BY <1>1, <1>2, <1>7
<1>9. /\ rq'.state[2] = "READY" /\ rq'.state[p] = "REPLY_BLOCKED"
      /\ rq'.priority = rq.priority
      /\ \A q \in Proc : q # 2 /\ q # p => rq'.state[q] = rq.state[q]
  BY <1>1, <1>2, <1>7, SendStateOf
<1>10. UNCHANGED <<next_blocked, port, ports, next_free_port, next_free_pcb, new_proc,
                  interrupt_table, halt, pc, received, ret>>
  BY <1>7 DEF portVars, procVars
<1>11. at' = at
  BY <1>1 DEF Jump, ComInv, Inv, Typed
<1>12. K!IInv' /\ K!HighestStep
  <2>1. ToReply' = ToReply
    <3>1. InPcb(p)'
      BY <1>1, <1>8, <1>9, <1>10 DEF InPcb
    <3>2. \A q \in Proc : rq'.state[q] = "REPLY_BLOCKED" => q = p
      BY <1>5, <1>9
    <3> QED  BY <1>5, <3>1, <3>2, SameClients
  <2>2. K!WaitsOn(p, 1)
    <3>1. PortOf[p] = 1
      BY <1>1 DEF PortOf
    <3>2. K!WaitsOn(p, PortOf[p])
      BY <1>1, <1>9, NewWaiter
    <3> QED  BY <3>1, <3>2
  <2>3. K!send(p, 1, p)
    BY <1>10, SameMessageCalls
  <2>4. K!Send(p) /\ p \in K!Programs
    BY <1>1, <1>3, <1>10, <2>1, <2>2, <2>3, SameSets DEF K!Send, K!NoResult
  <2> QED  BY <2>4, KernelStep DEF K!GNext, K!Call, ComInv
<1>13. BootStages' /\ ProgramStages' /\ PortsAreLeft' /\ PortsAreOwned' /\ HavePriorities'
  <2>1. \A q \in Proc : q > 3 =>
           rq'.state[q] = rq.state[q]
             \/ rq'.state[q] \in {"READY", "SEND_BLOCKED", "REPLY_BLOCKED"}
    BY <1>9
  <2> QED  BY <1>1, <1>9, <1>10, <1>11, <2>1, FrameIsKept
<1> USE DEF ComInv, Inv
<1>14. ComNeverPanics' /\ OnlyTheLineIsAwaited'
  BY <1>10, NoPanicIsKept DEF OnlyTheLineIsAwaited
<1>15. Typed'
  BY <1>10, <1>11 DEF Typed
<1>16. ServiceStages' /\ ReaderStages' /\ PortsAreServed'
  <2>1. ServiceStages'
    BY <1>1, <1>4, <1>9, <1>10, <1>11 DEF ServiceStages, Exists
  <2>2. ReaderStages'
    BY <1>1, <1>9, <1>10, <1>11 DEF ReaderStages
  <2>3. PortsAreServed'
    BY <1>10, <1>11 DEF PortsAreServed
  <2> QED  BY <2>1, <2>2, <2>3
<1>17. ServiceFirst'
  BY <1>7, <1>12, <1>13, DispatchServesFirst
<1>18. /\ Asked' /\ ~Serving' /\ ~Answered' /\ InService' /\ Customer' = p /\ Content' = p
       /\ ~ReaderHasRequest' /\ ~ReaderHasAnswer'
  BY <1>1, <1>4, <1>6, <1>8, <1>9, <1>10, <1>11
     DEF Asked, Serving, Answered, InService, Customer, Messenger, Content,
         ReaderHasRequest, ReaderHasAnswer
<1>19. OneCustomer' /\ ReaderIsAsked'
  <2>1. OneCustomer'
    BY <1>5, <1>8, <1>9, <1>18 DEF OneCustomer
  <2>2. ReaderIsAsked'
    BY <1>1, <1>6, <1>9, <1>18 DEF ReaderIsAsked
  <2> QED  BY <2>1, <2>2
<1>20. BuffersAreRight'
  <2>1. /\ input_buffer'[p] = <<>> /\ len_input_buffer'[p] = len /\ len \in Nat
        /\ \A q \in Proc : q # p => /\ input_buffer'[q] = input_buffer[q]
                                    /\ len_input_buffer'[q] = len_input_buffer[q]
    BY LengthsAssumption DEF Typed
  <2>2. ASSUME NEW q \in Proc PROVE BuffersAreRight!(q)'
    <3>1. BuffersAreRight!(q)
      BY DEF BuffersAreRight
    <3>2. CASE q = p
      <4>1. <<>> \in Seq({q}) /\ Len(<<>>) = 0
        OBVIOUS
      <4>2. Bytes(q)' = 0 /\ 0 <= len
        BY ONLY <2>1, <3>2, <4>1 DEF Bytes
      <4> QED  BY ONLY <2>1, <3>2, <4>1, <4>2
    <3>3. CASE q # p
      <4>1. Bytes(q)' = Bytes(q) /\ input_buffer'[q] = input_buffer[q]
        BY <2>1, <3>3 DEF Bytes
      <4>2. Fresh(q)' => Fresh(q)
        BY <1>1, <1>9, <1>18, <3>3 DEF Fresh
      <4> QED  BY <2>1, <3>1, <3>3, <4>1, <4>2
    <3> QED  BY <3>2, <3>3
  <2> QED  BY <2>2 DEF BuffersAreRight
<1>21. BytesAddUp'
  <2>1. line = <<>> /\ uart = NULL
    BY <1>5 DEF BytesAddUp
  <2> QED  BY <1>6, <1>11, <1>18, <2>1 DEF BytesAddUp
<1>22. NobodyIsAnswered
  BY <1>5 DEF NobodyIsAnswered
<1> QED  BY <1>12, <1>13, <1>14, <1>15, <1>16, <1>17, <1>19, <1>20, <1>21, <1>22

(* com_process serves another request: the program waits in the list.      *)
LEMMA RequestBlocks ==
  ASSUME ComInv, NEW p \in Proc, Runs(p, "program"), NEW len \in Lengths,
         ~CanDeliver(1), send(p, 1, p), Jump(p, "program"), UNCHANGED <<received, ret>>,
         len_input_buffer' = [len_input_buffer EXCEPT ![p] = len],
         input_buffer' = [input_buffer EXCEPT ![p] = <<>>],
         UNCHANGED <<com_port, com_writer_port, com_sender, reader_i, line, uart>>
  PROVE  ComInv' /\ NobodyIsAnswered
<1> USE Processes
<1>1. /\ pc[p] = "user" /\ at[p] = "program" /\ active_proc = p
      /\ p > 3 /\ Exists(Service) /\ Exists(Reader)
      /\ pc[2] = "receive" /\ rq.state[2] = "RECEIVE_BLOCKED"
      /\ at[2] \in {"start_reader", "com_reply"} /\ rq.state[3] # "READY"
      /\ rq.state[p] = "READY" /\ p # 2 /\ p # 3
  BY ProgramRuns DEF Runs, At
<1>2. /\ rq \in QueueRecord /\ param_data \in [Proc -> Proc \cup {NULL}]
  BY KernelTypes DEF ComInv
<1>3. port[1].owner = 2 /\ ~port[1].open /\ 1 \in K!Known
  <2>1. next_free_port >= 4 /\ next_free_port \in Int
    BY <1>1, KernelTypes, PortsAssumption DEF ComInv, Inv, PortsAreLeft
  <2>2. port[1].owner = 2
    BY <2>1 DEF ComInv, Inv, PortsAreOwned
  <2> QED  BY <1>1, <2>2, SameSets, KernelConstants DEF CanDeliver, K!Known
<1>4. at[2] = "com_reply"
  BY <1>1, <1>3 DEF ComInv, Inv, PortsAreServed
<1>5. /\ ~Asked /\ Serving /\ ~Answered /\ InService /\ Customer = com_sender
      /\ com_sender \in Proc /\ rq.state[com_sender] = "REPLY_BLOCKED" /\ p # com_sender
  <2>1. ~Asked /\ Serving /\ ~Answered /\ InService /\ Customer = com_sender
    BY <1>1, <1>4 DEF Asked, Serving, Answered, InService, Customer
  <2> QED  BY <1>1, <2>1 DEF ComInv, Inv, OneCustomer
<1>6. /\ add_to_send_blocked_list(1, p)
      /\ param_data' = [param_data EXCEPT ![p] = p]
      /\ rq' = remove_ready_queue([rq EXCEPT !.state[p] = "SEND_BLOCKED"], p)
      /\ active_proc' = dispatcher(rq', active_proc)
      /\ UNCHANGED <<portVars, procVars, interrupt_table, halt, pc>>
  BY DEF send, resign
<1>7. \A x \in {1, 2, 3} : port'[x].owner = port[x].owner /\ port'[x].open = port[x].open
  BY <1>6, ListsGrow
<1>8. /\ rq'.state[p] = "SEND_BLOCKED" /\ rq'.priority = rq.priority /\ param_data'[p] = p
      /\ \A q \in Proc : q # p => /\ rq'.state[q] = rq.state[q]
                                  /\ param_data'[q] = param_data[q]
  BY ONLY <1>2, <1>6, Processes DEF QueueRecord, remove_ready_queue
<1>9. UNCHANGED <<param_proc, ports, next_free_port, next_free_pcb, new_proc,
                  interrupt_table, halt, pc, received, ret>>
  BY <1>6 DEF portVars, procVars, add_to_send_blocked_list
<1>10. at' = at
  BY <1>1 DEF Jump, ComInv, Inv, Typed
<1>11. K!IInv' /\ K!HighestStep
  <2>1. ToReply' = ToReply
    <3>1. \A q \in Proc : InPcb(q)' <=> InPcb(q)
      BY <1>1, <1>8, <1>9 DEF InPcb
    <3> QED  BY <1>1, <1>8, <3>1, SameClients
  <2>2. K!WaitsOn(p, 1)
    <3>1. PortOf[p] = 1
      BY <1>1 DEF PortOf
    <3>2. K!WaitsOn(p, PortOf[p])
      BY <1>1, <1>8, NewWaiter
    <3> QED  BY <3>1, <3>2
  <2>3. K!send(p, 1, p)
    BY <1>9, SameMessageCalls
  <2>4. K!Send(p) /\ p \in K!Programs
    BY <1>1, <1>3, <1>9, <2>1, <2>2, <2>3, SameSets DEF K!Send, K!NoResult
  <2> QED  BY <2>4, KernelStep DEF K!GNext, K!Call, ComInv
<1>12. BootStages' /\ ProgramStages' /\ PortsAreLeft' /\ PortsAreOwned' /\ HavePriorities'
  <2>1. \A q \in Proc : q > 3 =>
           rq'.state[q] = rq.state[q]
             \/ rq'.state[q] \in {"READY", "SEND_BLOCKED", "REPLY_BLOCKED"}
    BY <1>8
  <2> QED  BY <1>1, <1>7, <1>8, <1>9, <1>10, <2>1, FrameIsKept
<1> USE DEF ComInv, Inv
<1>13. ComNeverPanics' /\ OnlyTheLineIsAwaited'
  BY <1>9, NoPanicIsKept DEF OnlyTheLineIsAwaited
<1>14. Typed'
  BY <1>9, <1>10 DEF Typed
<1>15. ServiceStages' /\ ReaderStages' /\ PortsAreServed'
  <2>1. ServiceStages'
    BY <1>1, <1>4, <1>8, <1>9, <1>10 DEF ServiceStages, Exists
  <2>2. ReaderStages'
    BY <1>1, <1>8, <1>9, <1>10 DEF ReaderStages
  <2>3. PortsAreServed'
    BY <1>7, <1>10 DEF PortsAreServed
  <2> QED  BY <2>1, <2>2, <2>3
<1>16. ServiceFirst'
  BY <1>6, <1>11, <1>12, DispatchServesFirst
<1>17. /\ ~Asked' /\ Serving' /\ ~Answered' /\ InService' /\ Customer' = Customer
       /\ Content' = Content /\ Told' = Told
       /\ ReaderHasRequest' <=> ReaderHasRequest
       /\ ReaderHasAnswer' <=> ReaderHasAnswer
  BY <1>1, <1>5, <1>8, <1>9, <1>10
     DEF Asked, Serving, Answered, InService, Customer, Content, Told,
         ReaderHasRequest, ReaderHasAnswer
<1>18. OneCustomer' /\ ReaderIsAsked'
  <2>1. OneCustomer'
    BY <1>1, <1>5, <1>8, <1>10, <1>17 DEF OneCustomer
  <2>2. ReaderIsAsked'
    BY <1>5, <1>17 DEF ReaderIsAsked
  <2> QED  BY <2>1, <2>2
<1>19. /\ input_buffer'[p] = <<>> /\ len_input_buffer'[p] = len /\ len \in Nat
       /\ \A q \in Proc : q # p => /\ input_buffer'[q] = input_buffer[q]
                                   /\ len_input_buffer'[q] = len_input_buffer[q]
  BY LengthsAssumption DEF Typed
<1>20. BuffersAreRight'
  <2>1. ASSUME NEW q \in Proc PROVE BuffersAreRight!(q)'
    <3>1. BuffersAreRight!(q)
      BY DEF BuffersAreRight
    <3>2. CASE q = p
      <4>1. <<>> \in Seq({q}) /\ Len(<<>>) = 0
        OBVIOUS
      <4>2. Bytes(q)' = 0 /\ 0 <= len
        BY ONLY <1>19, <3>2, <4>1 DEF Bytes
      <4> QED  BY ONLY <1>19, <3>2, <4>1, <4>2
    <3>3. CASE q # p
      <4>1. Bytes(q)' = Bytes(q) /\ input_buffer'[q] = input_buffer[q]
        BY <1>19, <3>3 DEF Bytes
      <4>2. Fresh(q)' => Fresh(q)
        BY <1>8, <1>10, <1>17, <3>3 DEF Fresh
      <4> QED  BY <1>19, <3>1, <3>3, <4>1, <4>2
    <3> QED  BY <3>2, <3>3
  <2> QED  BY <2>1 DEF BuffersAreRight
<1>21. BytesAddUp'
  <2>1. /\ Bytes(com_sender)' = Bytes(com_sender) /\ InUart' = InUart
        /\ len_input_buffer'[com_sender] = len_input_buffer[com_sender]
        /\ input_buffer'[com_sender] = input_buffer[com_sender]
    BY <1>5, <1>19 DEF Bytes, InUart
  <2> QED  BY <1>1, <1>5, <1>8, <1>10, <1>17, <2>1 DEF BytesAddUp
<1>22. NobodyIsAnswered
  BY <1>1, <1>8 DEF NobodyIsAnswered
<1> QED  BY <1>11, <1>12, <1>13, <1>14, <1>15, <1>16, <1>18, <1>20, <1>21, <1>22

LEMMA RequestInv ==
  ASSUME ComInv, NEW p \in Proc, Request(p)
  PROVE  ComInv' /\ NobodyIsAnswered
<1>1. PICK len \in Lengths : Runs(p, "program") /\ send_to_com(p, len, "program")
  BY DEF Request
<1>2. com_port = 1
  BY <1>1, ProgramRuns DEF Runs, At
<1>3. send(p, 1, p) /\ Jump(p, "program") /\ UNCHANGED <<received, ret>>
  BY <1>1, <1>2, NullAssumption, Processes, Zenon DEF send_to_com, Sends
<1>4. /\ len_input_buffer' = [len_input_buffer EXCEPT ![p] = len]
      /\ input_buffer' = [input_buffer EXCEPT ![p] = <<>>]
      /\ UNCHANGED <<com_port, com_writer_port, com_sender, reader_i, line, uart>>
  BY <1>1 DEF send_to_com, deviceVars
<1> QED  BY <1>1, <1>3, <1>4, RequestDelivered, RequestBlocks

-----------------------------------------------------------------------------
(* The com process *)

LEMMA ServiceRuns ==
  ASSUME ComInv, pc[2] = "user", at[2] \in Working, active_proc = 2
  PROVE  /\ rq.state[2] = "READY" /\ Exists(3) /\ ret[2] = 3 /\ com_writer_port = 2
         /\ Len(ports[2]) = 2 /\ ports[2][1] = 2 /\ ports[2][2] = 1
         /\ port[1].owner = 2 /\ port[2].owner = 2 /\ port[3].owner = 3 /\ port[3].open
         /\ com_port \in {NULL, 1} /\ next_free_port >= 4
<1>1. ServiceStages
  BY DEF ComInv, Inv
<1>2. Exists(3) /\ ret[2] = 3 /\ rq.state[2] = "READY"
  BY ONLY <1>1, pc[2] = "user", at[2] \in Working DEF ServiceStages, Working
<1>3. next_free_port \in Int /\ next_free_port >= 4
  BY <1>2, KernelTypes, PortsAssumption DEF ComInv, Inv, PortsAreLeft
<1>4. next_free_port >= 2 /\ next_free_port >= 3 /\ PortsAreOwned
  BY <1>3 DEF ComInv, Inv
<1>5. /\ Len(ports[2]) = 2 /\ ports[2][1] = 2 /\ ports[2][2] = 1
      /\ port[1].owner = 2 /\ port[2].owner = 2 /\ com_writer_port = 2
  BY <1>4 DEF PortsAreOwned
<1>6. port[3].owner = 3 /\ port[3].open
  BY <1>3, <1>4 DEF PortsAreOwned
<1>7. com_port \in {NULL, 1}
  BY DEF ComInv, Inv, Typed
<1> QED  BY <1>2, <1>3, <1>5, <1>6, <1>7

(* A step of com_process leaves the reader where it is in its program.     *)
LEMMA ReaderStays ==
  ASSUME ComInv, Exists(3), pc'[3] = pc[3], at'[3] = at[3],
         \/ rq'.state[3] = rq.state[3]
         \/ rq'.state[3] = "READY"
  PROVE  ReaderStages'
BY DEF ComInv, Inv, ReaderStages

(* It opens or closes a port. *)
LEMMA ServicePortInv ==
  ASSUME ComInv, At(2, "user"), NEW po \in {1, 2}, NEW value \in BOOLEAN,
         NEW next \in Places \ {"com_process"}, Jump(2, next),
         \/ at[2] = "open_com_port" /\ po = 1 /\ value /\ next = "close_writer_port"
         \/ at[2] = "close_writer_port" /\ po = 2 /\ ~value /\ next = "com_receive"
         \/ at[2] = "close_com_port" /\ po = 1 /\ ~value /\ next = "open_writer_port"
         \/ at[2] = "open_writer_port" /\ po = 2 /\ value /\ next = "await_reader",
         IF value THEN open_port(2, po) ELSE close_port(2, po),
         UNCHANGED <<received, ret, comVars>>
  PROVE  ComInv' /\ NobodyIsAnswered
<1> USE Processes
<1>1. pc[2] = "user" /\ active_proc = 2 /\ at[2] \in Working
  BY DEF At, Working
<1>2. Exists(3) /\ ret[2] = 3 /\ rq.state[2] = "READY"
  BY <1>1, ServiceRuns
<1>3. /\ port' = [port EXCEPT ![po].open = value]
      /\ UNCHANGED <<schedVars, param_proc, param_data, next_blocked, portVars,
                     procVars, interrupt_table, halt, pc>>
  <2>1. CASE value
    <3>1. open_port(2, po)
      BY <2>1
    <3> QED  BY <2>1, <3>1, Zenon DEF open_port
  <2>2. CASE ~value
    <3>1. close_port(2, po) /\ value = FALSE
      BY <2>2
    <3> QED  BY <3>1, Zenon DEF close_port
  <2> QED  BY <2>1, <2>2
<1>4. UNCHANGED <<com_port, com_writer_port, requestVars>>
  BY DEF comVars, requestVars
<1>5. /\ Steps(2, next)
      /\ port'[po].open = value
      /\ \A x \in {1, 2, 3} : x # po => port'[x].open = port[x].open
      /\ UNCHANGED <<rq, active_proc, param_proc, param_data,
                     interrupt_table, pc, received>>
  BY <1>1, <1>3, <1>4, PortSetStep
<1>6. /\ at'[2] = next /\ at' \in [Proc -> Places] /\ \A q \in Proc : q # 2 => at'[q] = at[q]
      /\ K!IInv' /\ BootStages' /\ ProgramStages'
      /\ PortsAreLeft' /\ PortsAreOwned' /\ HavePriorities' /\ ComNeverPanics'
      /\ ret' = ret
  BY <1>5 DEF Steps
<1>7. Typed' /\ OnlyTheLineIsAwaited'
  BY <1>4, <1>5, <1>6, TypesAreKept DEF OnlyTheLineIsAwaited, ComInv, Inv
<1>8. ServiceStages' /\ ReaderStages'
  <2>1. next \in Working
    BY DEF Working
  <2>2. ServiceStages'
    BY <1>1, <1>2, <1>5, <1>6, <2>1 DEF ServiceStages, Exists
  <2> QED  BY <1>2, <1>5, <1>6, <2>2, ReaderStays
<1>9. PortsAreServed'
  <2>1. PortsAreServed
    BY DEF ComInv, Inv
  <2> QED  BY <1>5, <1>6, <2>1 DEF PortsAreServed
<1>10. ServiceFirst'
  <2>1. (NoPrograms' <=> NoPrograms) /\ (Busy(3)' <=> Busy(3))
    BY <1>5 DEF NoPrograms, Busy, Exists
  <2>2. NoPrograms \/ ~Busy(3)
    BY <1>1 DEF ServiceFirst, ComInv, Inv
  <2> QED  BY <1>1, <1>5, <2>1, <2>2 DEF ServiceFirst
<1>11. OneCustomer' /\ ReaderIsAsked' /\ BuffersAreRight' /\ BytesAddUp'
  <2>1. /\ Asked' <=> Asked
        /\ Serving' <=> Serving
        /\ Answered' <=> Answered
        /\ at'[2] = "send_cmd" <=> at[2] = "send_cmd"
    BY <1>5, <1>6 DEF Asked, Serving, Answered
  <2>2. Messenger' = Messenger /\ Content' = Content /\ Told' = Told
    BY <1>5 DEF Messenger, Content, Told
  <2>3. /\ ReaderHasRequest' <=> ReaderHasRequest
        /\ ReaderHasAnswer' <=> ReaderHasAnswer
    BY <1>5, <1>6 DEF ReaderHasRequest, ReaderHasAnswer
  <2>4. ~Serving => ~ReaderHasRequest /\ ~ReaderHasAnswer
    BY DEF ComInv, Inv, ReaderIsAsked
  <2> QED  BY <1>4, <1>5, <1>6, <2>1, <2>2, <2>3, <2>4, SamePhase
<1>12. NobodyIsAnswered
  BY <1>5 DEF NobodyIsAnswered
<1> QED  BY <1>6, <1>7, <1>8, <1>9, <1>10, <1>11, <1>12 DEF ComInv, Inv

(* It waits for a request, or for the reader. *)
LEMMA ServiceBlocksInv ==
  ASSUME ComInv, At(2, "user"), NEW next \in {"start_reader", "com_reply"},
         \/ at[2] = "com_receive" /\ next = "start_reader"
         \/ at[2] = "await_reader" /\ next = "com_reply",
         receive(2), receive_block(2), Jump(2, next), UNCHANGED <<ret, comVars>>
  PROVE  ComInv' /\ NobodyIsAnswered
<1> USE Processes
<1>1. pc[2] = "user" /\ active_proc = 2 /\ at[2] \in Working
  BY DEF At, Working
<1>2. /\ Exists(3) /\ ret[2] = 3 /\ rq.state[2] = "READY" /\ ports[2] # <<>>
  <2>1. Len(ports[2]) = 2
    BY <1>1, ServiceRuns
  <2> QED  BY <1>1, <2>1, ServiceRuns
<1>3. UNCHANGED <<com_port, com_writer_port, requestVars, ret>>
  BY DEF comVars, requestVars
<1>4. /\ Steps(2, next) /\ K!HighestStep
      /\ active_proc' = dispatcher(rq', active_proc)
      /\ pc'[2] = "receive" /\ \A q \in Proc : q # 2 => pc'[q] = pc[q]
      /\ rq'.state[2] = "RECEIVE_BLOCKED"
      /\ \A q \in Proc : q # 2 => /\ rq'.state[q] = rq.state[q]
                                  /\ param_data'[q] = param_data[q]
                                  /\ received'[q] = received[q]
      /\ UNCHANGED <<param_proc, port, interrupt_table>>
  <2>1. next \in Places \ {"com_process"}
    BY DEF Places
  <2> QED  BY <1>2, <1>3, <2>1, BlocksStep
<1>5. /\ at'[2] = next /\ at' \in [Proc -> Places] /\ \A q \in Proc : q # 2 => at'[q] = at[q]
      /\ K!IInv' /\ BootStages' /\ ProgramStages'
      /\ PortsAreLeft' /\ PortsAreOwned' /\ HavePriorities' /\ ComNeverPanics'
  BY <1>4 DEF Steps
<1>6. Typed' /\ OnlyTheLineIsAwaited'
  BY <1>3, <1>4, <1>5, TypesAreKept DEF OnlyTheLineIsAwaited, ComInv, Inv
<1>7. ServiceStages' /\ ReaderStages'
  <2>1. ServiceStages'
    BY <1>2, <1>3, <1>4, <1>5 DEF ServiceStages, Exists
  <2> QED  BY <1>2, <1>4, <1>5, <2>1, ReaderStays
<1>8. PortsAreServed'
  <2>1. PortsAreServed
    BY DEF ComInv, Inv
  <2> QED  BY <1>4, <1>5, <2>1 DEF PortsAreServed
<1>9. ServiceFirst'
  BY <1>4, <1>5, DispatchServesFirst
<1>10. OneCustomer' /\ ReaderIsAsked' /\ BuffersAreRight' /\ BytesAddUp'
  <2>1. /\ Asked' <=> Asked
        /\ Serving' <=> Serving
        /\ Answered' <=> Answered
        /\ at'[2] = "send_cmd" <=> at[2] = "send_cmd"
        /\ ~Asked /\ ~Answered /\ at[2] # "send_cmd"
    BY <1>4, <1>5 DEF Asked, Serving, Answered
  <2>2. Told' = Told
    BY <1>4 DEF Told
  <2>3. /\ ReaderHasRequest' <=> ReaderHasRequest
        /\ ReaderHasAnswer' <=> ReaderHasAnswer
    BY <1>4, <1>5 DEF ReaderHasRequest, ReaderHasAnswer
  <2>4. ~Serving => ~ReaderHasRequest /\ ~ReaderHasAnswer
    BY DEF ComInv, Inv, ReaderIsAsked
  <2>5. \A p \in Proc : /\ rq'.state[p] = "REPLY_BLOCKED" <=> rq.state[p] = "REPLY_BLOCKED"
                        /\ rq'.state[p] = "SEND_BLOCKED" =>
                             rq.state[p] = "SEND_BLOCKED" /\ param_data'[p] = param_data[p]
    BY <1>2, <1>4
  <2>6. rq'.state[3] = rq.state[3] /\ at'[3] = at[3]
    BY <1>4, <1>5
  <2> QED  BY ONLY ComInv, <1>3, <2>1, <2>2, <2>3, <2>4, <2>5, <2>6, SamePhase
<1>11. NobodyIsAnswered
  BY <1>2, <1>4 DEF NobodyIsAnswered
<1> QED  BY <1>5, <1>6, <1>7, <1>8, <1>9, <1>10, <1>11 DEF ComInv, Inv

(* It takes the first sender of the list of its port at position k. *)
LEMMA TakesStep ==
  ASSUME ComInv, At(2, "user"), at[2] \in Working, NEW k \in {1, 2}, Pending(2) \subseteq {k},
         receive(2), receive_pending(2), NEW next \in Places \ {"com_process"}, Jump(2, next),
         UNCHANGED <<ret, com_port, com_writer_port>>,
         NEW h, h = port[ports[2][k]].blocked_list_head
  PROVE  /\ Steps(2, next) /\ h \in Proc /\ h # 2
         /\ \/ h > 3 /\ rq.state[h] = "SEND_BLOCKED" /\ rq'.state[h] = "REPLY_BLOCKED" /\ k = 2
            \/ h = 3 /\ rq.state[h] = "MESSAGE_BLOCKED" /\ rq'.state[h] = "READY" /\ k = 1
         /\ \A q \in Proc : q # h => rq'.state[q] = rq.state[q]
         /\ received'[2][1] = h /\ received'[2][2] = param_data[h]
         /\ \A q \in Proc : q # 2 => received'[q] = received[q]
         /\ \A x \in {1, 2, 3} : port'[x].open = port[x].open
         /\ UNCHANGED <<active_proc, param_proc, param_data, interrupt_table, pc>>
<1> USE Processes
<1>1. /\ pc[2] = "user" /\ active_proc = 2 /\ rq.state[2] = "READY"
      /\ Len(ports[2]) = 2 /\ ports[2][1] = 2 /\ ports[2][2] = 1
      /\ port[1].owner = 2 /\ port[2].owner = 2
  BY ServiceRuns DEF At
<1>2. /\ rq \in QueueRecord /\ param_data \in [Proc -> Proc \cup {NULL}]
      /\ received = [q \in Proc |-> received[q]]
      /\ port \in [Port -> [open : BOOLEAN, owner : ProcOrNull,
                            blocked_list_head : ProcOrNull,
                            blocked_list_tail : ProcOrNull]]
      /\ {1, 2, 3} \subseteq Port
  BY KernelTypes, KernelConstants, SameSets DEF ComInv, K!IInv, K!GTypeOK, K!TypeOK
<1>3. k \in Pending(2) /\ receive_pending(2)!(k) /\ Pending(2) = {k}
  <2>1. PICK j \in Pending(2) : receive_pending(2)!(j)
    BY DEF receive_pending
  <2>2. j = k
    BY <2>1
  <2> QED  BY <2>1, <2>2
<1>4. UNCHANGED <<portVars, procVars, interrupt_table, halt>>
  <2>1. ports[2] # <<>>
    BY ONLY <1>1
  <2> QED  BY <2>1, Zenon DEF receive
<1> DEFINE po == ports[2][k]
           rest == next_blocked[h]
<1>5. po \in {1, 2} /\ h # NULL /\ (po = 1 <=> k = 2)
  BY <1>1, <1>3 DEF Pending
<1>6. /\ h \in Proc /\ h # 2
      /\ \/ h > 3 /\ rq.state[h] = "SEND_BLOCKED" /\ k = 2
         \/ h = 3 /\ rq.state[h] = "MESSAGE_BLOCKED" /\ k = 1
  BY <1>5, TheLists
<1>7. /\ received' = [received EXCEPT ![2] = <<h, param_data[h]>>]
      /\ port' = [port EXCEPT
                    ![po].blocked_list_head = rest,
                    ![po].blocked_list_tail = IF rest = NULL THEN NULL ELSE @]
      /\ rq.state[h] = "MESSAGE_BLOCKED" => rq' = add_ready_queue(rq, h)
      /\ rq.state[h] = "SEND_BLOCKED" => rq' = [rq EXCEPT !.state[h] = "REPLY_BLOCKED"]
      /\ UNCHANGED <<active_proc, param_proc, param_data, next_blocked, pc>>
  BY <1>3, <1>6
<1>8. /\ received'[2][1] = h /\ received'[2][2] = param_data[h]
      /\ \A q \in Proc : q # 2 => received'[q] = received[q]
  BY ONLY <1>2, <1>7, Processes
<1>9. /\ rq.state[h] = "SEND_BLOCKED" => rq'.state[h] = "REPLY_BLOCKED"
      /\ rq.state[h] = "MESSAGE_BLOCKED" => rq'.state[h] = "READY"
      /\ \A q \in Proc : q # h => rq'.state[q] = rq.state[q]
      /\ rq'.priority = rq.priority
  <2>1. CASE rq.state[h] = "MESSAGE_BLOCKED"
    <3>1. rq' = add_ready_queue(rq, h) /\ rq \in QueueRecord /\ h \in Proc
      BY <1>2, <1>6, <1>7, <2>1
    <3>2. rq'.state = [rq.state EXCEPT ![h] = "READY"] /\ rq'.priority = rq.priority
      BY ONLY <3>1, StateOf
    <3>3. rq.state \in [Proc -> States]
      BY ONLY <3>1 DEF QueueRecord
    <3> QED  BY ONLY <2>1, <3>1, <3>2, <3>3
  <2>2. CASE rq.state[h] = "SEND_BLOCKED"
    <3>1. rq' = [rq EXCEPT !.state[h] = "REPLY_BLOCKED"]
      BY <1>7, <2>2
    <3> QED  BY ONLY <1>2, <1>6, <2>2, <3>1 DEF QueueRecord
  <2> QED  BY <1>6, <2>1, <2>2
<1>10. \A x \in {1, 2, 3} : port'[x].owner = port[x].owner /\ port'[x].open = port[x].open
  <2>1. port[po] \in [open : BOOLEAN, owner : ProcOrNull,
                      blocked_list_head : ProcOrNull, blocked_list_tail : ProcOrNull]
    BY <1>2, <1>5
  <2>2. port'[po] = [port[po] EXCEPT !.blocked_list_head = rest,
                                     !.blocked_list_tail = IF rest = NULL THEN NULL ELSE @]
    BY ONLY <1>2, <1>5, <1>7
  <2>3. port'[po].owner = port[po].owner /\ port'[po].open = port[po].open
    BY ONLY <2>1, <2>2
  <2>4. \A x \in Port : x # po => port'[x] = port[x]
    BY ONLY <1>2, <1>7
  <2> QED  BY ONLY <1>2, <2>3, <2>4
<1>11. UNCHANGED <<ports, next_free_port, next_free_pcb, new_proc, interrupt_table, halt, ret>>
  BY <1>4 DEF portVars, procVars
<1>12. /\ at'[2] = next /\ at' \in [Proc -> Places]
       /\ \A q \in Proc : q # 2 => at'[q] = at[q]
  BY DEF Jump, ComInv, Inv, Typed
<1>13. K!IInv'
  <2>1. \A q \in Proc : ~InPcb(q) /\ ~InPcb(q)'
    BY <1>1, <1>7 DEF InPcb
  <2>2. \A s \in Proc : rq'.state[s] = "REPLY_BLOCKED" /\ s = received'[2][1]
                          => SentTo[s] \in K!Own(2)
    <3>1. ASSUME NEW s \in Proc, rq'.state[s] = "REPLY_BLOCKED", s = received'[2][1]
          PROVE  SentTo[s] = 1
      BY <1>6, <1>8, <1>9, <3>1 DEF SentTo, PortOf
    <3>2. 1 \in K!Own(2)
      BY <1>1, <1>2, SameSets DEF K!Own
    <3> QED  BY <3>1, <3>2
  <2>3. K!NewClient(2) = {s \in Proc : s = h /\ rq'.state[s] = "REPLY_BLOCKED"}
    <3> HIDE DEF SentTo
    <3> QED  BY ONLY <1>8, <2>2, SameSets DEF K!NewClient
  <2>4. ToReply' = [ToReply EXCEPT ![2] = @ \cup K!NewClient(2)]
    <3>1. ToReply'[2] = ToReply[2] \cup K!NewClient(2)
      <4>1. \A s \in Proc : rq'.state[s] = "REPLY_BLOCKED" <=>
              rq.state[s] = "REPLY_BLOCKED" \/ (s = h /\ rq'.state[s] = "REPLY_BLOCKED")
        BY <1>6, <1>9
      <4> QED  BY <2>1, <2>3, <4>1 DEF ToReply
    <3>2. \A q \in Proc : q # 2 => ToReply'[q] = ToReply[q]
      BY DEF ToReply
    <3>3. /\ ToReply = [q \in Proc |-> ToReply[q]]
          /\ ToReply' = [q \in Proc |-> ToReply'[q]]
      BY DEF ToReply
    <3> HIDE DEF ToReply
    <3> QED  BY ONLY <3>1, <3>2, <3>3
  <2>5. SentTo' = [s \in Proc |-> IF rq'.state[s] \in K!SendStates THEN SentTo[s] ELSE NULL]
    BY <1>6, <1>9, WaitsAfterReceive
  <2>6. K!receive(2) /\ K!Pending(2) # {}
    <3>1. K!Pending(2) = Pending(2)
      BY DEF K!Pending, Pending
    <3> QED  BY <1>3, <1>11, <3>1, SameMessageCalls
  <2>7. ToReply' = [ToReply EXCEPT ![2] = IF K!Pending(2) = {} THEN @ ELSE @ \cup K!NewClient(2)]
    <3> HIDE DEF ToReply
    <3> QED  BY ONLY <2>4, <2>6
  <2>8. K!Receive(2) /\ 2 \in K!Programs
    BY <2>5, <2>6, <2>7, SameSets DEF K!Receive
  <2> QED  BY <2>8, KernelStep DEF K!GNext, K!Call, ComInv
<1>14. BootStages' /\ ProgramStages' /\ PortsAreLeft' /\ PortsAreOwned' /\ HavePriorities'
  <2>1. \A q \in Proc : q > 3 =>
           rq'.state[q] = rq.state[q]
             \/ rq'.state[q] \in {"READY", "SEND_BLOCKED", "REPLY_BLOCKED"}
    BY <1>6, <1>9
  <2>2. rq'.state[0] = rq.state[0]
    BY <1>6, <1>9
  <2> QED  BY <1>7, <1>9, <1>10, <1>11, <1>12, <2>1, <2>2, FrameIsKept
<1>15. ComNeverPanics'
  BY <1>11, NoPanicIsKept DEF ComInv, Inv
<1> QED  BY <1>6, <1>7, <1>8, <1>9, <1>10, <1>11, <1>12, <1>13, <1>14, <1>15 DEF Steps

(* It takes a request. *)
LEMMA TakesRequestInv ==
  ASSUME ComInv, Runs(2, "com_receive"), receive(2), receive_pending(2),
         Jump(2, "start_reader"), UNCHANGED <<ret, comVars>>
  PROVE  ComInv' /\ NobodyIsAnswered
<1> USE Processes
<1>1. At(2, "user") /\ pc[2] = "user" /\ at[2] = "com_receive" /\ active_proc = 2
  BY DEF Runs, At
<1>2. at[2] \in Working
  BY <1>1 DEF Working
<1>3. /\ Exists(3) /\ ret[2] = 3 /\ rq.state[2] = "READY" /\ Len(ports[2]) = 2
      /\ ports[2][1] = 2 /\ ports[2][2] = 1
  BY <1>1, <1>2, ServiceRuns
<1>4. ~port[2].open /\ port[1].open
  BY <1>1 DEF ComInv, Inv, PortsAreServed
<1>5. Pending(2) \subseteq {2}
  <2>1. \A k \in DOMAIN ports[2] : k = 1 \/ k = 2
    <3>1. ports[2] \in Seq(Port)
      BY KernelTypes DEF ComInv
    <3> QED  BY ONLY <1>3, <3>1
  <2> QED  BY <1>3, <1>4, <2>1 DEF Pending
<1>6. UNCHANGED <<com_port, com_writer_port, requestVars, ret>>
  BY DEF comVars, requestVars
<1>7. PICK h : h = port[ports[2][2]].blocked_list_head
  OBVIOUS
<1>8. /\ Steps(2, "start_reader") /\ h \in Proc /\ h # 2 /\ h > 3
      /\ rq.state[h] = "SEND_BLOCKED" /\ rq'.state[h] = "REPLY_BLOCKED"
      /\ \A q \in Proc : q # h => rq'.state[q] = rq.state[q]
      /\ received'[2][1] = h /\ received'[2][2] = param_data[h]
      /\ \A q \in Proc : q # 2 => received'[q] = received[q]
      /\ \A x \in {1, 2, 3} : port'[x].open = port[x].open
      /\ UNCHANGED <<active_proc, param_proc, param_data, interrupt_table, pc>>
  <2>1. "start_reader" \in Places \ {"com_process"} /\ 2 \in {1, 2}
    BY DEF Places
  <2> QED  BY <1>1, <1>2, <1>5, <1>6, <1>7, <2>1, TakesStep
<1>9. /\ at'[2] = "start_reader" /\ at' \in [Proc -> Places]
      /\ \A q \in Proc : q # 2 => at'[q] = at[q]
      /\ K!IInv' /\ BootStages' /\ ProgramStages'
      /\ PortsAreLeft' /\ PortsAreOwned' /\ HavePriorities' /\ ComNeverPanics'
  BY <1>8 DEF Steps
<1>10. /\ ~Asked /\ ~Serving /\ ~Answered /\ ~InService
       /\ \A q \in Proc : rq.state[q] # "REPLY_BLOCKED"
       /\ param_data[h] = h
  <2>1. ~Asked /\ ~Serving /\ ~Answered
    BY <1>1 DEF Asked, Serving, Answered
  <2> QED  BY <1>8, <2>1 DEF InService, ComInv, Inv, OneCustomer
<1>11. ~Busy(3) /\ rq.state[3] = "RECEIVE_BLOCKED" /\ pc[3] = "receive" /\ at[3] = "reader_start"
  <2>1. pc[h] # "free"
    BY <1>8, KernelPlaces DEF ComInv
  <2>2. ~NoPrograms
    BY <1>8, <2>1 DEF NoPrograms
  <2>3. ~Busy(3)
    BY <1>1, <2>2 DEF ComInv, Inv, ServiceFirst
  <2> QED  BY <1>3, <1>10, <2>3, ReaderIdle
<1>12. Typed' /\ OnlyTheLineIsAwaited'
  BY <1>6, <1>8, <1>9, TypesAreKept DEF OnlyTheLineIsAwaited, ComInv, Inv
<1>13. ServiceStages' /\ ReaderStages'
  <2>1. ServiceStages'
    BY <1>1, <1>3, <1>6, <1>8, <1>9 DEF ServiceStages, Exists, Working
  <2>2. ReaderStages'
    BY <1>3, <1>8, <1>9, ReaderStays
  <2> QED  BY <2>1, <2>2
<1>14. PortsAreServed'
  BY <1>4, <1>8, <1>9 DEF PortsAreServed
<1>15. ServiceFirst'
  BY <1>1, <1>8, <1>11 DEF ServiceFirst, Busy, Exists
<1>16. /\ Asked' /\ ~Serving' /\ ~Answered' /\ InService' /\ Customer' = h /\ Content' = h
       /\ ~ReaderHasRequest' /\ ~ReaderHasAnswer' /\ rq'.state[3] = "RECEIVE_BLOCKED"
  BY <1>1, <1>3, <1>8, <1>9, <1>10, <1>11
     DEF Asked, Serving, Answered, InService, Customer, Messenger, Content,
         ReaderHasRequest, ReaderHasAnswer
<1> USE DEF ComInv, Inv
<1>17. OneCustomer' /\ ReaderIsAsked'
  <2>1. OneCustomer'
    BY <1>8, <1>10, <1>16 DEF OneCustomer
  <2>2. ReaderIsAsked'
    BY <1>16 DEF ReaderIsAsked
  <2> QED  BY <2>1, <2>2
<1>18. BuffersAreRight'
  <2>1. \A q \in Proc : Fresh(q)' => Fresh(q)
    BY <1>8, <1>9, <1>16 DEF Fresh
  <2> QED  BY <1>6, <2>1 DEF BuffersAreRight, Bytes, requestVars
<1>19. BytesAddUp'
  <2>1. line = <<>> /\ uart = NULL
    BY <1>10 DEF BytesAddUp
  <2> QED  BY <1>6, <1>9, <1>11, <1>16, <2>1 DEF BytesAddUp, requestVars
<1>20. NobodyIsAnswered
  BY <1>10 DEF NobodyIsAnswered
<1> QED  BY <1>9, <1>12, <1>13, <1>14, <1>15, <1>17, <1>18, <1>19, <1>20

(* It takes the reader's answer. *)
LEMMA TakesAnswerInv ==
  ASSUME ComInv, Runs(2, "await_reader"), receive(2), receive_pending(2),
         Jump(2, "com_reply"), UNCHANGED <<ret, comVars>>
  PROVE  ComInv' /\ NobodyIsAnswered
<1> USE Processes
<1>1. At(2, "user") /\ pc[2] = "user" /\ at[2] = "await_reader" /\ active_proc = 2
  BY DEF Runs, At
<1>2. at[2] \in Working
  BY <1>1 DEF Working
<1>3. /\ Exists(3) /\ ret[2] = 3 /\ rq.state[2] = "READY" /\ Len(ports[2]) = 2
      /\ ports[2][1] = 2 /\ ports[2][2] = 1
  BY <1>1, <1>2, ServiceRuns
<1>4. port[2].open /\ ~port[1].open
  BY <1>1 DEF ComInv, Inv, PortsAreServed
<1>5. Pending(2) \subseteq {1}
  <2>1. \A k \in DOMAIN ports[2] : k = 1 \/ k = 2
    <3>1. ports[2] \in Seq(Port)
      BY KernelTypes DEF ComInv
    <3> QED  BY ONLY <1>3, <3>1
  <2> QED  BY <1>3, <1>4, <2>1 DEF Pending
<1>6. UNCHANGED <<com_port, com_writer_port, requestVars, ret>>
  BY DEF comVars, requestVars
<1>7. PICK h : h = port[ports[2][1]].blocked_list_head
  OBVIOUS
<1>8. /\ Steps(2, "com_reply") /\ h = 3
      /\ rq.state[3] = "MESSAGE_BLOCKED" /\ rq'.state[3] = "READY"
      /\ \A q \in Proc : q # 3 => rq'.state[q] = rq.state[q]
      /\ received'[2][1] = 3
      /\ \A q \in Proc : q # 2 => received'[q] = received[q]
      /\ \A x \in {1, 2, 3} : port'[x].open = port[x].open
      /\ UNCHANGED <<active_proc, param_proc, param_data, interrupt_table, pc>>
  <2>1. "com_reply" \in Places \ {"com_process"} /\ 1 \in {1, 2}
    BY DEF Places
  <2>2. UNCHANGED <<ret, com_port, com_writer_port>>
    BY <1>6
  <2>3. At(2, "user") /\ at[2] \in Working
    BY <1>1, <1>2
  <2>4. /\ Steps(2, "com_reply") /\ h \in Proc /\ h # 2
        /\ \/ h > 3 /\ rq.state[h] = "SEND_BLOCKED" /\ rq'.state[h] = "REPLY_BLOCKED" /\ 1 = 2
           \/ h = 3 /\ rq.state[h] = "MESSAGE_BLOCKED" /\ rq'.state[h] = "READY" /\ 1 = 1
        /\ \A q \in Proc : q # h => rq'.state[q] = rq.state[q]
        /\ received'[2][1] = h
        /\ \A q \in Proc : q # 2 => received'[q] = received[q]
        /\ \A x \in {1, 2, 3} : port'[x].open = port[x].open
        /\ UNCHANGED <<active_proc, param_proc, param_data, interrupt_table, pc>>
    BY ONLY ComInv, <2>1, <2>2, <2>3, <1>5, <1>7, TakesStep, receive(2),
            receive_pending(2), Jump(2, "com_reply")
  <2> QED  BY ONLY <1>6, <2>4
<1>9. /\ at'[2] = "com_reply" /\ at' \in [Proc -> Places]
      /\ \A q \in Proc : q # 2 => at'[q] = at[q]
      /\ K!IInv' /\ BootStages' /\ ProgramStages'
      /\ PortsAreLeft' /\ PortsAreOwned' /\ HavePriorities' /\ ComNeverPanics'
  BY <1>8 DEF Steps
<1>10. /\ ~Asked /\ Serving /\ ~Answered /\ InService /\ Customer = com_sender
       /\ com_sender \in Proc /\ ReaderHasAnswer /\ at[3] = "com_reader"
       /\ com_sender # 3 /\ rq.state[com_sender] = "REPLY_BLOCKED"
  <2>1. ~Asked /\ Serving /\ ~Answered /\ InService /\ Customer = com_sender
    BY <1>1 DEF Asked, Serving, Answered, InService, Customer
  <2>2. com_sender \in Proc /\ rq.state[com_sender] = "REPLY_BLOCKED"
    BY <2>1 DEF ComInv, Inv, OneCustomer
  <2>3. at[3] = "com_reader"
    BY <1>8, BlockedAre
  <2> QED  BY <1>8, <2>1, <2>2, <2>3 DEF ReaderHasAnswer
<1>11. Typed' /\ OnlyTheLineIsAwaited'
  BY <1>6, <1>8, <1>9, TypesAreKept DEF OnlyTheLineIsAwaited, ComInv, Inv
<1>12. ServiceStages' /\ ReaderStages'
  <2>1. ServiceStages'
    BY <1>1, <1>3, <1>6, <1>8, <1>9 DEF ServiceStages, Exists, Working
  <2>2. ReaderStages'
    BY <1>3, <1>8, <1>9, ReaderStays
  <2> QED  BY <2>1, <2>2
<1>13. PortsAreServed'
  BY <1>4, <1>8, <1>9 DEF PortsAreServed
<1>14. ServiceFirst'
  BY <1>1, <1>8, <1>9 DEF ServiceFirst
<1>15. /\ ~Asked' /\ ~Serving' /\ Answered' /\ InService' /\ Customer' = com_sender
       /\ Messenger' = 3 /\ ~ReaderHasRequest' /\ ~ReaderHasAnswer'
  BY <1>1, <1>3, <1>6, <1>8, <1>9, <1>10
     DEF Asked, Serving, Answered, InService, Customer, Messenger,
         ReaderHasRequest, ReaderHasAnswer, requestVars
<1> USE DEF ComInv, Inv
<1>16. OneCustomer' /\ ReaderIsAsked'
  <2>1. \A q \in Proc : /\ rq'.state[q] = "REPLY_BLOCKED" <=> rq.state[q] = "REPLY_BLOCKED"
                        /\ rq'.state[q] = "SEND_BLOCKED" <=> rq.state[q] = "SEND_BLOCKED"
    BY <1>8
  <2>2. OneCustomer'
    BY <1>8, <1>9, <1>10, <1>15, <2>1 DEF OneCustomer
  <2>3. ReaderIsAsked'
    BY <1>15 DEF ReaderIsAsked
  <2> QED  BY <2>2, <2>3
<1>17. BuffersAreRight'
  <2>1. \A q \in Proc : Fresh(q)' => Fresh(q)
    BY <1>8, <1>9, <1>15 DEF Fresh
  <2> QED  BY <1>6, <2>1 DEF BuffersAreRight, Bytes, requestVars
<1>18. BytesAddUp'
  <2>1. /\ Bytes(com_sender) = len_input_buffer[com_sender]
        /\ Bytes(com_sender) + InUart + Len(line) = len_input_buffer[com_sender]
    BY <1>1, <1>10 DEF BytesAddUp
  <2>2. Bytes(com_sender) \in Nat
    <3>1. input_buffer[com_sender] \in Seq({com_sender})
      BY <1>10 DEF BuffersAreRight
    <3> QED  BY <3>1 DEF Bytes
  <2>3. line \in Seq(Proc) /\ Len(line) \in Nat
    BY DEF Typed
  <2>4. InUart = 0 /\ Len(line) = 0
    <3>1. InUart \in {0, 1}
      BY DEF InUart
    <3> QED  BY <2>1, <2>2, <2>3, <3>1
  <2>5. line = <<>> /\ uart = NULL
    BY <2>3, <2>4 DEF InUart
  <2>6. Bytes(com_sender)' = Bytes(com_sender)
    BY <1>6 DEF Bytes, requestVars
  <2> QED  BY <1>6, <1>9, <1>10, <1>15, <2>1, <2>5, <2>6 DEF BytesAddUp, requestVars
<1>19. NobodyIsAnswered
  BY <1>8 DEF NobodyIsAnswered
<1> QED  BY <1>9, <1>11, <1>12, <1>13, <1>14, <1>16, <1>17, <1>18, <1>19

(* It tells the reader whose buffer to fill. *)
LEMMA StartReaderInv ==
  ASSUME ComInv, Runs(2, "start_reader"), com_sender' = Sender(2),
         Messages(2, Returned(2), Message(2), "send_cmd"),
         UNCHANGED <<com_port, com_writer_port, reader_i, len_input_buffer,
                     input_buffer, line, uart>>
  PROVE  ComInv' /\ NobodyIsAnswered
<1> USE Processes
<1>1. At(2, "user") /\ pc[2] = "user" /\ at[2] = "start_reader" /\ active_proc = 2
  BY DEF Runs, At
<1>2. at[2] \in Working
  BY <1>1 DEF Working
<1>3. /\ Exists(3) /\ ret[2] = 3 /\ rq.state[2] = "READY"
      /\ port[3].owner = 3 /\ port[3].open
  BY <1>1, <1>2, ServiceRuns
<1>4. PICK c \in Proc : /\ c = Customer /\ received[2][1] = c /\ received[2][2] = c
                        /\ \A q \in Proc : rq.state[q] = "REPLY_BLOCKED" <=> q = c
  <2>1. Asked /\ InService
    BY <1>1, <1>3 DEF Asked, InService
  <2> QED  BY <1>1, <2>1 DEF ComInv, Inv, OneCustomer, Customer, Messenger, Content
<1>5. /\ Asked /\ ~Serving /\ ~Answered /\ InService
      /\ rq.state[3] = "RECEIVE_BLOCKED"
  <2>1. Asked /\ ~Serving /\ ~Answered
    BY <1>1, <1>3 DEF Asked, Serving, Answered
  <2> QED  BY <2>1 DEF InService, ComInv, Inv, ReaderIsAsked
<1>6. pc[3] = "receive" /\ at[3] = "reader_start"
  <2>1. pc[3] \in Labels
    BY KernelTypes DEF ComInv
  <2>2. pc[3] = "receive"
    BY <1>5, <2>1, KernelPlaces DEF Labels, CallLabels, ComInv
  <2> QED  BY <2>2 DEF ComInv, Inv, ReaderStages
<1>7. message(2, 3, c) /\ Jump(2, "send_cmd") /\ UNCHANGED <<received, ret>> /\ com_sender' = c
  <2>1. Messages(2, 3, c, "send_cmd") /\ com_sender' = c
    BY <1>3, <1>4 DEF Returned, Message, Sender
  <2> QED  BY <2>1, Zenon DEF Messages
<1>8. /\ Steps(2, "send_cmd") /\ K!HighestStep
      /\ active_proc' = dispatcher(rq', active_proc)
      /\ rq'.state[3] = "READY"
      /\ param_proc'[3] = 2 /\ param_data'[3] = c
      /\ \A q \in Proc : q # 3 => /\ rq'.state[q] = rq.state[q]
                                  /\ param_proc'[q] = param_proc[q]
                                  /\ param_data'[q] = param_data[q]
      /\ UNCHANGED <<port, interrupt_table, pc, received>>
  <2>1. 3 = PortOf[2] /\ "send_cmd" \in Places \ {"com_process"} /\ CanDeliver(3)
    BY <1>3, <1>5 DEF PortOf, Places, CanDeliver
  <2>2. 2 \in {2, 3} /\ 3 \in {2, 3} /\ 2 # 3
    OBVIOUS
  <2>3. UNCHANGED <<received, ret, com_port, com_writer_port>>
    BY <1>7
  <2>4. At(2, "user") /\ port[3].owner = 3 /\ c \in Proc /\ message(2, 3, c)
        /\ Jump(2, "send_cmd")
    BY <1>1, <1>3, <1>7
  <2> QED  BY ONLY ComInv, <2>1, <2>2, <2>3, <2>4, DeliversStep
<1>9. /\ at'[2] = "send_cmd" /\ at' \in [Proc -> Places] /\ ret' = ret
      /\ \A q \in Proc : q # 2 => at'[q] = at[q]
      /\ K!IInv' /\ BootStages' /\ ProgramStages'
      /\ PortsAreLeft' /\ PortsAreOwned' /\ HavePriorities' /\ ComNeverPanics'
  BY <1>8 DEF Steps
<1>10. Typed' /\ OnlyTheLineIsAwaited'
  <2>1. Typed'
    BY <1>7, <1>9 DEF Typed, ProcOrNull, ComInv, Inv
  <2> QED  BY <1>8, <2>1 DEF OnlyTheLineIsAwaited, ComInv, Inv
<1>11. ServiceStages' /\ ReaderStages'
  <2>1. ServiceStages'
    BY <1>1, <1>3, <1>8, <1>9 DEF ServiceStages, Exists, Working
  <2>2. ReaderStages'
    BY <1>3, <1>8, <1>9, ReaderStays
  <2> QED  BY <2>1, <2>2
<1>12. PortsAreServed'
  <2>1. PortsAreServed
    BY DEF ComInv, Inv
  <2> QED  BY <1>1, <1>8, <1>9, <2>1 DEF PortsAreServed
<1>13. ServiceFirst'
  BY <1>8, <1>9, DispatchServesFirst
<1>14. /\ ~Asked' /\ Serving' /\ ~Answered' /\ InService' /\ Customer' = c
       /\ Content' = c /\ Told' = c
       /\ ReaderHasRequest' /\ ~ReaderHasAnswer'
  BY <1>1, <1>3, <1>4, <1>6, <1>7, <1>8, <1>9
     DEF Asked, Serving, Answered, InService, Customer, Content, Told,
         ReaderHasRequest, ReaderHasAnswer
<1>15. \A q \in Proc : /\ rq'.state[q] = "REPLY_BLOCKED" <=> rq.state[q] = "REPLY_BLOCKED"
                       /\ rq'.state[q] = "SEND_BLOCKED" <=> rq.state[q] = "SEND_BLOCKED"
                       /\ rq'.state[q] = "SEND_BLOCKED" => param_data'[q] = param_data[q]
  BY <1>5, <1>8
<1> USE DEF ComInv, Inv
<1>16. OneCustomer' /\ ReaderIsAsked'
  <2>1. OneCustomer'
    BY <1>4, <1>14, <1>15 DEF OneCustomer
  <2>2. ReaderIsAsked'
    BY <1>7, <1>14 DEF ReaderIsAsked
  <2> QED  BY <2>1, <2>2
<1>17. BuffersAreRight'
  <2>1. \A q \in Proc : Fresh(q)' => Fresh(q)
    BY <1>4, <1>5, <1>14, <1>15 DEF Fresh
  <2> QED  BY <2>1 DEF BuffersAreRight, Bytes
<1>18. BytesAddUp'
  <2>1. line = <<>> /\ uart = NULL
    BY <1>5 DEF BytesAddUp
  <2>2. at'[3] = "reader_start"
    BY <1>6, <1>9
  <2>3. \A k \in DOMAIN line' : FALSE
    BY <2>1
  <2> QED  BY <1>9, <1>14, <2>1, <2>2, <2>3 DEF BytesAddUp
<1>19. NobodyIsAnswered
  BY <1>15 DEF NobodyIsAnswered
<1> QED  BY <1>9, <1>10, <1>11, <1>12, <1>13, <1>16, <1>17, <1>18, <1>19

(* It sends the command: the reader waits for its answer. *)
LEMMA SendCmdFinds ==
  ASSUME ComInv, Runs(2, "send_cmd")
  PROVE  /\ At(2, "user") /\ pc[2] = "user" /\ at[2] = "send_cmd" /\ active_proc = 2
         /\ Exists(3) /\ ret[2] = 3 /\ rq.state[2] = "READY"
         /\ ~Asked /\ Serving /\ ~Answered /\ InService /\ Customer = com_sender
         /\ com_sender \in Proc /\ Message(2) = com_sender
         /\ line = <<>> /\ uart = NULL /\ input_buffer[com_sender] = <<>>
         /\ Bytes(com_sender) = 0 /\ len_input_buffer[com_sender] \in Nat
         /\ rq.state[3] # "READY"
         /\ \/ at[3] = "read_byte" /\ ReaderHasRequest
            \/ at[3] = "com_reader" /\ ReaderHasAnswer
<1> USE Processes
<1>1. At(2, "user") /\ pc[2] = "user" /\ at[2] = "send_cmd" /\ active_proc = 2
  BY DEF Runs, At
<1>2. at[2] \in Working
  BY <1>1 DEF Working
<1>3. Exists(3) /\ ret[2] = 3 /\ rq.state[2] = "READY"
  BY <1>1, <1>2, ServiceRuns
<1>4. ~Asked /\ Serving /\ ~Answered /\ InService /\ Customer = com_sender
  BY <1>1 DEF Asked, Serving, Answered, InService, Customer
<1>5. com_sender \in Proc /\ rq.state[com_sender] = "REPLY_BLOCKED" /\ Content = com_sender
  BY <1>1, <1>4 DEF ComInv, Inv, OneCustomer
<1>6. Message(2) = com_sender
  BY <1>1, <1>5 DEF Content, Message
<1>7. line = <<>> /\ uart = NULL
  BY <1>1 DEF ComInv, Inv, BytesAddUp
<1>8. input_buffer[com_sender] = <<>> /\ Bytes(com_sender) = 0
  <2>1. Fresh(com_sender)
    BY <1>1, <1>4 DEF Fresh
  <2> QED  BY <1>5, <2>1 DEF Bytes, ComInv, Inv, BuffersAreRight
<1>9. len_input_buffer[com_sender] \in Nat
  BY <1>5, LengthsAssumption DEF ComInv, Inv, Typed
<1>10. rq.state[3] # "READY"
  <2>1. com_sender > 3 /\ pc[com_sender] = "user"
    BY <1>5, BlockedAre
  <2>2. ~NoPrograms
    BY <1>5, <2>1 DEF NoPrograms
  <2>3. ~Busy(3)
    BY <1>1, <2>2 DEF ComInv, Inv, ServiceFirst
  <2> QED  BY <1>3, <2>3 DEF Busy
<1>11. \/ at[3] = "read_byte" /\ ReaderHasRequest
       \/ at[3] = "com_reader" /\ ReaderHasAnswer
  <2>1. ReaderHasRequest \/ ReaderHasAnswer
    BY <1>4 DEF ComInv, Inv, ReaderIsAsked
  <2>2. CASE ReaderHasRequest
    BY <1>10, <2>2 DEF ReaderHasRequest, ComInv, Inv, ReaderStages
  <2>3. CASE ReaderHasAnswer
    BY <2>3, BlockedAre DEF ReaderHasAnswer
  <2> QED  BY <2>1, <2>2, <2>3
<1> QED  BY <1>1, <1>3, <1>4, <1>5, <1>6, <1>7, <1>8, <1>9, <1>10, <1>11

LEMMA SendCmdInv ==
  ASSUME ComInv, Runs(2, "send_cmd"), send_cmd_to_com(Message(2)),
         Computes(2, "close_com_port"),
         UNCHANGED <<com_port, com_writer_port, com_sender, reader_i,
                     len_input_buffer, input_buffer, uart>>
  PROVE  ComInv' /\ NobodyIsAnswered
<1> USE Processes
<1>1. /\ At(2, "user") /\ pc[2] = "user" /\ at[2] = "send_cmd" /\ active_proc = 2
      /\ Exists(3) /\ ret[2] = 3 /\ rq.state[2] = "READY"
      /\ ~Asked /\ Serving /\ ~Answered /\ InService /\ Customer = com_sender
      /\ com_sender \in Proc /\ Message(2) = com_sender
      /\ line = <<>> /\ uart = NULL /\ input_buffer[com_sender] = <<>>
      /\ Bytes(com_sender) = 0 /\ len_input_buffer[com_sender] \in Nat
      /\ rq.state[3] # "READY"
      /\ \/ at[3] = "read_byte" /\ ReaderHasRequest
         \/ at[3] = "com_reader" /\ ReaderHasAnswer
  BY SendCmdFinds
<1>2. /\ Steps(2, "close_com_port")
      /\ UNCHANGED <<rq, active_proc, param_proc, param_data, port,
                     interrupt_table, pc, received>>
  <2>1. 2 \in {2, 3} /\ "close_com_port" \in Places \ {"com_process"}
    BY DEF Places
  <2> QED  BY <1>1, <2>1, ComputesStep
<1>3. /\ at'[2] = "close_com_port" /\ at' \in [Proc -> Places] /\ ret' = ret
      /\ \A q \in Proc : q # 2 => at'[q] = at[q]
      /\ K!IInv' /\ BootStages' /\ ProgramStages'
      /\ PortsAreLeft' /\ PortsAreOwned' /\ HavePriorities' /\ ComNeverPanics'
  BY <1>2 DEF Steps
<1>4. PICK n \in Nat : n = len_input_buffer[com_sender]
  BY <1>1
<1>5. /\ line' \in Seq(Proc) /\ Len(line') = n
      /\ \A k \in DOMAIN line' : line'[k] = com_sender
  <2>1. line' = <<>> \o [k \in 1 .. n |-> com_sender] /\ com_sender \in Proc
    BY <1>1, <1>4 DEF send_cmd_to_com
  <2>2. [k \in 1 .. n |-> com_sender] \in Seq(Proc)
    BY ONLY <2>1, n \in Nat
  <2>3. Len([k \in 1 .. n |-> com_sender]) = n
    BY ONLY <2>1, n \in Nat
  <2>4. line' = [k \in 1 .. n |-> com_sender]
    BY ONLY <2>1, <2>2
  <2> QED  BY ONLY <2>1, <2>2, <2>3, <2>4
<1>6. Typed' /\ OnlyTheLineIsAwaited'
  <2>1. Typed'
    BY <1>3, <1>5 DEF Typed, ComInv, Inv
  <2> QED  BY <1>2, <2>1 DEF OnlyTheLineIsAwaited, ComInv, Inv
<1>7. ServiceStages' /\ ReaderStages'
  <2>1. ServiceStages'
    BY <1>1, <1>2, <1>3 DEF ServiceStages, Exists, Working
  <2>2. ReaderStages'
    BY <1>1, <1>2, <1>3, ReaderStays
  <2> QED  BY <2>1, <2>2
<1>8. PortsAreServed'
  <2>1. PortsAreServed
    BY DEF ComInv, Inv
  <2> QED  BY <1>1, <1>2, <1>3, <2>1 DEF PortsAreServed
<1>9. ServiceFirst'
  BY <1>1, <1>2, <1>3 DEF ServiceFirst, Busy
<1>10. /\ ~Asked' /\ Serving' /\ ~Answered' /\ InService' /\ Customer' = com_sender
       /\ Told' = Told
       /\ ReaderHasRequest' <=> ReaderHasRequest
       /\ ReaderHasAnswer' <=> ReaderHasAnswer
  BY <1>2, <1>3
     DEF Asked, Serving, Answered, InService, Customer, Told,
         ReaderHasRequest, ReaderHasAnswer
<1> USE DEF ComInv, Inv
<1>11. OneCustomer' /\ ReaderIsAsked'
  <2>1. OneCustomer'
    BY <1>1, <1>2, <1>3, <1>10 DEF OneCustomer
  <2>2. ReaderIsAsked'
    BY <1>1, <1>2, <1>10 DEF ReaderIsAsked
  <2> QED  BY <2>1, <2>2
<1>12. BuffersAreRight'
  <2>1. \A q \in Proc : Fresh(q)' => Fresh(q)
    BY <1>2, <1>3, <1>10 DEF Fresh
  <2> QED  BY <2>1 DEF BuffersAreRight, Bytes
<1>13. BytesAddUp'
  <2>1. Bytes(com_sender)' = 0 /\ InUart' = 0
    BY <1>1 DEF Bytes, InUart
  <2>2. (Bytes(com_sender) + InUart + Len(line))' = len_input_buffer'[com_sender]
    BY <1>4, <1>5, <2>1
  <2>3. /\ Serving' /\ ~Answered' /\ at'[2] = "close_com_port" /\ uart' = NULL
        /\ com_sender' = com_sender
    BY <1>1, <1>3, <1>10
  <2>4. ReaderHasAnswer' => (Bytes(com_sender) = len_input_buffer[com_sender])'
    BY <1>1, <1>10, <2>1 DEF BytesAddUp
  <2>5. at'[3] \in {"read_byte", "com_reader"}
    BY <1>1, <1>3
  <2>6. at'[3] = "read_byte" => /\ reader_i' = Bytes(com_sender)'
                                /\ reader_i' < len_input_buffer'[com_sender']
                                /\ uart' # NULL <=> rq'.state[3] = "READY"
    BY <1>1, <1>2, <1>3, <2>1 DEF BytesAddUp
  <2>7. (/\ uart \in {NULL, com_sender}
         /\ \A k \in DOMAIN line : line[k] = com_sender)'
    BY <1>5, <2>3
  <2> QED  BY ONLY <2>2, <2>3, <2>4, <2>5, <2>6, <2>7 DEF BytesAddUp
<1>14. NobodyIsAnswered
  BY <1>2 DEF NobodyIsAnswered
<1> QED  BY <1>3, <1>6, <1>7, <1>8, <1>9, <1>11, <1>12, <1>13, <1>14

(* It replies to the program whose answer is complete. *)
AnswersAreWhole ==
  \A p \in Proc : rq.state[p] = "REPLY_BLOCKED" /\ rq'.state[p] = "READY" =>
                    /\ Len(input_buffer[p]) = len_input_buffer[p]
                    /\ line = <<>> /\ uart = NULL

LEMMA ReplyFinds ==
  ASSUME ComInv, Runs(2, "com_reply")
  PROVE  /\ At(2, "user") /\ pc[2] = "user" /\ at[2] = "com_reply" /\ active_proc = 2
         /\ Exists(3) /\ ret[2] = 3 /\ rq.state[2] = "READY"
         /\ ~Asked /\ ~Serving /\ Answered /\ InService /\ Customer = com_sender
         /\ com_sender \in Proc /\ com_sender > 3 /\ pc[com_sender] = "user"
         /\ \A p \in Proc : rq.state[p] = "REPLY_BLOCKED" <=> p = com_sender
         /\ received[2][1] = 3
         /\ ~ReaderHasRequest /\ ~ReaderHasAnswer
         /\ line = <<>> /\ uart = NULL
         /\ Bytes(com_sender) = len_input_buffer[com_sender]
<1> USE Processes
<1>1. At(2, "user") /\ pc[2] = "user" /\ at[2] = "com_reply" /\ active_proc = 2
  BY DEF Runs, At
<1>2. at[2] \in Working
  BY <1>1 DEF Working
<1>3. Exists(3) /\ ret[2] = 3 /\ rq.state[2] = "READY"
  BY <1>1, <1>2, ServiceRuns
<1>4. ~Asked /\ ~Serving /\ Answered /\ InService /\ Customer = com_sender
  BY <1>1, <1>3 DEF Asked, Serving, Answered, InService, Customer
<1>5. /\ com_sender \in Proc /\ Messenger = 3
      /\ \A p \in Proc : rq.state[p] = "REPLY_BLOCKED" <=> p = com_sender
  BY <1>4 DEF ComInv, Inv, OneCustomer
<1>6. com_sender > 3 /\ pc[com_sender] = "user"
  BY <1>5, BlockedAre
<1>7. received[2][1] = 3
  BY <1>1, <1>5 DEF Messenger
<1>8. ~ReaderHasRequest /\ ~ReaderHasAnswer
  BY <1>4 DEF ComInv, Inv, ReaderIsAsked
<1>9. line = <<>> /\ uart = NULL /\ Bytes(com_sender) = len_input_buffer[com_sender]
  BY <1>4 DEF ComInv, Inv, BytesAddUp
<1> QED  BY <1>1, <1>3, <1>4, <1>5, <1>6, <1>7, <1>8, <1>9

LEMMA ReplyInv ==
  ASSUME ComInv, Runs(2, "com_reply"), Replies(2, com_sender, "open_com_port"),
         UNCHANGED comVars
  PROVE  ComInv' /\ AnswersAreWhole
<1> USE Processes
<1>1. PICK s \in Proc :
      /\ At(2, "user") /\ pc[2] = "user" /\ at[2] = "com_reply" /\ active_proc = 2
      /\ Exists(3) /\ ret[2] = 3 /\ rq.state[2] = "READY"
      /\ ~Asked /\ ~Serving /\ Answered /\ InService /\ Customer = com_sender
      /\ com_sender = s /\ s > 3 /\ pc[s] = "user"
      /\ \A p \in Proc : rq.state[p] = "REPLY_BLOCKED" <=> p = s
      /\ ~ReaderHasRequest /\ ~ReaderHasAnswer
      /\ line = <<>> /\ uart = NULL
      /\ Bytes(s) = len_input_buffer[s]
  BY ReplyFinds
<1>2. reply(2, s) /\ Jump(2, "open_com_port") /\ UNCHANGED <<received, ret>>
  BY <1>1 DEF Replies
<1>3. /\ rq' = add_ready_queue(rq, s) /\ active_proc' = dispatcher(rq', active_proc)
      /\ UNCHANGED <<param_proc, param_data, next_blocked, port, ports, next_free_port,
                     next_free_pcb, new_proc, interrupt_table, halt, pc>>
  <2>1. /\ resign(add_ready_queue(rq, s))
        /\ UNCHANGED <<ipcVars, portVars, procVars, interrupt_table, halt, pc>>
    BY <1>1, <1>2, Zenon DEF reply
  <2> QED  BY <2>1 DEF resign, ipcVars, portVars, procVars
<1>4. /\ rq'.state[s] = "READY" /\ rq'.priority = rq.priority
      /\ \A q \in Proc : q # s => rq'.state[q] = rq.state[q]
  <2>1. rq \in QueueRecord
    BY KernelTypes DEF ComInv
  <2>2. rq'.state = [rq.state EXCEPT ![s] = "READY"] /\ rq'.priority = rq.priority
    BY <1>3, <2>1, StateOf
  <2> QED  BY <2>1, <2>2 DEF QueueRecord
<1>5. /\ at'[2] = "open_com_port" /\ at' \in [Proc -> Places]
      /\ \A q \in Proc : q # 2 => at'[q] = at[q]
  BY <1>2 DEF Jump, Places, ComInv, Inv, Typed
<1>6. UNCHANGED <<com_port, com_writer_port, requestVars, received, ret>>
  BY <1>2 DEF comVars, requestVars
<1>7. K!IInv' /\ K!HighestStep
  <2>1. s \in ToReply[2] /\ pc[s] \notin {"free", "embryo"}
    BY <1>1 DEF ToReply, InPcb
  <2>2. ToReply' = [ToReply EXCEPT ![2] = @ \ {s}]
    <3>1. ToReply'[2] = ToReply[2] \ {s}
      <4>1. \A r \in Proc : ~InPcb(r)' /\ ~InPcb(r)
        BY <1>1, <1>3 DEF InPcb
      <4> QED  BY <1>1, <1>4, <4>1 DEF ToReply
    <3>2. \A r \in Proc : r # 2 => ToReply'[r] = ToReply[r]
      BY DEF ToReply
    <3>3. /\ ToReply = [r \in Proc |-> ToReply[r]]
          /\ ToReply' = [r \in Proc |-> ToReply'[r]]
      BY DEF ToReply
    <3> HIDE DEF ToReply
    <3> QED  BY ONLY <3>1, <3>2, <3>3
  <2>3. SentTo' = [SentTo EXCEPT ![s] = NULL]
    <3>1. SentTo'[s] = NULL
      BY <1>4 DEF SentTo
    <3>2. \A r \in Proc : r # s => SentTo'[r] = SentTo[r]
      BY <1>4 DEF SentTo
    <3>3. /\ SentTo = [r \in Proc |-> SentTo[r]]
          /\ SentTo' = [r \in Proc |-> SentTo'[r]]
      BY DEF SentTo
    <3> HIDE DEF SentTo
    <3> QED  BY ONLY <3>1, <3>2, <3>3
  <2>4. K!reply(2, s)
    BY <1>2, <1>3, SameMessageCalls
  <2>5. K!NoResult
    BY <1>6 DEF K!NoResult
  <2>6. K!Reply(2) /\ 2 \in K!Programs
    <3>1. s \in K!Proc /\ 2 \in K!Programs
      BY SameSets
    <3> QED  BY ONLY <2>1, <2>2, <2>3, <2>4, <2>5, <3>1 DEF K!Reply
  <2> QED  BY <2>6, KernelStep DEF K!GNext, K!Call, ComInv
<1>8. BootStages' /\ ProgramStages' /\ PortsAreLeft' /\ PortsAreOwned' /\ HavePriorities'
  <2>1. at'[2] # "com_process" /\ rq'.state[0] = rq.state[0]
    BY <1>1, <1>4, <1>5
  <2>2. \A q \in Proc : q > 3 =>
           rq'.state[q] = rq.state[q]
             \/ rq'.state[q] \in {"READY", "SEND_BLOCKED", "REPLY_BLOCKED"}
    BY <1>4
  <2>3. \A q \in Proc : rq'.priority[q] = rq.priority[q]
    BY <1>4
  <2> QED  BY <1>3, <1>5, <1>6, <2>1, <2>2, <2>3, FrameIsKept
<1>9. Typed' /\ OnlyTheLineIsAwaited' /\ ComNeverPanics'
  <2>1. Typed'
    BY <1>5, <1>6, TypesAreKept
  <2>2. ComNeverPanics'
    BY <1>3, <1>6, NoPanicIsKept DEF ComInv, Inv
  <2> QED  BY <1>3, <2>1, <2>2 DEF OnlyTheLineIsAwaited, ComInv, Inv
<1>10. ServiceStages' /\ ReaderStages'
  <2>1. rq'.state[2] = "READY" /\ rq'.state[3] = rq.state[3]
    BY <1>1, <1>4
  <2>2. ServiceStages'
    BY <1>1, <1>3, <1>5, <1>6, <2>1 DEF ServiceStages, Exists, Working
  <2>3. ReaderStages'
    BY <1>1, <1>3, <1>5, <2>1, ReaderStays
  <2> QED  BY <2>2, <2>3
<1>11. PortsAreServed'
  BY <1>5 DEF PortsAreServed
<1>12. ServiceFirst'
  BY <1>3, <1>7, <1>8, DispatchServesFirst
<1>13. /\ ~Asked' /\ ~Serving' /\ ~Answered' /\ ~InService'
       /\ ~ReaderHasRequest' /\ ~ReaderHasAnswer'
  <2>1. rq'.state[3] = rq.state[3] /\ at'[3] = at[3]
    BY <1>1, <1>4, <1>5
  <2> QED  BY <1>1, <1>5, <2>1
     DEF Asked, Serving, Answered, InService, ReaderHasRequest, ReaderHasAnswer
<1> USE DEF ComInv, Inv
<1>14. OneCustomer' /\ ReaderIsAsked'
  <2>1. OneCustomer'
    BY <1>1, <1>3, <1>4, <1>5, <1>13 DEF OneCustomer
  <2>2. ReaderIsAsked'
    BY <1>13 DEF ReaderIsAsked
  <2> QED  BY <2>1, <2>2
<1>15. BuffersAreRight'
  <2>1. \A q \in Proc : Fresh(q)' => Fresh(q)
    BY <1>4, <1>5, <1>13 DEF Fresh
  <2> QED  BY <1>6, <2>1 DEF BuffersAreRight, Bytes, requestVars
<1>16. BytesAddUp'
  <2>1. at'[3] \notin {"reader_loop", "read_byte"}
    BY <1>13 DEF ReaderHasRequest
  <2> QED  BY <1>1, <1>6, <1>13, <2>1 DEF BytesAddUp, requestVars
<1>17. AnswersAreWhole
  BY <1>1, <1>4 DEF AnswersAreWhole, Bytes
<1> QED  BY <1>7, <1>8, <1>9, <1>10, <1>11, <1>12, <1>14, <1>15, <1>16, <1>17

-----------------------------------------------------------------------------
(* The steps together *)

(* receive() returns with the message that was left in the PCB. *)
LEMMA ReceivedInv ==
  ASSUME ComInv, NEW p \in Proc, receive_return(p), UNCHANGED <<at, ret, comVars>>
  PROVE  ComInv' /\ NobodyIsAnswered
<1> USE Processes
<1>1. UNCHANGED <<com_port, com_writer_port, requestVars>>
  BY DEF comVars, requestVars
<1>2. /\ p \in {2, 3} /\ Steps(p, at[p]) /\ active_proc = p /\ pc[p] = "receive"
      /\ pc'[p] = "user" /\ \A q \in Proc : q # p => pc'[q] = pc[q]
      /\ received'[p][1] = param_proc[p] /\ received'[p][2] = param_data[p]
      /\ \A q \in Proc : q # p => received'[q] = received[q]
      /\ rq.state[p] = "READY"
      /\ UNCHANGED <<rq, active_proc, param_proc, param_data, port, interrupt_table, at>>
  BY <1>1, ReturnStep
<1>3. /\ at' \in [Proc -> Places]
      /\ K!IInv' /\ BootStages' /\ ProgramStages'
      /\ PortsAreLeft' /\ PortsAreOwned' /\ HavePriorities' /\ ComNeverPanics'
  BY <1>2 DEF Steps
<1>4. Typed' /\ OnlyTheLineIsAwaited'
  <2>1. Typed'
    BY <1>1, <1>3, TypesAreKept
  <2> QED  BY <1>2, <2>1 DEF OnlyTheLineIsAwaited, ComInv, Inv
<1>5. \A q \in Proc : Exists(q)' <=> Exists(q)
  BY <1>2 DEF Exists
<1>6. ServiceStages' /\ ReaderStages'
  <2>1. ServiceStages /\ ReaderStages
    BY DEF ComInv, Inv
  <2>2. CASE p = 2
    <3>1. at[2] \in {"start_reader", "com_reply"} /\ Exists(3) /\ ret[2] = 3
      BY <1>2, <2>1, <2>2 DEF ServiceStages
    <3>2. ServiceStages'
      BY <1>2, <1>5, <2>2, <3>1 DEF ServiceStages, Working
    <3>3. ReaderStages'
      BY <1>2, <2>1, <2>2 DEF ReaderStages
    <3> QED  BY <3>2, <3>3
  <2>3. CASE p = 3
    <3>1. at[3] = "reader_start"
      BY <1>2, <2>1, <2>3 DEF ReaderStages
    <3>2. ReaderStages'
      BY <1>2, <2>3, <3>1 DEF ReaderStages
    <3>3. ServiceStages'
      <4>1. pc[3] \in Running /\ pc'[3] \in Running
        BY <1>2, <2>3 DEF Running
      <4> QED  BY <1>2, <2>3, <4>1, ServiceStays
    <3> QED  BY <3>2, <3>3
  <2> QED  BY <1>2, <2>2, <2>3
<1>7. PortsAreServed'
  <2>1. PortsAreServed
    BY DEF ComInv, Inv
  <2> QED  BY <1>2, <2>1 DEF PortsAreServed
<1>8. ServiceFirst'
  <2>1. ServiceFirst
    BY DEF ComInv, Inv
  <2>2. NoPrograms' <=> NoPrograms
    BY <1>2 DEF NoPrograms
  <2> QED  BY <1>2, <1>5, <2>1, <2>2 DEF ServiceFirst, Busy, Early
<1>9. OneCustomer' /\ ReaderIsAsked' /\ BuffersAreRight' /\ BytesAddUp'
  <2>1. /\ Asked' <=> Asked
        /\ Serving' <=> Serving
        /\ Answered' <=> Answered
        /\ ReaderHasRequest' <=> ReaderHasRequest
        /\ ReaderHasAnswer' <=> ReaderHasAnswer
    BY <1>2 DEF Asked, Serving, Answered, ReaderHasRequest, ReaderHasAnswer
  <2>2. Messenger' = Messenger /\ Content' = Content
    BY <1>2 DEF Messenger, Content
  <2>3. Told' = Told
    BY <1>2 DEF Told
  <2>4. ~Serving => ~ReaderHasRequest' /\ ~ReaderHasAnswer'
    BY <2>1 DEF ComInv, Inv, ReaderIsAsked
  <2> QED  BY <1>1, <1>2, <2>1, <2>2, <2>3, <2>4, SamePhase
<1>10. NobodyIsAnswered
  BY <1>2 DEF NobodyIsAnswered
<1> QED  BY <1>3, <1>4, <1>6, <1>7, <1>8, <1>9, <1>10 DEF ComInv, Inv

(* The assertion of a port variable that is not yet assigned.              *)
LEMMA PortPanicInv ==
  ASSUME ComInv, com_port = NULL, PortAssertionFails, UNCHANGED comVars
  PROVE  ComInv' /\ NobodyIsAnswered
<1>1. /\ halt' = "Failed assertion"
      /\ UNCHANGED <<schedVars, ipcVars, portVars, procVars, interrupt_table, pc,
                     received, progVars, comVars>>
  BY DEF PortAssertionFails, Panic
<1> QED  BY <1>1, HaltInv

(* receive() finds a blocked sender or blocks. *)
LEMMA ServiceReceives ==
  ASSUME ComInv, At(2, "user"), at[2] \in Working, NEW next, Receives(2, next)
  PROVE  /\ receive(2) /\ Jump(2, next) /\ UNCHANGED ret
         /\ receive_pending(2) \/ receive_block(2)
<1>1. Len(ports[2]) = 2
  BY ServiceRuns DEF At
<1>2. ports[2] # <<>>
  BY <1>1
<1> QED  BY <1>2, Zenon DEF Receives, receive

LEMMA ServiceStartInv ==
  ASSUME ComInv, com_process_start(2)
  PROVE  ComInv' /\ NobodyIsAnswered
<1>1. CASE /\ Runs(2, "com_process") /\ create_port(2)
           /\ com_writer_port' = next_free_port
           /\ Jump(2, "create_reader") /\ UNCHANGED <<received, ret>>
  <2>1. UNCHANGED <<com_port, requestVars>>
    BY DEF com_process_start, requestVars, messageVars, deviceVars
  <2> QED  BY <1>1, <2>1, ComPortsInv
<1>2. CASE /\ Runs(2, "create_reader") /\ Create(2, "com_reader", 7, "open_com_port")
           /\ UNCHANGED com_writer_port
  <2>1. UNCHANGED comVars
    BY <1>2 DEF com_process_start, comVars, messageVars, deviceVars
  <2> QED  BY <1>2, <2>1, CreateReaderInv
<1> QED  BY <1>1, <1>2 DEF com_process_start

LEMMA ServicePortsInv ==
  ASSUME ComInv, UNCHANGED comVars,
         \/ Runs(2, "open_com_port") /\ Opens(2, com_port, "close_writer_port")
         \/ Runs(2, "close_writer_port") /\ Closes(2, com_writer_port, "com_receive")
         \/ close_com_port(2)
         \/ Runs(2, "open_writer_port") /\ Opens(2, com_writer_port, "await_reader")
  PROVE  ComInv' /\ NobodyIsAnswered
<1> USE Processes
<1>1. At(2, "user") /\ at[2] \in Working
  BY DEF Runs, close_com_port, Working
<1>2. com_writer_port = 2 /\ com_port \in {NULL, 1}
  BY <1>1, ServiceRuns DEF At
<1>3. PortAssertionFails /\ com_port = NULL => ComInv' /\ NobodyIsAnswered
  BY PortPanicInv
<1>4. {"close_writer_port", "com_receive", "open_writer_port", "await_reader"}
        \subseteq Places \ {"com_process"}
  BY DEF Places
<1>5. CASE Runs(2, "open_com_port") /\ Opens(2, com_port, "close_writer_port")
  <2>1. \/ com_port = NULL /\ PortAssertionFails
        \/ /\ com_port = 1 /\ open_port(2, 1) /\ Jump(2, "close_writer_port")
           /\ UNCHANGED <<received, ret>>
    BY <1>2, <1>5 DEF Opens
  <2>2. CASE /\ open_port(2, 1) /\ Jump(2, "close_writer_port")
             /\ UNCHANGED <<received, ret>>
    BY <1>1, <1>4, <1>5, <2>2, ServicePortInv DEF Runs
  <2> QED  BY <1>3, <2>1, <2>2
<1>6. CASE Runs(2, "close_writer_port") /\ Closes(2, com_writer_port, "com_receive")
  <2>1. /\ close_port(2, 2) /\ Jump(2, "com_receive")
        /\ UNCHANGED <<received, ret>>
    BY <1>2, <1>6 DEF Closes
  <2> QED  BY <1>1, <1>4, <1>6, <2>1, ServicePortInv DEF Runs
<1>7. CASE close_com_port(2)
  <2>1. \/ com_port = NULL /\ PortAssertionFails
        \/ /\ com_port = 1 /\ close_port(2, 1) /\ Jump(2, "open_writer_port")
           /\ UNCHANGED <<received, ret>>
    BY <1>2, <1>7 DEF close_com_port, Closes
  <2>2. CASE /\ close_port(2, 1) /\ Jump(2, "open_writer_port")
             /\ UNCHANGED <<received, ret>>
    BY <1>1, <1>4, <1>7, <2>2, ServicePortInv DEF close_com_port, Runs
  <2> QED  BY <1>3, <2>1, <2>2
<1>8. CASE Runs(2, "open_writer_port") /\ Opens(2, com_writer_port, "await_reader")
  <2>1. /\ open_port(2, 2) /\ Jump(2, "await_reader")
        /\ UNCHANGED <<received, ret>>
    BY <1>2, <1>8 DEF Opens
  <2> QED  BY <1>1, <1>4, <1>8, <2>1, ServicePortInv DEF Runs
<1> QED  BY <1>5, <1>6, <1>7, <1>8

(* No step but the reply wakes a sender that waits for one. *)
LEMMA NoAnswerIsWhole ==
  ASSUME NobodyIsAnswered
  PROVE  AnswersAreWhole
BY DEF NobodyIsAnswered, AnswersAreWhole

LEMMA ServiceInv ==
  ASSUME ComInv, NEW p \in Proc, com_process(p)
  PROVE  ComInv' /\ AnswersAreWhole
<1> USE Processes
<1>1. p = 2 /\ com_process(2)
  <2>1. p = 2
    BY WhereTheyAre, Zenon
       DEF com_process, com_process_start, com_process_loop, close_com_port, Runs, Working
  <2> QED  BY <2>1
<1>2. CASE com_process_start(2)
  BY <1>2, ServiceStartInv, NoAnswerIsWhole
<1>3. CASE /\ \/ Runs(2, "open_com_port") /\ Opens(2, com_port, "close_writer_port")
              \/ Runs(2, "close_writer_port") /\ Closes(2, com_writer_port, "com_receive")
              \/ close_com_port(2)
              \/ Runs(2, "open_writer_port") /\ Opens(2, com_writer_port, "await_reader")
           /\ UNCHANGED comVars
  BY <1>3, ServicePortsInv, NoAnswerIsWhole
<1>4. CASE /\ Runs(2, "com_receive") /\ Receives(2, "start_reader") /\ UNCHANGED comVars
  <2>1. At(2, "user") /\ at[2] = "com_receive" /\ at[2] \in Working
    BY <1>4 DEF Runs, Working
  <2>2. /\ receive(2) /\ Jump(2, "start_reader") /\ UNCHANGED ret
        /\ receive_pending(2) \/ receive_block(2)
    BY <1>4, <2>1, ServiceReceives
  <2> QED  BY <1>4, <2>1, <2>2, TakesRequestInv, ServiceBlocksInv, NoAnswerIsWhole
<1>5. CASE /\ Runs(2, "await_reader") /\ Receives(2, "com_reply") /\ UNCHANGED comVars
  <2>1. At(2, "user") /\ at[2] = "await_reader" /\ at[2] \in Working
    BY <1>5 DEF Runs, Working
  <2>2. /\ receive(2) /\ Jump(2, "com_reply") /\ UNCHANGED ret
        /\ receive_pending(2) \/ receive_block(2)
    BY <1>5, <2>1, ServiceReceives
  <2> QED  BY <1>5, <2>1, <2>2, TakesAnswerInv, ServiceBlocksInv, NoAnswerIsWhole
<1>6. CASE /\ Runs(2, "com_reply") /\ Replies(2, com_sender, "open_com_port")
           /\ UNCHANGED comVars
  BY <1>6, ReplyInv
<1>7. CASE /\ Runs(2, "start_reader") /\ com_sender' = Sender(2)
           /\ Messages(2, Returned(2), Message(2), "send_cmd")
           /\ UNCHANGED <<com_port, com_writer_port, reader_i, messageVars, deviceVars>>
  BY <1>7, StartReaderInv, NoAnswerIsWhole DEF messageVars, deviceVars
<1>8. CASE /\ Runs(2, "send_cmd") /\ send_cmd_to_com(Message(2))
           /\ Computes(2, "close_com_port")
           /\ UNCHANGED <<com_port, com_writer_port, com_sender, reader_i, messageVars, uart>>
  BY <1>8, SendCmdInv, NoAnswerIsWhole DEF messageVars
<1> QED  BY <1>1, <1>2, <1>3, <1>4, <1>5, <1>6, <1>7, <1>8, Zenon
         DEF com_process, com_process_loop

LEMMA BootProgramInv ==
  ASSUME ComInv, NEW p \in Proc, BootProgram(p)
  PROVE  ComInv' /\ NobodyIsAnswered
<1>1. p = 0
  BY Processes, WhereTheyAre, Zenon DEF BootProgram, init_com, Runs, Working
<1>2. BootProgram(0)
  BY <1>1
<1>3. CASE init_com(0, "create_programs")
  <2>1. UNCHANGED <<com_writer_port, requestVars>>
    BY <1>3 DEF init_com, requestVars, messageVars, deviceVars
  <2>2. CASE /\ Runs(0, "init_com") /\ Create(0, "com_process", 6, "assign_com_port")
             /\ UNCHANGED com_port
    <3>1. UNCHANGED comVars
      BY <2>1, <2>2 DEF comVars, requestVars
    <3> QED  BY <2>2, <3>1, InitComInv
  <2>3. CASE /\ Runs(0, "assign_com_port") /\ com_port' = Returned(0) /\ Forget(0)
             /\ Jump(0, "resign_com") /\ UNCHANGED <<vars, received>>
    BY <2>1, <2>3, AssignInv
  <2>4. CASE /\ Runs(0, "resign_com") /\ Resigns(0, "create_programs") /\ UNCHANGED com_port
    <3>1. UNCHANGED comVars
      BY <2>1, <2>4 DEF comVars, requestVars
    <3> QED  BY <2>4, <3>1, ResignComInv
  <2> QED  BY <1>3, <2>2, <2>3, <2>4 DEF init_com
<1>4. CASE /\ Runs(0, "create_programs") /\ next_free_pcb # NULL
           /\ Create(0, "program", 5, "create_programs") /\ UNCHANGED comVars
  BY <1>4, CreateProgramInv
<1>5. CASE /\ Runs(0, "create_programs") /\ next_free_pcb = NULL
           /\ Dies(0) /\ UNCHANGED comVars
  BY <1>5, DiesInv
<1> QED  BY <1>2, <1>3, <1>4, <1>5 DEF BootProgram

LEMMA ReturnInv ==
  ASSUME ComInv, NEW p \in Proc, Return(p)
  PROVE  ComInv' /\ NobodyIsAnswered
<1>1. Continue(p) /\ UNCHANGED <<at, comVars>>
  BY DEF Return, Continue
<1>2. CASE create_process_port(p) /\ UNCHANGED <<received, ret>>
  BY <1>1, <1>2, CreateProcessPortInv
<1>3. CASE /\ create_process_ready(p)
           /\ ret' = [ret EXCEPT ![p] = Head(ports[new_proc[p]])]
           /\ UNCHANGED received
  BY <1>1, <1>3, CreateProcessReadyInv
<1>4. CASE zombie_remove(p) /\ UNCHANGED <<received, ret>>
  BY <1>1, <1>4, ZombieRemoveInv
<1>5. CASE zombie_resign(p) /\ UNCHANGED <<received, ret>>
  BY <1>1, <1>5, ZombieResignInv
<1>6. CASE receive_return(p) /\ UNCHANGED ret
  BY <1>1, <1>6, ReceivedInv
<1>7. CASE wait_for_interrupt_return(p) /\ UNCHANGED <<received, ret>>
  BY <1>1, <1>7, WaitReturnInv
<1> QED  BY <1>1, <1>2, <1>3, <1>4, <1>5, <1>6, <1>7 DEF Continue

LEMMA LoopInv ==
  ASSUME ComInv, Loop
  PROVE  ComInv' /\ NobodyIsAnswered
<1>1. UNCHANGED vars
  BY DEF Loop, Loops, null_process, halted, zombie_loop
<1>2. /\ halt' = halt
      /\ UNCHANGED <<schedVars, ipcVars, portVars, procVars, interrupt_table, pc,
                     received, progVars, comVars>>
  BY <1>1 DEF vars, schedVars, ipcVars, portVars, procVars, Loop, Loops
<1> QED  BY <1>2, HaltInv

LEMMA InitInv ==
  ASSUME CInit
  PROVE  ComInv
<1> USE Processes
<1>1. K!IInv
  <2>1. Init
    BY DEF CInit, ProgramsInit
  <2>2. K!Init
    BY <2>1, SameSets DEF Init, K!Init
  <2>3. SentTo = [p \in Proc |-> NULL]
    BY <2>1 DEF Init, SentTo
  <2>4. ToReply = [p \in Proc |-> {}]
    BY <2>1 DEF Init, ToReply
  <2>5. K!GInit
    BY <2>2, <2>3, <2>4, SameSets DEF K!GInit
  <2> QED  BY <2>5, KernelConstants, SizesAssumption, NullAssumption, PortsAssumption, K!InitInv
<1>2. /\ at = [p \in Proc |-> CASE p = 0 -> "init_com"
                                [] p = 1 -> "loop"
                                [] OTHER -> "none"]
      /\ ret = [p \in Proc |-> NULL]
      /\ com_port = NULL /\ com_writer_port = NULL /\ com_sender = NULL /\ reader_i = 0
      /\ len_input_buffer = [p \in Proc |-> 0]
      /\ input_buffer = [p \in Proc |-> <<>>]
      /\ line = <<>> /\ uart = NULL
  BY DEF CInit, ProgramsInit, ComInit
<1>3. /\ \A p \in Proc : rq.state[p] = "READY" /\ rq.priority[p] = (IF p = 0 THEN 1 ELSE 0)
      /\ active_proc = 0 /\ next_free_pcb = 2 /\ next_free_port = 1
      /\ \A p \in Proc : pc[p] = IF p = 0 \/ p = 1 THEN "user" ELSE "free"
      /\ ports[2] = <<>>
      /\ \A irq \in Irq : interrupt_table[irq] = NULL
      /\ halt = "no"
  BY SizesAssumption, RoomAssumption DEF CInit, ProgramsInit, Init
<1>4. Typed
  <2>1. at \in [Proc -> Places]
    BY <1>2 DEF Places
  <2>2. \E longest \in Lengths : reader_i \in 0 .. longest
    <3>1. PICK longest \in Lengths : TRUE
      BY LengthsAssumption
    <3>2. longest \in Nat
      BY LengthsAssumption
    <3> QED  BY <1>2, <3>1, <3>2
  <2> QED  BY <1>2, <2>1, <2>2 DEF Typed, ProcOrNull
<1>5. BootStages /\ ServiceStages /\ ReaderStages /\ ProgramStages
  <2>1. BootStages
    BY <1>2, <1>3 DEF BootStages
  <2>2. ServiceStages /\ ReaderStages
    BY <1>2, <1>3 DEF ServiceStages, ReaderStages
  <2>3. ProgramStages
    BY <1>2, <1>3 DEF ProgramStages
  <2> QED  BY <2>1, <2>2, <2>3
<1>6. PortsAreLeft /\ PortsAreOwned /\ PortsAreServed
  <2>1. CreatedBelow = 2
    <3>1. 2 # NULL
      OBVIOUS
    <3> QED  BY <1>3, <3>1 DEF CreatedBelow
  <2>2. PortsAreLeft
    BY <1>2, <1>3, <2>1 DEF PortsAreLeft, Exists
  <2>3. PortsAreOwned
    BY <1>3 DEF PortsAreOwned
  <2>4. PortsAreServed
    BY <1>2 DEF PortsAreServed
  <2> QED  BY <2>2, <2>3, <2>4
<1>7. HavePriorities /\ ServiceFirst /\ OnlyTheLineIsAwaited
  <2>1. HavePriorities
    <3>1. rq.priority[0] = 1 /\ rq.priority[1] = 0 /\ pc[2] = "free" /\ pc[3] = "free"
      BY <1>3
    <3>2. \A p \in Proc : p > 3 => pc[p] = "free"
      BY <1>3
    <3> QED  BY <3>1, <3>2, KernelConstants DEF HavePriorities
  <2>2. ServiceFirst
    BY <1>2, <1>3 DEF ServiceFirst, Early, NoPrograms
  <2>3. OnlyTheLineIsAwaited
    BY <1>3 DEF OnlyTheLineIsAwaited
  <2> QED  BY <2>1, <2>2, <2>3
<1>8. ~Asked /\ ~Serving /\ ~Answered /\ ~InService /\ ~ReaderHasRequest /\ ~ReaderHasAnswer
  BY <1>2, <1>3 DEF Asked, Serving, Answered, InService, ReaderHasRequest, ReaderHasAnswer
<1>9. OneCustomer /\ ReaderIsAsked
  <2>1. OneCustomer
    BY <1>2, <1>3, <1>8 DEF OneCustomer
  <2>2. ReaderIsAsked
    BY <1>8 DEF ReaderIsAsked
  <2> QED  BY <2>1, <2>2
<1>10. BuffersAreRight /\ BytesAddUp
  <2>1. BuffersAreRight
    BY <1>2 DEF BuffersAreRight, Bytes
  <2>2. BytesAddUp
    BY <1>2, <1>8 DEF BytesAddUp
  <2> QED  BY <2>1, <2>2
<1>11. ComNeverPanics
  BY <1>3 DEF ComNeverPanics
<1> QED  BY <1>1, <1>4, <1>5, <1>6, <1>7, <1>9, <1>10, <1>11 DEF ComInv, Inv

LEMMA NextInv ==
  ASSUME ComInv, [CNext]_comSystemVars
  PROVE  ComInv' /\ AnswersAreWhole
<1>1. ASSUME NEW p \in Proc, Step(p) \/ Request(p) PROVE ComInv' /\ AnswersAreWhole
  <2>1. CASE BootProgram(p)
    BY <2>1, BootProgramInv, NoAnswerIsWhole
  <2>2. CASE ComReader(p)
    BY <2>2, ReaderInv, NoAnswerIsWhole DEF ComReader
  <2>3. CASE ComProcess(p)
    BY <2>3, ServiceInv DEF ComProcess
  <2>4. CASE Return(p)
    BY <2>4, ReturnInv, NoAnswerIsWhole
  <2>5. CASE Request(p)
    BY <2>5, RequestInv, NoAnswerIsWhole
  <2> QED  BY <1>1, <2>1, <2>2, <2>3, <2>4, <2>5 DEF Step
<1>2. CASE Byte
  BY <1>2, ByteInv, NoAnswerIsWhole DEF Byte
<1>3. CASE Tick
  BY <1>3, TickInv, NoAnswerIsWhole DEF Tick
<1>4. CASE Loop
  BY <1>4, LoopInv, NoAnswerIsWhole
<1>5. CASE UNCHANGED comSystemVars
  <2>1. /\ halt' = halt
        /\ UNCHANGED <<schedVars, ipcVars, portVars, procVars, interrupt_table, pc,
                       received, progVars, comVars>>
    BY <1>5 DEF comSystemVars, vars, schedVars, ipcVars, portVars, procVars
  <2> QED  BY <2>1, HaltInv, NoAnswerIsWhole
<1> QED  BY <1>1, <1>2, <1>3, <1>4, <1>5 DEF CNext

-----------------------------------------------------------------------------
(* The theorems *)

(* The serial line, its programs and the kernel stay in the states of the  *)
(* invariant.                                                              *)
THEOREM ComInvariant == CSpec => []ComInv
<1>1. CInit => ComInv
  BY InitInv
<1>2. ComInv /\ [CNext]_comSystemVars => ComInv'
  BY NextInv
<1> QED  BY <1>1, <1>2, PTL DEF CSpec

(* The service keeps its types, its buffers their lengths, and no call of  *)
(* com.c panics, but for the assertion of a com_process that starts before *)
(* com_port is assigned.                                                   *)
THEOREM ComStaysSound == CSpec => []ComIsSound
<1>1. ComInv => ComIsSound
  <2> SUFFICES ASSUME ComInv PROVE ComIsSound
    OBVIOUS
  <2>1. com_port \in Port \cup {NULL} /\ com_writer_port \in Port \cup {NULL}
    BY KernelConstants DEF ComInv, Inv, Typed
  <2>2. ASSUME NEW p \in Proc PROVE Len(input_buffer[p]) \in 0 .. len_input_buffer[p]
    <3>1. /\ input_buffer[p] \in Seq({p}) /\ len_input_buffer[p] \in Nat
          /\ Len(input_buffer[p]) <= len_input_buffer[p]
      BY LengthsAssumption DEF ComInv, Inv, Typed, BuffersAreRight, Bytes
    <3>2. Len(input_buffer[p]) \in Nat
      BY ONLY <3>1
    <3> QED  BY ONLY <3>1, <3>2
  <2>3. /\ com_sender \in ProcOrNull /\ uart \in ProcOrNull
        /\ len_input_buffer \in [Proc -> Lengths \cup {0}]
        /\ \E longest \in Lengths : reader_i \in 0 .. longest
    BY DEF ComInv, Inv, Typed
  <2>4. ComNeverPanics
    BY DEF ComInv, Inv
  <2> QED  BY <2>1, <2>2, <2>3, <2>4 DEF ComIsSound, ComTypeOK
<1> QED  BY <1>1, ComInvariant, PTL

(* One program at a time waits for a reply, every byte goes to the buffer  *)
(* of the request that it answers, and what com_process takes for the      *)
(* reader's message comes from the reader, however many programs there are *)
(* and whatever lengths they wait for.                                     *)
THEOREM RequestsAreServedOneByOne == CSpec => []OneRequestAtATime
<1>1. ComInv => RequestsAreSeparate
  <2> SUFFICES ASSUME ComInv PROVE RequestsAreSeparate
    OBVIOUS
  <2>1. ASSUME NEW p \in Proc, NEW q \in Proc,
               rq.state[p] = "REPLY_BLOCKED", rq.state[q] = "REPLY_BLOCKED"
        PROVE  p = q
    BY <2>1 DEF ComInv, Inv, OneCustomer
  <2>2. ASSUME NEW p \in Proc, NEW k \in DOMAIN input_buffer[p]
        PROVE  input_buffer[p][k] = p
    <3>1. input_buffer[p] \in Seq({p})
      BY DEF ComInv, Inv, BuffersAreRight
    <3> QED  BY ONLY <2>2, <3>1
  <2>3. ASSUME line # <<>> PROVE rq.state[Head(line)] = "REPLY_BLOCKED"
    <3>1. Serving /\ line \in Seq(Proc) /\ \A k \in DOMAIN line : line[k] = com_sender
      BY <2>3 DEF ComInv, Inv, BytesAddUp, Typed
    <3>2. Head(line) = com_sender
      BY ONLY <2>3, <3>1
    <3>3. InService /\ Customer = com_sender
      BY <3>1 DEF InService, Customer, Asked, Serving
    <3> QED  BY <3>2, <3>3 DEF ComInv, Inv, OneCustomer
  <2> QED  BY <2>1, <2>2, <2>3 DEF RequestsAreSeparate, Programs
<1>2. ComInv => OnlyTheReaderAnswers
  <2> SUFFICES ASSUME ComInv, NEW p \in Proc, Runs(p, "com_reply")
               PROVE  Sender(p) \in Readers
    BY DEF OnlyTheReaderAnswers
  <2>1. p = 2
    BY Processes, WhereTheyAre, Zenon DEF Runs, Working
  <2>2. received[2][1] = 3 /\ Exists(3)
    BY <2>1, ReplyFinds
  <2>3. at[3] \in {"com_reader", "reader_start", "reader_loop", "read_byte"}
    BY <2>2 DEF ComInv, Inv, ReaderStages, Exists
  <2> QED  BY <2>1, <2>2, <2>3, Processes DEF Sender, Readers
<1> QED  BY <1>1, <1>2, ComInvariant, PTL DEF OneRequestAtATime

(* send() to com_port returns when every byte of the answer is in the      *)
(* buffer and none is left in the UART or on the line.                     *)
THEOREM AnswersStayComplete == CSpec => AnswersAreComplete
<1>1. ComInv /\ [CNext]_comSystemVars =>
        [\A p \in Programs :
           rq.state[p] = "REPLY_BLOCKED" /\ rq.state'[p] = "READY" =>
             /\ Len(input_buffer[p]) = len_input_buffer[p]
             /\ line = <<>> /\ uart = NULL]_comSystemVars
  BY NextInv DEF AnswersAreWhole, Programs
<1> QED  BY <1>1, ComInvariant, PTL DEF CSpec, AnswersAreComplete
=============================================================================
