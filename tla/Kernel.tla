-------------------------------- MODULE Kernel --------------------------------
(***************************************************************************)
(* The kernel calls of TOS: processes (process.c), dispatching             *)
(* (dispatch.c), ports and synchronous messages (ipc.c), interrupts        *)
(* (intr.c).  One action per kernel call and per interrupt service         *)
(* routine; the programs that make the calls are in the modules that       *)
(* EXTEND this one.                                                        *)
(*                                                                         *)
(* A call runs with interrupts disabled from its DISABLE_INTR to its       *)
(* ENABLE_INTR, so the code between them is one step, unless it calls      *)
(* resign(): then the process stops in the middle of the call and runs     *)
(* the rest, still with interrupts disabled, when it is dispatched again.  *)
(* pc[p] names where that is.  The two calls whose C code has instructions *)
(* with interrupts enabled between its parts, create_process and           *)
(* become_zombie, take several steps.                                      *)
(*                                                                         *)
(* PCB.magic, PORT_DEF.magic and the fields used are not modelled: the     *)
(* programs hold only pointers that create_process, create_port and        *)
(* receive returned, no slot is ever freed, and nothing but the process    *)
(* listing reads used.                                                     *)
(***************************************************************************)
EXTENDS ReadyQueue, Sequences

CONSTANTS
  MAX_PORTS,   \* number of port slots (2 * MAX_PROCS in kernel.h)
  Data         \* what a message carries

ASSUME PortsAssumption == MAX_PORTS \in Nat /\ MAX_PORTS >= 1

Port == 0 .. MAX_PORTS - 1

TIMER_IRQ == 96     \* 0x60
KEYB_IRQ  == 97     \* 0x61
COM1_IRQ  == 100    \* 0x64
Irq == {TIMER_IRQ, KEYB_IRQ, COM1_IRQ}    \* the IRQs with a service routine

VARIABLES
  rq,               \* rings, free list, state and priority: see ReadyQueue
  active_proc,      \* the process that has the CPU
  next_free_pcb,    \* head of the list of free PCBs, linked by rq.next
  param_proc,       \* PCB.param_proc: the sender of the message delivered
  param_data,       \* PCB.param_data: the message sent or delivered
  next_blocked,     \* PCB.next_blocked: link of the list of blocked senders
  ports,            \* PCB.first_port and what it links: newest port first
  port,             \* port[]: the records PORT_DEF
  next_free_port,   \* the ports below it are in use, the others are free
  interrupt_table,  \* the process that waits for an IRQ
  halt,             \* "no", or the panic that stopped the machine
  pc,               \* where a process goes on when it is dispatched
  new_proc,         \* the local variable of create_process
  received          \* what a receive() has returned to its caller:
                    \* <<sender, data>>; only receive() sets it, and the
                    \* modules of programs say how long a program holds it

schedVars == <<rq, active_proc>>
ipcVars   == <<param_proc, param_data, next_blocked, port>>
portVars  == <<ports, next_free_port>>
procVars  == <<next_free_pcb, new_proc>>
vars == <<schedVars, ipcVars, portVars, procVars, interrupt_table, halt, pc>>

(* Where a process goes on.  In a program: user.  Inside a call, with      *)
(* interrupts disabled: receive, wait_for_interrupt (after the resign).    *)
(* Inside a call, with interrupts enabled: create_port, create_ready       *)
(* (after the first two parts of create_process), zombie_remove,           *)
(* zombie_resign, zombie_loop (in become_zombie).  Not yet in a ready      *)
(* queue: embryo; no process in this PCB: free.                            *)
CallLabels == {"receive", "wait_for_interrupt"}
Labels == CallLabels \cup
          {"user", "create_port", "create_ready", "zombie_remove",
           "zombie_resign", "zombie_loop", "embryo", "free"}

(* p has the CPU and is at label l. *)
At(p, l) == halt = "no" /\ active_proc = p /\ pc[p] = l

Goto(p, l) == pc' = [pc EXCEPT ![p] = l]

(* resign(): the caller keeps its place, the dispatcher picks who runs.    *)
resign(q) == /\ rq' = q
             /\ active_proc' = dispatcher(q, active_proc)

(* panic(): interrupts off for ever, the machine stops. *)
Panic(msg) ==
  /\ halt' = msg
  /\ UNCHANGED <<schedVars, ipcVars, portVars, procVars, interrupt_table, pc>>

-----------------------------------------------------------------------------
(* Processes *)

(* init_process, init_dispatcher, init_ipc, init_interrupts and            *)
(* init_null_process: the boot process runs, alone in the ring of priority *)
(* 1, the null process is ready with priority 0 and owns port 0.           *)
Boot == 0
NullProcess == 1

Init ==
  /\ rq = [ready_queue |-> [i \in Priority |-> CASE i = 0 -> NullProcess
                                                 [] i = 1 -> Boot
                                                 [] OTHER -> NULL],
           ready_procs |-> {0, 1},
           next        |-> [p \in Proc |-> CASE p \in {Boot, NullProcess} -> p
                                             [] p = MAX_PROCS - 1 /\ p > 1 -> NULL
                                             [] OTHER -> p + 1],
           prev        |-> [p \in Proc |-> IF p \in {Boot, NullProcess}
                                           THEN p ELSE NULL],
           state       |-> [p \in Proc |-> "READY"],
           priority    |-> [p \in Proc |-> IF p = Boot THEN 1 ELSE 0]]
  /\ active_proc = Boot
  /\ next_free_pcb = IF MAX_PROCS > 2 THEN 2 ELSE NULL
  /\ param_proc = [p \in Proc |-> NULL]
  /\ param_data = [p \in Proc |-> NULL]
  /\ next_blocked = [p \in Proc |-> NULL]
  /\ ports = [p \in Proc |-> IF p = NullProcess THEN <<0>> ELSE <<>>]
  /\ port = [po \in Port |->
               [open  |-> po = 0,
                owner |-> IF po = 0 THEN NullProcess ELSE NULL,
                blocked_list_head |-> NULL, blocked_list_tail |-> NULL]]
  /\ next_free_port = 1
  /\ interrupt_table = [irq \in Irq |-> NULL]
  /\ halt = "no"
  /\ pc = [p \in Proc |-> IF p \in {Boot, NullProcess} THEN "user" ELSE "free"]
  /\ new_proc = [p \in Proc |-> NULL]
  /\ received = [p \in Proc |-> NULL]

(* A bug: the last slot is taken for free when none is. *)
create_new_port_off_by_one(owner) ==
  LET p == next_free_port
  IN  /\ next_free_port <= MAX_PORTS
      /\ next_free_port' = p + 1
      /\ port' = [port EXCEPT ![p] =
                    [open |-> TRUE, owner |-> owner,
                     blocked_list_head |-> NULL, blocked_list_tail |-> NULL]]
      /\ ports' = [ports EXCEPT ![owner] = <<p>> \o @]

(* create_new_port(owner): a port slot becomes the first of owner's ports. *)
create_new_port(owner) ==
  LET p == next_free_port
  IN  /\ next_free_port < MAX_PORTS
      /\ next_free_port' = p + 1
      /\ port' = [port EXCEPT ![p] =
                    [open |-> TRUE, owner |-> owner,
                     blocked_list_head |-> NULL, blocked_list_tail |-> NULL]]
      /\ ports' = [ports EXCEPT ![owner] = <<p>> \o @]

PortFull == next_free_port = MAX_PORTS /\ Panic("create_new_port(): PORT full")

(* create_port() *)
create_port(p) ==
  /\ At(p, "user")
  /\ \/ /\ create_new_port(p)
        /\ UNCHANGED <<schedVars, param_proc, param_data, next_blocked,
                       procVars, interrupt_table, halt, pc>>
     \/ PortFull

(* create_process(.., prio, ..), first part: a PCB from the free list and  *)
(* its fields, which no other process can see yet.                         *)
create_process(p, prio) ==
  /\ At(p, "user")
  /\ \/ prio >= MAX_READY_QUEUES /\ Panic("create(): Bad priority")
     \/ /\ prio < MAX_READY_QUEUES /\ next_free_pcb = NULL
        /\ Panic("create(): PCB full")
     \/ /\ prio < MAX_READY_QUEUES /\ next_free_pcb # NULL
        /\ next_free_pcb' = rq.next[next_free_pcb]
        /\ rq' = [rq EXCEPT !.state[next_free_pcb] = "READY",
                            !.priority[next_free_pcb] = prio]
        /\ ports' = [ports EXCEPT ![next_free_pcb] = <<>>]
        /\ new_proc' = [new_proc EXCEPT ![p] = next_free_pcb]
        /\ pc' = [pc EXCEPT ![p] = "create_port", ![next_free_pcb] = "embryo"]
        /\ UNCHANGED <<active_proc, ipcVars, next_free_port, interrupt_table,
                       halt>>

(* Second part: the port of the new process. *)
create_process_port(p) ==
  /\ At(p, "create_port")
  /\ \/ /\ create_new_port(new_proc[p])
        /\ Goto(p, "create_ready")
        /\ UNCHANGED <<schedVars, param_proc, param_data, next_blocked,
                       procVars, interrupt_table, halt>>
     \/ PortFull

(* Third part: the stack that starts the new process with interrupts       *)
(* enabled, and the ready queue.                                           *)
create_process_ready(p) ==
  /\ At(p, "create_ready")
  /\ rq' = add_ready_queue(rq, new_proc[p])
  /\ pc' = [pc EXCEPT ![p] = "user", ![new_proc[p]] = "user"]
  /\ new_proc' = [new_proc EXCEPT ![p] = NULL]
  /\ UNCHANGED <<active_proc, ipcVars, portVars, next_free_pcb,
                 interrupt_table, halt>>

(* resign() called by a program. *)
resign_call(p) ==
  /\ At(p, "user")
  /\ resign(rq)
  /\ UNCHANGED <<ipcVars, portVars, procVars, interrupt_table, halt, pc>>

(* become_zombie(): three statements, interrupts enabled between them,     *)
(* then a loop that does nothing.                                          *)
become_zombie(p) ==
  /\ At(p, "user")
  /\ rq' = [rq EXCEPT !.state[p] = "ZOMBIE"]
  /\ Goto(p, "zombie_remove")
  /\ UNCHANGED <<active_proc, ipcVars, portVars, procVars, interrupt_table,
                 halt>>

zombie_remove(p) ==
  /\ At(p, "zombie_remove")
  /\ rq' = remove_ready_queue(rq, p)
  /\ Goto(p, "zombie_resign")
  /\ UNCHANGED <<active_proc, ipcVars, portVars, procVars, interrupt_table,
                 halt>>

zombie_resign(p) ==
  /\ At(p, "zombie_resign")
  /\ resign(rq)
  /\ Goto(p, "zombie_loop")
  /\ UNCHANGED <<ipcVars, portVars, procVars, interrupt_table, halt>>

-----------------------------------------------------------------------------
(* Ports and messages *)

open_port(p, po) ==
  /\ At(p, "user")
  /\ port' = [port EXCEPT ![po].open = TRUE]
  /\ UNCHANGED <<schedVars, param_proc, param_data, next_blocked, portVars,
                 procVars, interrupt_table, halt, pc>>

close_port(p, po) ==
  /\ At(p, "user")
  /\ port' = [port EXCEPT ![po].open = FALSE]
  /\ UNCHANGED <<schedVars, param_proc, param_data, next_blocked, portVars,
                 procVars, interrupt_table, halt, pc>>

(* Two bugs: a message passes a closed port; a receiver that has a message *)
(* and has not run since is given another one.                             *)
CanDeliver_closed(po) == rq.state[port[po].owner] = "RECEIVE_BLOCKED"

CanDeliver_again(po) == port[po].open /\ pc[port[po].owner] = "receive"

(* The receiver can be given the message at once. *)
CanDeliver(po) == /\ port[po].open
                  /\ rq.state[port[po].owner] = "RECEIVE_BLOCKED"

(* The caller's message goes into the PCB of the receiver. *)
Deliver(p, dest) ==
  /\ param_proc' = [param_proc EXCEPT ![dest] = p]
  /\ UNCHANGED <<next_blocked, port>>

(* Two bugs: a stack in place of a queue; a process that has been in a list *)
(* before brings its old link.                                             *)
add_to_send_blocked_list_lifo(po, proc) ==
  /\ port' = [port EXCEPT ![po].blocked_list_head = proc,
                          ![po].blocked_list_tail = IF @ = NULL THEN proc ELSE @]
  /\ next_blocked' = [next_blocked EXCEPT ![proc] = port[po].blocked_list_head]
  /\ UNCHANGED param_proc

add_to_send_blocked_list_old_link(po, proc) ==
  /\ IF port[po].blocked_list_head = NULL
     THEN /\ port' = [port EXCEPT ![po].blocked_list_head = proc,
                                  ![po].blocked_list_tail = proc]
          /\ UNCHANGED next_blocked
     ELSE /\ port' = [port EXCEPT ![po].blocked_list_tail = proc]
          /\ next_blocked' = [next_blocked EXCEPT
                                ![port[po].blocked_list_tail] = proc]
  /\ UNCHANGED param_proc

(* add_to_send_blocked_list: proc is linked in behind the last one. *)
add_to_send_blocked_list(po, proc) ==
  /\ IF port[po].blocked_list_head = NULL
     THEN /\ port' = [port EXCEPT ![po].blocked_list_head = proc,
                                  ![po].blocked_list_tail = proc]
          /\ next_blocked' = [next_blocked EXCEPT ![proc] = NULL]
     ELSE /\ port' = [port EXCEPT ![po].blocked_list_tail = proc]
          /\ next_blocked' = [next_blocked EXCEPT
                                ![port[po].blocked_list_tail] = proc,
                                ![proc] = NULL]
  /\ UNCHANGED param_proc

(* send(po, data): blocks the caller until the receiver has replied. *)
send(p, po, data) ==
  /\ At(p, "user")
  /\ LET dest == port[po].owner IN
     \/ /\ CanDeliver(po)
        /\ Deliver(p, dest)
        /\ param_data' = [param_data EXCEPT ![dest] = data, ![p] = data]
        /\ resign(remove_ready_queue(
                    add_ready_queue([rq EXCEPT !.state[p] = "REPLY_BLOCKED"],
                                    dest), p))
     \/ /\ ~CanDeliver(po)
        /\ add_to_send_blocked_list(po, p)
        /\ param_data' = [param_data EXCEPT ![p] = data]
        /\ resign(remove_ready_queue([rq EXCEPT !.state[p] = "SEND_BLOCKED"],
                                     p))
  /\ UNCHANGED <<portVars, procVars, interrupt_table, halt, pc>>

(* message(po, data): blocks the caller until the receiver has taken it. *)
message(p, po, data) ==
  /\ At(p, "user")
  /\ LET dest == port[po].owner IN
     \/ /\ CanDeliver(po)
        /\ Deliver(p, dest)
        /\ param_data' = [param_data EXCEPT ![dest] = data]
        /\ resign(add_ready_queue(rq, dest))
     \/ /\ ~CanDeliver(po)
        /\ add_to_send_blocked_list(po, p)
        /\ param_data' = [param_data EXCEPT ![p] = data]
        /\ resign([remove_ready_queue(rq, p) EXCEPT
                     !.state[p] = "MESSAGE_BLOCKED"])
  /\ UNCHANGED <<portVars, procVars, interrupt_table, halt, pc>>

(* A bug: only the newest port is looked at. *)
Pending_newest(p) == {k \in DOMAIN ports[p] :
                        /\ k = 1 /\ port[ports[p][k]].open
                        /\ port[ports[p][k]].blocked_list_head # NULL}

(* The positions in p's list of ports at which receive() can stop its      *)
(* search: open, with a blocked sender.                                    *)
Pending(p) == {k \in DOMAIN ports[p] :
                 /\ port[ports[p][k]].open
                 /\ port[ports[p][k]].blocked_list_head # NULL}

(* receive(): takes the first blocked sender of the first port it finds.   *)
(* A sender of a message goes on, a sender of a send stays blocked until   *)
(* the reply.  The C code would fall through to blocking with a sender in  *)
(* any third state; there is none (invariant BlockedListsAreQueues).       *)
receive_pending(p) ==
  \E k \in Pending(p) :
    LET po           == ports[p][k]
        deliver_proc == port[po].blocked_list_head
        rest         == next_blocked[deliver_proc]
    IN
    /\ \A j \in Pending(p) : k <= j
    /\ received' = [received EXCEPT ![p] =
                      <<deliver_proc, param_data[deliver_proc]>>]
    /\ port' = [port EXCEPT
                  ![po].blocked_list_head = rest,
                  ![po].blocked_list_tail = IF rest = NULL THEN NULL ELSE @]
    /\ rq' = CASE rq.state[deliver_proc] = "MESSAGE_BLOCKED" ->
                    add_ready_queue(rq, deliver_proc)
               [] rq.state[deliver_proc] = "SEND_BLOCKED" ->
                    [rq EXCEPT !.state[deliver_proc] = "REPLY_BLOCKED"]
    /\ UNCHANGED <<active_proc, param_proc, param_data, next_blocked, pc>>

receive_block(p) ==
  /\ Pending(p) = {}
  /\ param_data' = [param_data EXCEPT ![p] = NULL]
  /\ resign([remove_ready_queue(rq, p) EXCEPT !.state[p] = "RECEIVE_BLOCKED"])
  /\ Goto(p, "receive")
  /\ received' = [received EXCEPT ![p] = NULL]
  /\ UNCHANGED <<param_proc, next_blocked, port>>

receive(p) ==
  /\ At(p, "user")
  /\ \/ /\ ports[p] = <<>>
        /\ Panic("receive(): no port created for this process")
        /\ UNCHANGED received
     \/ /\ ports[p] # <<>>
        /\ receive_pending(p) \/ receive_block(p)
        /\ UNCHANGED <<portVars, procVars, interrupt_table, halt>>

(* receive() after its resign(): the sender left the message in the PCB. *)
receive_return(p) ==
  /\ At(p, "receive")
  /\ received' = [received EXCEPT ![p] = <<param_proc[p], param_data[p]>>]
  /\ Goto(p, "user")
  /\ UNCHANGED <<schedVars, ipcVars, portVars, procVars, interrupt_table, halt>>

(* reply(sender) *)
reply(p, sender) ==
  /\ At(p, "user")
  /\ \/ /\ rq.state[sender] # "REPLY_BLOCKED"
        /\ Panic("reply(): Not reply blocked")
     \/ /\ rq.state[sender] = "REPLY_BLOCKED"
        /\ resign(add_ready_queue(rq, sender))
        /\ UNCHANGED <<ipcVars, portVars, procVars, interrupt_table, halt, pc>>

-----------------------------------------------------------------------------
(* Interrupts *)

wait_for_interrupt(p, irq) ==
  /\ At(p, "user")
  /\ \/ /\ interrupt_table[irq] # NULL
        /\ Panic("wait_for_interrupt(): ISR busy")
     \/ /\ interrupt_table[irq] = NULL
        /\ interrupt_table' = [interrupt_table EXCEPT ![irq] = p]
        /\ resign([remove_ready_queue(rq, p) EXCEPT
                     !.state[p] = "INTR_BLOCKED"])
        /\ Goto(p, "wait_for_interrupt")
        /\ UNCHANGED <<ipcVars, portVars, procVars, halt>>

(* A bug: the entry is not cleared. *)
wait_for_interrupt_return_uncleared(p) ==
  /\ At(p, "wait_for_interrupt")
  /\ Goto(p, "user")
  /\ UNCHANGED <<schedVars, ipcVars, portVars, procVars, interrupt_table, halt>>

(* After the resign(): the entry of the process's own interrupt is the     *)
(* only one that holds it.                                                 *)
wait_for_interrupt_return(p) ==
  /\ At(p, "wait_for_interrupt")
  /\ interrupt_table' = [irq \in Irq |-> IF interrupt_table[irq] = p
                                         THEN NULL ELSE interrupt_table[irq]]
  /\ Goto(p, "user")
  /\ UNCHANGED <<schedVars, ipcVars, portVars, procVars, halt>>

InterruptsEnabled == halt = "no" /\ pc[active_proc] \notin CallLabels

(* isr_timer: a tick with nobody waiting only dispatches. *)
isr_timer ==
  /\ InterruptsEnabled
  /\ LET p == interrupt_table[TIMER_IRQ]
         waiting == p # NULL /\ rq.state[p] = "INTR_BLOCKED"
     IN  \/ waiting /\ resign(add_ready_queue(rq, p))
         \/ ~waiting /\ resign(rq)
  /\ UNCHANGED <<ipcVars, portVars, procVars, interrupt_table, halt, pc>>

(* isr_com1 and isr_keyb: an interrupt with nobody waiting is a panic. *)
isr_device(irq) ==
  /\ InterruptsEnabled
  /\ LET p == interrupt_table[irq] IN
     \/ p = NULL /\ Panic("Spurious interrupt")
     \/ /\ p # NULL /\ rq.state[p] # "INTR_BLOCKED"
        /\ Panic("No process waiting")
     \/ /\ p # NULL /\ rq.state[p] = "INTR_BLOCKED"
        /\ resign(add_ready_queue(rq, p))
        /\ UNCHANGED <<ipcVars, portVars, procVars, interrupt_table, halt, pc>>

isr_com1 == isr_device(COM1_IRQ)
isr_keyb == isr_device(KEYB_IRQ)

(* The null process and the end of become_zombie: while (1). *)
null_process == At(NullProcess, "user") /\ UNCHANGED vars
zombie_loop(p) == At(p, "zombie_loop") /\ UNCHANGED vars

(* panic() and a failed assertion loop for ever with interrupts disabled. *)
halted == halt # "no" /\ UNCHANGED vars

-----------------------------------------------------------------------------
(* Properties of every program that runs on this kernel *)

Halts == {"create(): Bad priority", "create(): PCB full",
          "create_new_port(): PORT full",
          "receive(): no port created for this process",
          "reply(): Not reply blocked", "wait_for_interrupt(): ISR busy",
          "Spurious interrupt", "No process waiting"}

TypeOK ==
  /\ rq \in QueueRecord
  /\ active_proc \in Proc
  /\ next_free_pcb \in ProcOrNull
  /\ param_proc \in [Proc -> ProcOrNull]
  /\ param_data \in [Proc -> Data \cup {NULL}]
  /\ next_blocked \in [Proc -> ProcOrNull]
  /\ ports \in [Proc -> Seq(Port)]
  /\ port \in [Port -> [open : BOOLEAN, owner : ProcOrNull,
                        blocked_list_head : ProcOrNull,
                        blocked_list_tail : ProcOrNull]]
  /\ next_free_port \in 0 .. MAX_PORTS
  /\ interrupt_table \in [Irq -> ProcOrNull]
  /\ halt \in Halts \cup {"no"}
  /\ pc \in [Proc -> Labels]
  /\ new_proc \in [Proc -> ProcOrNull]
  /\ received \in [Proc -> (ProcOrNull \X (Data \cup {NULL})) \cup {NULL}]
=============================================================================
