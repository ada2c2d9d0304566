---------------------------- MODULE GeneralClient ----------------------------
(***************************************************************************)
(* The most general program on the kernel: every process but the null      *)
(* process makes any kernel call at any time, and every interrupt comes at *)
(* any time.  What the modules of the drivers assume of the kernel is      *)
(* checked here once, for all programs that keep three rules the programs  *)
(* under src/ keep:                                                        *)
(*   - only its owner opens or closes a port;                              *)
(*   - a process replies to a sender that waits for a reply only if it     *)
(*     received that sender's message (a reply to any other process is a   *)
(*     panic, and is tried);                                               *)
(*   - a port is known to others only when create_process has put its      *)
(*     owner on a ready queue, and the port of the null process, which     *)
(*     init_null_process does not keep, to nobody.                         *)
(***************************************************************************)
EXTENDS Kernel

CONSTANTS
  Calls,        \* the kernel calls the programs make, the interrupts that come
  Priorities,   \* the priorities they create processes with
  Payload,      \* what each process sends: a function to sets of Data
  KeepsResults  \* whether a process holds what receive() has returned

AllCalls == {"create_port", "create_process", "resign", "become_zombie",
             "open_port", "close_port", "send", "message", "receive", "reply",
             "wait_for_interrupt", "isr_timer", "isr_com1", "isr_keyb"}

ASSUME ProgramsAssumption == /\ Calls \subseteq AllCalls
                             /\ Priorities \subseteq Nat
                             /\ Payload \in [Proc -> SUBSET Data]
                             /\ KeepsResults \in BOOLEAN

VARIABLES
  waits_on,   \* the port of a sender that is not yet received or replied to
  clients     \* the senders a process has received and not yet replied to

clientVars == <<waits_on, clients>>
allVars == <<vars, received, clientVars>>

(* The result of receive() is held until the next one, or for one step.    *)
NoResult == received' = IF KeepsResults THEN received ELSE [p \in Proc |-> NULL]
Unchanged == UNCHANGED clientVars /\ NoResult

Programs == Proc \ {NullProcess}
Known == {po \in Port : /\ port[po].owner \in Programs
                        /\ pc[port[po].owner] # "embryo"}
Own(p) == {po \in Port : port[po].owner = p}

GInit == /\ Init
         /\ waits_on = [p \in Proc |-> NULL]
         /\ clients = [p \in Proc |-> {}]

CreatePort(p) == /\ "create_port" \in Calls
                 /\ create_port(p) /\ Unchanged
CreateProcess(p) ==
  /\ "create_process" \in Calls
  /\ \E prio \in Priorities : create_process(p, prio)
  /\ Unchanged
CreateProcessPort(p) == create_process_port(p) /\ Unchanged
CreateProcessReady(p) == create_process_ready(p) /\ Unchanged
Resign(p) == "resign" \in Calls /\ resign_call(p) /\ Unchanged
BecomeZombie(p) == /\ "become_zombie" \in Calls
                   /\ become_zombie(p) /\ Unchanged
ZombieRemove(p) == zombie_remove(p) /\ Unchanged
ZombieResign(p) == zombie_resign(p) /\ Unchanged
ZombieLoop(p) == zombie_loop(p) /\ Unchanged
NullLoop == null_process /\ Unchanged
OpenPort(p) == /\ "open_port" \in Calls
               /\ \E po \in Own(p) : open_port(p, po)
               /\ Unchanged
ClosePort(p) == /\ "close_port" \in Calls
                /\ \E po \in Own(p) : close_port(p, po)
                /\ Unchanged

(* The port that a process blocked as a sender has sent to. *)
SendStates == {"SEND_BLOCKED", "MESSAGE_BLOCKED", "REPLY_BLOCKED"}
WaitsOn(p, po) == waits_on' = [waits_on EXCEPT ![p] =
                                 IF rq'.state[p] \in SendStates THEN po ELSE @]

Send(p) == \E po \in Known, data \in Payload[p] :
  /\ "send" \in Calls
  /\ send(p, po, data)
  /\ WaitsOn(p, po)
  /\ NoResult
  /\ UNCHANGED clients

Message(p) == \E po \in Known, data \in Payload[p] :
  /\ "message" \in Calls
  /\ message(p, po, data)
  /\ WaitsOn(p, po)
  /\ NoResult
  /\ UNCHANGED clients

(* The sender p's receive() has just returned, if it waits for p's reply. *)
NewClient(p) == {s \in Proc : /\ s = received'[p][1]
                              /\ rq'.state[s] = "REPLY_BLOCKED"
                              /\ waits_on[s] \in Own(p)}

(* A sender of message() waits no longer when it is received. *)
Receive(p) ==
  /\ "receive" \in Calls
  /\ receive(p)
  /\ clients' = [clients EXCEPT ![p] =
                   IF Pending(p) = {} THEN @ ELSE @ \cup NewClient(p)]
  /\ waits_on' = [s \in Proc |-> IF rq'.state[s] \in SendStates
                                 THEN waits_on[s] ELSE NULL]

ReceiveReturn(p) ==
  /\ receive_return(p)
  /\ clients' = [clients EXCEPT ![p] = @ \cup NewClient(p)]
  /\ UNCHANGED waits_on

Reply(p) == \E sender \in Proc :
  /\ "reply" \in Calls
  /\ pc[sender] \notin {"free", "embryo"}
  /\ sender \in clients[p] \/ rq.state[sender] # "REPLY_BLOCKED"
  /\ reply(p, sender)
  /\ IF sender \in clients[p]
     THEN /\ clients' = [clients EXCEPT ![p] = @ \ {sender}]
          /\ waits_on' = [waits_on EXCEPT ![sender] = NULL]
     ELSE UNCHANGED clientVars
  /\ NoResult

WaitForInterrupt(p) == /\ "wait_for_interrupt" \in Calls
                       /\ \E irq \in Irq : wait_for_interrupt(p, irq)
                       /\ Unchanged
WaitForInterruptReturn(p) == /\ wait_for_interrupt_return(p)
                             /\ Unchanged

IsrTimer == "isr_timer" \in Calls /\ isr_timer /\ Unchanged
IsrCom1 == "isr_com1" \in Calls /\ isr_com1 /\ Unchanged
IsrKeyb == "isr_keyb" \in Calls /\ isr_keyb /\ Unchanged
Halted == halted /\ Unchanged

Call(p) ==
  \/ CreatePort(p) \/ CreateProcess(p) \/ CreateProcessPort(p)
  \/ CreateProcessReady(p) \/ Resign(p)
  \/ BecomeZombie(p) \/ ZombieRemove(p) \/ ZombieResign(p) \/ ZombieLoop(p)
  \/ OpenPort(p) \/ ClosePort(p) \/ Send(p) \/ Message(p)
  \/ Receive(p) \/ ReceiveReturn(p) \/ Reply(p)
  \/ WaitForInterrupt(p) \/ WaitForInterruptReturn(p)

Interrupt == IsrTimer \/ IsrCom1 \/ IsrKeyb

GNext == (\E p \in Programs : Call(p)) \/ Interrupt \/ NullLoop \/ Halted

GSpec == GInit /\ [][GNext]_allVars

-----------------------------------------------------------------------------
(* Properties *)

GTypeOK == /\ TypeOK
           /\ waits_on \in [Proc -> Port \cup {NULL}]
           /\ clients \in [Proc -> SUBSET Proc]

(* The processes that are on a ready queue: those in STATE_READY, and a    *)
(* zombie that has not yet removed itself.                                 *)
Queued == {p \in Proc : /\ pc[p] \notin {"embryo", "free"}
                        /\ rq.state[p] = "READY" \/ pc[p] = "zombie_remove"}
QueuedAt(i) == {p \in Queued : rq.priority[p] = i}

(* The ready queues hold exactly the processes that can run, each once, in *)
(* the ring of its priority, with the bits of ready_procs in agreement;    *)
(* no interleaving of calls, preemption in create_process or               *)
(* become_zombie, and no reuse of PCB.next by the free list breaks a ring. *)
RingsHoldTheReady == \A i \in Priority : RingHolds(rq, i, QueuedAt(i))

(* dispatcher()'s assert(i != -1): some process can always run; and the    *)
(* process that has the CPU is on a ready queue, except at the end of      *)
(* become_zombie.                                                          *)
NeverIdle == /\ rq.ready_procs # {}
             /\ \/ active_proc \in Queued
                \/ pc[active_proc] \in {"zombie_resign", "zombie_loop"}

(* The processes blocked in the list of port po. *)
BlockedOn(po) == {p \in Proc : /\ waits_on[p] = po
                               /\ rq.state[p] \in {"SEND_BLOCKED",
                                                   "MESSAGE_BLOCKED"}}

(* The list from head over link to tail holds exactly the processes of B,  *)
(* each once: link takes every process but tail to another one of B, none  *)
(* to head, no two to the same, and there is no cycle beside the list.     *)
ListHolds(link, head, tail, B) ==
  IF B = {} THEN head = NULL /\ tail = NULL
  ELSE /\ head \in B /\ tail \in B
       /\ link[tail] = NULL
       /\ \A p \in B \ {tail} : link[p] \in B \ {head}
       /\ \A p, r \in B \ {tail} : link[p] = link[r] => p = r
       /\ \A S \in SUBSET B :
            head \in S /\ (\A p \in S \ {tail} : link[p] \in S) => S = B

(* Every sender that is blocked is in the list of the port it sent to, once, *)
(* and nothing else is in a list: no sender is lost or received twice, and *)
(* receive() finds no sender in another state (its fall-through).          *)
BlockedListsAreQueues ==
  /\ \A po \in Port : ListHolds(next_blocked, port[po].blocked_list_head,
                                port[po].blocked_list_tail, BlockedOn(po))
  /\ \A p \in Proc : rq.state[p] \in SendStates <=> waits_on[p] # NULL

(* No lost wake-up: a process that is RECEIVE_BLOCKED has no sender in the *)
(* list of an open port of its own, which it would never look at again.    *)
NoLostWakeup ==
  \A p \in Proc : rq.state[p] = "RECEIVE_BLOCKED" =>
    \A po \in Own(p) : port[po].open => port[po].blocked_list_head = NULL

(* The message of s is in p's PCB, and p has been made ready to return it. *)
InHand(p, s) == /\ pc[p] = "receive" /\ rq.state[p] = "READY"
                /\ param_proc[p] = s

(* Every sender that waits for a reply is known to the one process that    *)
(* can reply to it, or will be: the message is still in that process's PCB *)
(* and no second delivery overwrites it there.                             *)
EverySenderGetsAReply ==
  \A s \in Proc :
    /\ rq.state[s] = "REPLY_BLOCKED" =>
         \E r \in Proc : /\ waits_on[s] \in Own(r)
                         /\ s \in clients[r] \/ InHand(r, s)
    /\ \A p \in Proc : s \in clients[p] => /\ rq.state[s] = "REPLY_BLOCKED"
                                           /\ waits_on[s] \in Own(p)

(* A process that waits for an interrupt is in interrupt_table for exactly *)
(* one IRQ until it has run again, so the ISR finds it and a second        *)
(* wait_for_interrupt() for that IRQ is refused.                           *)
WaitersAreRegistered ==
  \A p \in Proc :
    LET irqs == {irq \in Irq : interrupt_table[irq] = p} IN
    /\ pc[p] = "wait_for_interrupt" <=> irqs # {}
    /\ \A i, j \in irqs : i = j
    /\ rq.state[p] = "INTR_BLOCKED" => irqs # {}

(* dispatcher(): whenever the CPU changes hands it goes to a process that  *)
(* is on a ready queue, with the highest priority of all that are.         *)
DispatchesHighest ==
  [][active_proc' # active_proc =>
       /\ active_proc' \in Queued'
       /\ \A p \in Queued' : rq'.priority[p] <= rq'.priority[active_proc']
    ]_allVars

(* dispatch.c:98 "Never reached": once a zombie has called resign() it does *)
(* not get the CPU again.                                                  *)
ZombieNeverRuns == pc[active_proc] # "zombie_loop"

=============================================================================
