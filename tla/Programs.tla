------------------------------- MODULE Programs -------------------------------
(***************************************************************************)
(* The frame for modelling particular programs on the kernel: at[p] is     *)
(* where process p is in its program, pc[p] where it is inside a kernel    *)
(* call.  A program takes its next step when no call is in progress.       *)
(***************************************************************************)
EXTENDS Kernel

VARIABLES
  at,    \* Proc -> a label of the process's program, "none" before it exists
  ret    \* Proc -> the port that create_process has returned, until assigned

progVars == <<at, ret>>

(* p has the CPU, is not inside a call, and its program is at label l. *)
Runs(p, l) == At(p, "user") /\ at[p] = l

Jump(p, l) == at' = [at EXCEPT ![p] = l]

(* The program that calls create_process(entry, prio, ..), and the entry   *)
(* point of the process created.                                           *)
Create(p, entry, prio, next) ==
  /\ create_process(p, prio)
  /\ at' = [q \in Proc |-> CASE q = p -> next
                             [] q = next_free_pcb -> entry
                             [] OTHER -> at[q]]
  /\ UNCHANGED <<received, ret>>

(* The port that create_process returned is stored in a global variable. *)
Returned(p) == ret[p]
Forget(p) == ret' = [ret EXCEPT ![p] = NULL]

(* resign(), become_zombie(): no result. *)
Resigns(p, next) == resign_call(p) /\ Jump(p, next) /\ UNCHANGED <<received, ret>>
Dies(p) == become_zombie(p) /\ Jump(p, "dead") /\ UNCHANGED <<received, ret>>

(* assert(dest_port->magic == MAGIC_PORT) in send, message, open_port and  *)
(* close_port: a port variable that is not yet assigned is a null pointer. *)
PortAssertionFails == /\ Panic("Failed assertion")
                      /\ UNCHANGED <<received, progVars>>

Sends(p, po, data, next) ==
  \/ po = NULL /\ PortAssertionFails
  \/ /\ po # NULL /\ send(p, po, data) /\ Jump(p, next)
     /\ UNCHANGED <<received, ret>>

Messages(p, po, data, next) ==
  \/ po = NULL /\ PortAssertionFails
  \/ /\ po # NULL /\ message(p, po, data) /\ Jump(p, next)
     /\ UNCHANGED <<received, ret>>

Opens(p, po, next) ==
  \/ po = NULL /\ PortAssertionFails
  \/ /\ po # NULL /\ open_port(p, po) /\ Jump(p, next)
     /\ UNCHANGED <<received, ret>>

Closes(p, po, next) ==
  \/ po = NULL /\ PortAssertionFails
  \/ /\ po # NULL /\ close_port(p, po) /\ Jump(p, next)
     /\ UNCHANGED <<received, ret>>

Receives(p, next) == receive(p) /\ Jump(p, next) /\ UNCHANGED ret

Replies(p, sender, next) == /\ reply(p, sender) /\ Jump(p, next)
                            /\ UNCHANGED <<received, ret>>

Waits(p, irq, next) == /\ wait_for_interrupt(p, irq) /\ Jump(p, next)
                       /\ UNCHANGED <<received, ret>>

(* A step of the program alone, with interrupts enabled. *)
Computes(p, next) == Jump(p, next) /\ UNCHANGED <<vars, received, ret>>

(* What the last receive() returned. *)
Sender(p) == received[p][1]
Message(p) == received[p][2]

(* The call that p is inside of goes on. *)
Continue(p) ==
  /\ \/ create_process_port(p) /\ UNCHANGED <<received, ret>>
     \/ /\ create_process_ready(p)
        /\ ret' = [ret EXCEPT ![p] = Head(ports[new_proc[p]])]
        /\ UNCHANGED received
     \/ zombie_remove(p) /\ UNCHANGED <<received, ret>>
     \/ zombie_resign(p) /\ UNCHANGED <<received, ret>>
     \/ receive_return(p) /\ UNCHANGED ret
     \/ wait_for_interrupt_return(p) /\ UNCHANGED <<received, ret>>
  /\ UNCHANGED at

(* The loops: the null process, a zombie, the machine after a panic. *)
Loops == /\ null_process \/ halted \/ (\E p \in Proc : zombie_loop(p))
         /\ UNCHANGED <<received, progVars>>

(* The boot process of main.c starts at label first, the null process loops. *)
ProgramsInit(first) ==
  /\ Init
  /\ at = [p \in Proc |-> CASE p = Boot -> first
                            [] p = NullProcess -> "loop"
                            [] OTHER -> "none"]
  /\ ret = [p \in Proc |-> NULL]

=============================================================================
