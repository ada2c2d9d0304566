----------------------------- MODULE ReadyQueue -----------------------------
(***************************************************************************)
(* The data structure of the dispatcher (src/kernel/dispatch.c): one       *)
(* circular doubly linked ring of PCBs per priority, threaded through      *)
(* PCB.next and PCB.prev, its first element in ready_queue[i], and the     *)
(* word ready_procs whose bit i tells that ring i is not empty.  Also the  *)
(* free list of process.c, which uses the same field PCB.next.             *)
(*                                                                         *)
(* The operators work on a record q that holds the globals and PCB fields  *)
(* the dispatcher reads or writes:                                         *)
(*   ready_queue, ready_procs (the set of bits that are 1), next, prev,    *)
(*   state and priority (functions on the PCB slots).                      *)
(* Each C function runs with interrupts disabled from its first to its     *)
(* last statement, so each is one operator from record to record.          *)
(***************************************************************************)
EXTENDS Integers

CONSTANTS
  MAX_PROCS,          \* number of PCB slots (20 in kernel.h)
  MAX_READY_QUEUES,   \* number of priorities (8 in kernel.h)
  NULL                \* the null pointer

Proc == 0 .. MAX_PROCS - 1                \* pcb[i] is the process i
Priority == 0 .. MAX_READY_QUEUES - 1

(* Two slots: the boot process is pcb[0] with priority 1, the null process  *)
(* is the first one created, with priority 0.                              *)
ASSUME SizesAssumption ==
  /\ MAX_PROCS \in Nat /\ MAX_PROCS >= 2
  /\ MAX_READY_QUEUES \in Nat /\ MAX_READY_QUEUES >= 2

ASSUME NullAssumption == NULL \notin Int

States == {"READY", "ZOMBIE", "SEND_BLOCKED", "REPLY_BLOCKED",
           "RECEIVE_BLOCKED", "MESSAGE_BLOCKED", "INTR_BLOCKED"}

ProcOrNull == Proc \cup {NULL}

QueueRecord ==
  [ready_queue : [Priority -> ProcOrNull],
   ready_procs : SUBSET Priority,
   next        : [Proc -> ProcOrNull],
   prev        : [Proc -> ProcOrNull],
   state       : [Proc -> States],
   priority    : [Proc -> Priority]]

-----------------------------------------------------------------------------

(* add_ready_queue: proc goes to the tail of the ring of its priority.     *)
add_ready_queue(q, proc) ==
  LET prio  == q.priority[proc]
      first == q.ready_queue[prio]
  IN  IF first = NULL
      THEN [q EXCEPT !.ready_queue[prio] = proc,
                     !.next[proc]        = proc,
                     !.prev[proc]        = proc,
                     !.ready_procs       = @ \cup {prio},
                     !.state[proc]       = "READY"]
      ELSE [q EXCEPT !.next  = [@ EXCEPT ![proc] = first,
                                         ![q.prev[first]] = proc],
                     !.prev  = [@ EXCEPT ![proc] = q.prev[first],
                                         ![first] = proc],
                     !.state[proc] = "READY"]

(* A bug: the head of the ring is left where it was. *)
remove_ready_queue_keeping_head(q, proc) ==
  LET prio == q.priority[proc]
  IN  IF q.next[proc] = proc
      THEN [q EXCEPT !.ready_queue[prio] = NULL,
                     !.ready_procs       = @ \ {prio}]
      ELSE [q EXCEPT !.prev[q.next[proc]] = q.prev[proc],
                     !.next[q.prev[proc]] = q.next[proc]]

(* remove_ready_queue: proc leaves its ring and its successor becomes the  *)
(* first.  The fields next and prev of proc itself keep their values.      *)
remove_ready_queue(q, proc) ==
  LET prio == q.priority[proc]
  IN  IF q.next[proc] = proc
      THEN [q EXCEPT !.ready_queue[prio] = NULL,
                     !.ready_procs       = @ \ {prio}]
      ELSE [q EXCEPT !.ready_queue[prio]    = q.next[proc],
                     !.prev[q.next[proc]]   = q.prev[proc],
                     !.next[q.prev[proc]]   = q.next[proc]]

(* What table[ready_procs] holds (disptable.c): the most significant bit.  *)
(* For ready_procs = 0 the table holds -1, and dispatcher() asserts that   *)
(* this never happens; the invariant NeverIdle says the same.              *)
MostSignificantBit(bits) == CHOOSE i \in bits : \A j \in bits : j <= i

(* Two bugs: the ring of the running process is used although it may be    *)
(* empty, or although there is one of a higher priority.                   *)
dispatcher_from_lower_ring(q, active) ==
  LET i == MostSignificantBit(q.ready_procs)
  IN  IF i <= q.priority[active] THEN q.next[active] ELSE q.ready_queue[i]

dispatcher_without_preemption(q, active) ==
  IF q.priority[active] \in q.ready_procs THEN q.next[active]
  ELSE q.ready_queue[MostSignificantBit(q.ready_procs)]

(* dispatcher: the process to run next, when active is running.            *)
dispatcher(q, active) ==
  LET i == MostSignificantBit(q.ready_procs)
  IN  IF i = q.priority[active] THEN q.next[active] ELSE q.ready_queue[i]

-----------------------------------------------------------------------------

(* The ring of priority i holds exactly the processes of Q: it is empty    *)
(* when Q is, next and prev are inverse permutations of Q, and next has a  *)
(* single cycle (no proper part of Q is closed under it).                  *)
RingHolds(q, i, Q) ==
  /\ i \in q.ready_procs <=> Q # {}
  /\ IF Q = {} THEN q.ready_queue[i] = NULL ELSE q.ready_queue[i] \in Q
  /\ \A p \in Q : /\ q.next[p] \in Q /\ q.prev[p] \in Q
                  /\ q.prev[q.next[p]] = p /\ q.next[q.prev[p]] = p
  /\ \A S \in SUBSET Q :
        S # {} /\ (\A p \in S : q.next[p] \in S) => S = Q

=============================================================================
