---------------------------- MODULE KernelInvariant ----------------------------
(***************************************************************************)
(* The inductive invariant of the kernel under any programs: the           *)
(* properties of GeneralClient and what they need to be preserved by every *)
(* step.                                                                   *)
(***************************************************************************)
EXTENDS GeneralClient

(* Where a process goes on tells the states it can be in. *)
StatesAt(label) ==
  CASE label = "user" -> {"READY", "SEND_BLOCKED", "MESSAGE_BLOCKED",
                          "REPLY_BLOCKED"}
    [] label = "receive" -> {"READY", "RECEIVE_BLOCKED"}
    [] label = "wait_for_interrupt" -> {"READY", "INTR_BLOCKED"}
    [] label \in {"zombie_remove", "zombie_resign", "zombie_loop"} -> {"ZOMBIE"}
    [] OTHER -> {"READY"}

LabelsMatchStates ==
  /\ \A p \in Proc : rq.state[p] \in StatesAt(pc[p])
  /\ pc[NullProcess] = "user" /\ rq.state[NullProcess] = "READY"

(* The CPU is with a process on a ready queue, or with a zombie that has   *)
(* left it, whose PCB.next is the zombie itself or on the ready queue.     *)
ActiveIsReady ==
  \/ active_proc \in Queued
  \/ /\ pc[active_proc] \in {"zombie_resign", "zombie_loop"}
     /\ \/ rq.next[active_proc] = active_proc
        \/ rq.next[active_proc] \in QueuedAt(rq.priority[active_proc])

(* PCB.next links the free PCBs, and nothing that a ring does to PCB.next  *)
(* reaches them.                                                           *)
FreeListIsFree ==
  /\ IF next_free_pcb = NULL THEN \A p \in Proc : pc[p] # "free"
     ELSE \A p \in Proc : pc[p] = "free" <=> p >= next_free_pcb
  /\ \A p \in Proc : pc[p] = "free" =>
       rq.next[p] = IF p = MAX_PROCS - 1 THEN NULL ELSE p + 1

(* A PCB between the first and the last part of create_process belongs to  *)
(* one creator.                                                            *)
Creating(p) == pc[p] \in {"create_port", "create_ready"}
EmbryosHaveOneCreator ==
  /\ \A p \in Proc : Creating(p) => /\ new_proc[p] \in Proc
                                    /\ pc[new_proc[p]] = "embryo"
  /\ \A p, r \in Proc :
       Creating(p) /\ Creating(r) /\ new_proc[p] = new_proc[r] => p = r

(* The ports in use are those below next_free_port; each is in the list of *)
(* its owner, which is no free PCB.                                        *)
PortsHaveOwners ==
  /\ \A po \in Port : /\ po < next_free_port <=> port[po].owner # NULL
                      /\ port[po].owner # NULL => pc[port[po].owner] # "free"
  /\ \A p \in Proc : \A k \in DOMAIN ports[p] : port[ports[p][k]].owner = p
  /\ \A po \in Port : port[po].owner # NULL =>
       \E k \in DOMAIN ports[port[po].owner] : ports[port[po].owner][k] = po

SendersKnowThePort ==
  \A p \in Proc : waits_on[p] # NULL => port[waits_on[p]].owner \in Programs

IInv ==
  /\ GTypeOK
  /\ RingsHoldTheReady
  /\ ActiveIsReady
  /\ LabelsMatchStates
  /\ FreeListIsFree
  /\ EmbryosHaveOneCreator
  /\ PortsHaveOwners
  /\ SendersKnowThePort
  /\ BlockedListsAreQueues
  /\ WaitersAreRegistered
  /\ NoLostWakeup
  /\ EverySenderGetsAReply

=============================================================================
