-------------------------- MODULE RendezvousRefinement --------------------------
(***************************************************************************)
(* The kernel calls, made by any programs, implement Rendezvous: the queue *)
(* of a port is its list of blocked processes, what a process waits for is *)
(* its state, and the message in the hands of a woken receiver is in its   *)
(* PCB.                                                                    *)
(***************************************************************************)
EXTENDS GeneralClient

(* The list that starts at head, as a sequence. *)
Chain(head) ==
  LET from[p \in Proc] ==
        <<p>> \o (IF next_blocked[p] = NULL THEN <<>> ELSE from[next_blocked[p]])
  IN  IF head = NULL THEN <<>> ELSE from[head]

MessageOf(s) == [proc |-> s, data |-> param_data[s],
                 wants_reply |-> rq.state[s] = "SEND_BLOCKED"]

Queue(po) == LET list == Chain(port[po].blocked_list_head)
             IN  [k \in DOMAIN list |-> MessageOf(list[k])]

HasMessage(p) == pc[p] = "receive" /\ rq.state[p] = "READY"

Waiting(p) ==
  CASE rq.state[p] \in {"SEND_BLOCKED", "MESSAGE_BLOCKED"} -> "queued"
    [] rq.state[p] = "REPLY_BLOCKED"   -> "awaiting_reply"
    [] rq.state[p] = "RECEIVE_BLOCKED" -> "receiving"
    [] HasMessage(p)                   -> "delivered"
    [] OTHER                           -> "idle"

Inbox(p) ==
  LET s == param_proc[p]
  IN  IF HasMessage(p)
      THEN [proc |-> s, data |-> param_data[p],
            wants_reply |-> /\ rq.state[s] = "REPLY_BLOCKED"
                            /\ waits_on[s] \in Own(p)]
      ELSE NULL

Owners   == [po \in Port |-> port[po].owner]
Opened   == [po \in Port |-> port[po].open]
Queues   == [po \in Port |-> Queue(po)]
Statuses == [p \in Proc |-> Waiting(p)]
Inboxes  == [p \in Proc |-> Inbox(p)]

Abstract == INSTANCE Rendezvous WITH
  Process <- Proc, PortId <- Port, Content <- Data, None <- NULL,
  owner <- Owners, open <- Opened, queue <- Queues, status <- Statuses,
  inbox <- Inboxes, result <- received, serving <- clients

(* ipc.c keeps the promise of Rendezvous: first in first out per port,     *)
(* every message received once, by the owner, with its sender and data.    *)
ImplementsRendezvous == Abstract!Spec

=============================================================================
