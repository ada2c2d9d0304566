------------------------------ MODULE Rendezvous ------------------------------
(***************************************************************************)
(* What ipc.c promises to programs, without PCBs, links or a dispatcher:   *)
(* a port is a first-in first-out queue of messages that only its owner    *)
(* takes from; a message is received once, with its sender and its data;   *)
(* a receiver waits only while its open ports are empty, and is handed the *)
(* next message for one of them; a sender of a send() waits until the      *)
(* process that received it replies, a sender of a message() until it is   *)
(* received.                                                               *)
(***************************************************************************)
EXTENDS Sequences

CONSTANTS Process, PortId, Content, None

VARIABLES
  owner,     \* PortId -> the process that may receive from it, or None
  open,      \* PortId -> BOOLEAN
  queue,     \* PortId -> messages sent and not received, oldest first
  status,    \* Process -> "idle", "queued", "awaiting_reply", "receiving", "delivered"
  inbox,     \* Process -> the message handed to a waiting receiver
  result,    \* Process -> the message it received in the last step, or None
  serving    \* Process -> the senders it received that wait for its reply

rvars == <<owner, open, queue, status, inbox, result, serving>>

Envelope(s, data, wants_reply) ==
  [proc |-> s, data |-> data, wants_reply |-> wants_reply]

Init ==
  /\ owner \in [PortId -> Process \cup {None}]
  /\ open \in [PortId -> BOOLEAN]
  /\ queue = [po \in PortId |-> <<>>]
  /\ status = [p \in Process |-> "idle"]
  /\ inbox = [p \in Process |-> None]
  /\ result = [p \in Process |-> None]
  /\ serving = [p \in Process |-> {}]

NoResult == result' = [p \in Process |-> None]

CreatePort(po, p) ==
  /\ owner[po] = None
  /\ owner' = [owner EXCEPT ![po] = p]
  /\ open' = [open EXCEPT ![po] = TRUE]
  /\ UNCHANGED <<queue, status, inbox, serving>>
  /\ NoResult

SetOpen(po, b) ==
  /\ owner[po] # None /\ status[owner[po]] = "idle"
  /\ open' = [open EXCEPT ![po] = b]
  /\ UNCHANGED <<owner, queue, status, inbox, serving>>
  /\ NoResult

(* The message m goes to the port: into the hands of a waiting owner, or   *)
(* behind the messages that are there already.                             *)
HandOver(m, po) ==
  /\ inbox' = [inbox EXCEPT ![owner[po]] = m]
  /\ status' = [status EXCEPT
                  ![owner[po]] = "delivered",
                  ![m.proc] = IF m.wants_reply THEN "awaiting_reply" ELSE "idle"]
  /\ UNCHANGED queue

Enqueue(m, po) ==
  /\ queue' = [queue EXCEPT ![po] = Append(@, m)]
  /\ status' = [status EXCEPT ![m.proc] = "queued"]
  /\ UNCHANGED inbox

Give(s) ==
  /\ status[s] = "idle"
  /\ NoResult
  /\ \E po \in PortId : \E data \in Content, wants_reply \in BOOLEAN :
       LET m == Envelope(s, data, wants_reply) IN
       IF owner[po] # None /\ open[po] /\ status[owner[po]] = "receiving"
       THEN HandOver(m, po) ELSE owner[po] # None /\ Enqueue(m, po)
  /\ UNCHANGED <<owner, open, serving>>

(* p comes to hold the message m. *)
Hold(p, m) ==
  /\ result' = [r \in Process |-> IF r = p THEN <<m.proc, m.data>> ELSE None]
  /\ serving' = [serving EXCEPT ![p] =
                   IF m.wants_reply THEN @ \cup {m.proc} ELSE @]

Take(p, po) ==
  /\ status[p] = "idle" /\ owner[po] = p /\ open[po] /\ queue[po] # <<>>
  /\ LET m == Head(queue[po]) IN
     /\ Hold(p, m)
     /\ status' = [status EXCEPT ![m.proc] =
                     IF m.wants_reply THEN "awaiting_reply" ELSE "idle"]
  /\ queue' = [queue EXCEPT ![po] = Tail(@)]
  /\ UNCHANGED <<owner, open, inbox>>

StartReceiving(p) ==
  /\ status[p] = "idle"
  /\ \A po \in PortId : owner[po] = p /\ open[po] => queue[po] = <<>>
  /\ status' = [status EXCEPT ![p] = "receiving"]
  /\ UNCHANGED <<owner, open, queue, inbox, serving>>
  /\ NoResult

FinishReceiving(p) ==
  /\ status[p] = "delivered"
  /\ Hold(p, inbox[p])
  /\ inbox' = [inbox EXCEPT ![p] = None]
  /\ status' = [status EXCEPT ![p] = "idle"]
  /\ UNCHANGED <<owner, open, queue>>

Reply(p, s) ==
  /\ status[p] = "idle" /\ s \in serving[p] /\ status[s] = "awaiting_reply"
  /\ status' = [status EXCEPT ![s] = "idle"]
  /\ serving' = [serving EXCEPT ![p] = @ \ {s}]
  /\ UNCHANGED <<owner, open, queue, inbox>>
  /\ NoResult

Forget == NoResult /\ UNCHANGED <<owner, open, queue, status, inbox, serving>>

Next ==
  \/ Forget
  \/ \E po \in PortId, p \in Process : CreatePort(po, p) \/ Take(p, po)
  \/ \E po \in PortId, b \in BOOLEAN : SetOpen(po, b)
  \/ \E p \in Process : Give(p) \/ StartReceiving(p) \/ FinishReceiving(p)
  \/ \E p, s \in Process : Reply(p, s)

Spec == Init /\ [][Next]_rvars

=============================================================================
