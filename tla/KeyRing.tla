------------------------------ MODULE KeyRing ------------------------------
(***************************************************************************)
(* The buffer of a client of the keyboard service (keyb.c): a ring of      *)
(* cells, with head where the next key goes and tail at the oldest one.    *)
(* Keyb has the messages around it, with a sequence in its place.          *)
(***************************************************************************)
EXTENDS Integers, Sequences

CONSTANTS RingKeys, MAX_KEYB_BUFFER, NoKeyYet

ASSUME RingAssumption == MAX_KEYB_BUFFER \in Nat /\ MAX_KEYB_BUFFER > 1

VARIABLES
  ring, head, tail,        \* buffer, head and tail of the record
  ring_key                 \* the key that dequeue_key has returned

ringVars == <<ring, head, tail, ring_key>>

Indices == 0 .. MAX_KEYB_BUFFER - 1

(* get_client_record() sets head and tail; malloc leaves anything in the   *)
(* cells, which is not a key that was typed.                               *)
RingInit == /\ ring = [i \in Indices |-> NoKeyYet]
            /\ head = 0 /\ tail = 0 /\ ring_key = NoKeyYet

After(i) == (i + 1) % MAX_KEYB_BUFFER

(* A bug: the tail stays when the head has caught up with it. *)
ring_enqueue_over(k) ==
  /\ ring' = [ring EXCEPT ![head] = k] /\ head' = After(head)
  /\ UNCHANGED <<tail, ring_key>>

ring_enqueue(k) ==
  /\ ring' = [ring EXCEPT ![head] = k]
  /\ head' = After(head)
  /\ tail' = IF head' = tail THEN After(tail) ELSE tail
  /\ UNCHANGED ring_key

ring_has_key == head # tail

ring_dequeue ==
  /\ ring_has_key
  /\ ring_key' = ring[tail] /\ tail' = After(tail)
  /\ UNCHANGED <<ring, head>>

RingNext == (\E k \in RingKeys : ring_enqueue(k)) \/ ring_dequeue

RingSpec == RingInit /\ [][RingNext]_ringVars

-----------------------------------------------------------------------------
(* Properties *)

Count == IF head < tail THEN head + MAX_KEYB_BUFFER - tail ELSE head - tail
Place(i) == IF tail + i <= MAX_KEYB_BUFFER THEN tail + i - 1
            ELSE tail + i - 1 - MAX_KEYB_BUFFER

(* Whatever the order of typing and reading, and across the end of the     *)
(* array, the cells from tail to head are the last keys that were typed    *)
(* and not read, at most MAX_KEYB_BUFFER - 1, in their order.              *)
Ring == INSTANCE KeyQueue WITH
  Key <- RingKeys, Limit <- MAX_KEYB_BUFFER - 1,
  queue <- [i \in 1 .. Count |-> ring[Place(i)]], key <- ring_key

ImplementsKeyQueue == Ring!QueueSpec

=============================================================================
