------------------------------ MODULE KeyQueue ------------------------------
(***************************************************************************)
(* What a client of the keyboard service relies on: the keys that it has   *)
(* not read yet, in the order in which they were typed.  When there are    *)
(* too many the oldest is dropped.  Keyb keeps them in this form.          *)
(***************************************************************************)
EXTENDS Naturals, Sequences

CONSTANTS Key, Limit

VARIABLES queue, key       \* the key that was taken last

QueueInit == queue = <<>>

Typed(k) ==
  /\ queue' = IF Len(queue) = Limit THEN Append(Tail(queue), k) ELSE Append(queue, k)
  /\ key' = key

Taken == /\ queue # <<>>
         /\ key' = Head(queue) /\ queue' = Tail(queue)

QueueNext == (\E k \in Key : Typed(k)) \/ Taken

QueueSpec == QueueInit /\ [][QueueNext]_<<queue, key>>

=============================================================================
