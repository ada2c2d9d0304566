------------------------------ MODULE Allocator ------------------------------
(***************************************************************************)
(* What the users of malloc.c rely on: a block is theirs from malloc() to  *)
(* free(), nobody else changes what they write there, and realloc() keeps  *)
(* it.  Where a block lies is known, how free memory is kept is not.       *)
(***************************************************************************)
EXTENDS Integers

CONSTANTS Address, Values, Sizes

VARIABLE owned    \* pointer -> contents of the block, a function of offsets

Cells(p, size) == p .. p + size - 1

(* No cell of the range belongs to a block of the set of pointers. *)
Unused(p, size, pointers) ==
  \A q \in pointers, s \in Sizes :
    DOMAIN owned[q] = 0 .. s - 1 => Cells(p, size) \cap Cells(q, s) = {}

Without(p) == [q \in DOMAIN owned \ {p} |-> owned[q]]
With(f, p, c) == [q \in DOMAIN f \cup {p} |-> IF q = p THEN c ELSE f[q]]

AllocatorInit == owned = [p \in {} |-> 0]

(* malloc and calloc: a block that overlaps no other, with some contents. *)
Acquire == \E p \in Address \ DOMAIN owned, size \in Sizes :
  /\ Cells(p, size) \subseteq Address
  /\ Unused(p, size, DOMAIN owned)
  /\ \E c \in [0 .. size - 1 -> Values] : owned' = With(owned, p, c)

Release == \E p \in DOMAIN owned : owned' = Without(p)

Store == \E p \in DOMAIN owned, v \in Values :
  \E k \in DOMAIN owned[p] : owned' = [owned EXCEPT ![p][k] = v]

(* realloc: the contents stay or move, as far as the new size holds them. *)
Move == \E p \in DOMAIN owned, q \in Address, size \in Sizes :
  /\ q = p \/ q \notin DOMAIN owned
  /\ Cells(q, size) \subseteq Address
  /\ Unused(q, size, DOMAIN owned \ {p})
  /\ \E c \in [0 .. size - 1 -> Values] :
       /\ \A k \in DOMAIN owned[p] \cap (0 .. size - 1) : c[k] = owned[p][k]
       /\ owned' = With(Without(p), q, c)

AllocatorNext == Acquire \/ Release \/ Store \/ Move

AllocatorSpec == AllocatorInit /\ [][AllocatorNext]_owned

=============================================================================
