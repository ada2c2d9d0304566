--------------------------------- MODULE Heap ---------------------------------
(***************************************************************************)
(* The heap (malloc.c): a list of blocks, each behind its block_meta, from *)
(* SBRK_BEGIN on.  The list is in the order of addresses, because a block  *)
(* is only ever linked in at the end, so it is a sequence here.  malloc,   *)
(* free and realloc run with interrupts disabled: one step each.           *)
(*                                                                         *)
(* Memory has one cell per unit.  The users of the heap keep to the size   *)
(* they asked for, and free only what they have; they do not shrink one to *)
(* nothing, for which realloc would give the block back as it is.          *)
(***************************************************************************)
EXTENDS Integers, Sequences

CONSTANTS
  SBRK_BEGIN, SBRK_END,
  META_SIZE,       \* sizeof(struct block_meta)
  Sizes,           \* the sizes that users ask for
  Values,          \* what they store
  HEADER           \* what a cell of a block_meta holds

ASSUME HeapAssumption ==
  /\ SBRK_BEGIN \in Nat /\ SBRK_END \in Nat /\ SBRK_BEGIN < SBRK_END
  /\ META_SIZE \in Nat \ {0}
  /\ Sizes \subseteq Nat \ {0}
  /\ 0 \in Values /\ HEADER \notin Values

VARIABLES
  blocks,          \* the list from global_base on: addr, size, free
  sbrk_ptr,
  memory,          \* address -> value
  held,            \* the users' pointers -> the size they asked for
  heap_failed      \* the assertion in sbrk() has stopped the machine

heapVars == <<blocks, sbrk_ptr, memory, held, heap_failed>>

Heap == SBRK_BEGIN .. SBRK_END - 1

HeapInit ==
  /\ blocks = <<>> /\ sbrk_ptr = SBRK_BEGIN
  /\ memory = [a \in Heap |-> 0]
  /\ held = [p \in {} |-> 0]
  /\ heap_failed = FALSE

Pointer(block) == block.addr + META_SIZE
get_block_ptr(p) == CHOOSE i \in DOMAIN blocks : Pointer(blocks[i]) = p

Fits(i, size) == blocks[i].free /\ blocks[i].size >= size

(* A bug: a free block is taken without a look at its size. *)
find_free_block_of_any_size(size) ==
  {i \in DOMAIN blocks : blocks[i].free /\ \A j \in 1 .. i - 1 : ~blocks[j].free}

(* The index of the first free block that is large enough, if there is one. *)
find_free_block(size) ==
  {i \in DOMAIN blocks : Fits(i, size) /\ \A j \in 1 .. i - 1 : ~Fits(j, size)}

(* A bug: the new block's block_meta is not counted. *)
request_space_without_meta(size) ==
  [list |-> Append(blocks, [addr |-> sbrk_ptr, size |-> size, free |-> FALSE]),
   at |-> Len(blocks) + 1,
   top |-> sbrk_ptr + size]

(* The list, the place of the block in it, and sbrk_ptr, after a block is  *)
(* taken at the end of the heap or from the list.                          *)
request_space(size) ==
  [list |-> Append(blocks, [addr |-> sbrk_ptr, size |-> size, free |-> FALSE]),
   at |-> Len(blocks) + 1,
   top |-> sbrk_ptr + META_SIZE + size]
take_block(i) ==
  [list |-> [blocks EXCEPT ![i].free = FALSE], at |-> i, top |-> sbrk_ptr]

(* assert(sbrk_ptr + size < SBRK_END) *)
sbrk_asserts(size) == sbrk_ptr + META_SIZE + size < SBRK_END

Allocations(size) ==
  IF find_free_block(size) # {} THEN {take_block(i) : i \in find_free_block(size)}
  ELSE IF sbrk_asserts(size) THEN {request_space(size)} ELSE {}

(* The header of a block that is new. *)
Headers(a) ==
  LET b == a.list[a.at] IN
  [x \in Heap |-> IF a.top # sbrk_ptr /\ x \in b.addr .. b.addr + META_SIZE - 1
                  THEN HEADER ELSE memory[x]]

Holds(f, p, size) == [q \in DOMAIN f \cup {p} |-> IF q = p THEN size ELSE f[q]]
Drops(f, p) == [q \in DOMAIN f \ {p} |-> f[q]]

(* malloc, and calloc with its k_memset. *)
malloc(size, clear) ==
  /\ ~heap_failed
  /\ \E a \in Allocations(size) :
       LET p == Pointer(a.list[a.at]) IN
       /\ blocks' = a.list /\ sbrk_ptr' = a.top
       /\ memory' = [x \in Heap |-> IF clear /\ x \in p .. p + size - 1 THEN 0
                                    ELSE Headers(a)[x]]
       /\ held' = Holds(held, p, size)
  /\ UNCHANGED heap_failed

(* malloc(0), calloc and realloc(NULL) of no bytes and free(NULL): no      *)
(* block, and nothing changes.                                             *)
no_block == ~heap_failed /\ UNCHANGED heapVars

free(p) ==
  /\ ~heap_failed /\ p \in DOMAIN held
  /\ blocks' = [blocks EXCEPT ![get_block_ptr(p)].free = TRUE]
  /\ held' = Drops(held, p)
  /\ UNCHANGED <<sbrk_ptr, memory, heap_failed>>

(* realloc: without a pointer it is malloc; the block is large enough, or  *)
(* its contents are copied to another and it is freed.                     *)
realloc_null(size) == malloc(size, FALSE)

realloc_in_place(p, size) ==
  /\ ~heap_failed /\ p \in DOMAIN held
  /\ blocks[get_block_ptr(p)].size >= size
  /\ held' = [held EXCEPT ![p] = size]
  /\ UNCHANGED <<blocks, sbrk_ptr, memory, heap_failed>>

realloc_copy(p, size) ==
  LET old == get_block_ptr(p) IN
  /\ ~heap_failed /\ p \in DOMAIN held /\ blocks[old].size < size
  /\ \E a \in Allocations(size) :
       LET q == Pointer(a.list[a.at]) IN
       /\ blocks' = [a.list EXCEPT ![old].free = TRUE]
       /\ sbrk_ptr' = a.top
       /\ memory' = [x \in Heap |-> IF x \in q .. q + blocks[old].size - 1
                                    THEN memory[p + (x - q)] ELSE Headers(a)[x]]
       /\ held' = Holds(Drops(held, p), q, size)
  /\ UNCHANGED heap_failed

(* No block is free and the heap is at its end. *)
HeapPanic ==
  /\ ~heap_failed /\ \E size \in Sizes : Allocations(size) = {}
  /\ heap_failed' = TRUE
  /\ UNCHANGED <<blocks, sbrk_ptr, memory, held>>

(* A user stores a value in its block. *)
Write(p, k, v) ==
  /\ ~heap_failed /\ p \in DOMAIN held /\ k \in 0 .. held[p] - 1
  /\ memory' = [memory EXCEPT ![p + k] = v]
  /\ UNCHANGED <<blocks, sbrk_ptr, held, heap_failed>>

HeapHalted == heap_failed /\ UNCHANGED heapVars

HeapNext ==
  \/ \E size \in Sizes, clear \in BOOLEAN : malloc(size, clear)
  \/ \E size \in Sizes : realloc_null(size)
  \/ no_block
  \/ \E p \in DOMAIN held :
       \/ free(p)
       \/ \E size \in Sizes : realloc_in_place(p, size) \/ realloc_copy(p, size)
       \/ \E k \in 0 .. held[p] - 1, v \in Values : Write(p, k, v)
  \/ HeapPanic
  \/ HeapHalted

HeapSpec == HeapInit /\ [][HeapNext]_heapVars

-----------------------------------------------------------------------------
(* Properties *)

(* The blocks and their headers cover the heap from SBRK_BEGIN to sbrk_ptr *)
(* without gaps or overlaps, and no header is overwritten.                 *)
End(block) == block.addr + META_SIZE + block.size

BlocksTileTheHeap ==
  /\ \A i \in DOMAIN blocks :
       /\ blocks[i].addr = IF i = 1 THEN SBRK_BEGIN ELSE End(blocks[i - 1])
       /\ \A x \in blocks[i].addr .. blocks[i].addr + META_SIZE - 1 :
            memory[x] = HEADER
  /\ sbrk_ptr = IF blocks = <<>> THEN SBRK_BEGIN ELSE End(blocks[Len(blocks)])
  /\ sbrk_ptr \in SBRK_BEGIN .. SBRK_END - 1

(* What is not free is held by a user, and what a user holds is not free   *)
(* and as large as it has asked for: no block is lost or given twice.      *)
HeldBlocksAreTaken ==
  /\ \A p \in DOMAIN held : \E i \in DOMAIN blocks :
       Pointer(blocks[i]) = p /\ ~blocks[i].free /\ held[p] <= blocks[i].size
  /\ \A i \in DOMAIN blocks :
       blocks[i].free <=> Pointer(blocks[i]) \notin DOMAIN held

(* The list of blocks and what the users have agree at every moment,       *)
(* through all reuse, and the heap is in one piece.                        *)
HeapIsConsistent == BlocksTileTheHeap /\ HeldBlocksAreTaken

(* What the users see of their blocks is what an allocator promises: the   *)
(* contents of a block change only when its user stores to it, across      *)
(* reuse of freed blocks and the copies of realloc.                        *)
Owned == [p \in DOMAIN held |-> [k \in 0 .. held[p] - 1 |-> memory[p + k]]]

HeapAbs == INSTANCE Allocator WITH Address <- Heap, owned <- Owned

ImplementsAllocator == HeapAbs!AllocatorSpec

=============================================================================
