----------------------------- MODULE HeapProofs -----------------------------
(***************************************************************************)
(* The heap of malloc.c is consistent, and is the allocator that its users *)
(* rely on, for a heap and a block_meta of any size and for requests of    *)
(* any sizes.                                                              *)
(***************************************************************************)
EXTENDS Heap, SequenceTheorems, TLAPS

Block == [addr : Nat, size : Nat \ {0}, free : BOOLEAN]
Cell == Values \cup {HEADER}

HeapTypeOK ==
  /\ blocks \in Seq(Block)
  /\ sbrk_ptr \in Nat
  /\ memory \in [Heap -> Cell]
  /\ DOMAIN held \subseteq Nat /\ held \in [DOMAIN held -> Sizes]

(* The parts of the invariant, for any list of blocks, sbrk_ptr, memory    *)
(* and pointers held.  The first two are those of HeapIsConsistent.        *)
Headed(block, mem) ==
  \A x \in block.addr .. block.addr + META_SIZE - 1 : mem[x] = HEADER

Tiles(list, top, mem) ==
  /\ \A i \in DOMAIN list :
       /\ list[i].addr = IF i = 1 THEN SBRK_BEGIN ELSE End(list[i - 1])
       /\ Headed(list[i], mem)
  /\ top = IF list = <<>> THEN SBRK_BEGIN ELSE End(list[Len(list)])
  /\ top \in SBRK_BEGIN .. SBRK_END - 1

Taken(list, h) ==
  /\ \A p \in DOMAIN h : \E i \in DOMAIN list :
       Pointer(list[i]) = p /\ ~list[i].free /\ h[p] <= list[i].size
  /\ \A i \in DOMAIN list : list[i].free <=> Pointer(list[i]) \notin DOMAIN h

(* That neighbours are adjacent says nothing yet of blocks that are not    *)
(* neighbours: every block ends before each later one begins.              *)
Apart(list, top) ==
  /\ \A i \in DOMAIN list : SBRK_BEGIN <= list[i].addr /\ End(list[i]) <= top
  /\ \A i, j \in DOMAIN list : i < j => End(list[i]) <= list[j].addr

(* What lies behind a header, or in the rest of the heap, is data. *)
Data(block) == Pointer(block) .. End(block) - 1
HoldsData(list, top, mem) ==
  /\ \A i \in DOMAIN list : \A x \in Data(list[i]) : mem[x] \in Values
  /\ \A x \in Heap : x >= top => mem[x] \in Values

HeapInv ==
  /\ HeapTypeOK
  /\ Tiles(blocks, sbrk_ptr, memory)
  /\ Taken(blocks, held)
  /\ Apart(blocks, sbrk_ptr)
  /\ HoldsData(blocks, sbrk_ptr, memory)

-----------------------------------------------------------------------------
(* A list of blocks *)

LEMMA BlockFields ==
  ASSUME NEW b \in Block
  PROVE /\ b.addr \in Nat /\ b.size \in Nat \ {0} /\ b.free \in BOOLEAN
        /\ Pointer(b) = b.addr + META_SIZE /\ Pointer(b) \in Nat
        /\ End(b) = b.addr + META_SIZE + b.size /\ End(b) \in Nat
        /\ Pointer(b) < End(b) /\ b.addr < Pointer(b)
BY HeapAssumption DEF Block, Pointer, End

(* Blocks that are apart do not meet, and are told by their pointers. *)
LEMMA BlocksDoNotMeet ==
  ASSUME NEW list \in Seq(Block), NEW top, Apart(list, top),
         NEW i \in DOMAIN list, NEW j \in DOMAIN list, i # j
  PROVE \/ End(list[i]) <= list[j].addr
        \/ End(list[j]) <= list[i].addr
<1>1. i \in Nat /\ j \in Nat
  OBVIOUS
<1>2. i < j \/ j < i
  BY <1>1
<1> QED BY <1>2 DEF Apart

LEMMA PointersDiffer ==
  ASSUME NEW list \in Seq(Block), NEW top, Apart(list, top),
         NEW i \in DOMAIN list, NEW j \in DOMAIN list,
         Pointer(list[i]) = Pointer(list[j])
  PROVE i = j
<1>1. list[i] \in Block /\ list[j] \in Block
  OBVIOUS
<1>2. /\ list[i].addr < Pointer(list[i]) /\ Pointer(list[i]) < End(list[i])
      /\ list[j].addr < Pointer(list[j]) /\ Pointer(list[j]) < End(list[j])
      /\ \A b \in {list[i], list[j]} : {b.addr, Pointer(b), End(b)} \subseteq Int
  BY <1>1, BlockFields
<1>3. ASSUME i # j PROVE FALSE
  BY <1>2, <1>3, BlocksDoNotMeet
<1> QED BY <1>3

(* Every block lies in the heap. *)
LEMMA BlocksAreInTheHeap ==
  ASSUME NEW list \in Seq(Block), NEW top, NEW mem,
         Apart(list, top), Tiles(list, top, mem), NEW i \in DOMAIN list
  PROVE /\ list[i] \in Block
        /\ SBRK_BEGIN <= list[i].addr /\ End(list[i]) <= top /\ top < SBRK_END
        /\ \A x \in list[i].addr .. End(list[i]) - 1 : x \in Heap /\ x < top
<1>1. list[i] \in Block
  OBVIOUS
<1>2. top \in Int /\ top < SBRK_END /\ SBRK_END \in Nat /\ SBRK_BEGIN \in Nat
  BY HeapAssumption DEF Tiles
<1> QED BY <1>1, <1>2, BlockFields DEF Apart, Heap

(* Stores to the data of one block change no header and leave data data.   *)
LEMMA StoreKeepsHeaders ==
  ASSUME NEW list \in Seq(Block), NEW top, NEW mem \in [Heap -> Cell],
         NEW mem2 \in [Heap -> Cell], NEW i \in DOMAIN list,
         Apart(list, top), Tiles(list, top, mem), HoldsData(list, top, mem),
         \A x \in Heap : mem2[x] # mem[x] => x \in Data(list[i]) /\ mem2[x] \in Values
  PROVE Tiles(list, top, mem2) /\ HoldsData(list, top, mem2)
<1> DEFINE b == list[i]
<1>1. /\ b \in Block /\ b.addr \in Int /\ Pointer(b) \in Int /\ End(b) \in Int
      /\ Pointer(b) = b.addr + META_SIZE
  BY BlockFields
<1> HIDE DEF b
<1>2. ASSUME NEW j \in DOMAIN list PROVE Headed(list[j], mem2)
  <2> DEFINE c == list[j]
  <2>1. /\ c \in Block /\ c.addr \in Int /\ Pointer(c) \in Int /\ End(c) \in Int
        /\ Pointer(c) = c.addr + META_SIZE /\ Pointer(c) < End(c)
        /\ \A x \in c.addr .. End(c) - 1 : x \in Heap
    BY BlockFields, BlocksAreInTheHeap
  <2>2. i = j \/ End(b) <= c.addr \/ End(c) <= b.addr
    BY BlocksDoNotMeet DEF b
  <2>3. i = j => b = c
    BY DEF b
  <2> HIDE DEF c
  <2>4. ASSUME NEW x \in c.addr .. c.addr + META_SIZE - 1
        PROVE x \in Heap /\ x \notin Pointer(b) .. End(b) - 1
    <3>1. x \in Int /\ c.addr <= x /\ x < Pointer(c) /\ x \in Heap
      BY <2>1, <2>4, HeapAssumption
    <3> QED BY <1>1, <2>1, <2>2, <2>3, <3>1, HeapAssumption
  <2>5. Headed(c, mem)
    BY DEF Tiles, c
  <2>6. Headed(c, mem2)
    BY <2>4, <2>5 DEF Headed, Data, b
  <2> QED BY <2>6 DEF c
<1>3. ASSUME NEW j \in DOMAIN list, NEW x \in Data(list[j]) PROVE mem2[x] \in Values
  <2>1. /\ list[j].addr \in Int /\ Pointer(list[j]) \in Int /\ End(list[j]) \in Int
        /\ list[j].addr < Pointer(list[j])
        /\ \A y \in list[j].addr .. End(list[j]) - 1 : y \in Heap
    BY BlockFields, BlocksAreInTheHeap
  <2>2. x \in Heap
    BY <2>1, <1>3 DEF Data
  <2> QED BY <2>2, <1>3 DEF HoldsData
<1>4. Tiles(list, top, mem2)
  BY <1>2 DEF Tiles
<1>5. HoldsData(list, top, mem2)
  BY <1>3 DEF HoldsData
<1> QED BY <1>4, <1>5

(* What is said of a list of blocks but for Taken depends on where the     *)
(* blocks lie only.                                                        *)
LEMMA FreeDoesNotMatter ==
  ASSUME NEW list \in Seq(Block), NEW list2 \in Seq(Block), Len(list2) = Len(list),
         \A i \in DOMAIN list : /\ list2[i].addr = list[i].addr
                                /\ list2[i].size = list[i].size,
         NEW top, NEW mem
  PROVE /\ DOMAIN list2 = DOMAIN list
        /\ \A i \in DOMAIN list : /\ Pointer(list2[i]) = Pointer(list[i])
                                  /\ End(list2[i]) = End(list[i])
                                  /\ Data(list2[i]) = Data(list[i])
        /\ Tiles(list, top, mem) => Tiles(list2, top, mem)
        /\ Apart(list, top) => Apart(list2, top)
        /\ HoldsData(list, top, mem) => HoldsData(list2, top, mem)
<1>1. DOMAIN list2 = DOMAIN list /\ DOMAIN list = 1 .. Len(list) /\ Len(list) \in Nat
  OBVIOUS
<1>2. ASSUME NEW i \in DOMAIN list
      PROVE /\ Pointer(list2[i]) = Pointer(list[i]) /\ End(list2[i]) = End(list[i])
            /\ Data(list2[i]) = Data(list[i])
  BY DEF Pointer, End, Data
<1>3. list2 = <<>> <=> list = <<>>
  OBVIOUS
<1>4. \A mem_ : \A i \in DOMAIN list : Headed(list2[i], mem_) <=> Headed(list[i], mem_)
  BY DEF Headed
<1>5. ASSUME Tiles(list, top, mem) PROVE Tiles(list2, top, mem)
  <2>1. ASSUME NEW i \in DOMAIN list2, i # 1
        PROVE list2[i].addr = End(list2[i - 1])
    <3>1. i - 1 \in DOMAIN list
      BY <1>1, <2>1
    <3> QED BY <1>1, <1>2, <1>5, <2>1, <3>1 DEF Tiles
  <2>2. list # <<>> => End(list2[Len(list2)]) = End(list[Len(list)])
    BY <1>1, <1>2
  <2> QED BY <1>1, <1>3, <1>4, <1>5, <2>1, <2>2 DEF Tiles
<1>6. ASSUME Apart(list, top) PROVE Apart(list2, top)
  BY <1>1, <1>2, <1>6 DEF Apart
<1>7. ASSUME HoldsData(list, top, mem) PROVE HoldsData(list2, top, mem)
  BY <1>1, <1>2, <1>7 DEF HoldsData
<1> QED BY <1>1, <1>2, <1>5, <1>6, <1>7

LEMMA SetFree ==
  ASSUME NEW list \in Seq(Block), NEW i \in DOMAIN list, NEW v \in BOOLEAN
  PROVE LET list2 == [list EXCEPT ![i].free = v] IN
        /\ list2 \in Seq(Block) /\ Len(list2) = Len(list)
        /\ \A j \in DOMAIN list : /\ list2[j].addr = list[j].addr
                                  /\ list2[j].size = list[j].size
                                  /\ j # i => list2[j] = list[j]
        /\ list2[i].free = v
<1> DEFINE b == [list[i] EXCEPT !.free = v]
<1>1. list[i] \in Block /\ i \in 1 .. Len(list) /\ DOMAIN list = 1 .. Len(list)
  OBVIOUS
<1>2. b \in Block /\ b.free = v /\ b.addr = list[i].addr /\ b.size = list[i].size
  BY <1>1 DEF Block
<1>3. [list EXCEPT ![i].free = v] = [list EXCEPT ![i] = b]
  OBVIOUS
<1> HIDE DEF b
<1>4. /\ [list EXCEPT ![i] = b] \in Seq(Block)
      /\ Len([list EXCEPT ![i] = b]) = Len(list)
      /\ \A j \in 1 .. Len(list) : [list EXCEPT ![i] = b][j] = IF j = i THEN b ELSE list[j]
  BY <1>1, <1>2, ExceptSeq
<1> QED BY <1>1, <1>2, <1>3, <1>4

-----------------------------------------------------------------------------
(* Taking a block *)

(* What malloc and realloc are given: a list with a block that nobody has, *)
(* large enough, the others being as they were, and their contents too.    *)
IsAllocation(a, size) ==
  /\ a.list \in Seq(Block) /\ a.at \in DOMAIN a.list /\ a.top \in Nat
  /\ ~a.list[a.at].free /\ size <= a.list[a.at].size
  /\ DOMAIN blocks \subseteq DOMAIN a.list
  /\ \A i \in DOMAIN a.list : i # a.at => i \in DOMAIN blocks /\ a.list[i] = blocks[i]
  /\ \A i \in DOMAIN blocks : /\ a.list[i].addr = blocks[i].addr
                              /\ a.list[i].size = blocks[i].size
                              /\ i = a.at => blocks[i].free
  /\ Pointer(a.list[a.at]) \notin DOMAIN held
  /\ Headers(a) \in [Heap -> Cell]
  /\ \A i \in DOMAIN blocks, x \in Heap :
       x \in Data(blocks[i]) => Headers(a)[x] = memory[x]
  /\ Tiles(a.list, a.top, Headers(a))
  /\ Apart(a.list, a.top)
  /\ HoldsData(a.list, a.top, Headers(a))

LEMMA TakenFromTheList ==
  ASSUME HeapInv, NEW size \in Sizes, NEW i \in find_free_block(size)
  PROVE IsAllocation(take_block(i), size)
<1> DEFINE list == [blocks EXCEPT ![i].free = FALSE]
           a == [list |-> list, at |-> i, top |-> sbrk_ptr]
<1>1. a = take_block(i) /\ a.list = list /\ a.at = i /\ a.top = sbrk_ptr
  BY DEF take_block
<1>2. /\ i \in DOMAIN blocks /\ blocks[i].free /\ blocks[i].size >= size
      /\ blocks \in Seq(Block) /\ sbrk_ptr \in Nat /\ memory \in [Heap -> Cell]
  BY DEF find_free_block, Fits, HeapInv, HeapTypeOK
<1>3. /\ list \in Seq(Block) /\ Len(list) = Len(blocks)
      /\ \A j \in DOMAIN blocks : /\ list[j].addr = blocks[j].addr
                                  /\ list[j].size = blocks[j].size
                                  /\ j # i => list[j] = blocks[j]
      /\ list[i].free = FALSE
  BY <1>2, SetFree
<1> HIDE DEF list
<1>4. Headers(a) = memory
  BY <1>1, <1>2 DEF Headers
<1>5. /\ DOMAIN list = DOMAIN blocks
      /\ Pointer(list[i]) = Pointer(blocks[i])
      /\ Tiles(list, sbrk_ptr, memory) /\ Apart(list, sbrk_ptr)
      /\ HoldsData(list, sbrk_ptr, memory)
  BY <1>2, <1>3, FreeDoesNotMatter DEF HeapInv
<1>6. Pointer(blocks[i]) \notin DOMAIN held
  BY <1>2 DEF HeapInv, Taken
<1> HIDE DEF a
<1>7. IsAllocation(a, size)
  BY <1>1, <1>2, <1>3, <1>4, <1>5, <1>6 DEF IsAllocation
<1> QED BY <1>1, <1>7

LEMMA RequestedAtTheEnd ==
  ASSUME HeapInv, NEW size \in Sizes, sbrk_asserts(size)
  PROVE IsAllocation(request_space(size), size)
<1> DEFINE new == [addr |-> sbrk_ptr, size |-> size, free |-> FALSE]
           n == Len(blocks)
           list == Append(blocks, new)
           top == sbrk_ptr + META_SIZE + size
           a == [list |-> list, at |-> n + 1, top |-> top]
           mem == Headers(a)
<1>1. a = request_space(size) /\ a.list = list /\ a.at = n + 1 /\ a.top = top
  BY DEF request_space
<1>2. /\ blocks \in Seq(Block) /\ sbrk_ptr \in Nat /\ memory \in [Heap -> Cell]
      /\ n \in Nat /\ DOMAIN blocks = 1 .. n /\ size \in Nat \ {0}
      /\ META_SIZE \in Nat \ {0} /\ SBRK_BEGIN \in Nat /\ SBRK_END \in Nat
      /\ sbrk_ptr + META_SIZE + size < SBRK_END /\ SBRK_BEGIN <= sbrk_ptr
      /\ 0 \in Values
  BY HeapAssumption DEF HeapInv, HeapTypeOK, sbrk_asserts, Tiles
<1>3. new \in Block /\ Pointer(new) = sbrk_ptr + META_SIZE /\ End(new) = top
      /\ top \in Nat /\ sbrk_ptr < top /\ new.addr = sbrk_ptr /\ new.free = FALSE
      /\ new.size = size
  BY <1>2 DEF Block, Pointer, End
<1> HIDE DEF new
<1>4. /\ list \in Seq(Block) /\ Len(list) = n + 1 /\ DOMAIN list = 1 .. n + 1
      /\ \A j \in 1 .. n : list[j] = blocks[j]
      /\ list[n + 1] = new /\ list # <<>>
  BY <1>2, <1>3, AppendProperties
<1> HIDE DEF list, n
<1>5. mem = [x \in Heap |-> IF x \in sbrk_ptr .. sbrk_ptr + META_SIZE - 1
                            THEN HEADER ELSE memory[x]]
  BY <1>1, <1>2, <1>3, <1>4 DEF Headers
<1> HIDE DEF a, mem
<1>6. mem \in [Heap -> Cell]
  BY <1>2, <1>5 DEF Cell
<1>7. \A i \in DOMAIN blocks : /\ blocks[i] \in Block
                               /\ blocks[i].addr \in Nat /\ Pointer(blocks[i]) \in Nat
                               /\ End(blocks[i]) \in Nat
                               /\ Pointer(blocks[i]) = blocks[i].addr + META_SIZE
                               /\ Pointer(blocks[i]) < End(blocks[i])
                               /\ End(blocks[i]) <= sbrk_ptr
                               /\ SBRK_BEGIN <= blocks[i].addr
  <2>1. \A i \in DOMAIN blocks : blocks[i] \in Block
    BY <1>2
  <2> QED BY <2>1, BlockFields DEF HeapInv, Apart
<1>8. \A x \in Heap : x < sbrk_ptr => mem[x] = memory[x]
  BY <1>2, <1>5 DEF Heap
<1>9. Apart(list, top)
  <2>1. \A j \in DOMAIN list : SBRK_BEGIN <= list[j].addr /\ End(list[j]) <= top
    BY <1>2, <1>3, <1>4, <1>7
  <2>2. ASSUME NEW k \in DOMAIN list, NEW j \in DOMAIN list, k < j
        PROVE End(list[k]) <= list[j].addr
    <3>1. k \in 1 .. n
      BY <1>2, <1>4, <2>2
    <3>2. CASE j \in 1 .. n
      BY <1>2, <1>4, <2>2, <3>1, <3>2 DEF HeapInv, Apart
    <3>3. CASE j = n + 1
      BY <1>2, <1>3, <1>4, <1>7, <3>1, <3>3
    <3> QED BY <1>2, <1>4, <3>2, <3>3
  <2> QED BY <2>1, <2>2 DEF Apart
<1>10. Tiles(list, top, mem)
  <2>1. ASSUME NEW j \in 1 .. n
        PROVE /\ list[j].addr = IF j = 1 THEN SBRK_BEGIN ELSE End(list[j - 1])
              /\ Headed(list[j], mem)
    <3>1. /\ blocks[j].addr = IF j = 1 THEN SBRK_BEGIN ELSE End(blocks[j - 1])
          /\ Headed(blocks[j], memory)
      BY <1>2 DEF HeapInv, Tiles
    <3>2. j # 1 => j - 1 \in 1 .. n
      BY <1>2
    <3>3. ASSUME NEW x \in blocks[j].addr .. blocks[j].addr + META_SIZE - 1
          PROVE mem[x] = HEADER
      <4>1. x \in Heap /\ x < sbrk_ptr
        BY <1>2, <1>7 DEF Heap
      <4>2. memory[x] = HEADER
        BY <3>1 DEF Headed
      <4> QED BY <1>8, <4>1, <4>2
    <3> QED BY <1>4, <3>1, <3>2, <3>3 DEF Headed
  <2>2. new.addr = IF n + 1 = 1 THEN SBRK_BEGIN ELSE End(list[n + 1 - 1])
    <3>1. sbrk_ptr = IF blocks = <<>> THEN SBRK_BEGIN ELSE End(blocks[Len(blocks)])
      BY DEF HeapInv, Tiles
    <3>2. blocks = <<>> <=> n = 0
      BY <1>2 DEF n
    <3>3. n # 0 => n \in 1 .. n /\ n + 1 - 1 = n /\ n + 1 # 1
      BY <1>2
    <3> QED BY <1>3, <1>4, <3>1, <3>2, <3>3 DEF n
  <2>3. Headed(new, mem)
    <3>1. ASSUME NEW x \in sbrk_ptr .. sbrk_ptr + META_SIZE - 1 PROVE mem[x] = HEADER
      BY <1>2, <1>5, <3>1 DEF Heap
    <3> QED BY <1>3, <3>1 DEF Headed
  <2>4. top \in SBRK_BEGIN .. SBRK_END - 1
    BY <1>2
  <2>5. top = End(list[Len(list)])
    BY <1>3, <1>4
  <2>6. \A j \in 1 .. n + 1 : j \in 1 .. n \/ j = n + 1
    BY <1>2
  <2>7. ASSUME NEW j \in DOMAIN list
        PROVE /\ list[j].addr = IF j = 1 THEN SBRK_BEGIN ELSE End(list[j - 1])
              /\ Headed(list[j], mem)
    <3>1. CASE j \in 1 .. n
      BY <2>1, <3>1
    <3>2. CASE j = n + 1
      BY <1>2, <1>4, <2>2, <2>3, <3>2
    <3> QED BY <1>4, <2>6, <3>1, <3>2
  <2> HIDE DEF top
  <2> QED BY <1>4, <2>4, <2>5, <2>7 DEF Tiles
<1>11. ASSUME NEW i \in DOMAIN blocks, NEW x \in Heap, x \in Data(blocks[i])
       PROVE mem[x] = memory[x] /\ memory[x] \in Values
  <2>1. x < sbrk_ptr
    BY <1>2, <1>7, <1>11 DEF Data
  <2> QED BY <1>8, <1>11, <2>1 DEF HeapInv, HoldsData
<1>12. HoldsData(list, top, mem)
  <2>1. ASSUME NEW j \in 1 .. n, NEW x \in Data(list[j]) PROVE mem[x] \in Values
    <3>1. x \in Data(blocks[j]) /\ j \in DOMAIN blocks
      BY <1>2, <1>4, <2>1
    <3>2. /\ x \in Int /\ SBRK_BEGIN <= x /\ x < sbrk_ptr
      <4>1. x \in Pointer(blocks[j]) .. End(blocks[j]) - 1
        BY <3>1 DEF Data
      <4>2. /\ Pointer(blocks[j]) \in Nat /\ End(blocks[j]) \in Nat
            /\ SBRK_BEGIN <= Pointer(blocks[j]) /\ End(blocks[j]) <= sbrk_ptr
        BY <1>2, <1>7, <3>1
      <4> QED BY <1>2, <4>1, <4>2
    <3>3. x \in Heap
      BY <1>2, <3>2 DEF Heap
    <3> QED BY <1>11, <3>1, <3>3
  <2>2. ASSUME NEW x \in Heap, x >= sbrk_ptr + META_SIZE PROVE mem[x] \in Values
    <3>1. x \notin sbrk_ptr .. sbrk_ptr + META_SIZE - 1 /\ x >= sbrk_ptr
      BY <1>2, <2>2 DEF Heap
    <3>2. memory[x] \in Values
      BY <3>1 DEF HeapInv, HoldsData
    <3> QED BY <1>5, <3>1, <3>2
  <2>3. \A x \in Data(new) : x \in Heap /\ x >= sbrk_ptr + META_SIZE
    BY <1>2, <1>3 DEF Data, Heap
  <2>4. \A x \in Heap : x >= top => x >= sbrk_ptr + META_SIZE
    BY <1>2 DEF Heap
  <2>5. \A j \in 1 .. n + 1 : j \in 1 .. n \/ j = n + 1
    BY <1>2
  <2> QED BY <1>4, <2>1, <2>2, <2>3, <2>4, <2>5 DEF HoldsData
<1>13. Pointer(new) \notin DOMAIN held
  <2>1. ASSUME NEW p \in DOMAIN held PROVE p # Pointer(new)
    <3>1. PICK i \in DOMAIN blocks : Pointer(blocks[i]) = p
      BY DEF HeapInv, Taken
    <3> QED BY <1>2, <1>3, <1>7, <3>1
  <2> QED BY <2>1
<1>14. \A i \in DOMAIN blocks : i # n + 1
  BY <1>2
<1>15. \A i \in DOMAIN list : i # n + 1 => i \in DOMAIN blocks /\ list[i] = blocks[i]
  BY <1>2, <1>4
<1>16. DOMAIN blocks \subseteq DOMAIN list /\ n + 1 \in DOMAIN list
  BY <1>2, <1>4
<1> HIDE DEF top
<1>17. IsAllocation(a, size)
  <2>1. Headers(a) = mem
    BY DEF mem
  <2> HIDE DEF a, mem
  <2>2. size <= new.size
    BY <1>2, <1>3
  <2> QED BY <2>1, <2>2, <1>1, <1>2, <1>3, <1>4, <1>6, <1>9, <1>10, <1>11, <1>12,
             <1>13, <1>14, <1>15, <1>16 DEF IsAllocation
<1> QED BY <1>1, <1>17

LEMMA Allocated ==
  ASSUME HeapInv, NEW size \in Sizes, NEW a \in Allocations(size)
  PROVE IsAllocation(a, size)
<1>1. CASE find_free_block(size) # {}
  <2>1. PICK i \in find_free_block(size) : a = take_block(i)
    BY <1>1 DEF Allocations
  <2> QED BY <2>1, TakenFromTheList
<1>2. CASE find_free_block(size) = {}
  <2>1. sbrk_asserts(size) /\ a = request_space(size)
    BY <1>2 DEF Allocations
  <2> QED BY <2>1, RequestedAtTheEnd
<1> QED BY <1>1, <1>2

-----------------------------------------------------------------------------
(* What the users hold *)

(* Each pointer held is that of one block, which is large enough. *)
LEMMA BlockOfPointer ==
  ASSUME HeapInv, NEW p \in DOMAIN held
  PROVE LET i == get_block_ptr(p) IN
        /\ i \in DOMAIN blocks /\ Pointer(blocks[i]) = p /\ ~blocks[i].free
        /\ held[p] <= blocks[i].size /\ held[p] \in Nat \ {0} /\ p \in Nat
        /\ blocks[i].size \in Nat /\ End(blocks[i]) = p + blocks[i].size
        /\ p .. p + blocks[i].size - 1 = Data(blocks[i])
        /\ \A x \in Data(blocks[i]) : x \in Heap /\ memory[x] \in Values
<1> DEFINE i == get_block_ptr(p)
<1>1. PICK j \in DOMAIN blocks :
        Pointer(blocks[j]) = p /\ ~blocks[j].free /\ held[p] <= blocks[j].size
  BY DEF HeapInv, Taken
<1>2. i = j
  <2>1. i \in DOMAIN blocks /\ Pointer(blocks[i]) = p
    BY <1>1 DEF get_block_ptr
  <2> HIDE DEF i
  <2> QED BY <1>1, <2>1, PointersDiffer DEF HeapInv, HeapTypeOK
<1> HIDE DEF i
<1>3. blocks[j] \in Block /\ held[p] \in Nat \ {0} /\ p \in Nat
  <2>1. blocks[j] \in Block
    BY DEF HeapInv, HeapTypeOK
  <2>2. held[p] \in Sizes /\ p \in Nat
    BY DEF HeapInv, HeapTypeOK
  <2> QED BY <2>1, <2>2, HeapAssumption
<1>4. /\ blocks[j].addr \in Nat /\ blocks[j].size \in Nat
      /\ End(blocks[j]) = p + blocks[j].size
      /\ blocks[j].addr < p
  BY <1>1, <1>3, BlockFields
<1>5. p .. p + blocks[j].size - 1 = Data(blocks[j])
  BY <1>1, <1>3, <1>4 DEF Data
<1>6. ASSUME NEW x \in Data(blocks[j]) PROVE x \in Heap /\ memory[x] \in Values
  <2>1. x \in blocks[j].addr .. End(blocks[j]) - 1
    BY <1>1, <1>3, <1>4, <1>5, <1>6
  <2> QED BY <2>1, <1>6, BlocksAreInTheHeap DEF HeapInv, HeapTypeOK, HoldsData
<1> QED BY <1>1, <1>2, <1>3, <1>4, <1>5, <1>6 DEF i

(* The data of a block, of which another is held, is not the other's. *)
LEMMA DataDoNotMeet ==
  ASSUME NEW list \in Seq(Block), NEW top, Apart(list, top),
         NEW i \in DOMAIN list, NEW j \in DOMAIN list, i # j
  PROVE Data(list[i]) \cap Data(list[j]) = {}
<1>1. list[i] \in Block /\ list[j] \in Block
  OBVIOUS
<1>2. /\ list[i].addr < Pointer(list[i]) /\ list[j].addr < Pointer(list[j])
      /\ list[i].addr \in Int /\ Pointer(list[i]) \in Int /\ End(list[i]) \in Int
      /\ list[j].addr \in Int /\ Pointer(list[j]) \in Int /\ End(list[j]) \in Int
  BY <1>1, BlockFields
<1> QED BY <1>2, BlocksDoNotMeet DEF Data

(* A pointer more is held. *)
LEMMA HoldsMore ==
  ASSUME NEW h, h \in [DOMAIN h -> Sizes], DOMAIN h \subseteq Nat,
         NEW p \in Nat, NEW size \in Sizes
  PROVE /\ DOMAIN Holds(h, p, size) = DOMAIN h \cup {p}
        /\ Holds(h, p, size) \in [DOMAIN h \cup {p} -> Sizes]
        /\ Holds(h, p, size)[p] = size
        /\ \A q \in DOMAIN h : q # p => Holds(h, p, size)[q] = h[q]
BY DEF Holds

LEMMA DropsOne ==
  ASSUME NEW h, h \in [DOMAIN h -> Sizes], DOMAIN h \subseteq Nat, NEW p
  PROVE /\ DOMAIN Drops(h, p) = DOMAIN h \ {p}
        /\ Drops(h, p) \in [DOMAIN h \ {p} -> Sizes]
        /\ \A q \in DOMAIN h \ {p} : Drops(h, p)[q] = h[q]
BY DEF Drops

-----------------------------------------------------------------------------
(* The invariant *)

LEMMA HeapInitInv == HeapInit => HeapInv
<1> SUFFICES ASSUME HeapInit PROVE HeapInv
  OBVIOUS
<1>1. /\ blocks = <<>> /\ DOMAIN blocks = {} /\ blocks \in Seq(Block)
      /\ DOMAIN held = {} /\ held \in [{} -> Sizes] /\ sbrk_ptr = SBRK_BEGIN
      /\ memory = [a \in Heap |-> 0]
  BY DEF HeapInit
<1>2. HeapTypeOK
  BY <1>1, HeapAssumption DEF HeapTypeOK, Cell
<1>3. Tiles(blocks, sbrk_ptr, memory)
  BY <1>1, HeapAssumption DEF Tiles
<1>4. Taken(blocks, held) /\ Apart(blocks, sbrk_ptr)
  BY <1>1 DEF Taken, Apart
<1>5. HoldsData(blocks, sbrk_ptr, memory)
  BY <1>1, HeapAssumption DEF HoldsData
<1> QED BY <1>2, <1>3, <1>4, <1>5 DEF HeapInv

(* A block that is allocated and given to a user, who or whose realloc has *)
(* stored something in it.                                                 *)
LEMMA GivenOut ==
  ASSUME HeapInv, NEW size \in Sizes, NEW a, IsAllocation(a, size),
         NEW mem \in [Heap -> Cell],
         \A x \in Heap : mem[x] # Headers(a)[x] => /\ x \in Data(a.list[a.at])
                                                   /\ mem[x] \in Values
  PROVE /\ Tiles(a.list, a.top, mem) /\ HoldsData(a.list, a.top, mem)
        /\ Taken(a.list, Holds(held, Pointer(a.list[a.at]), size))
<1> DEFINE list == a.list
           n == a.at
           q == Pointer(list[n])
           h == Holds(held, q, size)
<1>1. /\ list \in Seq(Block) /\ n \in DOMAIN list /\ Headers(a) \in [Heap -> Cell]
      /\ Apart(list, a.top) /\ Tiles(list, a.top, Headers(a))
      /\ HoldsData(list, a.top, Headers(a))
      /\ ~list[n].free /\ size <= list[n].size /\ q \notin DOMAIN held
      /\ DOMAIN blocks \subseteq DOMAIN list
      /\ \A i \in DOMAIN list : i # n => i \in DOMAIN blocks /\ list[i] = blocks[i]
      /\ \A i \in DOMAIN blocks : i = n => blocks[i].free
  BY DEF IsAllocation
<1>2. q \in Nat /\ list[n] \in Block
  BY <1>1, BlockFields
<1>3. held \in [DOMAIN held -> Sizes] /\ DOMAIN held \subseteq Nat
  BY DEF HeapInv, HeapTypeOK
<1> HIDE DEF list, n, q
<1>4. /\ DOMAIN h = DOMAIN held \cup {q} /\ h[q] = size
      /\ \A p \in DOMAIN held : p # q => h[p] = held[p]
  BY <1>2, <1>3, HoldsMore
<1> HIDE DEF h
<1>5. Tiles(list, a.top, mem) /\ HoldsData(list, a.top, mem)
  BY <1>1, StoreKeepsHeaders DEF list, n
<1>6. ASSUME NEW p \in DOMAIN h
      PROVE \E i \in DOMAIN list :
              Pointer(list[i]) = p /\ ~list[i].free /\ h[p] <= list[i].size
  <2>1. CASE p = q
    BY <1>1, <1>4, <2>1 DEF q
  <2>2. CASE p # q
    <3>1. p \in DOMAIN held /\ h[p] = held[p]
      BY <1>4, <1>6, <2>2
    <3>2. PICK i \in DOMAIN blocks :
            Pointer(blocks[i]) = p /\ ~blocks[i].free /\ held[p] <= blocks[i].size
      BY <3>1 DEF HeapInv, Taken
    <3>3. i # n /\ i \in DOMAIN list
      BY <1>1, <3>2
    <3>4. list[i] = blocks[i]
      BY <1>1, <3>3
    <3> QED BY <3>1, <3>2, <3>3, <3>4
  <2> QED BY <2>1, <2>2
<1>7. ASSUME NEW i \in DOMAIN list
      PROVE list[i].free <=> Pointer(list[i]) \notin DOMAIN h
  <2>1. CASE i = n
    BY <1>1, <1>4, <2>1 DEF q
  <2>2. CASE i # n
    <3>1. i \in DOMAIN blocks /\ list[i] = blocks[i]
      BY <1>1, <2>2
    <3>2. Pointer(list[i]) # q
      BY <1>1, <2>2, PointersDiffer DEF q
    <3> QED BY <1>4, <3>1, <3>2 DEF HeapInv, Taken
  <2> QED BY <2>1, <2>2
<1> QED BY <1>5, <1>6, <1>7 DEF Taken, list, n, q, h

LEMMA MallocInv ==
  ASSUME HeapInv, NEW size \in Sizes, NEW clear \in BOOLEAN, malloc(size, clear)
  PROVE HeapInv'
<1>1. PICK a \in Allocations(size) :
        LET p == Pointer(a.list[a.at]) IN
        /\ blocks' = a.list /\ sbrk_ptr' = a.top
        /\ memory' = [x \in Heap |-> IF clear /\ x \in p .. p + size - 1 THEN 0
                                     ELSE Headers(a)[x]]
        /\ held' = Holds(held, p, size)
  BY DEF malloc
<1>2. IsAllocation(a, size)
  BY Allocated
<1> DEFINE p == Pointer(a.list[a.at])
           b == a.list[a.at]
<1>3. b \in Block /\ a.list \in Seq(Block) /\ a.top \in Nat /\ size <= b.size
      /\ Headers(a) \in [Heap -> Cell] /\ Apart(a.list, a.top)
  BY <1>2 DEF IsAllocation
<1>4. /\ p \in Nat /\ End(b) = p + b.size /\ size \in Nat /\ b.size \in Nat
      /\ 0 \in Values
  BY <1>3, BlockFields, HeapAssumption
<1>5. p .. p + size - 1 \subseteq Data(b)
  BY <1>3, <1>4 DEF Data
<1>6. memory' \in [Heap -> Cell]
  BY <1>1, <1>3, <1>4 DEF Cell
<1>7. \A x \in Heap : memory'[x] # Headers(a)[x] => x \in Data(b) /\ memory'[x] \in Values
  BY <1>1, <1>4, <1>5
<1>8. /\ Tiles(a.list, a.top, memory') /\ HoldsData(a.list, a.top, memory')
      /\ Taken(a.list, Holds(held, p, size))
  <2> HIDE DEF p, b
  <2> QED BY <1>2, <1>6, <1>7, GivenOut DEF p, b
<1>9. DOMAIN held' \subseteq Nat /\ held' \in [DOMAIN held' -> Sizes]
  <2>1. held \in [DOMAIN held -> Sizes] /\ DOMAIN held \subseteq Nat
    BY DEF HeapInv, HeapTypeOK
  <2>2. held' = Holds(held, p, size) /\ p \in Nat
    BY <1>1, <1>4
  <2> HIDE DEF p
  <2>3. DOMAIN held' = DOMAIN held \cup {p} /\ held' \in [DOMAIN held \cup {p} -> Sizes]
    BY <2>1, <2>2, HoldsMore
  <2> QED BY <2>1, <2>2, <2>3
<1> QED BY <1>1, <1>3, <1>6, <1>8, <1>9 DEF HeapInv, HeapTypeOK

LEMMA FreeInv ==
  ASSUME HeapInv, NEW p \in DOMAIN held, free(p)
  PROVE HeapInv'
<1> DEFINE i == get_block_ptr(p)
<1>1. /\ blocks' = [blocks EXCEPT ![i].free = TRUE] /\ held' = Drops(held, p)
      /\ sbrk_ptr' = sbrk_ptr /\ memory' = memory
  BY DEF free
<1>2. i \in DOMAIN blocks /\ Pointer(blocks[i]) = p
  BY BlockOfPointer
<1> HIDE DEF i
<1>3. /\ blocks \in Seq(Block) /\ sbrk_ptr \in Nat /\ memory \in [Heap -> Cell]
      /\ held \in [DOMAIN held -> Sizes] /\ DOMAIN held \subseteq Nat
  BY DEF HeapInv, HeapTypeOK
<1>4. /\ blocks' \in Seq(Block) /\ Len(blocks') = Len(blocks)
      /\ \A j \in DOMAIN blocks : /\ blocks'[j].addr = blocks[j].addr
                                  /\ blocks'[j].size = blocks[j].size
                                  /\ j # i => blocks'[j] = blocks[j]
      /\ blocks'[i].free = TRUE
  BY <1>1, <1>2, <1>3, SetFree
<1>5. /\ DOMAIN blocks' = DOMAIN blocks
      /\ \A j \in DOMAIN blocks : Pointer(blocks'[j]) = Pointer(blocks[j])
      /\ Tiles(blocks', sbrk_ptr, memory) /\ Apart(blocks', sbrk_ptr)
      /\ HoldsData(blocks', sbrk_ptr, memory)
  BY <1>3, <1>4, FreeDoesNotMatter DEF HeapInv
<1>6. /\ DOMAIN held' = DOMAIN held \ {p} /\ held' \in [DOMAIN held \ {p} -> Sizes]
      /\ \A q \in DOMAIN held \ {p} : held'[q] = held[q]
  BY <1>1, <1>3, DropsOne
<1>7. Taken(blocks', held')
  <2>1. ASSUME NEW q \in DOMAIN held'
        PROVE \E j \in DOMAIN blocks' :
                Pointer(blocks'[j]) = q /\ ~blocks'[j].free /\ held'[q] <= blocks'[j].size
    <3>1. PICK j \in DOMAIN blocks :
            Pointer(blocks[j]) = q /\ ~blocks[j].free /\ held[q] <= blocks[j].size
      BY <1>6, <2>1 DEF HeapInv, Taken
    <3>2. j # i
      BY <1>2, <1>6, <2>1, <3>1
    <3> QED BY <1>4, <1>5, <1>6, <2>1, <3>1, <3>2
  <2>2. ASSUME NEW j \in DOMAIN blocks'
        PROVE blocks'[j].free <=> Pointer(blocks'[j]) \notin DOMAIN held'
    <3>1. CASE j = i
      BY <1>2, <1>4, <1>5, <1>6, <3>1
    <3>2. CASE j # i
      <4>1. Pointer(blocks[j]) # p
        BY <1>2, <1>3, <1>5, <3>2, PointersDiffer DEF HeapInv
      <4> QED BY <1>4, <1>5, <1>6, <3>2, <4>1 DEF HeapInv, Taken
    <3> QED BY <3>1, <3>2
  <2> QED BY <2>1, <2>2 DEF Taken
<1> QED BY <1>1, <1>3, <1>4, <1>5, <1>6, <1>7 DEF HeapInv, HeapTypeOK

LEMMA ReallocInPlaceInv ==
  ASSUME HeapInv, NEW p \in DOMAIN held, NEW size \in Sizes, realloc_in_place(p, size)
  PROVE HeapInv'
<1>1. /\ blocks[get_block_ptr(p)].size >= size /\ held' = [held EXCEPT ![p] = size]
      /\ blocks' = blocks /\ sbrk_ptr' = sbrk_ptr /\ memory' = memory
  BY DEF realloc_in_place
<1>2. /\ held' \in [DOMAIN held -> Sizes] /\ DOMAIN held' = DOMAIN held
      /\ \A q \in DOMAIN held : held'[q] = IF q = p THEN size ELSE held[q]
  BY <1>1 DEF HeapInv, HeapTypeOK
<1>3. Taken(blocks, held')
  <2>1. ASSUME NEW q \in DOMAIN held
        PROVE \E j \in DOMAIN blocks :
                Pointer(blocks[j]) = q /\ ~blocks[j].free /\ held'[q] <= blocks[j].size
    <3>1. CASE q = p
      <4>1. get_block_ptr(p) \in DOMAIN blocks /\ Pointer(blocks[get_block_ptr(p)]) = p
            /\ ~blocks[get_block_ptr(p)].free
        BY BlockOfPointer
      <4>2. size <= blocks[get_block_ptr(p)].size
        BY <1>1, <4>1, BlockOfPointer, HeapAssumption
      <4> QED BY <1>2, <3>1, <4>1, <4>2
    <3>2. CASE q # p
      BY <1>2, <3>2 DEF HeapInv, Taken
    <3> QED BY <3>1, <3>2
  <2> QED BY <1>2, <2>1 DEF HeapInv, Taken
<1> QED BY <1>1, <1>2, <1>3 DEF HeapInv, HeapTypeOK

LEMMA WriteInv ==
  ASSUME HeapInv, NEW p \in DOMAIN held, NEW k \in 0 .. held[p] - 1, NEW v \in Values,
         Write(p, k, v)
  PROVE HeapInv'
<1> DEFINE i == get_block_ptr(p)
<1>1. memory' = [memory EXCEPT ![p + k] = v] /\ UNCHANGED <<blocks, sbrk_ptr, held>>
  BY DEF Write
<1>2. i \in DOMAIN blocks /\ p + k \in Data(blocks[i])
  BY BlockOfPointer
<1> HIDE DEF i
<1>3. memory \in [Heap -> Cell] /\ memory' \in [Heap -> Cell]
      /\ \A x \in Heap : memory'[x] # memory[x] => x \in Data(blocks[i]) /\ memory'[x] \in Values
  BY <1>1, <1>2 DEF HeapInv, HeapTypeOK, Cell
<1>4. Tiles(blocks, sbrk_ptr, memory') /\ HoldsData(blocks, sbrk_ptr, memory')
  BY <1>2, <1>3, StoreKeepsHeaders DEF HeapInv, HeapTypeOK
<1> QED BY <1>1, <1>3, <1>4 DEF HeapInv, HeapTypeOK

(* realloc takes a block, copies to it and frees the old one: what was     *)
(* given out twice for a moment is given out once at the end.              *)
LEMMA MovedOut ==
  ASSUME HeapInv, NEW p \in DOMAIN held, NEW size \in Sizes, NEW a,
         IsAllocation(a, size)
  PROVE LET old == get_block_ptr(p)
            list == [a.list EXCEPT ![old].free = TRUE]
            h == Holds(Drops(held, p), Pointer(a.list[a.at]), size)
        IN /\ old \in DOMAIN a.list /\ old # a.at /\ a.list[old] = blocks[old]
           /\ list \in Seq(Block) /\ Len(list) = Len(a.list)
           /\ \A j \in DOMAIN a.list : /\ list[j].addr = a.list[j].addr
                                       /\ list[j].size = a.list[j].size
           /\ Taken(list, h)
           /\ DOMAIN h \subseteq Nat /\ h \in [DOMAIN h -> Sizes]
<1> DEFINE old == get_block_ptr(p)
           n == a.at
           taken == a.list
           list == [taken EXCEPT ![old].free = TRUE]
           q == Pointer(taken[n])
           h == Holds(Drops(held, p), q, size)
           g == Holds(held, q, size)
<1>1. /\ taken \in Seq(Block) /\ n \in DOMAIN taken
      /\ q \notin DOMAIN held
      /\ DOMAIN blocks \subseteq DOMAIN taken
      /\ \A i \in DOMAIN taken : i # n => i \in DOMAIN blocks /\ taken[i] = blocks[i]
      /\ \A i \in DOMAIN blocks : i = n => blocks[i].free
      /\ Apart(taken, a.top)
      /\ Headers(a) \in [Heap -> Cell]
  BY DEF IsAllocation
<1>2. old \in DOMAIN blocks /\ Pointer(blocks[old]) = p /\ ~blocks[old].free
  BY BlockOfPointer
<1>3. q \in Nat
  BY <1>1, BlockFields
<1>4. Taken(taken, g)
  BY <1>1, GivenOut
<1>5. held \in [DOMAIN held -> Sizes] /\ DOMAIN held \subseteq Nat
  BY DEF HeapInv, HeapTypeOK
<1> HIDE DEF old, n, taken, q
<1>6. old \in DOMAIN taken /\ old # n /\ taken[old] = blocks[old]
  BY <1>1, <1>2
<1>7. /\ list \in Seq(Block) /\ Len(list) = Len(taken)
      /\ \A j \in DOMAIN taken : /\ list[j].addr = taken[j].addr
                                 /\ list[j].size = taken[j].size
                                 /\ j # old => list[j] = taken[j]
      /\ list[old].free = TRUE
  BY <1>1, <1>6, SetFree
<1> HIDE DEF list
<1>8. /\ DOMAIN list = DOMAIN taken
      /\ \A j \in DOMAIN taken : Pointer(list[j]) = Pointer(taken[j])
  BY <1>1, <1>7 DEF Pointer
<1>9. /\ DOMAIN g = DOMAIN held \cup {q} /\ g[q] = size
      /\ \A r \in DOMAIN held : r # q => g[r] = held[r]
  BY <1>3, <1>5, HoldsMore
<1>10. /\ DOMAIN h = (DOMAIN held \ {p}) \cup {q} /\ h[q] = size
       /\ h \in [(DOMAIN held \ {p}) \cup {q} -> Sizes]
       /\ \A r \in DOMAIN held \ {p} : r # q => h[r] = held[r]
  BY <1>3, <1>5 DEF Holds, Drops
<1> HIDE DEF g, h
<1>11. ASSUME NEW r \in DOMAIN h
       PROVE \E i \in DOMAIN list :
               Pointer(list[i]) = r /\ ~list[i].free /\ h[r] <= list[i].size
  <2>1. r \in DOMAIN g /\ g[r] = h[r] /\ r # p
    BY <1>1, <1>9, <1>10, <1>11
  <2>2. PICK i \in DOMAIN taken :
          Pointer(taken[i]) = r /\ ~taken[i].free /\ g[r] <= taken[i].size
    BY <1>4, <2>1 DEF Taken
  <2>3. i # old
    BY <1>2, <1>6, <2>1, <2>2
  <2> QED BY <1>7, <1>8, <2>1, <2>2, <2>3
<1>12. ASSUME NEW i \in DOMAIN list
       PROVE list[i].free <=> Pointer(list[i]) \notin DOMAIN h
  <2>1. CASE i = old
    <3>1. Pointer(list[i]) = p /\ p # q
      BY <1>1, <1>2, <1>6, <1>8, <2>1
    <3> QED BY <1>7, <1>10, <2>1, <3>1
  <2>2. CASE i # old
    <3>1. Pointer(list[i]) = Pointer(taken[i]) /\ list[i] = taken[i]
      BY <1>7, <1>8, <2>2
    <3>2. Pointer(taken[i]) # p
      BY <1>1, <1>2, <1>6, <1>8, <2>2, PointersDiffer
    <3>3. taken[i].free <=> Pointer(taken[i]) \notin DOMAIN g
      BY <1>4, <1>8 DEF Taken
    <3> QED BY <1>9, <1>10, <3>1, <3>2, <3>3
  <2> QED BY <2>1, <2>2
<1>13. Taken(list, h)
  BY <1>11, <1>12 DEF Taken
<1>14. DOMAIN h \subseteq Nat /\ h \in [DOMAIN h -> Sizes]
  BY <1>3, <1>5, <1>10
<1> QED BY <1>6, <1>7, <1>13, <1>14 DEF old, n, taken, list, q, h

LEMMA ReallocCopyInv ==
  ASSUME HeapInv, NEW p \in DOMAIN held, NEW size \in Sizes, realloc_copy(p, size)
  PROVE HeapInv'
<1> DEFINE old == get_block_ptr(p)
<1>1. PICK a \in Allocations(size) :
        LET q == Pointer(a.list[a.at]) IN
        /\ blocks' = [a.list EXCEPT ![old].free = TRUE]
        /\ sbrk_ptr' = a.top
        /\ memory' = [x \in Heap |-> IF x \in q .. q + blocks[old].size - 1
                                     THEN memory[p + (x - q)] ELSE Headers(a)[x]]
        /\ held' = Holds(Drops(held, p), q, size)
  BY DEF realloc_copy
<1>2. IsAllocation(a, size) /\ blocks[old].size < size
  BY Allocated DEF realloc_copy
<1> DEFINE b == a.list[a.at]
           q == Pointer(b)
<1>3. b \in Block /\ a.list \in Seq(Block) /\ a.top \in Nat /\ size <= b.size
      /\ Headers(a) \in [Heap -> Cell] /\ Apart(a.list, a.top)
  BY <1>2 DEF IsAllocation
<1>4. /\ q \in Nat /\ End(b) = q + b.size /\ size \in Nat /\ b.size \in Nat
  BY <1>3, BlockFields, HeapAssumption
<1>5. /\ p \in Nat /\ blocks[old].size \in Nat
      /\ \A x \in p .. p + blocks[old].size - 1 : memory[x] \in Values
  BY BlockOfPointer
<1> HIDE DEF old
<1>6. ASSUME NEW x \in q .. q + blocks[old].size - 1
      PROVE x \in Data(b) /\ memory[p + (x - q)] \in Values
  <2> HIDE DEF q, b
  <2>1. x - q \in 0 .. blocks[old].size - 1
    BY <1>4, <1>5, <1>6
  <2>2. p + (x - q) \in p .. p + blocks[old].size - 1
    BY <1>5, <2>1
  <2>3. x \in q .. End(b) - 1
    BY <1>2, <1>3, <1>4, <1>5, <1>6
  <2> QED BY <1>5, <2>2, <2>3 DEF Data, q
<1>7. /\ memory' \in [Heap -> Cell]
      /\ \A x \in Heap : memory'[x] # Headers(a)[x] => x \in Data(b) /\ memory'[x] \in Values
  <2>1. memory' = [x \in Heap |-> IF x \in q .. q + blocks[old].size - 1
                                  THEN memory[p + (x - q)] ELSE Headers(a)[x]]
    BY <1>1
  <2> HIDE DEF q, b
  <2> QED BY <1>3, <1>6, <2>1 DEF Cell
<1>8. Tiles(a.list, a.top, memory') /\ HoldsData(a.list, a.top, memory')
  <2> HIDE DEF q
  <2> QED BY <1>2, <1>7, GivenOut
<1>9. /\ blocks' \in Seq(Block) /\ Len(blocks') = Len(a.list)
      /\ \A j \in DOMAIN a.list : /\ blocks'[j].addr = a.list[j].addr
                                  /\ blocks'[j].size = a.list[j].size
      /\ Taken(blocks', held')
      /\ DOMAIN held' \subseteq Nat /\ held' \in [DOMAIN held' -> Sizes]
  BY <1>1, <1>2, MovedOut DEF old
<1> HIDE DEF q, b
<1>10. /\ Tiles(blocks', a.top, memory') /\ Apart(blocks', a.top)
       /\ HoldsData(blocks', a.top, memory')
  BY <1>3, <1>8, <1>9, FreeDoesNotMatter
<1> QED BY <1>1, <1>3, <1>7, <1>9, <1>10 DEF HeapInv, HeapTypeOK

LEMMA HeapNextInv ==
  ASSUME HeapInv, [HeapNext]_heapVars
  PROVE HeapInv'
<1>1. ASSUME NEW size \in Sizes, NEW clear \in BOOLEAN, malloc(size, clear) PROVE HeapInv'
  BY <1>1, MallocInv
<1>2. ASSUME NEW p \in DOMAIN held, free(p) PROVE HeapInv'
  BY <1>2, FreeInv
<1>3. ASSUME NEW p \in DOMAIN held, NEW size \in Sizes,
             realloc_in_place(p, size) \/ realloc_copy(p, size)
      PROVE HeapInv'
  BY <1>3, ReallocInPlaceInv, ReallocCopyInv
<1>4. ASSUME NEW p \in DOMAIN held, NEW k \in 0 .. held[p] - 1, NEW v \in Values,
             Write(p, k, v)
      PROVE HeapInv'
  BY <1>4, WriteInv
<1>5. CASE HeapPanic \/ HeapHalted \/ no_block \/ UNCHANGED heapVars
  BY <1>5 DEF HeapPanic, HeapHalted, no_block, heapVars, HeapInv, HeapTypeOK
<1>6. ASSUME NEW size \in Sizes, realloc_null(size) PROVE HeapInv'
  BY <1>6, MallocInv DEF realloc_null
<1> QED BY <1>1, <1>2, <1>3, <1>4, <1>5, <1>6 DEF HeapNext

THEOREM HeapInvariant == HeapSpec => []HeapInv
<1>1. HeapInv /\ [HeapNext]_heapVars => HeapInv'
  BY HeapNextInv
<1> QED BY <1>1, HeapInitInv, PTL DEF HeapSpec

(* The list of blocks covers the used part of the heap without gaps or     *)
(* overlaps, its headers are intact, and what is not free is held by one   *)
(* user, through any sequence of calls of malloc, calloc, realloc and free *)
(* and whatever users store in their blocks.                               *)
THEOREM HeapStaysConsistent == HeapSpec => []HeapIsConsistent
<1>1. HeapInv => HeapIsConsistent
  BY DEF HeapInv, Tiles, Headed, Taken, HeapIsConsistent, BlocksTileTheHeap,
         HeldBlocksAreTaken
<1> QED BY <1>1, HeapInvariant, PTL

-----------------------------------------------------------------------------
(* The allocator that the users see *)

LEMMA RangesDiffer ==
  ASSUME NEW m \in Nat \ {0}, NEW n \in Nat \ {0}, 0 .. m - 1 = 0 .. n - 1
  PROVE m = n
<1>1. m - 1 \in 0 .. n - 1 /\ n - 1 \in 0 .. m - 1
  OBVIOUS
<1> QED BY <1>1

LEMMA OwnedIs ==
  ASSUME HeapInv, NEW p \in DOMAIN held
  PROVE /\ DOMAIN Owned = DOMAIN held /\ DOMAIN Owned[p] = 0 .. held[p] - 1
        /\ held[p] \in Sizes /\ held[p] \in Nat \ {0} /\ p \in Heap /\ p \in Nat
        /\ \A k \in 0 .. held[p] - 1 : /\ Owned[p][k] = memory[p + k]
                                       /\ p + k \in Data(blocks[get_block_ptr(p)])
                                       /\ memory[p + k] \in Values
<1> DEFINE b == blocks[get_block_ptr(p)]
<1>1. /\ held[p] <= b.size /\ held[p] \in Nat \ {0} /\ p \in Nat /\ b.size \in Nat
      /\ p .. p + b.size - 1 = Data(b) /\ \A x \in Data(b) : x \in Heap /\ memory[x] \in Values
  BY BlockOfPointer
<1>2. held[p] \in Sizes
  BY DEF HeapInv, HeapTypeOK
<1> HIDE DEF b
<1>3. \A k \in 0 .. held[p] - 1 : p + k \in Data(b)
  BY <1>1
<1>4. p \in Data(b)
  BY <1>1
<1>5. DOMAIN Owned = DOMAIN held /\ Owned[p] = [k \in 0 .. held[p] - 1 |-> memory[p + k]]
  BY DEF Owned
<1> QED BY <1>1, <1>2, <1>3, <1>4, <1>5 DEF b

(* The cells of a pointer lie in its block. *)
LEMMA CellsInBlock ==
  ASSUME NEW list \in Seq(Block), NEW i \in DOMAIN list, NEW p, NEW size \in Nat,
         Pointer(list[i]) = p, size <= list[i].size
  PROVE p .. p + size - 1 \subseteq Data(list[i])
<1>1. /\ p \in Nat /\ list[i].addr \in Nat /\ list[i].size \in Nat
      /\ p = list[i].addr + META_SIZE /\ End(list[i]) = p + list[i].size
  BY BlockFields, HeapAssumption
<1> HIDE DEF Pointer
<1> QED BY <1>1 DEF Data

(* What is free for a pointer, if its cells lie in a block that is not one *)
(* of the others'.                                                         *)
LEMMA UnusedByOthers ==
  ASSUME HeapInv, NEW others, others \subseteq DOMAIN held, NEW p, NEW size \in Sizes,
         \A r \in others :
           (p .. p + size - 1) \cap Data(blocks[get_block_ptr(r)]) = {}
  PROVE \A r \in others, s \in Sizes :
          DOMAIN Owned[r] = 0 .. s - 1 => (p .. p + size - 1) \cap (r .. r + s - 1) = {}
<1> SUFFICES ASSUME NEW r \in others, NEW s \in Sizes, DOMAIN Owned[r] = 0 .. s - 1,
                    NEW x \in p .. p + size - 1, x \in r .. r + s - 1
             PROVE FALSE
  OBVIOUS
<1>1. r \in DOMAIN held /\ s \in Nat \ {0}
  BY HeapAssumption
<1>2. /\ DOMAIN Owned[r] = 0 .. held[r] - 1 /\ held[r] \in Nat \ {0} /\ r \in Nat
      /\ \A k \in 0 .. held[r] - 1 : r + k \in Data(blocks[get_block_ptr(r)])
  BY <1>1, OwnedIs
<1>3. s = held[r]
  BY <1>1, <1>2, RangesDiffer
<1>4. x - r \in 0 .. held[r] - 1 /\ x = r + (x - r)
  BY <1>1, <1>2, <1>3
<1>5. x \in Data(blocks[get_block_ptr(r)])
  BY <1>2, <1>4
<1> QED BY <1>5

(* A block that malloc gives out: its cells are in the heap and belong to  *)
(* nobody, and what the others hold is not touched.                        *)
LEMMA NewBlock ==
  ASSUME HeapInv, NEW size \in Sizes, NEW a, IsAllocation(a, size)
  PROVE LET b == a.list[a.at]
            q == Pointer(b)
        IN /\ q \in Heap /\ q \notin DOMAIN held /\ q \in Nat
           /\ q .. q + size - 1 \subseteq Data(b)
           /\ \A x \in Data(b) : x \in Heap /\ Headers(a)[x] \in Values
           /\ \A r \in DOMAIN held :
                /\ Data(b) \cap Data(blocks[get_block_ptr(r)]) = {}
                /\ \A k \in 0 .. held[r] - 1 :
                     r + k \notin Data(b) /\ Headers(a)[r + k] = memory[r + k]
<1> DEFINE n == a.at
           b == a.list[n]
           q == Pointer(b)
<1>1. /\ a.list \in Seq(Block) /\ n \in DOMAIN a.list /\ size <= b.size
      /\ q \notin DOMAIN held /\ Apart(a.list, a.top)
      /\ Tiles(a.list, a.top, Headers(a)) /\ HoldsData(a.list, a.top, Headers(a))
      /\ DOMAIN blocks \subseteq DOMAIN a.list
      /\ \A i \in DOMAIN a.list : i # n => i \in DOMAIN blocks /\ a.list[i] = blocks[i]
      /\ \A i \in DOMAIN blocks : i = n => blocks[i].free
      /\ \A i \in DOMAIN blocks, x \in Heap :
           x \in Data(blocks[i]) => Headers(a)[x] = memory[x]
  BY DEF IsAllocation
<1>2. size \in Nat \ {0}
  BY HeapAssumption
<1>3. q .. q + size - 1 \subseteq Data(b)
  BY <1>1, <1>2, CellsInBlock
<1>4. /\ b \in Block /\ \A x \in b.addr .. End(b) - 1 : x \in Heap
  BY <1>1, BlocksAreInTheHeap
<1>5. b.addr \in Nat /\ q \in Nat /\ End(b) \in Nat /\ b.addr < q /\ q < End(b)
  BY <1>4, BlockFields
<1>6. \A x \in Data(b) : x \in Heap /\ Headers(a)[x] \in Values
  <2>1. \A x \in Data(b) : Headers(a)[x] \in Values
    BY <1>1 DEF HoldsData
  <2>2. ASSUME NEW x \in Data(b) PROVE x \in b.addr .. End(b) - 1
    <3>1. x \in q .. End(b) - 1
      BY <2>2 DEF Data
    <3> HIDE DEF q, b
    <3> QED BY <1>5, <3>1
  <2> QED BY <1>4, <2>1, <2>2
<1>7. q \in Heap
  <2> HIDE DEF q, b
  <2> QED BY <1>4, <1>5
<1>8. ASSUME NEW r \in DOMAIN held
      PROVE /\ Data(b) \cap Data(blocks[get_block_ptr(r)]) = {}
            /\ \A k \in 0 .. held[r] - 1 :
                 r + k \notin Data(b) /\ Headers(a)[r + k] = memory[r + k]
  <2> DEFINE i == get_block_ptr(r)
  <2>1. /\ i \in DOMAIN blocks /\ ~blocks[i].free
        /\ \A x \in Data(blocks[i]) : x \in Heap
    BY BlockOfPointer
  <2>2. \A k \in 0 .. held[r] - 1 : r + k \in Data(blocks[i])
    BY OwnedIs
  <2> HIDE DEF i, b
  <2>3. i \in DOMAIN a.list /\ i # n /\ a.list[i] = blocks[i]
    BY <1>1, <2>1
  <2>4. Data(b) \cap Data(blocks[i]) = {}
    BY <1>1, <2>3, DataDoNotMeet DEF b
  <2> QED BY <1>1, <2>1, <2>2, <2>4 DEF i
<1> QED BY <1>1, <1>3, <1>5, <1>6, <1>7, <1>8

(* Pointers whose contents did not change are mapped alike. *)
LEMMA OwnedAfter ==
  ASSUME HeapInv, NEW q, NEW p, held' \in [DOMAIN held' -> Sizes],
         DOMAIN held' = (DOMAIN held \ {p}) \cup {q},
         \A r \in DOMAIN held \ {p} : r # q =>
           /\ held'[r] = held[r]
           /\ \A k \in 0 .. held[r] - 1 : memory'[r + k] = memory[r + k],
         NEW c, c = [k \in 0 .. held'[q] - 1 |-> memory'[q + k]]
  PROVE Owned' = HeapAbs!With(HeapAbs!Without(p), q, c)
<1>1. DOMAIN Owned = DOMAIN held /\ Owned' = [r \in DOMAIN held' |-> [k \in 0 .. held'[r] - 1 |-> memory'[r + k]]]
  BY DEF Owned
<1>2. HeapAbs!With(HeapAbs!Without(p), q, c)
        = [r \in (DOMAIN held \ {p}) \cup {q} |-> IF r = q THEN c ELSE Owned[r]]
  BY <1>1 DEF HeapAbs!With, HeapAbs!Without
<1>3. ASSUME NEW r \in DOMAIN held' PROVE Owned'[r] = IF r = q THEN c ELSE Owned[r]
  <2>1. CASE r = q
    BY <1>1, <2>1
  <2>2. CASE r # q
    <3>1. /\ r \in DOMAIN held \ {p} /\ held'[r] = held[r]
          /\ \A k \in 0 .. held[r] - 1 : memory'[r + k] = memory[r + k]
      BY <2>2
    <3>2. [k \in 0 .. held'[r] - 1 |-> memory'[r + k]]
            = [k \in 0 .. held[r] - 1 |-> memory[r + k]]
      BY <3>1
    <3>3. Owned[r] = [k \in 0 .. held[r] - 1 |-> memory[r + k]]
      BY <3>1 DEF Owned
    <3> QED BY <1>1, <2>2, <3>2, <3>3
  <2> QED BY <2>1, <2>2
<1> QED BY <1>1, <1>2, <1>3

LEMMA MallocAcquires ==
  ASSUME HeapInv, NEW size \in Sizes, NEW clear \in BOOLEAN, malloc(size, clear)
  PROVE HeapAbs!Acquire
<1>1. PICK a \in Allocations(size) :
        LET p == Pointer(a.list[a.at]) IN
        /\ memory' = [x \in Heap |-> IF clear /\ x \in p .. p + size - 1 THEN 0
                                     ELSE Headers(a)[x]]
        /\ held' = Holds(held, p, size)
  BY DEF malloc
<1>2. IsAllocation(a, size)
  BY Allocated
<1> DEFINE b == a.list[a.at]
           q == Pointer(b)
           c == [k \in 0 .. size - 1 |-> memory'[q + k]]
<1>3. /\ q \in Heap /\ q \notin DOMAIN held /\ q \in Nat
      /\ q .. q + size - 1 \subseteq Data(b)
      /\ \A x \in Data(b) : x \in Heap /\ Headers(a)[x] \in Values
      /\ \A r \in DOMAIN held :
           /\ Data(b) \cap Data(blocks[get_block_ptr(r)]) = {}
           /\ \A k \in 0 .. held[r] - 1 :
                r + k \notin Data(b) /\ Headers(a)[r + k] = memory[r + k]
  BY <1>2, NewBlock
<1>4. /\ held \in [DOMAIN held -> Sizes] /\ DOMAIN held \subseteq Nat
      /\ DOMAIN Owned = DOMAIN held /\ size \in Nat \ {0}
  BY HeapAssumption DEF HeapInv, HeapTypeOK, Owned
<1>5. /\ memory' = [x \in Heap |-> IF clear /\ x \in q .. q + size - 1 THEN 0
                                   ELSE Headers(a)[x]]
      /\ held' = Holds(held, q, size)
  BY <1>1
<1> HIDE DEF q, b
<1>6. /\ DOMAIN held' = DOMAIN held \cup {q} /\ held'[q] = size
      /\ held' \in [DOMAIN held' -> Sizes]
      /\ \A r \in DOMAIN held : r # q => held'[r] = held[r]
  BY <1>3, <1>4, <1>5 DEF Holds
<1>7. q .. q + size - 1 \subseteq Heap
  BY <1>3
<1>8. HeapAbs!Unused(q, size, DOMAIN Owned)
  BY <1>3, <1>4, UnusedByOthers DEF HeapAbs!Unused, HeapAbs!Cells
<1>9. c \in [0 .. size - 1 -> Values]
  <2>1. ASSUME NEW k \in 0 .. size - 1 PROVE memory'[q + k] \in Values
    <3>1. q + k \in q .. q + size - 1
      BY <1>3, <1>4
    <3> QED BY <1>3, <1>5, <1>7, <3>1, HeapAssumption
  <2> QED BY <2>1
<1>10. ASSUME NEW r \in DOMAIN held, NEW k \in 0 .. held[r] - 1
       PROVE memory'[r + k] = memory[r + k]
  <2>1. r + k \in Heap
    <3>1. r + k \in Data(blocks[get_block_ptr(r)])
      BY OwnedIs
    <3> QED BY <3>1, BlockOfPointer
  <2>2. r + k \notin Data(b) /\ Headers(a)[r + k] = memory[r + k]
    BY <1>3
  <2> QED BY <1>3, <1>5, <2>1, <2>2
<1>11. Owned' = HeapAbs!With(HeapAbs!Without(q), q, c)
  BY <1>3, <1>6, <1>10, OwnedAfter
<1>12. HeapAbs!Without(q) = Owned
  BY <1>3, <1>4 DEF HeapAbs!Without, Owned
<1> QED BY <1>3, <1>4, <1>7, <1>8, <1>9, <1>11, <1>12 DEF HeapAbs!Acquire, HeapAbs!Cells

LEMMA FreeReleases ==
  ASSUME HeapInv, NEW p \in DOMAIN held, free(p)
  PROVE HeapAbs!Release
<1>1. held' = Drops(held, p) /\ memory' = memory
  BY DEF free
<1>2. Owned' = HeapAbs!Without(p)
  BY <1>1 DEF Owned, HeapAbs!Without, Drops
<1> QED BY <1>2 DEF HeapAbs!Release, Owned

LEMMA WriteStores ==
  ASSUME HeapInv, NEW p \in DOMAIN held, NEW k \in 0 .. held[p] - 1, NEW v \in Values,
         Write(p, k, v)
  PROVE HeapAbs!Store
<1>1. memory' = [memory EXCEPT ![p + k] = v] /\ held' = held
  BY DEF Write
<1>2. /\ memory \in [Heap -> Cell] /\ held \in [DOMAIN held -> Sizes]
      /\ blocks \in Seq(Block) /\ Apart(blocks, sbrk_ptr)
  BY DEF HeapInv, HeapTypeOK
<1>3. /\ p \in Nat /\ DOMAIN Owned = DOMAIN held /\ DOMAIN Owned[p] = 0 .. held[p] - 1
      /\ p + k \in Data(blocks[get_block_ptr(p)])
  BY OwnedIs
<1> DEFINE c == [j \in 0 .. held'[p] - 1 |-> memory'[p + j]]
<1>4. ASSUME NEW r \in DOMAIN held \ {p}, NEW j \in 0 .. held[r] - 1
      PROVE memory'[r + j] = memory[r + j]
  <2>1. r + j \in Data(blocks[get_block_ptr(r)])
    BY OwnedIs
  <2>2. /\ get_block_ptr(r) \in DOMAIN blocks /\ get_block_ptr(p) \in DOMAIN blocks
        /\ Pointer(blocks[get_block_ptr(r)]) = r /\ Pointer(blocks[get_block_ptr(p)]) = p
    BY BlockOfPointer
  <2>3. Data(blocks[get_block_ptr(r)]) \cap Data(blocks[get_block_ptr(p)]) = {}
    BY <1>2, <2>2, DataDoNotMeet
  <2>4. r + j # p + k
    BY <1>3, <2>1, <2>3
  <2> QED BY <1>1, <1>2, <2>4
<1>5. Owned' = HeapAbs!With(HeapAbs!Without(p), p, c)
  BY <1>1, <1>2, <1>4, OwnedAfter
<1>6. c = [Owned[p] EXCEPT ![k] = v]
  <2>1. \A j \in 0 .. held[p] - 1 : p + j \in Heap /\ Owned[p][j] = memory[p + j]
    BY OwnedIs, BlockOfPointer
  <2>2. \A j \in 0 .. held[p] - 1 : memory'[p + j] = IF j = k THEN v ELSE memory[p + j]
    BY <1>1, <1>2, <1>3, <2>1
  <2>3. Owned[p] = [j \in 0 .. held[p] - 1 |-> memory[p + j]]
    BY DEF Owned
  <2> QED BY <1>1, <2>2, <2>3
<1>7. HeapAbs!With(HeapAbs!Without(p), p, c) = [Owned EXCEPT ![p][k] = v]
  <2>1. Owned = [r \in DOMAIN held |-> Owned[r]]
    BY DEF Owned
  <2> HIDE DEF c
  <2> QED BY <1>3, <1>6, <2>1 DEF HeapAbs!With, HeapAbs!Without
<1> QED BY <1>3, <1>5, <1>7 DEF HeapAbs!Store

LEMMA ReallocInPlaceMoves ==
  ASSUME HeapInv, NEW p \in DOMAIN held, NEW size \in Sizes, realloc_in_place(p, size)
  PROVE HeapAbs!Move
<1> DEFINE i == get_block_ptr(p)
           c == [k \in 0 .. size - 1 |-> memory'[p + k]]
<1>1. size <= blocks[i].size /\ held' = [held EXCEPT ![p] = size] /\ memory' = memory
  BY BlockOfPointer, HeapAssumption DEF realloc_in_place
<1>2. /\ held \in [DOMAIN held -> Sizes] /\ blocks \in Seq(Block)
      /\ Apart(blocks, sbrk_ptr) /\ size \in Nat \ {0}
  BY HeapAssumption DEF HeapInv, HeapTypeOK
<1>3. /\ i \in DOMAIN blocks /\ Pointer(blocks[i]) = p
      /\ \A x \in Data(blocks[i]) : x \in Heap /\ memory[x] \in Values
  BY BlockOfPointer
<1>4. /\ p \in Nat /\ p \in Heap /\ DOMAIN Owned = DOMAIN held
      /\ DOMAIN Owned[p] = 0 .. held[p] - 1
      /\ \A k \in 0 .. held[p] - 1 : Owned[p][k] = memory[p + k]
  BY OwnedIs
<1> HIDE DEF i
<1>5. p .. p + size - 1 \subseteq Data(blocks[i])
  BY <1>1, <1>2, <1>3, CellsInBlock
<1>6. p .. p + size - 1 \subseteq Heap
  BY <1>3, <1>5
<1>7. ASSUME NEW r \in DOMAIN held \ {p}
      PROVE (p .. p + size - 1) \cap Data(blocks[get_block_ptr(r)]) = {}
  <2>1. get_block_ptr(r) \in DOMAIN blocks /\ Pointer(blocks[get_block_ptr(r)]) = r
    BY BlockOfPointer
  <2>2. Data(blocks[i]) \cap Data(blocks[get_block_ptr(r)]) = {}
    BY <1>2, <1>3, <2>1, DataDoNotMeet
  <2> QED BY <1>5, <2>2
<1>8. HeapAbs!Unused(p, size, DOMAIN Owned \ {p})
  <2> DEFINE others == DOMAIN held \ {p}
  <2>1. /\ others \subseteq DOMAIN held
        /\ \A r \in others : (p .. p + size - 1) \cap Data(blocks[get_block_ptr(r)]) = {}
    BY <1>7
  <2> HIDE DEF others
  <2>2. HeapAbs!Unused(p, size, others)
    BY <2>1, UnusedByOthers DEF HeapAbs!Unused, HeapAbs!Cells
  <2> QED BY <1>4, <2>2 DEF others
<1>9. c \in [0 .. size - 1 -> Values]
  <2>1. ASSUME NEW k \in 0 .. size - 1 PROVE memory'[p + k] \in Values
    <3>1. p + k \in p .. p + size - 1
      BY <1>2, <1>4
    <3> QED BY <1>1, <1>3, <1>5, <3>1
  <2> QED BY <2>1
<1>10. \A k \in DOMAIN Owned[p] \cap (0 .. size - 1) : c[k] = Owned[p][k]
  BY <1>1, <1>4
<1>11. Owned' = HeapAbs!With(HeapAbs!Without(p), p, c)
  <2>1. /\ held' \in [DOMAIN held' -> Sizes] /\ DOMAIN held' = (DOMAIN held \ {p}) \cup {p}
        /\ held'[p] = size /\ \A r \in DOMAIN held \ {p} : held'[r] = held[r]
    BY <1>1, <1>2
  <2> QED BY <1>1, <2>1, OwnedAfter
<1> QED BY <1>4, <1>6, <1>8, <1>9, <1>10, <1>11 DEF HeapAbs!Move, HeapAbs!Cells

LEMMA ReallocCopyMoves ==
  ASSUME HeapInv, NEW p \in DOMAIN held, NEW size \in Sizes, realloc_copy(p, size)
  PROVE HeapAbs!Move
<1> DEFINE old == get_block_ptr(p)
<1>1. PICK a \in Allocations(size) :
        LET q == Pointer(a.list[a.at]) IN
        /\ memory' = [x \in Heap |-> IF x \in q .. q + blocks[old].size - 1
                                     THEN memory[p + (x - q)] ELSE Headers(a)[x]]
        /\ held' = Holds(Drops(held, p), q, size)
  BY DEF realloc_copy
<1>2. IsAllocation(a, size) /\ blocks[old].size < size
  BY Allocated DEF realloc_copy
<1> DEFINE b == a.list[a.at]
           q == Pointer(b)
           c == [k \in 0 .. size - 1 |-> memory'[q + k]]
<1>3. /\ q \in Heap /\ q \notin DOMAIN held /\ q \in Nat
      /\ q .. q + size - 1 \subseteq Data(b)
      /\ \A x \in Data(b) : x \in Heap /\ Headers(a)[x] \in Values
      /\ \A r \in DOMAIN held :
           /\ Data(b) \cap Data(blocks[get_block_ptr(r)]) = {}
           /\ \A k \in 0 .. held[r] - 1 :
                r + k \notin Data(b) /\ Headers(a)[r + k] = memory[r + k]
  BY <1>2, NewBlock
<1>4. /\ held \in [DOMAIN held -> Sizes] /\ DOMAIN held \subseteq Nat /\ size \in Nat \ {0}
  BY HeapAssumption DEF HeapInv, HeapTypeOK
<1>5. /\ p \in Nat /\ DOMAIN Owned = DOMAIN held /\ DOMAIN Owned[p] = 0 .. held[p] - 1
      /\ \A k \in 0 .. held[p] - 1 : Owned[p][k] = memory[p + k]
  BY OwnedIs
<1>6. /\ blocks[old].size \in Nat /\ held[p] <= blocks[old].size
      /\ \A x \in p .. p + blocks[old].size - 1 : memory[x] \in Values
  BY BlockOfPointer
<1>7. /\ memory' = [x \in Heap |-> IF x \in q .. q + blocks[old].size - 1
                                   THEN memory[p + (x - q)] ELSE Headers(a)[x]]
      /\ held' = Holds(Drops(held, p), q, size)
  BY <1>1
<1> DEFINE s == blocks[old].size
<1> HIDE DEF q, b, s, old
<1>8. /\ s \in Nat /\ held[p] <= s /\ \A x \in p .. p + s - 1 : memory[x] \in Values
      /\ s < size
      /\ memory' = [x \in Heap |-> IF x \in q .. q + s - 1
                                   THEN memory[p + (x - q)] ELSE Headers(a)[x]]
  BY <1>2, <1>6, <1>7 DEF s
<1>9. q .. q + size - 1 \subseteq Heap
  BY <1>3
<1>10. ASSUME NEW k \in 0 .. size - 1
       PROVE /\ memory'[q + k] \in Values
             /\ k < s => memory'[q + k] = memory[p + k]
  <2>1. q + k \in q .. q + size - 1 /\ q + k \in Heap
    BY <1>3, <1>4, <1>9
  <2>2. CASE k < s
    <3>1. q + k \in q .. q + s - 1 /\ p + ((q + k) - q) = p + k /\ p + k \in p .. p + s - 1
      BY <1>3, <1>4, <1>5, <1>8, <2>2
    <3> QED BY <1>8, <2>1, <3>1
  <2>3. CASE ~(k < s)
    <3>1. q + k \notin q .. q + s - 1
      BY <1>3, <1>8, <2>3
    <3> QED BY <1>3, <1>8, <2>1, <2>3, <3>1
  <2> QED BY <2>2, <2>3
<1>11. c \in [0 .. size - 1 -> Values]
  BY <1>10
<1>12. \A k \in DOMAIN Owned[p] \cap (0 .. size - 1) : c[k] = Owned[p][k]
  <2>1. held[p] \in Nat
    BY <1>4, HeapAssumption
  <2>2. ASSUME NEW k \in DOMAIN Owned[p] \cap (0 .. size - 1)
        PROVE c[k] = Owned[p][k]
    <3>1. k \in 0 .. size - 1 /\ k \in 0 .. held[p] - 1 /\ k < s
      BY <1>4, <1>5, <1>8, <2>1
    <3> QED BY <1>5, <1>10, <3>1
  <2> QED BY <2>2
<1>13. HeapAbs!Unused(q, size, DOMAIN Owned \ {p})
  <2> DEFINE others == DOMAIN held \ {p}
  <2>1. /\ others \subseteq DOMAIN held
        /\ \A r \in others : (q .. q + size - 1) \cap Data(blocks[get_block_ptr(r)]) = {}
    BY <1>3
  <2> HIDE DEF others
  <2>2. HeapAbs!Unused(q, size, others)
    BY <2>1, UnusedByOthers DEF HeapAbs!Unused, HeapAbs!Cells
  <2> QED BY <1>5, <2>2 DEF others
<1>14. Owned' = HeapAbs!With(HeapAbs!Without(p), q, c)
  <2>1. /\ DOMAIN held' = (DOMAIN held \ {p}) \cup {q} /\ held'[q] = size
        /\ held' \in [DOMAIN held' -> Sizes]
        /\ \A r \in DOMAIN held \ {p} : r # q => held'[r] = held[r]
    BY <1>3, <1>4, <1>7 DEF Holds, Drops
  <2>2. ASSUME NEW r \in DOMAIN held, NEW k \in 0 .. held[r] - 1
        PROVE memory'[r + k] = memory[r + k]
    <3>1. r + k \in Heap
      <4>1. r + k \in Data(blocks[get_block_ptr(r)])
        BY OwnedIs
      <4> QED BY <4>1, BlockOfPointer
    <3>2. r + k \notin Data(b) /\ Headers(a)[r + k] = memory[r + k]
      BY <1>3
    <3>3. r + k \notin q .. q + s - 1
      BY <1>3, <1>4, <1>8, <3>2
    <3> QED BY <1>8, <3>1, <3>2, <3>3
  <2> QED BY <2>1, <2>2, OwnedAfter
<1> QED BY <1>3, <1>5, <1>9, <1>11, <1>12, <1>13, <1>14 DEF HeapAbs!Move, HeapAbs!Cells

(* What the users see of their blocks is what an allocator promises: a     *)
(* block given out overlaps no other and lies in the heap, its contents    *)
(* change only when its user stores to it, and realloc keeps them as far   *)
(* as the new size holds them.                                             *)
THEOREM HeapImplementsAllocator == HeapSpec => ImplementsAllocator
<1>1. HeapInit => HeapAbs!AllocatorInit
  BY DEF HeapInit, HeapAbs!AllocatorInit, Owned
<1>2. HeapInv /\ [HeapNext]_heapVars => [HeapAbs!AllocatorNext]_Owned
  <2> SUFFICES ASSUME HeapInv, [HeapNext]_heapVars
               PROVE [HeapAbs!AllocatorNext]_Owned
    OBVIOUS
  <2>1. ASSUME NEW size \in Sizes, NEW clear \in BOOLEAN, malloc(size, clear)
        PROVE HeapAbs!Acquire
    BY <2>1, MallocAcquires
  <2>2. ASSUME NEW p \in DOMAIN held, free(p) PROVE HeapAbs!Release
    BY <2>2, FreeReleases
  <2>3. ASSUME NEW p \in DOMAIN held, NEW size \in Sizes,
               realloc_in_place(p, size) \/ realloc_copy(p, size)
        PROVE HeapAbs!Move
    BY <2>3, ReallocInPlaceMoves, ReallocCopyMoves
  <2>4. ASSUME NEW p \in DOMAIN held, NEW k \in 0 .. held[p] - 1, NEW v \in Values,
               Write(p, k, v)
        PROVE HeapAbs!Store
    BY <2>4, WriteStores
  <2>5. CASE HeapPanic \/ HeapHalted \/ no_block \/ UNCHANGED heapVars
    BY <2>5 DEF HeapPanic, HeapHalted, no_block, heapVars, Owned
  <2>6. ASSUME NEW size \in Sizes, realloc_null(size) PROVE HeapAbs!Acquire
    BY <2>6, MallocAcquires DEF realloc_null
  <2> QED BY <2>1, <2>2, <2>3, <2>4, <2>5, <2>6 DEF HeapNext, HeapAbs!AllocatorNext
<1> QED BY <1>1, <1>2, HeapInvariant, PTL
        DEF HeapSpec, ImplementsAllocator, HeapAbs!AllocatorSpec

=============================================================================
