------------------------------ MODULE Kmalloc ------------------------------
(***************************************************************************)
(* The heap of src/src/kmalloc.c: pools of blocks of fixed sizes, refilled *)
(* with pages that are never given back, and whole pages for what is too   *)
(* large.  A header in front of every block names its pool, or tells the   *)
(* number of pages.  Pages come from MMU_alloc_pages, which hands out      *)
(* ascending addresses (see Paging).                                       *)
(***************************************************************************)
EXTENDS Integers, Sequences, Functions

CONSTANTS
  PAGE_SIZE,
  Header,              \* sizeof(struct KmallocBlockHeader)
  BlockSizes,          \* block_size of each of the pools
  POOL_PAGE_INCREASE,
  HeapPages,           \* the number of pages of the heap
  Requests             \* the sizes passed to kmalloc

ASSUME KmallocAssumption ==
  /\ PAGE_SIZE \in Nat \ {0} /\ Header \in Nat /\ POOL_PAGE_INCREASE \in Nat \ {0}
  /\ BlockSizes \in Seq(1..(POOL_PAGE_INCREASE * PAGE_SIZE))
  /\ HeapPages \in Nat /\ Requests \subseteq Nat

Pools == 1..Len(BlockSizes)
LARGE == 0  \* the pool (NULL) in the header of a block of whole pages

VARIABLES
  free,       \* the blocks on the list at free_head, for each pool
  header,     \* header of each block: its pool, and its pages if it is LARGE
  live,       \* the size asked for, of each block in use
  next_page   \* the first page MMU_alloc_pages has not given out

vars == <<free, header, live, next_page>>

Init ==
  /\ free = [p \in Pools |-> <<>>]
  /\ header = <<>>
  /\ live = <<>>
  /\ next_page = 0

Put(f, k, v) == [x \in DOMAIN f \union {k} |-> IF x = k THEN v ELSE f[x]]
Drop(f, k) == [x \in DOMAIN f \ {k} |-> f[x]]

\* Variant: one block too many.
num_blocksMore(p) == (POOL_PAGE_INCREASE * PAGE_SIZE) \div BlockSizes[p] + 1

num_blocks(p) == (POOL_PAGE_INCREASE * PAGE_SIZE) \div BlockSizes[p]

\* The blocks kmalloc_increase_pool puts on the empty list of pool p.
NewBlocks(p) == [i \in 1..num_blocks(p) |-> next_page * PAGE_SIZE + (i - 1) * BlockSizes[p]]

\* The headers once it has written those of the new blocks.
WithBlocks(h, p, list) ==
  [b \in DOMAIN h \union Range(list) |->
     IF b \in Range(list) THEN [pool |-> p, pages |-> 0] ELSE h[b]]

\* Variant: forgets the header.
FitsBare(size, p) == size <= BlockSizes[p]

Fits(size, p) == size + Header <= BlockSizes[p]

\* The first pool with room for size and a header.
PoolFor(size) ==
  IF \E p \in Pools : Fits(size, p)
  THEN CHOOSE p \in Pools : Fits(size, p) /\ \A q \in 1..(p - 1) : ~Fits(size, q)
  ELSE LARGE

\* MMU_alloc_pages fails, after it has used up the addresses there are.
Exhausted(n) == next_page + n > HeapPages
Fails == next_page' = HeapPages /\ UNCHANGED <<free, header, live>>

\* Variant: the block stays on the list.
TakenKept(list) == list

\* The list after kmalloc_alloc has taken its head.
Taken(list) == Tail(list)

\* kmalloc from a pool: kmalloc_alloc, with kmalloc_increase_pool if its list is
\* empty.  (kmalloc(0) returns NULL and changes nothing.)
kmalloc_alloc(size) ==
  LET p == PoolFor(size)
      grow == free[p] = <<>>
      list == IF grow THEN NewBlocks(p) ELSE free[p]
  IN /\ size > 0 /\ p # LARGE
     /\ IF grow /\ Exhausted(POOL_PAGE_INCREASE) THEN Fails
        ELSE /\ free' = [free EXCEPT ![p] = Taken(list)]
             /\ header' = IF grow THEN WithBlocks(header, p, list) ELSE header
             /\ live' = Put(live, Head(list), size)
             /\ next_page' = IF grow THEN next_page + POOL_PAGE_INCREASE ELSE next_page

num_pages(size) == (size \div PAGE_SIZE) + (IF size % PAGE_SIZE # 0 THEN 1 ELSE 0)

\* kmalloc of more than the largest pool can hold.
kmalloc_large(size) ==
  LET n == num_pages(size)
      block == next_page * PAGE_SIZE
  IN /\ size > 0 /\ PoolFor(size) = LARGE
     /\ IF Exhausted(n) THEN Fails
        ELSE /\ header' = Put(header, block, [pool |-> LARGE, pages |-> n])
             /\ live' = Put(live, block, size)
             /\ next_page' = next_page + n
             /\ UNCHANGED free

\* What kfree learns from the header.
PoolOf(block) == header[block].pool

\* kfree: back to the head of its pool's list, or MMU_free_pages.
kfree(block) ==
  /\ block \in DOMAIN live
  /\ live' = Drop(live, block)
  /\ IF PoolOf(block) = LARGE
     THEN header' = Drop(header, block) /\ UNCHANGED free
     ELSE /\ free' = [free EXCEPT ![PoolOf(block)] = <<block>> \o @]
          /\ UNCHANGED header
  /\ UNCHANGED next_page

Next ==
  \/ \E size \in Requests : kmalloc_alloc(size) \/ kmalloc_large(size)
  \/ \E block \in DOMAIN live : kfree(block)

Spec == Init /\ [][Next]_vars
-----------------------------------------------------------------------------
\* The memory of a block.
RoomOf(h) == IF h.pool = LARGE THEN h.pages * PAGE_SIZE ELSE BlockSizes[h.pool]
Room(b) == RoomOf(header[b])
Memory(b) == b .. (b + Room(b) - 1)

\* No two blocks share memory, whether in use or free, and none reaches past
\* the pages the heap has got.
BlocksApart ==
  \A b \in DOMAIN header :
    /\ Memory(b) \subseteq 0..(next_page * PAGE_SIZE - 1)
    /\ \A c \in DOMAIN header : b # c => Memory(b) \intersect Memory(c) = {}

\* Every block of a pool is in use or once on the list of its own pool, and
\* never both: no block is given out twice or lost.
BlockOnce ==
  /\ \A p \in Pools : IsInjective(free[p])
  /\ \A b \in DOMAIN header, p \in Pools :
       b \in Range(free[p]) <=> p = header[b].pool /\ b \notin DOMAIN live

\* The header of block b and the bytes its user asked for, which follow it.
Touched(b) == b .. (b + Header + live[b] - 1)

\* What kmalloc forgot to add for a block of whole pages: the end of what its
\* user asked for may lie this far behind its pages.
Overrun(b) == IF header[b].pool = LARGE THEN (b + Room(b)) .. (b + Room(b) + Header - 1) ELSE {}

\* A user that stays within what it asked for touches no byte of another block,
\* neither what another user wrote (tests/integrated/stress.c looks for "invalid
\* write code"), nor a header or a link of a free block, except that the user of
\* a block of whole pages reaches into the first Header bytes behind its pages.
UsersApart ==
  \A b \in DOMAIN live, c \in DOMAIN header :
    b # c => Touched(b) \intersect Memory(c) \subseteq Overrun(b)
=============================================================================
