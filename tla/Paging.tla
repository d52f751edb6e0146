------------------------------- MODULE Paging -------------------------------
(***************************************************************************)
(* Virtual memory: the page table of src/src/arch/x86_64/paging.c and the  *)
(* allocation of heap pages and process stacks of src/src/mmu.c.  Pages    *)
(* get their frame at the first access (demand allocation).  Frames come   *)
(* from FramePool, which module Frames implements.                         *)
(*                                                                         *)
(* Tables are named by the path that leads to them: the entry at depth d   *)
(* for virtual page v is <<d, v \div Fan^(Depth - d)>>.  Of an entry only  *)
(* its present and demand_allocate bits and its address are kept.          *)
(* Addresses count words of 8 bytes.                                       *)
(***************************************************************************)
EXTENDS Integers, Sequences, FiniteSets, Functions

CONSTANTS
  Fan,         \* PAGE_TABLE_NUM_ENTS (512)
  Depth,       \* PAGE_TABLE_DEPTH (3), the depth of the last table
  PageWords,   \* words in a page (512): PAGE_SIZE / 8
  StackPages,  \* KERNEL_THREAD_STACK_SIZE_PAGES (10)
  StacksStart, StacksEnd,  \* MMAP_KERNEL_STACKS_START, _END, in pages
  HeapStart, HeapEnd,      \* MMAP_KERNEL_HEAP_START, _END, in pages
  Pool0,       \* the frames free after the page table's root was allocated
  MaxStacks,   \* bound: how many stacks are allocated
  MaxAlloc     \* bound: the largest num_pages passed to MMU_alloc_pages

ASSUME PagingAssumption ==
  /\ Fan \in Nat /\ Fan >= 2 /\ Depth \in Nat \ {0}
  /\ PageWords \in Nat /\ PageWords >= 2 /\ StackPages \in Nat \ {0}
  /\ StacksStart \in Nat /\ StacksEnd \in Nat /\ HeapStart \in Nat /\ HeapEnd \in Nat
  /\ StacksStart < StacksEnd /\ StacksEnd + StackPages <= HeapStart
  /\ HeapStart <= HeapEnd /\ HeapEnd <= Fan^(Depth + 1)
  /\ 0 \notin Range(Pool0) /\ IsInjective(Pool0) /\ Pool0 \in Seq(Nat)
  /\ MaxStacks \in Nat /\ MaxAlloc \in Nat /\ (MaxStacks + 1) * StackPages <= StacksEnd

Pages == 0 .. (Fan^(Depth + 1) - 1)
Entry(v, d) == <<d, v \div Fan^(Depth - d)>>
Page(a) == a \div PageWords
FrameSet == Range(Pool0)

\* The tables identity_p3 and identity_p2 are not in a frame of the pool.
STATIC == 0

VARIABLES
  vm,      \* the page table and the free frames:
           \*   tables: frame of the table behind each present inner entry
           \*   demand: pages whose last entry has demand_allocate set
           \*   mapped: frame of each page whose last entry is present
           \*   pool:   the free frames
  next_kernel_heap_vaddr, next_kernel_thread_stack_vaddr,
  blocks,  \* what callers got from MMU_alloc_pages and have not freed
  stacks,  \* the addresses of the stacks in use
  masked,  \* IRQ_disable sections left open by an early return
  oom,     \* history: a table could not be allocated
  seen     \* history: the pages that ever had a frame

pvars == <<vm, next_kernel_heap_vaddr, next_kernel_thread_stack_vaddr, blocks, stacks, masked, oom, seen>>

\* The address of the first stack: the last word before the end of the stacks.
StackTop == StacksEnd * PageWords - 1

\* PT_init, PT_page_table_init: the first root entry leads to identity_p3, whose
\* first entry leads to the static tables of the identity map.
PagingInit ==
  /\ vm = [tables |-> [e \in {<<d, 0>> : d \in 0..(Depth - 1)} |-> STATIC],
           demand |-> {}, mapped |-> <<>>, pool |-> Pool0]
  /\ next_kernel_heap_vaddr = HeapStart * PageWords
  /\ next_kernel_thread_stack_vaddr = StackTop
  /\ blocks = {}
  /\ stacks = {}
  /\ masked = 0
  /\ oom = FALSE
  /\ seen = {}
-----------------------------------------------------------------------------
(* The page table                                                          *)

\* The depths at which there is no table for page v.
Missing(m, v) == {d \in 0..(Depth - 1) : Entry(v, d) \notin DOMAIN m.tables}

\* A table behind entry e, unless there is one or no frame is free.
WithTable(m, e) ==
  IF e \in DOMAIN m.tables \/ m.pool = <<>> THEN m
  ELSE [m EXCEPT !.tables = [x \in DOMAIN @ \union {e} |-> IF x = e THEN Head(m.pool) ELSE @[x]],
                 !.pool = Tail(@)]

\* The tables for page v, from the top down: pt_walk passes those there are, and
\* when the frames are used up the rest of them stays missing.
WithTables(m, v) ==
  LET upTo[d \in 0..Depth] == IF d = 0 THEN m ELSE WithTable(upTo[d - 1], Entry(v, d - 1))
  IN upTo[Depth]

\* Variant: marks the page although a table could not be allocated.
PT_demand_allocateBlind(m, v) ==
  IF v \in DOMAIN m.mapped THEN m
  ELSE [WithTables(m, v) EXCEPT !.demand = @ \union {v}]

\* PT_demand_allocate: allocate the missing tables, and mark the page if there
\* were frames for all of them.
PT_demand_allocate(m, v) ==
  IF v \in DOMAIN m.mapped THEN m
  ELSE LET t == WithTables(m, v)
       IN [t EXCEPT !.demand = IF Missing(t, v) = {} THEN @ \union {v} ELSE @]

\* Variant: the entry stays present.
PT_freeKept(m, v) ==
  IF v \notin DOMAIN m.mapped THEN m
  ELSE [m EXCEPT !.pool = Append(@, m.mapped[v])]

\* Variant: the demand bit survives.
PT_freeDemand(m, v) ==
  IF v \notin DOMAIN m.mapped THEN m
  ELSE [m EXCEPT !.mapped = [w \in DOMAIN @ \ {v} |-> @[w]],
                 !.demand = @ \union {v},
                 !.pool = Append(@, m.mapped[v])]

\* PT_free of a page address and MMU_free_frame of what it returns.  A page
\* that never had a frame keeps its demand bit.
PT_free(m, v) ==
  IF v \notin DOMAIN m.mapped THEN m
  ELSE [m EXCEPT !.mapped = [w \in DOMAIN @ \ {v} |-> @[w]],
                 !.demand = @ \ {v},
                 !.pool = Append(@, m.mapped[v])]

\* The pages a block or a stack consists of.
BlockPages(b) == b.first .. (b.first + b.num - 1)
StackPagesOf(s) == (Page(s) - StackPages + 1) .. Page(s)
InUse == UNION ({BlockPages(b) : b \in blocks} \union {StackPagesOf(s) : s \in stacks})

\* An access to a page in use, and page_fault_handler if it has no frame yet.
\* Without the demand bit, or without a free frame, the handler changes nothing.
\* pte_set_addr overwrites the whole entry, the demand bit included.
page_fault_handler(v) ==
  /\ v \in InUse /\ v \notin DOMAIN vm.mapped
  /\ v \in vm.demand /\ vm.pool # <<>>
  /\ vm' = [vm EXCEPT !.mapped = [w \in DOMAIN @ \union {v} |-> IF w = v THEN Head(vm.pool) ELSE @[w]],
                      !.demand = @ \ {v},
                      !.pool = Tail(@)]
  /\ seen' = seen \union {v}
  /\ UNCHANGED <<next_kernel_heap_vaddr, next_kernel_thread_stack_vaddr, blocks, stacks, masked, oom>>
-----------------------------------------------------------------------------
(* Heap pages and stacks                                                   *)

\* PT_demand_allocate for each of a sequence of pages.
DemandAll(m, pages) ==
  LET after[i \in 0..Len(pages)] == IF i = 0 THEN m ELSE PT_demand_allocate(after[i - 1], pages[i])
  IN after[Len(pages)]

\* PT_free for each of a sequence of pages.
FreeAll(m, pages) ==
  LET after[i \in 0..Len(pages)] == IF i = 0 THEN m ELSE PT_free(after[i - 1], pages[i])
  IN after[Len(pages)]

\* Whether some page could not be marked (the callers do not look).
Failed(m, pages) == \E v \in pages : v \notin m.demand \union DOMAIN m.mapped

\* Bound: no allocation after one that failed.
MaxMasked == 2

\* MMU_alloc_pages, and MMU_alloc_page for num = 1.  When the addresses run out
\* it returns NULL without the IRQ_enable of either function.
MMU_alloc_pages(num) ==
  LET first == Page(next_kernel_heap_vaddr)
      left == HeapEnd - first
      n == IF num <= left THEN num ELSE left
      m == DemandAll(vm, [i \in 1..n |-> first + i - 1])
  IN /\ masked < MaxMasked
     /\ vm' = m
     /\ next_kernel_heap_vaddr' = next_kernel_heap_vaddr + n * PageWords
     /\ IF n = num
        THEN blocks' = blocks \union {[first |-> first, num |-> num]} /\ UNCHANGED masked
        ELSE masked' = masked + 2 /\ UNCHANGED blocks
     /\ oom' = (oom \/ Failed(m, first .. (first + n - 1)))
     /\ UNCHANGED <<next_kernel_thread_stack_vaddr, stacks, seen>>

\* Variant: one page too many.
FreedPagesMore(b) == [i \in 1..(b.num + 1) |-> b.first + i - 1]

\* The pages MMU_free_pages walks through.
FreedPages(b) == [i \in 1..b.num |-> b.first + i - 1]

MMU_free_pages(b) ==
  /\ b \in blocks
  /\ vm' = FreeAll(vm, FreedPages(b))
  /\ blocks' = blocks \ {b}
  /\ UNCHANGED <<next_kernel_heap_vaddr, next_kernel_thread_stack_vaddr, stacks, masked, oom, seen>>

\* MMU_alloc_stack.  Its limit compares an address eight bytes below a page
\* boundary with a page boundary, so its early return is never taken.
MMU_alloc_stack ==
  LET s == next_kernel_thread_stack_vaddr
      m == DemandAll(vm, [i \in 1..StackPages |-> Page(s) - i + 1])
  IN /\ StacksEnd - Page(s) <= MaxStacks * StackPages
     /\ s # HeapStart * PageWords
     /\ vm' = m
     /\ next_kernel_thread_stack_vaddr' = s - StackPages * PageWords
     /\ stacks' = stacks \union {s}
     /\ oom' = (oom \/ Failed(m, StackPagesOf(s)))
     /\ UNCHANGED <<next_kernel_heap_vaddr, blocks, masked, seen>>

\* Variant: starts one page higher.
FreedStackHigh(s) == [i \in 1..StackPages |-> Page(s - (PageWords - 1)) + i]

\* The pages MMU_free_stack walks through: from the top page upwards.
FreedStack(s) == [i \in 1..StackPages |-> Page(s - (PageWords - 1)) + i - 1]

MMU_free_stack(s) ==
  /\ s \in stacks
  /\ vm' = FreeAll(vm, FreedStack(s))
  /\ stacks' = stacks \ {s}
  /\ UNCHANGED <<next_kernel_heap_vaddr, next_kernel_thread_stack_vaddr, blocks, masked, oom, seen>>

PagingNext ==
  \/ \E v \in InUse : page_fault_handler(v)
  \/ \E num \in 1..MaxAlloc : MMU_alloc_pages(num)
  \/ \E b \in blocks : MMU_free_pages(b)
  \/ MMU_alloc_stack
  \/ \E s \in stacks : MMU_free_stack(s)

PagingSpec == PagingInit /\ [][PagingNext]_pvars
-----------------------------------------------------------------------------
\* Every frame has one role: free, a page table, or the memory of one page.
\* None is used twice, and none gets lost, whatever is freed in which order.
OneRole ==
  /\ Len(vm.pool) = Cardinality(Range(vm.pool))
  /\ \A f \in FrameSet :
       Cardinality({e \in DOMAIN vm.tables : vm.tables[e] = f})
         + Cardinality({v \in DOMAIN vm.mapped : vm.mapped[v] = f})
         + (IF f \in Range(vm.pool) THEN 1 ELSE 0) = 1

\* A page is in the table only below tables that exist.
Reachable ==
  \A v \in vm.demand \union DOMAIN vm.mapped : Missing(vm, v) = {}

\* A page that was accessed and has lost its frame never gets another one, so
\* the stale entry that PT_free leaves in the TLB is never one of a page that is
\* mapped again.  (It still leads to the old frame, and MMU_free_stack and
\* process_exit free pages that are still in use: that they go on working, on a
\* frame that may have a new owner, is outside this property.)
NeverRemapped == vm.demand \intersect seen = {}

\* Every page of a heap block, and the top page of every stack, has its frame
\* or gets it at the first access, whatever else is freed, unless there was no
\* frame for a table.  (The other pages of a stack do not have this property:
\* MMU_free_stack walks upwards from the top page, into the stack above.)
Usable ==
  LET backed == vm.demand \union DOMAIN vm.mapped
  IN oom \/ ((\A b \in blocks : BlockPages(b) \subseteq backed) /\ \A s \in stacks : Page(s) \in backed)

\* The memory behind a heap block does not change while it is in use.
HeapStable ==
  [][\A b \in blocks : \A v \in BlockPages(b) \intersect DOMAIN vm.mapped :
       b \in blocks' => v \in DOMAIN vm'.mapped /\ vm'.mapped[v] = vm.mapped[v]]_pvars

\* docs/x86_64_vmap.md: kernel stacks lie between 0x1 * B and 0x2 * B.
StacksInRegion ==
  \A s \in stacks : StackPagesOf(s) \subseteq StacksStart .. (StacksEnd - 1)
=============================================================================
