------------------------------- MODULE Memory -------------------------------
(***************************************************************************)
(* Physical memory from the bootloader's map to the last frame: MemMap     *)
(* computes the free segments and the frame allocator Frames works from    *)
(* them.  The allocator is followed for the maps the computation handles.  *)
(***************************************************************************)
EXTENDS MemMap, Frames

vars == <<mvars, fvars>>

Init == BootInit /\ FramesInit

\* The free list from element k on, in frames.
ListFrom[k \in 0..MAX_SECTS] ==
  IF k = NIL THEN <<>>
  ELSE <<[base |-> seg[k].base \div PAGE_SIZE, len |-> seg[k].len \div PAGE_SIZE]>>
       \o ListFrom[seg[k].next]
-----------------------------------------------------------------------------
\* What a bootloader's map means, without the lists: the pages that lie within
\* one entry of available RAM, and those the kernel's image touches.
Pages == 0 .. ((WORD \div PAGE_SIZE) - 1)

FirstByte(p) == p * PAGE_SIZE
LastByte(p) == p * PAGE_SIZE + PAGE_SIZE - 1

TagsOf(type) == SelectSeq(input.tags, LAMBDA t : t.type = type)

Ram == SelectSeq(TagsOf("mmap")[1].entries, LAMBDA e : e.available)

Sections == SelectSeq(TagsOf("elf")[1].headers, LAMBDA h : h.used)

Within(p, e) == e.base <= FirstByte(p) /\ LastByte(p) < e.base + e.len

Touches(p, s) == s.base <= LastByte(p) /\ FirstByte(p) < s.base + s.len

RamPages == {p \in Pages : \E k \in DOMAIN Ram : Within(p, Ram[k])}

KernelPages == {p \in Pages : \E k \in DOMAIN Sections : Touches(p, Sections[k])}

FreePages == RamPages \ (KernelPages \union {0})

\* The RAM entries come in ascending order, hold a page each and leave room for
\* one more segment.
OrderlyRam ==
  /\ Ram # <<>>
  /\ Len(Ram) < MAX_SECTS
  /\ \A j, k \in DOMAIN Ram : j < k => Ram[j].base + Ram[j].len <= Ram[k].base
  /\ \A k \in DOMAIN Ram : \E p \in Pages : Within(p, Ram[k])

\* The kernel has sections and they fit into the table, its pages are contiguous,
\* as scripts/linker.ld lays them out, they cover no RAM region completely, and
\* something is left free.
CompactKernel ==
  /\ Sections # <<>>
  /\ Len(TagsOf("elf")[1].headers) <= MAX_SECTS
  /\ \A p, q \in KernelPages : \A r \in p..q : r \in KernelPages
  /\ \A k \in DOMAIN Ram : \E p \in Pages \ KernelPages : Within(p, Ram[k])
  /\ FreePages # {}

Ordinary == input.magic /\ OrderlyRam /\ CompactKernel
-----------------------------------------------------------------------------
\* MMU_init ends.  Nothing reads the bootloader's map again, and it is forgotten
\* here to keep the number of states small.
Start ==
  /\ pc = "done" /\ Ordinary
  /\ Fill(ListFrom[head])
  /\ pc' = "run"
  /\ input' = <<>> /\ tags' = <<>> /\ ram' = <<>> /\ num_mmap' = 0 /\ kernel' = <<>>
  /\ excluded' = <<>> /\ seg' = <<>> /\ head' = NIL /\ i' = NIL
  /\ prev' = NIL /\ fcurr' = NIL /\ ecurr' = NIL

Boot == BootNext /\ UNCHANGED fvars

Run == pc = "run" /\ FramesNext /\ UNCHANGED mvars

Next == Boot \/ Start \/ Run

\* The boot code runs on its own and does not stop.
Spec == Init /\ [][Next]_vars /\ WF_vars(Boot)
-----------------------------------------------------------------------------
\* For an ordinary map mmu_compute_free_segments leaves every free page of RAM
\* in exactly one segment, none of the kernel's and not page 0, and no segment
\* is empty (MMU_alloc_frame would wrap its length).
FreeIsRest ==
  pc = "done" /\ Ordinary =>
    LET ss == ListFrom[head]
    IN /\ \A p \in Pages :
            {k \in DOMAIN ss : p \in FramesOf(ss[k])} # {} <=> p \in FreePages
       /\ \A j, k \in DOMAIN ss :
            j # k => FramesOf(ss[j]) \intersect FramesOf(ss[k]) = {}
       /\ \A k \in DOMAIN ss : ss[k].len > 0

\* The loops of mmu_compute_free_segments end for an ordinary map, although the
\* last one advances neither list when it deletes a segment.
BootEnds == (pc = "parse" /\ Ordinary) ~> pc = "done"

\* No free segment holds a page of the kernel's image, however many pieces this
\* has ("Remove excluded sections from free segments array", mmu.c:138).
KernelNeverFree ==
  pc = "done" /\ OrderlyRam =>
    LET ss == ListFrom[head]
    IN \A k \in DOMAIN ss : FramesOf(ss[k]) \intersect KernelPages = {}
=============================================================================
