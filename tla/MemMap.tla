------------------------------- MODULE MemMap -------------------------------
(***************************************************************************)
(* The memory map at boot: BOOT_parse_multiboot (src/src/boot.c, elf.c)    *)
(* reads the bootloader's tags, sorting what it finds (utils.c), and       *)
(* MMU_init (mmu.c) computes from it the segments of free frames.          *)
(*                                                                         *)
(* Addresses and lengths are unsigned and wrap at WORD.  The lists of      *)
(* mmu_compute_free_segments are modelled with their links, for it removes *)
(* list elements while it walks: one step per round of its last loop.      *)
(***************************************************************************)
EXTENDS Integers, Sequences, SequencesExt

CONSTANTS
  PAGE_SIZE,
  WORD,          \* one more than the largest address; a multiple of PAGE_SIZE
  MAX_SECTS,     \* MAX_MMAP_ENTRIES, MAX_KERNEL_SECTIONS, MAX_FREE_SEGMENTS
  Inputs         \* the tags a bootloader may leave, with its magic number

VARIABLES
  pc,            \* "parse", "exclude", "copy", "remove", "skip", "done";
                 \* "panic": the kernel gave up; "wild": it used memory it must not
  input,         \* history: the member of Inputs this boot started with
  tags,          \* the tags not parsed yet
  ram,           \* map.ram_sects, a slot past num_mmap included
  num_mmap,
  kernel,        \* map.kernel_sects
  excluded,      \* the list mmu_compute_excluded returns
  seg,           \* mmu.free_segments
  head,          \* mmu.free_segment_head, an index into seg
  i,             \* the next unused element of seg
  prev, fcurr, ecurr

mvars == <<pc, input, tags, ram, num_mmap, kernel, excluded, seg, head, i, prev,
           fcurr, ecurr>>

NIL == 0  \* the null pointer among indices

ZeroRam == [k \in 1..(MAX_SECTS + 1) |-> [base |-> 0, len |-> 0]]

ZeroSegs == [k \in 1..MAX_SECTS |-> [base |-> 0, end |-> 0, len |-> 0, next |-> NIL]]

BootInit ==
  /\ input \in Inputs
  /\ pc = "parse"
  /\ tags = input.tags
  /\ ram = ZeroRam
  /\ num_mmap = 0
  /\ kernel = <<>>
  /\ excluded = <<>>
  /\ seg = ZeroSegs
  /\ head = NIL /\ i = 1
  /\ prev = NIL /\ fcurr = NIL /\ ecurr = 1
-----------------------------------------------------------------------------
\* The first element from k on with the least base.
Smallest(a, k, n) ==
  CHOOSE j \in k..n : \A x \in k..n : /\ a[j].base <= a[x].base
                                      /\ a[x].base = a[j].base => j <= x

\* The elements that the selection sort of n elements fills, in order.
Passes(n) == [k \in 1..(n - 1) |-> k]

kernel_mmap_swp(a, j, k) == [a EXCEPT ![j] = a[k], ![k] = a[j]]

\* Swaps RAM entries, two words each, as if they had the three words of a
\* KernelSection: the base of the entry behind each goes along.  Neighbours
\* overlap, and the build may read the third word before or after the second
\* entry is overwritten.
mmap_entry_swp(a, j, k, late) ==
  IF k = j + 1
  THEN [a EXCEPT ![j] = a[k],
                 ![k] = [base |-> a[k + 1].base, len |-> a[j].len],
                 ![k + 1].base = IF late THEN a[j].base ELSE a[k].base]
  ELSE [a EXCEPT ![j] = a[k], ![k] = a[j],
                 ![j + 1].base = a[k + 1].base, ![k + 1].base = a[j + 1].base]

sort_kernel_section_array(arr) ==
  FoldLeft(LAMBDA a, k : kernel_mmap_swp(a, k, Smallest(a, k, Len(arr))),
           arr, Passes(Len(arr)))

sort_mmap_entry_array(arr, len, late) ==
  FoldLeft(LAMBDA a, k : LET min == Smallest(a, k, len)
                         IN IF min = k THEN a ELSE mmap_entry_swp(a, k, min, late),
           arr, Passes(len))

BadMagic ==
  /\ pc = "parse" /\ ~input.magic
  /\ pc' = "panic"
  /\ UNCHANGED <<input, tags, ram, num_mmap, kernel, excluded, seg, head, i, prev, fcurr, ecurr>>

\* The tag in front is consumed; the next one, or MMU_init, follows.
Consume ==
  /\ pc = "parse" /\ input.magic /\ tags # <<>>
  /\ tags' = Tail(tags)

NoTagLeft == IF Len(tags) = 1 THEN "exclude" ELSE "parse"

parse_mmap ==
  /\ Consume
  /\ Head(tags).type = "mmap"
  /\ LET found == SelectSeq(Head(tags).entries, LAMBDA e : e.available)
     IN IF Len(found) > MAX_SECTS
        THEN pc' = "panic" /\ UNCHANGED <<ram, num_mmap>>
        ELSE /\ num_mmap' = Len(found)
             /\ \E late \in BOOLEAN :
                  ram' = sort_mmap_entry_array(
                           [k \in DOMAIN ram |->
                              IF k <= Len(found)
                              THEN [base |-> found[k].base, len |-> found[k].len]
                              ELSE ram[k]],
                           Len(found), late)
             /\ pc' = NoTagLeft
  /\ UNCHANGED <<input, kernel, excluded, seg, head, i, prev, fcurr, ecurr>>

\* The section headers that are in use.
UsedHeaders(headers) == SelectSeq(headers, LAMBDA h : h.used)

ELF_parse_section_headers ==
  /\ Consume
  /\ Head(tags).type = "elf"
  /\ LET headers == Head(tags).headers
         used == UsedHeaders(headers)
     IN IF Len(headers) > MAX_SECTS
        THEN pc' = "panic" /\ UNCHANGED kernel
        ELSE /\ kernel' = sort_kernel_section_array(
                            [k \in 1..Len(used) |->
                               [base |-> used[k].base, len |-> used[k].len]])
             /\ pc' = NoTagLeft
  /\ UNCHANGED <<input, ram, num_mmap, excluded, seg, head, i, prev, fcurr, ecurr>>

OtherTag ==
  /\ Consume
  /\ Head(tags).type = "other"
  /\ pc' = NoTagLeft
  /\ UNCHANGED <<input, ram, num_mmap, kernel, excluded, seg, head, i, prev, fcurr, ecurr>>
-----------------------------------------------------------------------------
Down(a) == a - (a % PAGE_SIZE)

Up(a) == IF a % PAGE_SIZE = 0 THEN a ELSE Down(a + PAGE_SIZE)

\* A kernel section rounded outwards to whole pages.
RoundOut(s) == [base |-> Down(s.base), end |-> Down(s.base) + Up(s.len + (s.base % PAGE_SIZE))]

\* Variant: the end of the later section wins.
MergedLast(list, s) ==
  IF list # <<>> /\ Last(list).end >= s.base
  THEN Front(list) \o <<[Last(list) EXCEPT !.end = s.end]>>
  ELSE Append(list, s)

\* Section s merged into the one before it if they overlap or touch.
Merged(list, s) ==
  IF list # <<>> /\ Last(list).end >= s.base
  THEN Front(list) \o <<[Last(list) EXCEPT !.end = IF s.end > @ THEN s.end ELSE @]>>
  ELSE Append(list, s)

\* Without a section it works on an uninitialised excluded[0].
mmu_compute_excluded ==
  /\ pc = "exclude"
  /\ IF kernel = <<>>
     THEN pc' = "wild" /\ UNCHANGED excluded
     ELSE /\ excluded' = FoldLeft(Merged, <<>>, [k \in DOMAIN kernel |-> RoundOut(kernel[k])])
          /\ pc' = "copy"
  /\ UNCHANGED <<input, tags, ram, num_mmap, kernel, seg, head, i, prev, fcurr, ecurr>>

\* RAM entry k rounded inwards to whole pages; the length wraps when the entry
\* lies within one page.
RoundIn(k) ==
  LET base == Up(ram[k].base)
      len == Down((ram[k].base + ram[k].len - base) % WORD)
  IN [base |-> base, end |-> (base + len) % WORD, len |-> len,
      next |-> IF k = num_mmap THEN NIL ELSE k + 1]

\* Element k of list l is dropped if it has become empty.  Its predecessor is
\* taken to be element k - 1, dropped or not.
Shrunk(l, k) ==
  IF l.seg[k].len # 0 THEN l
  ELSE IF k = 1 THEN [l EXCEPT !.head = l.seg[k].next]
  ELSE [l EXCEPT !.seg[k - 1].next = l.seg[k].next]

\* Copies the RAM entries, rounds them and drops the empty ones.
CopyRam ==
  /\ pc = "copy"
  /\ LET copied == [k \in DOMAIN seg |-> IF k <= num_mmap THEN RoundIn(k) ELSE seg[k]]
         l == FoldLeft(Shrunk, [head |-> 1, seg |-> copied], [k \in 1..Max({1, num_mmap}) |-> k])
     IN seg' = l.seg /\ head' = l.head /\ fcurr' = l.head
  /\ i' = num_mmap + 1
  /\ prev' = NIL /\ ecurr' = 1
  /\ pc' = "remove"
  /\ UNCHANGED <<input, tags, ram, num_mmap, kernel, excluded>>
-----------------------------------------------------------------------------
Removing == pc = "remove" /\ fcurr # NIL /\ ecurr <= Len(excluded)

\* The free segment and the excluded one that a round of the loop compares.
F == seg[fcurr]
E == excluded[ecurr]

BeginsBefore == F.base < E.base /\ F.end > E.base

BeginsInside == F.base >= E.base /\ F.base < E.end

\* The free segment is cut off where the excluded one begins ...
Truncate ==
  /\ Removing /\ BeginsBefore /\ F.end <= E.end
  /\ seg' = [seg EXCEPT ![fcurr].len = E.base - F.base]
  /\ prev' = fcurr /\ fcurr' = F.next
  /\ UNCHANGED <<pc, input, tags, ram, num_mmap, kernel, excluded, head, i, ecurr>>

\* ... or split in two.  The end of the new segment is not set.
Split ==
  /\ Removing /\ BeginsBefore /\ F.end > E.end
  /\ IF i > MAX_SECTS
     THEN pc' = "wild" /\ UNCHANGED <<seg, i, prev, fcurr, ecurr>>
     ELSE /\ seg' = [seg EXCEPT ![fcurr].len = E.base - F.base,
                                ![fcurr].next = i,
                                ![i].base = E.end,
                                ![i].len = F.end - E.end,
                                ![i].next = F.next]
          /\ i' = i + 1
          /\ prev' = fcurr /\ fcurr' = i
          /\ ecurr' = ecurr + 1
          /\ pc' = pc
  /\ UNCHANGED <<input, tags, ram, num_mmap, kernel, excluded, head>>

\* The free segment is unlinked; fcurr stays where it is.
Delete ==
  /\ Removing /\ BeginsInside /\ F.end < E.end
  /\ IF prev = NIL
     THEN head' = F.next /\ seg' = seg
     ELSE seg' = [seg EXCEPT ![prev].next = F.next] /\ head' = head
  /\ UNCHANGED <<pc, input, tags, ram, num_mmap, kernel, excluded, i, prev, fcurr, ecurr>>

\* The segments after the beginning of the current one has been cut off.
Cut == [seg EXCEPT ![fcurr].base = E.end, ![fcurr].len = F.end - E.end]

CutFront ==
  /\ Removing /\ BeginsInside /\ F.end >= E.end
  /\ seg' = Cut
  /\ ecurr' = ecurr + 1
  /\ UNCHANGED <<pc, input, tags, ram, num_mmap, kernel, excluded, head, i, prev, fcurr>>

\* Variant: does not step at all.
PassStay == UNCHANGED <<prev, fcurr, ecurr>>

\* Steps to the next free segment, and never over the excluded one.
PassOn == /\ prev' = fcurr /\ fcurr' = F.next
          /\ UNCHANGED ecurr

Keep ==
  /\ Removing /\ ~BeginsBefore /\ ~BeginsInside
  /\ PassOn
  /\ UNCHANGED <<pc, input, tags, ram, num_mmap, kernel, excluded, seg, head, i>>

\* Leaves out the frame at address 0.  An empty list is read all the same.
SkipPageZero ==
  /\ pc = "remove" /\ ~Removing
  /\ IF head = NIL
     THEN pc' = "wild" /\ UNCHANGED <<seg, head>>
     ELSE /\ pc' = "done"
          /\ CASE seg[head].base # 0 -> UNCHANGED <<seg, head>>
               [] seg[head].base = 0 /\ seg[head].len = PAGE_SIZE ->
                    head' = seg[head].next /\ seg' = seg
               [] OTHER -> /\ seg' = [seg EXCEPT ![head].base = PAGE_SIZE,
                                                 ![head].len = (@ - PAGE_SIZE) % WORD]
                           /\ head' = head
  /\ UNCHANGED <<input, tags, ram, num_mmap, kernel, excluded, i, prev, fcurr, ecurr>>

BootNext ==
  \/ BadMagic \/ parse_mmap \/ ELF_parse_section_headers \/ OtherTag
  \/ mmu_compute_excluded \/ CopyRam
  \/ Truncate \/ Split \/ Delete \/ CutFront \/ Keep \/ SkipPageZero
=============================================================================
