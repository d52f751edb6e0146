------------------------------- MODULE Frames -------------------------------
(***************************************************************************)
(* The frame allocator of src/src/mmu.c: MMU_alloc_frame takes frames from *)
(* the segments that were free at boot and, once these are used up, from a *)
(* list of freed frames whose links are kept in the free frames themselves *)
(* (so that whoever gets a frame overwrites its link).  Callers are in     *)
(* IRQ_disable or do not yield, so each call is one step.                  *)
(***************************************************************************)
EXTENDS Integers, Sequences, FiniteSets

CONSTANT JUNK  \* the first word of a frame its holder has written to

\* Frame numbers are physical addresses divided by PAGE_SIZE; 0 is NULL.
NULL == 0

ASSUME JunkAssumption == JUNK \notin Nat

VARIABLES
  segments,        \* the free segments as MMU_init leaves them
  free_segments,   \* the segments from free_segment_head on
  free_page_head, free_page_tail,
  link,            \* the first word of every frame
  held,            \* the frames given out and not freed
  ret,             \* what the last MMU_alloc_frame returned
  freed            \* history: the freed frames, in the order of their freeing

fvars == <<segments, free_segments, free_page_head, free_page_tail, link, held, ret, freed>>

FramesOf(s) == s.base .. (s.base + s.len - 1)

AllFrames == UNION {FramesOf(segments[k]) : k \in 1..Len(segments)}

\* The allocator's fields after the memset of MMU_init.
FramesInit ==
  /\ segments = <<>> /\ free_segments = <<>>
  /\ free_page_head = NULL /\ free_page_tail = NULL
  /\ link = <<>>
  /\ held = {}
  /\ ret = NULL
  /\ freed = <<>>

\* MMU_init leaves the segments ss.
Fill(ss) ==
  /\ segments = <<>>
  /\ segments' = ss
  /\ free_segments' = ss
  /\ link' = [f \in UNION {FramesOf(ss[k]) : k \in 1..Len(ss)} |-> JUNK]
  /\ UNCHANGED <<free_page_head, free_page_tail, held, ret, freed>>

\* Variant: the segment gets shorter at its end.
AfterFirstShort ==
  LET s == Head(free_segments)
  IN IF s.len = 1 THEN Tail(free_segments)
     ELSE <<[base |-> s.base, len |-> s.len - 1]>> \o Tail(free_segments)

\* The segments after the first one has lost its first frame.
AfterFirst ==
  LET s == Head(free_segments)
  IN IF s.len = 1 THEN Tail(free_segments)
     ELSE <<[base |-> s.base + 1, len |-> s.len - 1]>> \o Tail(free_segments)

\* The holder of a frame writes to it.
Given(f) ==
  /\ ret' = f
  /\ held' = held \union {f}
  /\ link' = [link EXCEPT ![f] = JUNK]

AllocFromSegment ==
  /\ free_segments # <<>>
  /\ Given(Head(free_segments).base)
  /\ free_segments' = AfterFirst
  /\ UNCHANGED <<segments, free_page_head, free_page_tail, freed>>

\* The word that MMU_alloc_frame makes the new head.
NextFree == link[free_page_head]

AllocFromList ==
  /\ free_segments = <<>> /\ free_page_head # NULL
  /\ Given(free_page_head)
  /\ free_page_head' = NextFree
  /\ freed' = Tail(freed)
  /\ UNCHANGED <<segments, free_segments, free_page_tail>>

AllocFails ==
  /\ free_segments = <<>> /\ free_page_head = NULL
  /\ ret' = NULL
  /\ UNCHANGED <<segments, free_segments, free_page_head, free_page_tail, link, held, freed>>

MMU_alloc_frame == AllocFromSegment \/ AllocFromList \/ AllocFails

\* Variant: pushes at the head.
FreeAtHead(f) ==
  /\ free_page_head' = f
  /\ free_page_tail' = IF free_page_head = NULL THEN f ELSE free_page_tail
  /\ link' = [link EXCEPT ![f] = free_page_head]

\* Variant: looks at the tail, which is not cleared when the list runs empty.
FreeByTail(f) ==
  IF free_page_tail = NULL
  THEN /\ free_page_head' = f
       /\ free_page_tail' = f
       /\ link' = [link EXCEPT ![f] = NULL]
  ELSE /\ free_page_tail' = f
       /\ link' = [[link EXCEPT ![free_page_tail] = f] EXCEPT ![f] = NULL]
       /\ UNCHANGED free_page_head

\* The stores of MMU_free_frame, in their order.  They are one step: its callers
\* leave interrupts on, and that no handler takes a page fault between them,
\* which would call MMU_alloc_frame, is assumed.
Enlist(f) ==
  IF free_page_head = NULL
  THEN /\ free_page_head' = f
       /\ free_page_tail' = f
       /\ link' = [link EXCEPT ![f] = NULL]
  ELSE /\ free_page_tail' = f
       /\ link' = [[link EXCEPT ![free_page_tail] = f] EXCEPT ![f] = NULL]
       /\ UNCHANGED free_page_head

MMU_free_frame(f) ==
  /\ f \in held
  /\ Enlist(f)
  /\ held' = held \ {f}
  /\ freed' = Append(freed, f)
  /\ UNCHANGED <<segments, free_segments, ret>>

FramesNext == MMU_alloc_frame \/ \E f \in AllFrames : MMU_free_frame(f)
-----------------------------------------------------------------------------
\* The list through the free frames is intact: it runs from the head through
\* the frames in the order of their freeing to the tail, although the links lie
\* in memory that has been in use, and the tail is stale while it is empty.
ListIntact ==
  IF freed = <<>> THEN free_page_head = NULL
  ELSE /\ free_page_head = Head(freed)
       /\ free_page_tail = freed[Len(freed)]
       /\ link[free_page_tail] = NULL
       /\ \A i \in 1..(Len(freed) - 1) : link[freed[i]] = freed[i + 1]

\* Frames that no call has given out yet.
Untouched == UNION {FramesOf(free_segments[k]) : k \in 1..Len(free_segments)}

\* The frames on the free list.
Listed == {freed[i] : i \in 1..Len(freed)}

\* Every frame is in exactly one place, at most once: never given out, in use,
\* or on the free list.  No frame has two users and none is lost.
FrameOnce ==
  /\ \A i, j \in 1..Len(freed) : freed[i] = freed[j] => i = j
  /\ AllFrames = Untouched \union held \union Listed
  /\ Untouched \intersect held = {}
  /\ Untouched \intersect Listed = {}
  /\ held \intersect Listed = {}

\* The frames of segments, in address order.
Flat[ss \in Seq([base : Nat, len : Nat])] ==
  IF ss = <<>> THEN <<>>
  ELSE [i \in 1..Head(ss).len |-> Head(ss).base + i - 1] \o Flat[Tail(ss)]

\* The allocator implements the first-in first-out pool, filled once at boot.
P == INSTANCE FramePool WITH pool <- Flat[free_segments] \o freed

ImplementsPool == P!Spec
=============================================================================
