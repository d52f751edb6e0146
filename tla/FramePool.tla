----------------------------- MODULE FramePool -----------------------------
(***************************************************************************)
(* What the frame allocator of src/src/mmu.c promises: a first-in          *)
(* first-out pool.  A frame that is freed is given out again after every   *)
(* frame that was free before it (tests/integrated/stress.c walks through  *)
(* all of memory this way).                                                *)
(***************************************************************************)
EXTENDS Naturals, Sequences

CONSTANT NULL  \* "no frame"

VARIABLES
  pool,  \* the free frames, in the order in which they are given out
  held,  \* the frames in use
  ret    \* what the last allocation returned

pvars == <<pool, held, ret>>

Init == pool = <<>> /\ held = {} /\ ret = NULL

\* MMU_init has found the free frames, each once and none of them NULL.
Fill ==
  /\ pool = <<>> /\ held = {} /\ ret = NULL
  /\ \A j, k \in 1..Len(pool') : pool'[j] = pool'[k] => j = k
  /\ \A k \in 1..Len(pool') : pool'[k] # NULL
  /\ UNCHANGED <<held, ret>>

Alloc ==
  IF pool = <<>> THEN ret' = NULL /\ UNCHANGED <<pool, held>>
  ELSE /\ ret' = Head(pool)
       /\ pool' = Tail(pool)
       /\ held' = held \union {ret'}

Free(f) ==
  /\ f \in held
  /\ held' = held \ {f}
  /\ pool' = Append(pool, f)
  /\ UNCHANGED ret

Next == Fill \/ Alloc \/ \E f \in held : Free(f)

Spec == Init /\ [][Next]_pvars
=============================================================================
