------------------------------- MODULE Sched -------------------------------
(***************************************************************************)
(* The scheduler of src/src/proc.c together with the interrupt entry code  *)
(* of src/src/arch/x86_64/interrupts.c and the INT 123 system call.        *)
(*                                                                         *)
(* One processor runs one of: main_proc (kmain, then the PROC_run / hlt    *)
(* loop), a process, the system call handler on its own stack, or a        *)
(* hardware interrupt handler on top of any of them.  Scheduling is        *)
(* cooperative: only the INT 123 handler moves next_proc.  Interrupts may  *)
(* arrive between any two steps while the interrupt flag is set, so every  *)
(* stretch of code that can run with the flag set is cut into the steps    *)
(* an interrupt can separate, and every stretch that runs with the flag    *)
(* clear is one step.                                                      *)
(*                                                                         *)
(* Process bodies are the most general client of the API: in any order, a  *)
(* process yields, enters (nested) IRQ_disable sections, blocks on a queue *)
(* from inside one as ps2_read and ata_read_block do, or exits.            *)
(***************************************************************************)
EXTENDS Integers, Sequences, Functions

CONSTANTS
  Spawner,     \* the process that creates others (stress_test_proc)
  SpawnSet,    \* the processes it creates
  BootSet,     \* the processes kmain creates after Spawner
  Exiting,     \* the processes whose entry point may return
  AllQueues,   \* wait queues whose interrupt handler wakes every process
  HeadQueues,  \* wait queues whose interrupt handler wakes the first one
  Main,        \* &main_proc
  NULL,
  SemMax,      \* the largest irq_semaphore (2^32 - 1 in the code)
  MaxNest      \* bound: how deep a process nests IRQ_disable sections

Procs == {Spawner} \union SpawnSet \union BootSet
Queues == AllQueues \union HeadQueues

ASSUME SchedAssumption ==
  /\ Spawner \notin SpawnSet /\ Spawner \notin BootSet
  /\ SpawnSet \intersect BootSet = {}
  /\ Main \notin Procs /\ NULL \notin Procs /\ Main # NULL
  /\ Exiting \subseteq Procs
  /\ AllQueues \intersect HeadQueues = {}
  /\ MaxNest \in Nat /\ MaxNest >= 1
  /\ SemMax \in Nat /\ SemMax >= MaxNest + 2

VARIABLES
  cpu,         \* irq_semaphore and the processor's interrupt flag
  curr_proc,
  next_proc,
  ready_queue, \* proc_state.ready_queue
  sleep_curr,  \* proc_state.sleep_curr
  waitq,       \* the ProcessQueue of each driver (ps2_dev.blocked_procs, ata->blocked)
  procs,       \* the allocated Process structures (proc_state.procs)
  created,       \* every process PROC_create_process was called for
  new_proc,    \* local of the PROC_create_process call under way
  tail_seen,   \* the ready queue whose tail that call has read
  pc,          \* where main_proc and each process are in their own code
  depth,       \* IRQ_disable calls the running code has still to undo
  seen,        \* irq_semaphore as read by the IRQ_disable call under way
  trap,        \* how far the INT 123 handler has come
  flags,       \* the interrupt flag in each saved context (Process.rflags)
  frame,       \* the interrupt flag in the handler's return frame
  wild         \* a context was loaded from a freed Process structure

vars == <<cpu, curr_proc, next_proc, ready_queue, sleep_curr, waitq, procs,
          created, new_proc, tail_seen, pc, depth, seen, trap, flags, frame, wild>>

queueVars == <<ready_queue, waitq>>
createVars == <<procs, created, new_proc, tail_seen>>
trapVars == <<trap, flags, frame, wild>>

-----------------------------------------------------------------------------
(* interrupts.c: the nesting counter and the interrupt flag                *)

Inc(n) == IF n = SemMax THEN 0 ELSE n + 1

Dec(n) == IF n = 0 THEN SemMax ELSE n - 1

\* The second half of IRQ_disable, once irq_semaphore has been read as s.
DisableAfter(c, s) ==
  [sem |-> Inc(c.sem), int |-> IF s = 0 THEN FALSE ELSE c.int]

IRQ_disable(c) == DisableAfter(c, c.sem)

\* Variant: sets the flag however deep the nesting.
EnableAtOnce(c) ==
  IF c.sem = 0 THEN c ELSE [sem |-> c.sem - 1, int |-> TRUE]

\* Variant: only counts.
EnableCounts(c) == IF c.sem = 0 THEN c ELSE [c EXCEPT !.sem = @ - 1]

IRQ_enable(c) ==
  IF c.sem = 0 THEN c
  ELSE [sem |-> c.sem - 1, int |-> IF c.sem = 1 THEN TRUE ELSE c.int]

\* A complete section, as in klog or MMU_alloc_stack.
Balanced(c) == IRQ_enable(IRQ_disable(c))

\* Entry of IRQ_generic_isr for a hardware interrupt: an interrupt gate.
IsrEnter(c) == [sem |-> Inc(c.sem), int |-> FALSE]

\* Its last statement, then iretq with interrupt flag f.
IsrLeave(c, f) == [sem |-> Dec(c.sem), int |-> f]

-----------------------------------------------------------------------------
Init ==
  /\ cpu = [sem |-> 0, int |-> TRUE]
  /\ curr_proc = Main
  /\ next_proc = Main
  /\ ready_queue = <<>>
  /\ sleep_curr = FALSE
  /\ waitq = [q \in Queues |-> <<>>]
  /\ procs = {}
  /\ created = {}
  /\ new_proc = NULL
  /\ tail_seen = <<>>
  /\ pc = [p \in Procs \union {Main} |-> IF p \in {Main, Spawner} THEN "spawn" ELSE "run"]
  /\ depth = 0
  /\ seen = 0
  /\ trap = "none"
  /\ flags = [p \in Procs \union {Main} |-> FALSE]
  /\ frame = FALSE
  /\ wild = FALSE

\* p executes its own code: no handler is on top of it.
Running(p) == ~wild /\ trap = "none" /\ curr_proc = p

Goto(p, l) == pc' = [pc EXCEPT ![p] = l]

-----------------------------------------------------------------------------
(* PROC_create_process, called by kmain and by stress_test_proc with       *)
(* interrupts enabled.  LL_append reads the tail of the ready queue and    *)
(* links the new process behind it afterwards: a process that an           *)
(* interrupt appends in between is dropped from the list.  (The error path *)
(* is taken only when the 1 TB of heap addresses is used up.)              *)

\* Variant: kmain creates its processes in any order.
ToCreateAnyOrder(c) ==
  IF c = Main THEN ({Spawner} \union BootSet) \ created ELSE SpawnSet \ created

\* The processes c may create next: kmain starts with stress_test.
ToCreate(c) ==
  IF c = Main
  THEN IF Spawner \notin created THEN {Spawner} ELSE BootSet \ created
  ELSE SpawnSet \ created

CreateBegin(c, p) ==
  /\ Running(c) /\ pc[c] = "spawn" /\ p \in ToCreate(c)
  /\ created' = created \union {p}
  /\ new_proc' = p
  /\ tail_seen' = ready_queue
  /\ cpu' = Balanced(cpu)
  /\ Goto(c, "link")
  /\ UNCHANGED <<curr_proc, next_proc, queueVars, sleep_curr, procs,
                 depth, seen, trapVars>>

CreateEnd(c) ==
  /\ Running(c) /\ pc[c] = "link"
  /\ ready_queue' = Append(tail_seen, new_proc)
  /\ procs' = procs \union {new_proc}
  /\ flags' = [flags EXCEPT ![new_proc] = FALSE]
  /\ cpu' = Balanced(cpu)
  /\ Goto(c, "spawn")
  /\ UNCHANGED <<curr_proc, next_proc, waitq, sleep_curr, created, new_proc,
                 tail_seen, depth, seen, trap, frame, wild>>

CreateDone(c) ==
  /\ Running(c) /\ pc[c] = "spawn" /\ ToCreate(c) = {}
  /\ Goto(c, IF c = Main THEN "idle" ELSE "run")
  /\ UNCHANGED <<cpu, curr_proc, next_proc, queueVars, sleep_curr, createVars,
                 depth, seen, trapVars>>

-----------------------------------------------------------------------------
(* IRQ_disable / IRQ_enable sections of main_proc and of processes         *)

\* IRQ_disable reads irq_semaphore with interrupts still enabled ...
DisableRead(p) ==
  /\ Running(p) /\ pc[p] = IF p = Main THEN "idle" ELSE "run"
  /\ seen' = cpu.sem
  /\ Goto(p, "disable")
  /\ UNCHANGED <<cpu, curr_proc, next_proc, queueVars, sleep_curr, createVars,
                 depth, trapVars>>

\* ... and only then clears the flag and counts.
DisableSet(p) ==
  /\ Running(p) /\ pc[p] = "disable"
  /\ cpu' = DisableAfter(cpu, seen)
  /\ depth' = 1
  /\ Goto(p, IF p = Main THEN "check" ELSE "critical")
  /\ UNCHANGED <<curr_proc, next_proc, queueVars, sleep_curr, createVars, seen, trapVars>>

DisableNested(p) ==
  /\ Running(p) /\ pc[p] = "critical" /\ depth < MaxNest
  /\ cpu' = IRQ_disable(cpu)
  /\ depth' = depth + 1
  /\ UNCHANGED <<curr_proc, next_proc, queueVars, sleep_curr, createVars, pc, seen, trapVars>>

Enable(p) ==
  /\ Running(p) /\ pc[p] = "critical"
  /\ cpu' = IRQ_enable(cpu)
  /\ depth' = depth - 1
  /\ Goto(p, IF depth = 1 THEN "run" ELSE "critical")
  /\ UNCHANGED <<curr_proc, next_proc, queueVars, sleep_curr, createVars, seen, trapVars>>

\* PROC_block_on(q, 1) up to its yield, called inside one IRQ_disable.
PROC_block_on(p, q) ==
  /\ Running(p) /\ pc[p] = "critical" /\ depth = 1
  /\ waitq' = [waitq EXCEPT ![q] = Append(@, curr_proc)]
  /\ sleep_curr' = TRUE
  /\ cpu' = IRQ_enable(cpu)
  /\ depth' = 0
  /\ Goto(p, "blocking")
  /\ UNCHANGED <<curr_proc, next_proc, ready_queue, createVars, seen, trapVars>>

-----------------------------------------------------------------------------
(* INT 123: the trap gate leaves the interrupt flag alone; the handler     *)
(* starts with the read half of PROC_reschedule's IRQ_disable.             *)

Trap ==
  /\ trap' = "resched"
  /\ frame' = cpu.int
  /\ seen' = cpu.sem
  /\ UNCHANGED <<cpu, curr_proc, next_proc, queueVars, sleep_curr, createVars,
                 depth, flags, wild>>

yield(p) ==
  /\ Running(p) /\ p \in Procs /\ pc[p] \in {"run", "blocking"}
  /\ Goto(p, "run")
  /\ Trap

\* process_exit, the return address of every entry point: unlink the process,
\* free its stack and its Process structure.
process_exit(p) ==
  /\ Running(p) /\ p \in Exiting /\ pc[p] = "run"
  /\ procs' = procs \ {p}
  /\ cpu' = Balanced(cpu)
  /\ Goto(p, "freed")
  /\ UNCHANGED <<curr_proc, next_proc, queueVars, sleep_curr, created, new_proc,
                 tail_seen, depth, seen, trapVars>>

\* process_exit: curr_proc = NULL.
ExitDrop(p) ==
  /\ Running(p) /\ pc[p] = "freed"
  /\ curr_proc' = NULL
  /\ Goto(p, "dropped")
  /\ UNCHANGED <<cpu, next_proc, queueVars, sleep_curr, createVars, depth, seen, trapVars>>

\* process_exit: yield(), never to return.
ExitYield ==
  /\ Running(NULL)
  /\ UNCHANGED pc
  /\ Trap

\* Variants: the running process is queued even when it sleeps; it is queued
\* in front.
RequeuedAlways ==
  IF curr_proc # NULL THEN Append(ready_queue, curr_proc) ELSE ready_queue

RequeuedFirst ==
  IF curr_proc # NULL /\ ~sleep_curr THEN <<curr_proc>> \o ready_queue ELSE ready_queue

\* PROC_reschedule: the ready queue after a process that only yields rejoined it.
Requeued ==
  IF curr_proc # NULL /\ ~sleep_curr THEN Append(ready_queue, curr_proc) ELSE ready_queue

\* Variant: sleep_curr is not cleared for the process that is chosen.
SleepKept(chosen) == sleep_curr \/ chosen = Main

\* PROC_reschedule: sleep_curr once a process, or main_proc, is chosen.
SleepAfter(chosen) == chosen = Main

\* PROC_reschedule from the flag-clearing half of IRQ_disable to its end.
PROC_reschedule ==
  /\ ~wild /\ trap = "resched"
  /\ LET chosen == IF Requeued = <<>> THEN Main ELSE Head(Requeued)
         c == DisableAfter(cpu, seen)
     IN /\ next_proc' = chosen
        /\ ready_queue' = IF Requeued = <<>> THEN <<>> ELSE Tail(Requeued)
        /\ sleep_curr' = SleepAfter(chosen)
        /\ cpu' = IF curr_proc = chosen THEN IRQ_enable(c) ELSE c
  /\ trap' = "tail"
  /\ UNCHANGED <<curr_proc, waitq, createVars, pc, depth, seen, flags, frame, wild>>

\* PROC_save_context, called for a curr_proc that still exists: of a context
\* the model keeps the interrupt flag in rflags.
PROC_save_context(f) ==
  IF curr_proc = NULL THEN flags ELSE [flags EXCEPT ![curr_proc] = f]

\* PROC_load_context: the interrupt flag the handler will return with.
PROC_load_context == flags[next_proc]

\* The end of IRQ_generic_isr for the system call: the context switch.
IRQ_generic_isr ==
  /\ ~wild /\ trap = "tail"
  /\ trap' = "iretq"
  /\ IF curr_proc = next_proc
     THEN UNCHANGED <<cpu, curr_proc, flags, frame>>
     ELSE /\ flags' = PROC_save_context(frame)
          /\ frame' = PROC_load_context
          /\ curr_proc' = next_proc
          /\ cpu' = IRQ_enable(cpu)
  /\ UNCHANGED <<next_proc, queueVars, sleep_curr, createVars, pc, depth, seen, wild>>

iretq ==
  /\ ~wild /\ trap = "iretq"
  /\ trap' = "none"
  /\ cpu' = [cpu EXCEPT !.int = frame]
  /\ UNCHANGED <<curr_proc, next_proc, queueVars, sleep_curr, createVars, pc,
                 depth, seen, flags, frame, wild>>

-----------------------------------------------------------------------------
(* main_proc: PROC_run and the hlt that follows it in kmain                *)

MainCheck ==
  /\ Running(Main) /\ pc[Main] = "check"
  /\ sleep_curr' = IF ready_queue = <<>> THEN sleep_curr ELSE TRUE
  /\ Goto(Main, IF ready_queue = <<>> THEN "hlt" ELSE "yield")
  /\ cpu' = IRQ_enable(cpu)
  /\ depth' = 0
  /\ UNCHANGED <<curr_proc, next_proc, queueVars, createVars, seen, trapVars>>

MainYield ==
  /\ Running(Main) /\ pc[Main] = "yield"
  /\ Goto(Main, "idle")
  /\ Trap

hlt ==
  /\ Running(Main) /\ pc[Main] = "hlt"
  /\ Goto(Main, "halted")
  /\ UNCHANGED <<cpu, curr_proc, next_proc, queueVars, sleep_curr, createVars,
                 depth, seen, trapVars>>

-----------------------------------------------------------------------------
(* Hardware interrupts.  The handler runs with the flag clear, so the      *)
(* whole of IRQ_generic_isr is one step; c is the processor state its      *)
(* handler leaves behind.                                                  *)

IsrReturn(c) ==
  /\ pc' = IF pc[Main] = "halted" THEN [pc EXCEPT ![Main] = "idle"] ELSE pc
  /\ IF curr_proc = next_proc
     THEN /\ cpu' = IsrLeave(c, cpu.int)
          /\ UNCHANGED <<curr_proc, flags, wild>>
     ELSE /\ cpu' = IsrLeave(IRQ_enable(c), PROC_load_context)
          /\ flags' = PROC_save_context(cpu.int)
          /\ curr_proc' = next_proc
          /\ wild' = (next_proc \notin procs \union {Main})
  /\ UNCHANGED <<next_proc, sleep_curr, createVars, depth, seen, trap, frame>>

\* Variant: the processes that wake overtake the ready ones.
UnblockAllFirst(q) ==
  /\ ~wild /\ cpu.int
  /\ ready_queue' = waitq[q] \o ready_queue
  /\ waitq' = [waitq EXCEPT ![q] = <<>>]
  /\ IsrReturn(IRQ_enable(IRQ_disable(IsrEnter(cpu))))

\* ps2_isr with a character: PROC_unblock_all.
IsrUnblockAll(q) ==
  /\ ~wild /\ cpu.int
  /\ ready_queue' = ready_queue \o waitq[q]
  /\ waitq' = [waitq EXCEPT ![q] = <<>>]
  /\ IsrReturn(IRQ_enable(IRQ_disable(IsrEnter(cpu))))

\* Variant: the process is made ready but stays on the wait queue.
UnblockHeadKept(q) ==
  /\ ~wild /\ cpu.int /\ waitq[q] # <<>>
  /\ ready_queue' = Append(ready_queue, Head(waitq[q]))
  /\ UNCHANGED waitq
  /\ IsrReturn(IRQ_enable(IRQ_disable(IsrEnter(cpu))))

\* ata_isr with data: PROC_unblock_head.
IsrUnblockHead(q) ==
  /\ ~wild /\ cpu.int
  /\ IF waitq[q] = <<>>
     THEN /\ UNCHANGED queueVars
          /\ IsrReturn(IsrEnter(cpu))
     ELSE /\ ready_queue' = Append(ready_queue, Head(waitq[q]))
          /\ waitq' = [waitq EXCEPT ![q] = Tail(@)]
          /\ IsrReturn(IRQ_enable(IRQ_disable(IsrEnter(cpu))))

\* Any handler that wakes no process (x86_serial_isr, a shift key, ...).
IsrOther ==
  /\ ~wild /\ cpu.int
  /\ UNCHANGED queueVars
  /\ IsrReturn(IsrEnter(cpu))

Isr ==
  \/ \E q \in AllQueues : IsrUnblockAll(q)
  \/ \E q \in HeadQueues : IsrUnblockHead(q)
  \/ IsrOther

-----------------------------------------------------------------------------
Creating == \E c \in {Main, Spawner} :
  \/ \E p \in Procs : CreateBegin(c, p)
  \/ CreateEnd(c)
  \/ CreateDone(c)

Handler == PROC_reschedule \/ IRQ_generic_isr \/ iretq

MainStep == MainCheck \/ MainYield \/ hlt

\* The steps with which a process gives the processor up.
GiveUp(p) == yield(p) \/ process_exit(p) \/ \E q \in Queues : PROC_block_on(p, q)

Section(p) == DisableRead(p) \/ DisableSet(p) \/ Enable(p)

Next ==
  \/ Creating
  \/ \E p \in Procs \union {Main} : Section(p) \/ DisableNested(p)
  \/ \E p \in Procs : GiveUp(p) \/ ExitDrop(p)
  \/ ExitYield
  \/ Handler
  \/ MainStep
  \/ Isr

\* The processor keeps executing, and no process keeps it for ever: every
\* process body of src/src/procs/ yields, blocks or returns again and again.
Fairness ==
  /\ WF_vars(Creating) /\ WF_vars(Handler) /\ WF_vars(MainStep) /\ WF_vars(ExitYield)
  /\ WF_vars(Section(Main))
  /\ \A p \in Procs : WF_vars(Section(p) \/ ExitDrop(p)) /\ SF_vars(GiveUp(p))

Spec == Init /\ [][Next]_vars

FairSpec == Spec /\ Fairness
-----------------------------------------------------------------------------
Pcs == {"spawn", "link", "run", "disable", "critical", "blocking", "freed", "dropped",
        "idle", "check", "yield", "hlt", "halted"}

\* The types of the state: what main_proc, the processes and the interrupt
\* code of proc.c and interrupts.c can hold at all.
TypeOK ==
  /\ cpu \in [sem : 0..SemMax, int : BOOLEAN]
  /\ curr_proc \in Procs \union {Main, NULL}
  /\ next_proc \in Procs \union {Main}
  /\ ready_queue \in Seq(Procs)
  /\ sleep_curr \in BOOLEAN
  /\ waitq \in [Queues -> Seq(Procs)]
  /\ procs \subseteq Procs /\ created \subseteq Procs
  /\ new_proc \in Procs \union {NULL}
  /\ tail_seen \in Seq(Procs)
  /\ pc \in [Procs \union {Main} -> Pcs]
  /\ depth \in 0..MaxNest
  /\ seen \in 0..SemMax
  /\ trap \in {"none", "resched", "tail", "iretq"}
  /\ flags \in [Procs \union {Main} -> BOOLEAN]
  /\ frame \in BOOLEAN
  /\ wild \in BOOLEAN

\* irq_semaphore is exactly the number of IRQ_disable calls still to be
\* undone by the running code, the one PROC_reschedule leaves to the context
\* switch included, and while there is one no interrupt can arrive:
\* IRQ_disable protects, whichever process or handler called it, although
\* the counter is global and read before the flag is cleared.
IrqDiscipline ==
  ~wild =>
    /\ cpu.sem = depth + (IF trap = "tail" /\ curr_proc # next_proc THEN 1 ELSE 0)
    /\ cpu.sem > 0 => ~cpu.int

InSomeQueue(p) == p \in Range(ready_queue) \/ \E q \in Queues : p \in Range(waitq[q])

\* A Process has one list header for all queues (Process.queue), so it must
\* never be linked twice: every queue is free of repetitions, the queues are
\* disjoint and hold only allocated processes.
LinkedOnce ==
  /\ IsInjective(ready_queue) /\ \A q \in Queues : IsInjective(waitq[q])
  /\ \A q \in Queues : Range(ready_queue) \intersect Range(waitq[q]) = {}
  /\ \A q, r \in Queues : q # r => Range(waitq[q]) \intersect Range(waitq[r]) = {}
  /\ \A p \in Procs : InSomeQueue(p) => p \in procs

\* No process is lost: an allocated process is the one the processor runs or
\* is on a queue from which it will be taken, and the one that runs is on no
\* queue unless it is on its way to sleep (PROC_block_on), even when the
\* interrupt that wakes it arrives before its yield.
NoProcessLost ==
  /\ \A p \in procs : p = next_proc \/ InSomeQueue(p)
  /\ InSomeQueue(next_proc) => sleep_curr

\* PROC_create_process links into the ready queue with interrupts enabled;
\* that is safe because kmain and stress_test_proc create processes before
\* any process waits for an interrupt.
CreateUndisturbed ==
  \A c \in {Main, Spawner} :
    Running(c) /\ pc[c] = "link" => \A q \in Queues : waitq[q] = <<>>

\* If the processor never stays halted for ever, a process on the ready queue
\* gets it.  Without that premise it need not: an interrupt between the end of
\* PROC_run and hlt leaves the process it woke waiting for the next one.
ReadyRuns ==
  []<>(pc[Main] # "halted") =>
    \A p \in Procs : p \in Range(ready_queue) ~> (curr_proc = p \/ wild)

\* A process resumes behind PROC_block_on only after the interrupt handler
\* took it off the wait queue: the processor never returns to a process that
\* is still queued anywhere.
ResumedOnlyWhenWoken ==
  trap = "iretq" /\ ~wild => ~InSomeQueue(curr_proc)

\* "Interrupts are disabled when a context shift is requested"
\* (interrupts.c:153): whenever curr_proc and next_proc differ, so that the
\* next IRQ_generic_isr to finish switches contexts, no interrupt can arrive.
ShiftRequestedMasked == curr_proc # next_proc => ~cpu.int

\* Interrupts never stay off for ever.  A process that runs for the first time
\* starts with them off, because PROC_create_process clears its rflags and
\* iretq loads them, in spite of the IRQ_enable before it; the end of its first
\* IRQ_disable section or its next yield turns them on again.
InterruptsReturn == ~cpu.int ~> (cpu.int \/ wild)

-----------------------------------------------------------------------------
\* The scheduler as its clients see it: the process chosen by the last
\* PROC_reschedule runs until it has queued itself (sleep_curr) or freed itself.
D == INSTANCE Dispatcher WITH
       NONE <- NULL,
       running <- IF next_proc \in Procs /\ (sleep_curr \/ next_proc \notin procs)
                  THEN NULL ELSE next_proc,
       runq <- ready_queue,
       waiting <- waitq,
       alive <- procs

\* proc.c and interrupts.c implement the first-come first-served scheduler of
\* Dispatcher, whatever the interrupts do to the hand-over between contexts.
ImplementsDispatcher == D!Spec
=============================================================================
