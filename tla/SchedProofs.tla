---------------------------- MODULE SchedProofs ----------------------------
(***************************************************************************)
(* Proofs about Sched for any number of processes and queues, any nesting  *)
(* bound and any width of irq_semaphore: the interrupt discipline, the     *)
(* queues, and that Sched implements Dispatcher.                           *)
(***************************************************************************)
EXTENDS Sched, CommonLemmas

-----------------------------------------------------------------------------
(* The inductive invariant of the interrupt discipline                     *)

\* Control points at which the code holds an IRQ_disable section open.
Held == {"critical", "check"}

\* How the nesting depth, the handler and the two process pointers go
\* together while no context has been loaded from freed memory.
Control ==
  /\ trap # "none" => depth = 0
  /\ depth > 0 <=> trap = "none" /\ curr_proc # NULL /\ pc[curr_proc] \in Held
  /\ curr_proc # NULL /\ pc[curr_proc] = "check" => depth <= 1
  /\ curr_proc # next_proc => trap = "tail" \/ curr_proc = NULL
  /\ curr_proc = NULL => trap # "iretq"
  /\ curr_proc = NULL /\ trap # "tail" => next_proc \notin procs \union {Main}
  /\ \A p \in Procs \union {Main} :
       pc[p] \in Held \union {"disable", "freed", "yield"} => trap = "none" /\ curr_proc = p
  /\ \A p \in Procs : pc[p] = "freed" => p \notin procs
  /\ pc[Main] # "freed"

\* irq_semaphore has been read as 0 wherever IRQ_disable has read it.
SeenZero ==
  /\ trap = "resched" => seen = 0
  /\ \A p \in Procs \union {Main} : pc[p] = "disable" => seen = 0

\* main_proc yields only as a sleeper, so it never enters the ready queue.
MainSleeps ==
  /\ pc[Main] = "yield" => sleep_curr
  /\ trap = "resched" /\ curr_proc = Main => sleep_curr

\* A PROC_create_process call under way has a process to link.
Linking == \A c \in {Main, Spawner} : pc[c] = "link" => new_proc \in Procs

IrqInv ==
  /\ TypeOK
  /\ IrqDiscipline
  /\ ~wild => Control /\ SeenZero /\ MainSleeps /\ Linking

Cpu == [sem : 0..SemMax, int : BOOLEAN]

Masked == [sem |-> 1, int |-> FALSE]

\* What IRQ_disable, IRQ_enable and the interrupt entry code compute when the
\* counter is where the invariant says it is.
LEMMA IrqOperators ==
  ASSUME NEW c \in Cpu, NEW f \in BOOLEAN
  PROVE  /\ c.sem = 0 => /\ DisableAfter(c, 0) = Masked
                         /\ Balanced(c) = [sem |-> 0, int |-> TRUE]
                         /\ IsrEnter(c) = Masked
         /\ c.sem > 0 /\ c.sem < SemMax => IRQ_disable(c) = [sem |-> c.sem + 1, int |-> c.int]
         /\ c.sem = 1 => IRQ_enable(c) = [sem |-> 0, int |-> TRUE]
         /\ c.sem > 1 => IRQ_enable(c) = [sem |-> c.sem - 1, int |-> c.int]
         /\ IRQ_enable(IRQ_disable(Masked)) = Masked
         /\ IRQ_enable(Masked) = [sem |-> 0, int |-> TRUE]
         /\ IsrLeave(Masked, f) = [sem |-> 0, int |-> f]
         /\ IsrLeave(IRQ_enable(Masked), f) = [sem |-> SemMax, int |-> f]
<1> USE DEF Masked, DisableAfter, IRQ_disable, IRQ_enable
<1>a. /\ Inc(0) = 1 /\ Inc(1) = 2 /\ Dec(1) = 0 /\ Dec(0) = SemMax
      /\ 0 # 1 /\ 2 # 0 /\ 2 # 1 /\ 2 - 1 = 1 /\ 1 - 1 = 0
  BY SchedAssumption DEF Inc, Dec
<1>b. c.sem \in 0..SemMax
  BY Zenon DEF Cpu
<1>1. c.sem = 0 => DisableAfter(c, 0) = Masked
  BY <1>a, ZenonT(60)
<1>2. c.sem = 0 => Balanced(c) = [sem |-> 0, int |-> TRUE]
  <2>1. c.sem = 0 => IRQ_disable(c) = Masked
    BY <1>1, ZenonT(60)
  <2> QED
    BY <1>a, <2>1, ZenonT(60) DEF Balanced
<1>3. c.sem = 0 => IsrEnter(c) = Masked
  BY <1>a, ZenonT(60) DEF IsrEnter
<1>4. c.sem > 0 /\ c.sem < SemMax => IRQ_disable(c) = [sem |-> c.sem + 1, int |-> c.int]
  <2>1. c.sem > 0 /\ c.sem < SemMax => c.sem # 0 /\ Inc(c.sem) = c.sem + 1
    BY <1>b, SchedAssumption DEF Inc
  <2> QED
    BY <2>1, ZenonT(60)
<1>5. c.sem = 1 => IRQ_enable(c) = [sem |-> 0, int |-> TRUE]
  BY <1>a, ZenonT(60)
<1>6. c.sem > 1 => IRQ_enable(c) = [sem |-> c.sem - 1, int |-> c.int]
  <2>1. c.sem > 1 => c.sem # 0 /\ c.sem # 1
    BY <1>b, SchedAssumption
  <2> QED
    BY <2>1, ZenonT(60)
<1>7. IRQ_enable(IRQ_disable(Masked)) = Masked
  <2>1. IRQ_disable(Masked) = [sem |-> 2, int |-> FALSE]
    BY <1>a, ZenonT(60)
  <2> QED
    BY <1>a, <2>1, ZenonT(60)
<1>8. IRQ_enable(Masked) = [sem |-> 0, int |-> TRUE]
  BY <1>a, ZenonT(60)
<1>9. IsrLeave(Masked, f) = [sem |-> 0, int |-> f]
  BY <1>a, ZenonT(60) DEF IsrLeave
<1>10. IsrLeave(IRQ_enable(Masked), f) = [sem |-> SemMax, int |-> f]
  BY <1>a, <1>8, ZenonT(60) DEF IsrLeave
<1> QED
  BY <1>1, <1>2, <1>3, <1>4, <1>5, <1>6, <1>7, <1>8, <1>9, <1>10, Zenon

\* The invariant of IRQ_handler and the PIC holds at boot.
LEMMA IrqInit == Init => IrqInv
<1> SUFFICES ASSUME Init PROVE IrqInv
  BY Zenon
<1> USE SchedAssumption DEF Init
<1>1. TypeOK
  <2>1. cpu \in Cpu
    <3>1. 0 \in 0..SemMax
      OBVIOUS
    <3> QED
      BY <3>1, ZenonT(60) DEF Cpu
  <2>2. flags \in [Procs \union {Main} -> BOOLEAN]
    BY ZenonT(60)
  <2>3. pc \in [Procs \union {Main} -> Pcs]
    BY Zenon DEF Pcs
  <2>4. ready_queue \in Seq(Procs) /\ tail_seen \in Seq(Procs) /\ waitq \in [Queues -> Seq(Procs)]
    OBVIOUS
  <2>5. /\ curr_proc \in Procs \union {Main, NULL} /\ next_proc \in Procs \union {Main}
        /\ procs \subseteq Procs /\ created \subseteq Procs /\ new_proc \in Procs \union {NULL}
        /\ trap \in {"none", "resched", "tail", "iretq"}
        /\ sleep_curr \in BOOLEAN /\ frame \in BOOLEAN /\ wild \in BOOLEAN
    BY ZenonT(60)
  <2>6. depth \in 0..MaxNest /\ seen \in 0..SemMax
    OBVIOUS
  <2> QED
    BY <2>1, <2>2, <2>3, <2>4, <2>5, <2>6, ZenonT(60) DEF TypeOK, Cpu
<1>2. IrqDiscipline
  BY DEF IrqDiscipline
<1>3. Control /\ SeenZero /\ MainSleeps /\ Linking
  BY SMTT(30) DEF Control, SeenZero, MainSleeps, Linking, Held, Procs
<1> QED
  BY <1>1, <1>2, <1>3, Zenon DEF IrqInv

\* A hardware interrupt whose handler leaves the counter at 1 preserves the
\* invariant, provided the queues keep their types.
LEMMA IsrKeepsInv ==
  ASSUME IrqInv, ~wild, cpu.int, NEW c, c = Masked, IsrReturn(c),
         ready_queue' \in Seq(Procs), waitq' \in [Queues -> Seq(Procs)]
  PROVE  IrqInv'
<1> USE SchedAssumption DEF IrqInv, TypeOK, IrqDiscipline, Control, SeenZero, MainSleeps,
        Linking, Held, Pcs, IsrReturn, createVars,
        PROC_save_context, PROC_load_context
<1>1. cpu.sem = 0 /\ cpu.int = TRUE
  OBVIOUS
<1>2. CASE curr_proc = next_proc
  <2>1. cpu' = [sem |-> 0, int |-> TRUE]
    BY <1>1, <1>2, IrqOperators, ZenonT(60) DEF Cpu
  <2> QED
    BY <1>1, <1>2, <2>1
<1>3. CASE curr_proc # next_proc
  <2>1. wild'
    BY <1>1, <1>3
  <2>2. flags[next_proc] \in BOOLEAN
    BY Zenon
  <2>3. cpu' = [sem |-> SemMax, int |-> flags[next_proc]]
    BY <1>1, <1>3, <2>2, IrqOperators, Zenon DEF Cpu
  <2> QED
    BY <1>1, <1>3, <2>1, <2>2, <2>3
<1> QED
  BY <1>2, <1>3, Zenon

\* Every step keeps it.
LEMMA IrqNext == IrqInv /\ [Next]_vars => IrqInv'
<1> SUFFICES ASSUME IrqInv, [Next]_vars PROVE IrqInv'
  BY Zenon
<1> USE SchedAssumption DEF IrqInv, TypeOK, IrqDiscipline, Control, SeenZero, MainSleeps,
        Linking, Held, Pcs, Running, Goto, queueVars, createVars, trapVars
<1>1. CASE UNCHANGED vars
  BY <1>1, SMTT(30) DEF vars
<1>2. ASSUME NEW c \in {Main, Spawner}, NEW p \in Procs, CreateBegin(c, p) PROVE IrqInv'
  <2>1. cpu.sem = 0 /\ cpu' = [sem |-> 0, int |-> TRUE]
    BY <1>2, IrqOperators DEF CreateBegin, Cpu
  <2> QED
    BY <1>2, <2>1 DEF CreateBegin, Procs
<1>3. ASSUME NEW c \in {Main, Spawner}, CreateEnd(c) PROVE IrqInv'
  <2>1. cpu.sem = 0 /\ cpu' = [sem |-> 0, int |-> TRUE]
    BY <1>3, IrqOperators DEF CreateEnd, Cpu
  <2> QED
    BY <1>3, <2>1 DEF CreateEnd, Procs
<1>4. ASSUME NEW c \in {Main, Spawner}, CreateDone(c) PROVE IrqInv'
  BY <1>4 DEF CreateDone, Procs
<1>5. ASSUME NEW p \in Procs \union {Main}, DisableRead(p) PROVE IrqInv'
  BY <1>5 DEF DisableRead
<1>6. ASSUME NEW p \in Procs \union {Main}, DisableSet(p) PROVE IrqInv'
  <2>1. cpu' = Masked
    BY <1>6, IrqOperators DEF DisableSet, Cpu
  <2> QED
    BY <1>6, <2>1 DEF DisableSet, Masked
<1>7. ASSUME NEW p \in Procs \union {Main}, DisableNested(p) PROVE IrqInv'
  <2>1. cpu' = [sem |-> cpu.sem + 1, int |-> cpu.int]
    BY <1>7, IrqOperators, SMTT(30) DEF DisableNested, Cpu
  <2> QED
    BY <1>7, <2>1 DEF DisableNested
<1>8. ASSUME NEW p \in Procs \union {Main}, Enable(p) PROVE IrqInv'
  <2>1. CASE depth = 1
    <3>1. cpu' = [sem |-> 0, int |-> TRUE]
      BY <1>8, <2>1, IrqOperators DEF Enable, Cpu
    <3> QED
      BY <1>8, <2>1, <3>1 DEF Enable
  <2>2. CASE depth # 1
    <3>1. cpu' = [sem |-> cpu.sem - 1, int |-> cpu.int]
      BY <1>8, <2>2, IrqOperators DEF Enable, Cpu
    <3> QED
      BY <1>8, <2>2, <3>1 DEF Enable
  <2> QED
    BY <2>1, <2>2, Zenon
<1>9. ASSUME NEW p \in Procs, yield(p) PROVE IrqInv'
  BY <1>9 DEF yield, Trap
<1>10. ASSUME NEW p \in Procs, process_exit(p) PROVE IrqInv'
  <2>1. cpu' = [sem |-> 0, int |-> TRUE]
    BY <1>10, IrqOperators, SMTT(30) DEF process_exit, Cpu
  <2> QED
    BY <1>10, <2>1 DEF process_exit
<1>11. ASSUME NEW p \in Procs, NEW q \in Queues, PROC_block_on(p, q) PROVE IrqInv'
  BY <1>11 DEF PROC_block_on, IRQ_enable, Queues
<1>12. ASSUME NEW p \in Procs, ExitDrop(p) PROVE IrqInv'
  BY <1>12, SMTT(30) DEF ExitDrop
<1>13. CASE ExitYield
  BY <1>13, SMTT(30) DEF ExitYield, Trap
<1>14. CASE PROC_reschedule
  BY <1>14, SMTT(30) DEF PROC_reschedule, Requeued, SleepAfter, DisableAfter, IRQ_enable, Inc
<1>15. CASE IRQ_generic_isr
  <2>1. CASE curr_proc = next_proc
    BY <1>15, <2>1, SMTT(30) DEF IRQ_generic_isr, PROC_save_context, PROC_load_context
  <2>2. CASE curr_proc # next_proc
    <3>1. cpu' = [sem |-> 0, int |-> TRUE]
      BY <1>15, <2>2, IrqOperators
         DEF IRQ_generic_isr, PROC_save_context, PROC_load_context, Cpu
    <3> QED
      BY <1>15, <2>2, <3>1, SMTT(30)
         DEF IRQ_generic_isr, PROC_save_context, PROC_load_context
  <2> QED
    BY <2>1, <2>2, Zenon
<1>16. CASE iretq
  BY <1>16, SMTT(30) DEF iretq
<1>17. CASE MainCheck
  <2>1. cpu' = [sem |-> 0, int |-> TRUE]
    BY <1>17, IrqOperators DEF MainCheck, Cpu
  <2>2. /\ curr_proc = Main /\ trap = "none" /\ ~wild /\ depth' = 0
        /\ UNCHANGED <<curr_proc, next_proc, queueVars, createVars, seen, trapVars>>
    BY <1>17, ZenonT(60) DEF MainCheck
  <2>3. CASE ready_queue = <<>>
    <3>1. sleep_curr' = sleep_curr /\ pc' = [pc EXCEPT ![Main] = "hlt"]
      BY <1>17, <2>3, ZenonT(60) DEF MainCheck
    <3> QED
      BY <2>1, <2>2, <3>1
  <2>4. CASE ready_queue # <<>>
    <3>1. sleep_curr' = TRUE /\ pc' = [pc EXCEPT ![Main] = "yield"]
      BY <1>17, <2>4, ZenonT(60) DEF MainCheck
    <3> QED
      BY <2>1, <2>2, <3>1
  <2> QED
    BY <2>3, <2>4, ZenonT(60)
<1>18. CASE MainYield
  BY <1>18 DEF MainYield, Trap
<1>19. CASE hlt
  BY <1>19, SMTT(30) DEF hlt
<1>20. ASSUME NEW q \in AllQueues, IsrUnblockAll(q) PROVE IrqInv'
  <2>1. cpu.sem = 0 /\ IRQ_enable(IRQ_disable(IsrEnter(cpu))) = Masked
    BY <1>20, IrqOperators, SMTT(30) DEF IsrUnblockAll, Cpu
  <2>2. ready_queue' \in Seq(Procs) /\ waitq' \in [Queues -> Seq(Procs)]
    BY <1>20 DEF IsrUnblockAll, Queues
  <2>3. ~wild /\ cpu.int /\ IsrReturn(Masked)
    BY <1>20, <2>1, Zenon DEF IsrUnblockAll
  <2> QED
    BY <2>2, <2>3, IsrKeepsInv, ZenonT(60)
<1>21. ASSUME NEW q \in HeadQueues, IsrUnblockHead(q) PROVE IrqInv'
  <2>1. cpu.sem = 0 /\ IsrEnter(cpu) = Masked /\ IRQ_enable(IRQ_disable(IsrEnter(cpu))) = Masked
    BY <1>21, IrqOperators, SMTT(30) DEF IsrUnblockHead, Cpu
  <2>2. ready_queue' \in Seq(Procs) /\ waitq' \in [Queues -> Seq(Procs)]
    <3>1. CASE waitq[q] = <<>>
      BY <1>21, <3>1, ZenonT(60) DEF IsrUnblockHead
    <3>2. CASE waitq[q] # <<>>
      <4>1. waitq[q] \in Seq(Procs)
        BY Zenon DEF Queues
      <4>2. Head(waitq[q]) \in Procs /\ Tail(waitq[q]) \in Seq(Procs)
        BY <3>2, <4>1, SeqHeadTail, ZenonT(60)
      <4>3. /\ ready_queue' = Append(ready_queue, Head(waitq[q]))
            /\ waitq' = [waitq EXCEPT ![q] = Tail(waitq[q])]
        BY <1>21, <3>2, ZenonT(60) DEF IsrUnblockHead
      <4>4. ready_queue' \in Seq(Procs)
        BY <4>2, <4>3, SeqAppend, Zenon
      <4>5. waitq' \in [Queues -> Seq(Procs)]
        BY <4>2, <4>3, ZenonT(60)
      <4> QED
        BY <4>4, <4>5, ZenonT(60)
    <3> QED
      BY <3>1, <3>2, ZenonT(60)
  <2>3. ~wild /\ cpu.int /\ IsrReturn(Masked)
    BY <1>21, <2>1, ZenonT(60) DEF IsrUnblockHead
  <2> QED
    BY <2>2, <2>3, IsrKeepsInv, ZenonT(60)
<1>22. CASE IsrOther
  <2>1. cpu.sem = 0 /\ IsrEnter(cpu) = Masked
    BY <1>22, IrqOperators DEF IsrOther, Cpu
  <2>2. ready_queue' \in Seq(Procs) /\ waitq' \in [Queues -> Seq(Procs)]
    BY <1>22, Zenon DEF IsrOther
  <2>3. ~wild /\ cpu.int /\ IsrReturn(Masked)
    BY <1>22, <2>1, Zenon DEF IsrOther
  <2> QED
    BY <2>2, <2>3, IsrKeepsInv, ZenonT(60)
<1>23. QED
  BY <1>1, <1>2, <1>3, <1>4, <1>5, <1>6, <1>7, <1>8, <1>9, <1>10, <1>11, <1>12, <1>13, <1>14, <1>15, <1>16, <1>17, <1>18, <1>19, <1>20, <1>21, <1>22, ZenonT(60) DEF Next, Creating, Section, GiveUp, Handler, MainStep, Isr

\* Interrupt discipline and types: the section nesting of interrupts.c is
\* exact and effective in every reachable state, for any number of processes.
THEOREM IrqSafety == Spec => [](TypeOK /\ IrqDiscipline)
<1>1. IrqInv => TypeOK /\ IrqDiscipline
  BY Zenon DEF IrqInv
<1> QED
  BY <1>1, IrqInit, IrqNext, PTL DEF Spec

-----------------------------------------------------------------------------
(* The inductive invariant of the queues                                   *)

\* sleep_curr says of the process that runs that it has queued itself and is
\* on its way to PROC_reschedule; a process that runs is allocated until
\* process_exit has freed it.
Runner ==
  /\ next_proc \in Procs /\ sleep_curr =>
       /\ InSomeQueue(next_proc)
       /\ trap = "resched" \/ (trap = "none" /\ pc[next_proc] = "blocking")
  /\ next_proc \in Procs /\ next_proc \notin procs =>
       /\ trap \in {"none", "resched"}
       /\ curr_proc = NULL \/ pc[next_proc] = "freed"

\* Until the first process has created its children nothing else has run, so
\* nothing waits.  This is where the order of creation in kmain matters.
SpawnPhase == pc[Spawner] \in {"spawn", "link"}

BootPhase == pc[Main] \in {"spawn", "link"}

Spawning ==
  /\ BootPhase => /\ pc[Spawner] = "spawn"
                  /\ curr_proc = Main /\ next_proc = Main /\ trap = "none"
  /\ SpawnPhase => /\ \A q \in Queues : waitq[q] = <<>>
                   /\ curr_proc \in {Main, Spawner} /\ next_proc \in {Main, Spawner}
                   /\ trap = "resched" => curr_proc = Main
  /\ SpawnPhase /\ next_proc = Main /\ Spawner \in procs =>
       ready_queue # <<>> /\ Head(ready_queue) = Spawner
  /\ SpawnPhase /\ Spawner \notin procs => ready_queue = <<>>
  /\ Spawner \notin created => created = {}
  /\ pc[Main] = "spawn" /\ Spawner \in created => Spawner \in procs
  /\ pc[Main] = "link" => new_proc = Spawner \/ Spawner \in procs
  /\ pc[Spawner] = "link" => curr_proc = Spawner /\ trap = "none"
  /\ \A c \in {Main, Spawner} : pc[c] = "link" =>
       tail_seen = ready_queue /\ new_proc \notin procs /\ new_proc \in created

QueueInv ==
  /\ LinkedOnce
  /\ NoProcessLost
  /\ procs \subseteq created
  /\ ~wild => Runner /\ Spawning

\* The run queue and the wait queues start empty.
LEMMA QueueInit == Init => QueueInv
<1> SUFFICES ASSUME Init PROVE QueueInv
  OBVIOUS
<1>1. \A p : ~InSomeQueue(p)
  BY EmptyQueueLemma, Zenon DEF Init, InSomeQueue
<1>2. LinkedOnce
  BY <1>1, EmptyQueueLemma, Zenon DEF Init, LinkedOnce
<1>3. NoProcessLost /\ procs \subseteq created
  BY <1>1, Zenon DEF Init, NoProcessLost
<1>4. Runner /\ Spawning
  BY <1>1, SchedAssumption, Zenon DEF Init, Runner, Spawning, SpawnPhase, BootPhase, Procs
<1> QED
  BY <1>2, <1>3, <1>4, Zenon DEF QueueInv

\* Steps that leave the queues, next_proc and sleep_curr alone.
LEMMA QueuesUntouched ==
  ASSUME LinkedOnce, NoProcessLost,
         UNCHANGED <<ready_queue, waitq, procs, next_proc, sleep_curr>>
  PROVE  /\ LinkedOnce' /\ NoProcessLost'
         /\ \A p : InSomeQueue(p)' <=> InSomeQueue(p)
BY Zenon DEF LinkedOnce, NoProcessLost, InSomeQueue

\* A hardware interrupt moves no program counter but that of a halted
\* main_proc, and switches contexts only into freed memory.
LEMMA IsrKeepsPc ==
  ASSUME IrqInv, ~wild, cpu.int, NEW c, IsrReturn(c), ~wild'
  PROVE  /\ \A p \in Procs : pc'[p] = pc[p]
         /\ pc'[Main] = pc[Main] \/ (pc[Main] = "halted" /\ pc'[Main] = "idle")
         /\ UNCHANGED <<trap, curr_proc, next_proc, procs, sleep_curr, created, new_proc,
                        tail_seen>>
<1> USE SchedAssumption
<1>1. /\ \A p \in Procs : pc'[p] = pc[p]
      /\ pc'[Main] = pc[Main] \/ (pc[Main] = "halted" /\ pc'[Main] = "idle")
      /\ UNCHANGED <<trap, next_proc, procs, sleep_curr, created, new_proc, tail_seen>>
  BY Zenon DEF IsrReturn, IrqInv, TypeOK, createVars
<1>2. trap = "tail" => curr_proc = next_proc
  BY DEF IrqInv, TypeOK, IrqDiscipline
<1>3. curr_proc # next_proc => next_proc \notin procs \union {Main}
  BY <1>2, Zenon DEF IrqInv, Control
<1>4. curr_proc' = curr_proc
  BY <1>3, ZenonT(60) DEF IsrReturn
<1> QED
  BY <1>1, <1>4, Zenon

\* A hardware interrupt that only moves processes between queues keeps Runner.
LEMMA RunnerKept ==
  ASSUME Runner,
         \A p \in Procs : pc'[p] = pc[p],
         UNCHANGED <<trap, curr_proc, next_proc, procs, sleep_curr>>,
         \A p : InSomeQueue(p)' <=> InSomeQueue(p)
  PROVE  Runner'
<1>1. next_proc' \in Procs => pc'[next_proc'] = pc[next_proc]
  BY Zenon
<1>2. InSomeQueue(next_proc)' <=> InSomeQueue(next_proc)
  BY Zenon
<1> QED
  BY <1>1, <1>2, Zenon DEF Runner

\* Every step keeps QueueInv.
LEMMA QueueNext == IrqInv /\ IrqInv' /\ QueueInv /\ [Next]_vars => QueueInv'
<1>a. SUFFICES ASSUME IrqInv, IrqInv', QueueInv, [Next]_vars PROVE QueueInv'
  BY Zenon
<1> IrqInv /\ QueueInv
  BY <1>a, Zenon
<1> USE SchedAssumption DEF QueueInv
<1>1. CASE UNCHANGED vars
  <2>1. LinkedOnce' /\ NoProcessLost' /\ \A p : InSomeQueue(p)' <=> InSomeQueue(p)
    BY <1>1, QueuesUntouched, Zenon DEF vars
  <2> QED
    BY <1>1, <2>1, Zenon DEF vars, Runner, Spawning, SpawnPhase, BootPhase
<1>2. ASSUME NEW c \in {Main, Spawner}, NEW p \in Procs, CreateBegin(c, p) PROVE QueueInv'
  <2> USE DEF CreateBegin, ToCreate, Running, Goto, queueVars, createVars, trapVars
  <2>1. LinkedOnce' /\ NoProcessLost' /\ \A r : InSomeQueue(r)' <=> InSomeQueue(r)
    BY <1>2, QueuesUntouched, Zenon
  <2>2. (procs \subseteq created)'
    BY <1>2, ZenonT(60)
  <2>3. ~wild' => Runner'
    BY <1>2, <2>1, ZenonT(60) DEF IrqInv, TypeOK, Control, Held, Runner
  <2>4. ~wild' => Spawning'
    BY <1>2, Zenon DEF IrqInv, TypeOK, Control, Held, Runner, Spawning, SpawnPhase, BootPhase, Procs
  <2> QED
    BY <2>1, <2>2, <2>3, <2>4, Zenon
<1>3. ASSUME NEW c \in {Main, Spawner}, CreateDone(c) PROVE QueueInv'
  <2> USE DEF CreateDone, ToCreate, Running, Goto, queueVars, createVars, trapVars
  <2>1. LinkedOnce' /\ NoProcessLost' /\ \A r : InSomeQueue(r)' <=> InSomeQueue(r)
    BY <1>3, QueuesUntouched, Zenon
  <2>2. (procs \subseteq created)'
    BY <1>3, ZenonT(60)
  <2>3. ~wild' => Runner'
    BY <1>3, <2>1, ZenonT(60) DEF IrqInv, TypeOK, Control, Held, Runner
  <2>4. ~wild' => Spawning'
    BY <1>3, Zenon DEF IrqInv, TypeOK, Control, Held, Runner, Spawning, SpawnPhase, BootPhase, Procs
  <2> QED
    BY <2>1, <2>2, <2>3, <2>4, Zenon
<1>4. ASSUME NEW p \in Procs \union {Main}, DisableRead(p) PROVE QueueInv'
  <2> USE DEF DisableRead, Running, Goto, queueVars, createVars, trapVars
  <2>1. LinkedOnce' /\ NoProcessLost' /\ \A r : InSomeQueue(r)' <=> InSomeQueue(r)
    BY <1>4, QueuesUntouched, Zenon
  <2>2. (procs \subseteq created)'
    BY <1>4, ZenonT(60)
  <2>3. ~wild' => Runner'
    BY <1>4, <2>1, ZenonT(60) DEF IrqInv, TypeOK, Control, Held, Runner
  <2>4. ~wild' => Spawning'
    BY <1>4, Zenon DEF IrqInv, TypeOK, Control, Held, Runner, Spawning, SpawnPhase, BootPhase, Procs
  <2> QED
    BY <2>1, <2>2, <2>3, <2>4, Zenon
<1>5. ASSUME NEW p \in Procs \union {Main}, DisableSet(p) PROVE QueueInv'
  <2> USE DEF DisableSet, Running, Goto, queueVars, createVars, trapVars
  <2>1. LinkedOnce' /\ NoProcessLost' /\ \A r : InSomeQueue(r)' <=> InSomeQueue(r)
    BY <1>5, QueuesUntouched, Zenon
  <2>2. (procs \subseteq created)'
    BY <1>5, ZenonT(60)
  <2>3. ~wild' => Runner'
    BY <1>5, <2>1, ZenonT(60) DEF IrqInv, TypeOK, Control, Held, Runner
  <2>4. ~wild' => Spawning'
    BY <1>5, SMTT(60), ZenonT(60)
       DEF IrqInv, TypeOK, Control, Held, Runner, Spawning, SpawnPhase, BootPhase, Procs
  <2> QED
    BY <2>1, <2>2, <2>3, <2>4
<1>6. ASSUME NEW p \in Procs \union {Main}, DisableNested(p) PROVE QueueInv'
  <2> USE DEF DisableNested, Running, Goto, queueVars, createVars, trapVars
  <2>1. LinkedOnce' /\ NoProcessLost' /\ \A r : InSomeQueue(r)' <=> InSomeQueue(r)
    BY <1>6, QueuesUntouched, SMTT(60), ZenonT(60)
  <2>2. (procs \subseteq created)'
    BY <1>6, ZenonT(60)
  <2>3. ~wild' => Runner'
    BY <1>6, <2>1, ZenonT(60) DEF IrqInv, TypeOK, Control, Held, Runner
  <2>4. ~wild' => Spawning'
    BY <1>6, Zenon DEF IrqInv, TypeOK, Control, Held, Runner, Spawning, SpawnPhase, BootPhase, Procs
  <2> QED
    BY <2>1, <2>2, <2>3, <2>4
<1>7. ASSUME NEW p \in Procs \union {Main}, Enable(p) PROVE QueueInv'
  <2> USE DEF Enable, Running, Goto, queueVars, createVars, trapVars
  <2>1. LinkedOnce' /\ NoProcessLost' /\ \A r : InSomeQueue(r)' <=> InSomeQueue(r)
    BY <1>7, QueuesUntouched, Zenon
  <2>2. (procs \subseteq created)'
    BY <1>7, ZenonT(60)
  <2>3. ~wild' => Runner'
    BY <1>7, <2>1, ZenonT(60) DEF IrqInv, TypeOK, Control, Held, Runner
  <2>4. ~wild' => Spawning'
    BY <1>7, Zenon DEF IrqInv, TypeOK, Control, Held, Runner, Spawning, SpawnPhase, BootPhase, Procs
  <2> QED
    BY <2>1, <2>2, <2>3, <2>4
<1>8. ASSUME NEW p \in Procs, yield(p) PROVE QueueInv'
  <2> USE DEF yield, Trap, Running, Goto, queueVars, createVars, trapVars
  <2>1. LinkedOnce' /\ NoProcessLost' /\ \A r : InSomeQueue(r)' <=> InSomeQueue(r)
    BY <1>8, QueuesUntouched, Zenon
  <2>2. (procs \subseteq created)'
    BY <1>8, ZenonT(60)
  <2>3. ~wild' => Runner'
    BY <1>8, <2>1, ZenonT(60) DEF IrqInv, TypeOK, Control, Held, Runner
  <2>4. ~wild' => Spawning'
    BY <1>8, Zenon DEF IrqInv, TypeOK, Control, Held, Runner, Spawning, SpawnPhase, BootPhase, Procs
  <2> QED
    BY <2>1, <2>2, <2>3, <2>4, Zenon
<1>9. ASSUME NEW p \in Procs, ExitDrop(p) PROVE QueueInv'
  <2> USE DEF ExitDrop, Running, Goto, queueVars, createVars, trapVars
  <2>1. LinkedOnce' /\ NoProcessLost' /\ \A r : InSomeQueue(r)' <=> InSomeQueue(r)
    BY <1>9, QueuesUntouched, Zenon
  <2>2. (procs \subseteq created)'
    BY <1>9, ZenonT(60)
  <2>3. ~wild' => Runner'
    BY <1>9, <2>1, SMTT(60), ZenonT(60) DEF IrqInv, TypeOK, Control, Held, Runner
  <2>4. ~wild' => Spawning'
    BY <1>9, Zenon DEF IrqInv, TypeOK, Control, Held, Runner, Spawning, SpawnPhase, BootPhase, Procs
  <2> QED
    BY <2>1, <2>2, <2>3, <2>4
<1>10. CASE ExitYield
  <2> USE DEF ExitYield, Trap, Running, Goto, queueVars, createVars, trapVars
  <2>1. LinkedOnce' /\ NoProcessLost' /\ \A r : InSomeQueue(r)' <=> InSomeQueue(r)
    BY <1>10, QueuesUntouched, Zenon
  <2>2. (procs \subseteq created)'
    BY <1>10, ZenonT(60)
  <2>3. ~wild' => Runner'
    BY <1>10, <2>1, ZenonT(60) DEF IrqInv, TypeOK, Control, Held, Runner
  <2>4. ~wild' => Spawning'
    BY <1>10, Zenon DEF IrqInv, TypeOK, Control, Held, Runner, Spawning, SpawnPhase, BootPhase, Procs
  <2> QED
    BY <2>1, <2>2, <2>3, <2>4, Zenon
<1>11. CASE IRQ_generic_isr
  <2> USE DEF IRQ_generic_isr, Running, Goto, queueVars, createVars, trapVars
  <2>1. LinkedOnce' /\ NoProcessLost' /\ \A r : InSomeQueue(r)' <=> InSomeQueue(r)
    BY <1>11, QueuesUntouched, Zenon
  <2>2. (procs \subseteq created)'
    BY <1>11, ZenonT(60)
  <2>3. ~wild' => Runner'
    BY <1>11, <2>1, ZenonT(60) DEF IrqInv, TypeOK, Control, Held, Runner
  <2>4. ~wild' => Spawning'
    BY <1>11, Zenon DEF IrqInv, TypeOK, Control, Held, Runner, Spawning, SpawnPhase, BootPhase, Procs
  <2> QED
    BY <2>1, <2>2, <2>3, <2>4
<1>12. CASE iretq
  <2> USE DEF iretq, Running, Goto, queueVars, createVars, trapVars
  <2>1. LinkedOnce' /\ NoProcessLost' /\ \A r : InSomeQueue(r)' <=> InSomeQueue(r)
    BY <1>12, QueuesUntouched, Zenon
  <2>2. (procs \subseteq created)'
    BY <1>12, ZenonT(60)
  <2>3. ~wild' => Runner'
    BY <1>12, <2>1, ZenonT(60) DEF IrqInv, TypeOK, Control, Held, Runner
  <2>4. ~wild' => Spawning'
    BY <1>12, Zenon DEF IrqInv, TypeOK, Control, Held, Runner, Spawning, SpawnPhase, BootPhase, Procs
  <2> QED
    BY <2>1, <2>2, <2>3, <2>4
<1>13. CASE MainYield
  <2> USE DEF MainYield, Trap, Running, Goto, queueVars, createVars, trapVars
  <2>1. LinkedOnce' /\ NoProcessLost' /\ \A r : InSomeQueue(r)' <=> InSomeQueue(r)
    BY <1>13, QueuesUntouched, Zenon
  <2>2. (procs \subseteq created)'
    BY <1>13, ZenonT(60)
  <2>3. ~wild' => Runner'
    BY <1>13, <2>1, ZenonT(60) DEF IrqInv, TypeOK, Control, Held, Runner
  <2>4. ~wild' => Spawning'
    BY <1>13, Zenon DEF IrqInv, TypeOK, Control, Held, Runner, Spawning, SpawnPhase, BootPhase, Procs
  <2> QED
    BY <2>1, <2>2, <2>3, <2>4
<1>14. CASE hlt
  <2> USE DEF hlt, Running, Goto, queueVars, createVars, trapVars
  <2>1. LinkedOnce' /\ NoProcessLost' /\ \A r : InSomeQueue(r)' <=> InSomeQueue(r)
    BY <1>14, QueuesUntouched, Zenon
  <2>2. (procs \subseteq created)'
    BY <1>14, ZenonT(60)
  <2>3. ~wild' => Runner'
    BY <1>14, <2>1, SMTT(60), ZenonT(60) DEF IrqInv, TypeOK, Control, Held, Runner
  <2>4. ~wild' => Spawning'
    BY <1>14, SMTT(60), ZenonT(60)
       DEF IrqInv, TypeOK, Control, Held, Runner, Spawning, SpawnPhase, BootPhase, Procs
  <2> QED
    BY <2>1, <2>2, <2>3, <2>4
<1>15. CASE IsrOther
  <2> USE DEF IsrOther, IsrReturn, Running, Goto, queueVars, createVars, trapVars
  <2>1. LinkedOnce' /\ NoProcessLost' /\ \A r : InSomeQueue(r)' <=> InSomeQueue(r)
    BY <1>15, QueuesUntouched, Zenon
  <2>2. (procs \subseteq created)'
    BY <1>15, ZenonT(60)
  <2>3. ~wild' => Runner'
    BY <1>15, <2>1, ZenonT(60) DEF IrqInv, TypeOK, Control, Held, Runner
  <2>4. ~wild' => Spawning'
    BY <1>15, ZenonT(60) DEF IrqInv, TypeOK, Control, Held, Runner, Spawning, SpawnPhase, BootPhase, Procs
  <2> QED
    BY <2>1, <2>2, <2>3, <2>4
<1>16. ASSUME NEW c \in {Main, Spawner}, CreateEnd(c) PROVE QueueInv'
  <2> USE DEF CreateEnd, Running, Goto
  <2>1. /\ ~wild /\ trap = "none" /\ pc[c] = "link" /\ curr_proc = c /\ next_proc = c
        /\ new_proc \in Procs /\ new_proc \notin procs /\ new_proc \in created
        /\ tail_seen = ready_queue /\ ready_queue \in Seq(Procs)
        /\ UNCHANGED <<waitq, curr_proc, next_proc, sleep_curr, trap, new_proc, created, wild>>
    <3>1. /\ ~wild /\ trap = "none" /\ pc[c] = "link" /\ curr_proc = c
          /\ UNCHANGED <<waitq, curr_proc, next_proc, sleep_curr, trap, new_proc, created, wild>>
      BY <1>16, ZenonT(60)
    <3>2. curr_proc # NULL
      BY <3>1, ZenonT(60) DEF Procs
    <3>3. next_proc = c
      BY <3>1, <3>2, Zenon DEF IrqInv, Control
    <3>4. tail_seen = ready_queue /\ new_proc \notin procs /\ new_proc \in created
      BY <3>1, ZenonT(60) DEF Spawning
    <3>5. new_proc \in Procs /\ ready_queue \in Seq(Procs)
      BY <3>1, ZenonT(60) DEF IrqInv, TypeOK, Linking
    <3> QED
      BY ONLY <3>1, <3>3, <3>4, <3>5, Zenon
  <2>2. ~InSomeQueue(new_proc) /\ new_proc # next_proc
    BY <2>1, ZenonT(60) DEF LinkedOnce, Runner, IrqInv, TypeOK
  <2>3. /\ Range(ready_queue') = Range(ready_queue) \union {new_proc}
        /\ IsInjective(ready_queue')
        /\ ready_queue' # <<>>
        /\ ready_queue # <<>> => Head(ready_queue') = Head(ready_queue)
        /\ ready_queue = <<>> => Head(ready_queue') = new_proc
    <3>1. /\ ready_queue' = Append(ready_queue, new_proc)
          /\ IsInjective(ready_queue) /\ new_proc \notin Range(ready_queue)
      BY <1>16, <2>1, <2>2, ZenonT(60) DEF LinkedOnce, InSomeQueue
    <3> QED
      BY ONLY <2>1, <3>1, EnqueueLemma, SMTT(60)
  <2>4. \A r : InSomeQueue(r)' <=> InSomeQueue(r) \/ r = new_proc
    BY <2>1, <2>3, SMTT(60), ZenonT(60) DEF InSomeQueue
  <2>5. LinkedOnce'
    <3>1. \A q \in Queues : new_proc \notin Range(waitq[q])
      BY <2>2, Zenon DEF InSomeQueue
    <3> QED
      BY <1>16, <2>1, <2>3, <2>4, <3>1, ZenonT(60) DEF LinkedOnce
  <2>6. NoProcessLost' /\ (procs \subseteq created)'
    BY <1>16, <2>1, <2>2, <2>4, SMTT(60) DEF NoProcessLost
  <2>7. Runner'
    BY <1>16, <2>1, <2>4 DEF Runner, IrqInv, TypeOK
  <2>8. Spawning'
    BY <1>16, <2>1, <2>2, <2>3, ZenonT(60)
       DEF Spawning, Runner, SpawnPhase, BootPhase, IrqInv, TypeOK, Procs
  <2> QED
    BY <2>5, <2>6, <2>7, <2>8, Zenon
<1>17. ASSUME NEW p \in Procs, process_exit(p) PROVE QueueInv'
  <2> USE DEF process_exit, Running, Goto, queueVars, trapVars
  <2>1. /\ ~wild /\ trap = "none" /\ curr_proc = p /\ next_proc = p /\ ~sleep_curr
        /\ UNCHANGED <<ready_queue, waitq, curr_proc, next_proc, sleep_curr, trap, wild>>
    BY <1>17, ZenonT(60) DEF IrqInv, TypeOK, Control, Runner
  <2>2. ~InSomeQueue(p)
    BY <2>1, Zenon DEF NoProcessLost
  <2>3. \A r : InSomeQueue(r)' <=> InSomeQueue(r)
    BY <2>1, ZenonT(60) DEF InSomeQueue
  <2>4. LinkedOnce'
    BY <1>17, <2>1, <2>2, <2>3, ZenonT(60) DEF LinkedOnce
  <2>5. NoProcessLost' /\ (procs \subseteq created)'
    BY <1>17, <2>1, <2>3, ZenonT(60) DEF NoProcessLost
  <2>6. Runner'
    <3>1. pc'[p] = "freed"
      BY <1>17, Zenon DEF IrqInv, TypeOK
    <3>2. trap' = "none" /\ next_proc' = p /\ sleep_curr' = FALSE
      BY <2>1, ZenonT(60) DEF IrqInv, TypeOK
    <3> QED
      BY ONLY <3>1, <3>2, Zenon DEF Runner
  <2>7. Spawning'
    BY <1>17, <2>1, Zenon DEF Spawning, SpawnPhase, BootPhase, IrqInv, TypeOK, Procs
  <2> QED
    BY <2>4, <2>5, <2>6, <2>7, Zenon
<1>18. ASSUME NEW p \in Procs, NEW q \in Queues, PROC_block_on(p, q) PROVE QueueInv'
  <2> USE DEF PROC_block_on, Running, Goto, createVars, trapVars
  <2>1. /\ ~wild /\ trap = "none" /\ curr_proc = p /\ next_proc = p /\ ~sleep_curr
        /\ p \in procs /\ pc[p] = "critical"
        /\ UNCHANGED <<ready_queue, curr_proc, next_proc, trap, wild, procs, created>>
    <3>1. /\ ~wild /\ trap = "none" /\ curr_proc = p /\ pc[p] = "critical"
          /\ UNCHANGED <<ready_queue, curr_proc, next_proc, trap, wild, procs, created>>
      BY <1>18, ZenonT(60)
    <3>2. curr_proc # NULL
      BY <3>1, ZenonT(60)
    <3>3. next_proc = p
      BY <3>1, <3>2, ZenonT(60) DEF IrqInv, Control
    <3>4. ~sleep_curr /\ p \in procs
      BY <3>1, <3>2, <3>3, Zenon DEF Runner, IrqInv, TypeOK
    <3> QED
      BY ONLY <3>1, <3>3, <3>4, Zenon
  <2>2. ~InSomeQueue(p)
    BY <2>1, ZenonT(60) DEF NoProcessLost
  <2>3. /\ waitq'[q] = Append(waitq[q], p) /\ waitq[q] \in Seq(Procs)
        /\ \A r \in Queues : r # q => waitq'[r] = waitq[r]
    BY <1>18, <2>1, ZenonT(60) DEF IrqInv, TypeOK
  <2>4. /\ Range(waitq'[q]) = Range(waitq[q]) \union {p}
        /\ IsInjective(waitq'[q])
    BY <2>2, <2>3, EnqueueLemma DEF LinkedOnce, InSomeQueue
  <2>5. \A r : InSomeQueue(r)' <=> InSomeQueue(r) \/ r = p
    BY <2>1, <2>3, <2>4, ZenonT(60) DEF InSomeQueue
  <2>6. LinkedOnce'
    <3>1. p \notin Range(ready_queue) /\ \A r \in Queues : p \notin Range(waitq[r])
      BY <2>2, Zenon DEF InSomeQueue
    <3>2. IsInjective(ready_queue') /\ \A r \in Queues : IsInjective(waitq'[r])
      BY <2>1, <2>3, <2>4, ZenonT(60) DEF LinkedOnce
    <3>3. \A r \in Queues : Range(ready_queue') \intersect Range(waitq'[r]) = {}
      <4> TAKE r \in Queues
      <4>1. Range(ready_queue) \intersect Range(waitq[r]) = {}
        BY Zenon DEF LinkedOnce
      <4> QED
        BY ONLY <2>1, <2>3, <2>4, <3>1, <4>1, r \in Queues, ZenonT(60)
    <3>4. \A r, t \in Queues : r # t => Range(waitq'[r]) \intersect Range(waitq'[t]) = {}
      <4> TAKE r, t \in Queues
      <4>1. r # t => Range(waitq[r]) \intersect Range(waitq[t]) = {}
        BY ZenonT(60) DEF LinkedOnce
      <4> QED
        BY ONLY <2>3, <2>4, <3>1, <4>1, r \in Queues, t \in Queues, ZenonT(60)
    <3> QED
      BY <2>1, <2>5, <3>2, <3>3, <3>4, Zenon DEF LinkedOnce
  <2>7. NoProcessLost' /\ (procs \subseteq created)'
    BY <1>18, <2>1, <2>5, ZenonT(60) DEF NoProcessLost
  <2>8. Runner'
    BY <1>18, <2>1, <2>5, ZenonT(60) DEF Runner, IrqInv, TypeOK
  <2>9. Spawning'
    BY <1>18, <2>1, Zenon DEF Spawning, SpawnPhase, BootPhase, IrqInv, TypeOK, Procs
  <2> QED
    BY <2>6, <2>7, <2>8, <2>9, Zenon
<1>19. CASE PROC_reschedule
  <2> USE DEF PROC_reschedule, createVars
  <2>1. /\ ~wild /\ trap = "resched" /\ trap' = "tail"
        /\ UNCHANGED <<curr_proc, waitq, procs, created, pc, wild, new_proc, tail_seen>>
        /\ ready_queue \in Seq(Procs)
    BY <1>19, ZenonT(60) DEF IrqInv, TypeOK
  \* A process that only yields is allocated, on no queue and not main_proc.
  <2>2. curr_proc # NULL /\ ~sleep_curr =>
          /\ curr_proc = next_proc /\ curr_proc \in Procs /\ curr_proc \in procs
          /\ ~InSomeQueue(curr_proc)
    BY <2>1, Zenon DEF IrqInv, TypeOK, Control, Held, MainSleeps, Runner, NoProcessLost
  <2>3. /\ Requeued \in Seq(Procs) /\ IsInjective(Requeued)
        /\ \A r : r \in Range(Requeued) <=>
             r \in Range(ready_queue) \/ (curr_proc # NULL /\ ~sleep_curr /\ r = curr_proc)
    <3>1. CASE curr_proc # NULL /\ ~sleep_curr
      <4>1. /\ Requeued = Append(ready_queue, curr_proc)
            /\ IsInjective(ready_queue) /\ curr_proc \notin Range(ready_queue)
        BY <2>2, <3>1, Zenon DEF Requeued, LinkedOnce, InSomeQueue
      <4> QED
        BY ONLY <2>1, <2>2, <3>1, <4>1, EnqueueLemma, SMTT(60)
    <3>2. CASE ~(curr_proc # NULL /\ ~sleep_curr)
      BY <2>1, <3>2, ZenonT(60) DEF Requeued, LinkedOnce
    <3> QED
      BY <3>1, <3>2, ZenonT(60)
  <2>4. \A r : r \in Range(Requeued) => r \in procs /\ \A q \in Queues : r \notin Range(waitq[q])
    BY <2>1, <2>2, <2>3, EmptyQueueLemma, SMTT(60) DEF LinkedOnce, InSomeQueue, IrqInv, TypeOK
  \* The process that leaves the processor is on a queue, or freed.
  <2>5. \A r \in procs : r \in Range(Requeued) \/ \E q \in Queues : r \in Range(waitq[q])
    <3> TAKE r \in procs
    <3>1. CASE r # next_proc
      BY <2>3, <3>1, Zenon DEF NoProcessLost, InSomeQueue
    <3>2. CASE r = next_proc /\ curr_proc # NULL /\ ~sleep_curr
      BY <2>2, <2>3, <3>2, Zenon
    <3>3. CASE r = next_proc /\ sleep_curr
      <4>1. InSomeQueue(r)
        BY <2>1, <3>3, ZenonT(60) DEF Runner, IrqInv, TypeOK
      <4> QED
        BY <2>3, <4>1, ZenonT(60) DEF InSomeQueue
    <3>4. CASE r = next_proc /\ curr_proc = NULL
      BY <2>1, <3>4, ZenonT(60) DEF IrqInv, Control
    <3> QED
      BY <3>1, <3>2, <3>3, <3>4, Zenon
  \* During start-up it is main_proc that asks for a process.
  <2>b. ~BootPhase
    BY <2>1, ZenonT(60) DEF Spawning
  <2>c. SpawnPhase => curr_proc = Main /\ next_proc = Main /\ Requeued = ready_queue
    BY <2>1, Zenon DEF Spawning, IrqInv, Control, MainSleeps, Requeued
  <2>6. CASE Requeued = <<>>
    <3>1. next_proc' = Main /\ ready_queue' = <<>> /\ sleep_curr' = TRUE
      BY <1>19, <2>6, ZenonT(60) DEF SleepAfter
    <3>2. Range(ready_queue') = {} /\ IsInjective(ready_queue') /\ Range(Requeued) = {}
      BY <2>6, <3>1, EmptyQueueLemma, Zenon
    <3>3. LinkedOnce'
      BY <2>1, <3>2, ZenonT(60) DEF LinkedOnce, InSomeQueue
    <3>4. NoProcessLost' /\ (procs \subseteq created)'
      BY <2>1, <2>5, <3>1, <3>2, Zenon DEF NoProcessLost, InSomeQueue
    <3>5. Runner'
      BY <3>1, ZenonT(60) DEF Runner
    <3>6. Spawning'
      <4>1. SpawnPhase => Spawner \notin procs
        BY <2>1, <2>6, <2>c, Zenon DEF Spawning
      <4>2. pc[Main] \notin {"spawn", "link"} /\ ~BootPhase'
        BY <2>1, <2>b, Zenon DEF BootPhase
      <4>3. SpawnPhase' <=> SpawnPhase
        BY <2>1, Zenon DEF SpawnPhase
      <4> QED
        BY <2>1, <2>c, <3>1, <4>1, <4>2, <4>3, ZenonT(60) DEF Spawning
    <3> QED
      BY <3>3, <3>4, <3>5, <3>6, Zenon
  <2>7. CASE Requeued # <<>>
    <3> PICK h : h = Head(Requeued)
      BY Zenon
    <3>1. /\ h \in Procs /\ h \in Range(Requeued) /\ h \notin Range(Tail(Requeued))
          /\ Range(Requeued) = Range(Tail(Requeued)) \union {h}
          /\ IsInjective(Tail(Requeued))
      BY <2>3, <2>7, DequeueLemma, Zenon
    <3>2. next_proc' = h /\ ready_queue' = Tail(Requeued) /\ sleep_curr' = FALSE
      BY <1>19, <2>7, <3>1, ZenonT(60) DEF SleepAfter
    <3>3. \A r : InSomeQueue(r)' =>
            r # h /\ (r \in Range(Requeued) \/ \E q \in Queues : r \in Range(waitq[q]))
      BY <2>1, <2>4, <3>1, <3>2, ZenonT(60) DEF InSomeQueue
    <3>4. LinkedOnce'
      <4>1. \A r \in Procs : InSomeQueue(r)' => r \in procs'
        BY <2>1, <2>4, <3>3, ZenonT(60) DEF LinkedOnce, InSomeQueue
      <4>2. \A q \in Queues : Range(ready_queue') \intersect Range(waitq'[q]) = {}
        BY <2>1, <2>4, <3>1, <3>2, ZenonT(60)
      <4> QED
        BY <2>1, <3>1, <3>2, <4>1, <4>2, ZenonT(60) DEF LinkedOnce
    <3>5. NoProcessLost' /\ (procs \subseteq created)'
      <4>1. ~InSomeQueue(h)'
        BY <3>3, ZenonT(60)
      <4>2. \A r \in procs : r = h \/ InSomeQueue(r)'
        BY <2>1, <2>5, <3>1, <3>2, ZenonT(60) DEF InSomeQueue
      <4> QED
        BY <2>1, <3>2, <4>1, <4>2, Zenon DEF NoProcessLost
    <3>6. Runner'
      BY <2>1, <2>4, <3>1, <3>2, ZenonT(60) DEF Runner
    <3>7. Spawning'
      <4>1. SpawnPhase => h = Spawner
        BY <2>1, <2>7, <2>c, ZenonT(60) DEF Spawning
      <4>2. pc[Main] \notin {"spawn", "link"} /\ ~BootPhase'
        BY <2>1, <2>b, Zenon DEF BootPhase
      <4>3. SpawnPhase' <=> SpawnPhase
        BY <2>1, ZenonT(60) DEF SpawnPhase
      <4>4. SpawnPhase => Spawner \in procs /\ Spawner # Main
        BY <2>4, <3>1, <4>1, Zenon DEF Procs
      <4> QED
        BY <2>1, <2>c, <3>2, <4>1, <4>2, <4>3, <4>4, SMTT(60), ZenonT(60) DEF Spawning
    <3> QED
      BY <3>4, <3>5, <3>6, <3>7, Zenon
  <2> QED
    BY <2>6, <2>7, ZenonT(60)
<1>20. CASE MainCheck
  <2> USE DEF MainCheck, Running, Goto, queueVars, createVars, trapVars
  <2>1. /\ ~wild /\ trap = "none" /\ curr_proc = Main /\ next_proc = Main
        /\ UNCHANGED <<ready_queue, waitq, procs, created, curr_proc, next_proc, trap, wild,
                       new_proc, tail_seen>>
    BY <1>20, Zenon DEF IrqInv, TypeOK, Control
  <2>2. \A r : InSomeQueue(r)' <=> InSomeQueue(r)
    BY <2>1, ZenonT(60) DEF InSomeQueue
  <2>3. ~InSomeQueue(Main)
    BY EmptyQueueLemma, ZenonT(60) DEF InSomeQueue, IrqInv, TypeOK
  <2>4. LinkedOnce' /\ NoProcessLost' /\ (procs \subseteq created)'
    BY <2>1, <2>2, <2>3, ZenonT(60) DEF LinkedOnce, NoProcessLost
  <2>5. Runner'
    BY <2>1, ZenonT(60) DEF Runner
  <2>6. Spawning'
    BY <1>20, <2>1, ZenonT(60) DEF Spawning, SpawnPhase, BootPhase, IrqInv, TypeOK, Procs
  <2> QED
    BY <2>4, <2>5, <2>6, ZenonT(60)
<1>21. ASSUME NEW q \in AllQueues, IsrUnblockAll(q) PROVE QueueInv'
  <2> USE DEF IsrUnblockAll, IsrReturn, createVars
  <2>1. /\ ~wild /\ q \in Queues /\ waitq[q] \in Seq(Procs) /\ ready_queue \in Seq(Procs)
        /\ waitq'[q] = <<>> /\ \A r \in Queues : r # q => waitq'[r] = waitq[r]
        /\ cpu.int
        /\ UNCHANGED <<procs, created, next_proc, sleep_curr>>
    BY <1>21, ZenonT(60) DEF IrqInv, TypeOK, Queues
  <2>2. /\ Range(ready_queue') = Range(ready_queue) \union Range(waitq[q])
        /\ IsInjective(ready_queue')
        /\ Range(waitq'[q]) = {} /\ IsInjective(waitq'[q])
    <3>1. /\ ready_queue' = ready_queue \o waitq[q]
          /\ IsInjective(ready_queue) /\ IsInjective(waitq[q])
          /\ Range(ready_queue) \intersect Range(waitq[q]) = {}
      BY <1>21, <2>1, ZenonT(60) DEF LinkedOnce
    <3>2. /\ Range(ready_queue \o waitq[q]) = Range(ready_queue) \union Range(waitq[q])
          /\ IsInjective(ready_queue \o waitq[q])
      <4>1. ready_queue \in Seq(Procs) /\ waitq[q] \in Seq(Procs)
        BY <2>1, Zenon
      <4>2. Range(ready_queue \o waitq[q]) = Range(ready_queue) \union Range(waitq[q])
        BY ONLY <4>1, TransferLemma, ZenonT(60)
      <4> QED
        BY ONLY <3>1, <4>1, <4>2, TransferLemma, ZenonT(60)
    <3> QED
      BY ONLY <2>1, <3>1, <3>2, EmptyQueueLemma, ZenonT(60)
  <2>3. \A p : InSomeQueue(p)' <=> InSomeQueue(p)
    BY <2>1, <2>2, ZenonT(60) DEF InSomeQueue
  <2>4. LinkedOnce'
    BY <2>1, <2>2, <2>3, ZenonT(60) DEF LinkedOnce
  <2>5. NoProcessLost' /\ (procs \subseteq created)'
    BY <2>1, <2>3, ZenonT(60) DEF NoProcessLost
  <2>6. ~wild' => Runner'
    <3> HAVE ~wild'
    <3>1. /\ \A p \in Procs : pc'[p] = pc[p]
          /\ UNCHANGED <<trap, curr_proc, next_proc, procs, sleep_curr>>
      BY <1>21, <2>1, IsrKeepsPc, ZenonT(60)
    <3>2. Runner
      BY <2>1, Zenon
    <3> QED
      BY ONLY <2>3, <3>1, <3>2, RunnerKept, Zenon
  <2>7. ~wild' => Spawning'
    <3>1. SpawnPhase => ready_queue' = ready_queue /\ \A r \in Queues : waitq'[r] = <<>>
      <4> SUFFICES ASSUME SpawnPhase
                   PROVE  ready_queue' = ready_queue /\ \A r \in Queues : waitq'[r] = <<>>
        BY Zenon
      <4>1. \A r \in Queues : waitq[r] = <<>>
        BY <2>1, ZenonT(60) DEF Spawning
      <4>2. ready_queue' = ready_queue \o waitq[q]
        BY <1>21, ZenonT(60)
      <4> QED
        BY ONLY <2>1, <4>1, <4>2, SeqConcatEmpty, ZenonT(60)
    <3> HAVE ~wild'
    <3>2. /\ pc'[Spawner] = pc[Spawner]
          /\ pc'[Main] = pc[Main] \/ (pc[Main] = "halted" /\ pc'[Main] = "idle")
          /\ UNCHANGED <<trap, curr_proc, next_proc, procs, created, new_proc, tail_seen>>
      BY <1>21, <2>1, IsrKeepsPc, ZenonT(60) DEF Procs
    <3>3. pc[Spawner] # "link" => ~(pc[Spawner] = "link")'
      BY <3>2, Zenon
    <3>4. BootPhase' => BootPhase /\ SpawnPhase
      BY <2>1, <3>2, ZenonT(60) DEF BootPhase, SpawnPhase, Spawning
    <3>5. SpawnPhase' <=> SpawnPhase
      BY <3>2, ZenonT(60) DEF SpawnPhase
    <3>6. Spawning
      BY <2>1, Zenon
    <3> QED
      BY ONLY <2>1, <3>1, <3>2, <3>4, <3>5, <3>6, ZenonT(60) DEF Spawning, BootPhase, SpawnPhase
  <2> QED
    BY <2>4, <2>5, <2>6, <2>7, ZenonT(60)
<1>22. ASSUME NEW q \in HeadQueues, IsrUnblockHead(q) PROVE QueueInv'
  <2> USE DEF IsrUnblockHead
  <2>1. PICK c : IsrReturn(c)
    BY <1>22, Zenon
  <2>a. ~wild /\ cpu.int
    BY <1>22, Zenon DEF IsrReturn
  <2>b. ASSUME ~wild'
        PROVE  /\ \A p \in Procs : pc'[p] = pc[p]
               /\ pc'[Main] = pc[Main] \/ (pc[Main] = "halted" /\ pc'[Main] = "idle")
               /\ UNCHANGED <<trap, curr_proc, next_proc, procs, sleep_curr, created, new_proc,
                              tail_seen>>
    BY ONLY IrqInv, <2>1, <2>a, <2>b, IsrKeepsPc, ZenonT(60)
  <2>2. CASE waitq[q] = <<>>
    <3>1. /\ UNCHANGED <<ready_queue, waitq, procs, created, next_proc, sleep_curr>>
          /\ ~wild /\ cpu.int
      BY <1>22, <2>1, <2>2, Zenon DEF IsrReturn, queueVars, createVars
    <3>2. LinkedOnce' /\ NoProcessLost' /\ \A r : InSomeQueue(r)' <=> InSomeQueue(r)
      BY <3>1, QueuesUntouched, ZenonT(60)
    <3>3. ~wild' => Runner'
      <4> HAVE ~wild'
      <4>1. /\ \A p \in Procs : pc'[p] = pc[p]
            /\ UNCHANGED <<trap, curr_proc, next_proc, procs, sleep_curr>>
        BY ONLY ~wild', <2>b, Zenon
      <4>2. Runner
        BY <3>1, Zenon
      <4> QED
        BY ONLY <3>2, <4>1, <4>2, RunnerKept, Zenon
    <3>4. ~wild' => Spawning'
      <4> HAVE ~wild'
      <4>1. /\ pc'[Spawner] = pc[Spawner]
            /\ pc'[Main] = pc[Main] \/ (pc[Main] = "halted" /\ pc'[Main] = "idle")
            /\ UNCHANGED <<trap, curr_proc, next_proc, procs, created, new_proc, tail_seen>>
        BY ONLY ~wild', <2>b, ZenonT(60) DEF Procs
      <4>2. Spawning
        BY <3>1, Zenon
      <4> QED
        BY ONLY <3>1, <4>1, <4>2, Zenon DEF Spawning, BootPhase, SpawnPhase
    <3> QED
      BY <3>1, <3>2, <3>3, <3>4, ZenonT(60)
  <2>3. CASE waitq[q] # <<>>
    <3> PICK h : h = Head(waitq[q])
      BY Zenon
    <3>a. /\ ready_queue' = Append(ready_queue, h)
          /\ waitq' = [waitq EXCEPT ![q] = Tail(@)]
          /\ ~wild /\ cpu.int
      BY <1>22, <2>3, ZenonT(60)
    <3>b. UNCHANGED <<procs, created, next_proc, sleep_curr>>
      BY <2>1, ZenonT(60) DEF IsrReturn, createVars
    <3>c. /\ q \in Queues /\ waitq[q] \in Seq(Procs) /\ ready_queue \in Seq(Procs)
          /\ waitq \in [Queues -> Seq(Procs)]
      BY Zenon DEF IrqInv, TypeOK, Queues
    <3>1. waitq'[q] = Tail(waitq[q]) /\ \A r \in Queues : r # q => waitq'[r] = waitq[r]
      BY ONLY <3>a, <3>c, ZenonT(60)
    <3>2. /\ h \in Procs /\ h \in Range(waitq[q])
          /\ Range(waitq[q]) = Range(waitq'[q]) \union {h} /\ h \notin Range(waitq'[q])
          /\ IsInjective(waitq'[q])
      <4>1. IsInjective(waitq[q])
        BY <3>c, ZenonT(60) DEF LinkedOnce
      <4>2. /\ Head(waitq[q]) \in Procs /\ Head(waitq[q]) \in Range(waitq[q])
            /\ Range(waitq[q]) = Range(Tail(waitq[q])) \union {Head(waitq[q])}
            /\ IsInjective(Tail(waitq[q])) /\ Head(waitq[q]) \notin Range(Tail(waitq[q]))
        BY ONLY <2>3, <3>c, <4>1, DequeueLemma, ZenonT(60)
      <4> QED
        BY ONLY <3>1, <4>2, h = Head(waitq[q]), ZenonT(60)
    <3>3. Range(ready_queue') = Range(ready_queue) \union {h} /\ IsInjective(ready_queue')
      <4>1. IsInjective(ready_queue) /\ h \notin Range(ready_queue)
        BY <3>c, <3>2, ZenonT(60) DEF LinkedOnce
      <4> QED
        BY ONLY <3>a, <3>c, <3>2, <4>1, EnqueueLemma, SMTT(60)
    <3>4. \A p : InSomeQueue(p)' <=> InSomeQueue(p)
      BY <3>c, <3>1, <3>2, <3>3, ZenonT(60) DEF InSomeQueue
    <3>5. LinkedOnce'
      <4>0. \A r \in Queues : r # q => h \notin Range(waitq[r])
        BY <3>c, <3>2, ZenonT(60) DEF LinkedOnce
      <4>1. \A r \in Queues : IsInjective(waitq'[r])
        <5>1. \A r \in Queues : IsInjective(waitq[r])
          BY ZenonT(60) DEF LinkedOnce
        <5> QED
          BY ONLY <3>1, <3>2, <5>1, ZenonT(60)
      <4>2. \A r \in Queues : Range(waitq'[r]) \subseteq Range(waitq[r])
        BY ONLY <3>1, <3>2, ZenonT(60)
      <4>3. \A r \in Queues : h \notin Range(waitq'[r])
        BY ONLY <3>1, <3>2, <4>0, ZenonT(60)
      <4>4. \A r \in Queues : Range(ready_queue') \intersect Range(waitq'[r]) = {}
        <5>1. \A r \in Queues : Range(ready_queue) \intersect Range(waitq[r]) = {}
          BY ZenonT(60) DEF LinkedOnce
        <5> QED
          BY ONLY <3>3, <4>2, <4>3, <5>1, ZenonT(60)
      <4>5. \A r, t \in Queues : r # t => Range(waitq'[r]) \intersect Range(waitq'[t]) = {}
        BY <4>2, Zenon DEF LinkedOnce
      <4>6. \A p \in Procs : InSomeQueue(p)' => p \in procs'
        BY <3>b, <3>4, ZenonT(60) DEF LinkedOnce
      <4> QED
        BY ONLY <3>3, <4>1, <4>4, <4>5, <4>6, ZenonT(60) DEF LinkedOnce
    <3>6. NoProcessLost' /\ (procs \subseteq created)'
      BY <3>b, <3>4, ZenonT(60) DEF NoProcessLost
    <3>7. ~wild' => Runner'
      <4> HAVE ~wild'
      <4>1. /\ \A p \in Procs : pc'[p] = pc[p]
            /\ UNCHANGED <<trap, curr_proc, next_proc, procs, sleep_curr>>
        BY ONLY ~wild', <2>b
      <4>2. Runner
        BY <3>a, Zenon
      <4> QED
        BY ONLY <3>4, <4>1, <4>2, RunnerKept
    <3>8. ~wild' => Spawning'
      <4> HAVE ~wild'
      <4>1. /\ pc'[Spawner] = pc[Spawner]
            /\ pc'[Main] = pc[Main] \/ (pc[Main] = "halted" /\ pc'[Main] = "idle")
            /\ UNCHANGED <<trap, curr_proc, next_proc, procs, created, new_proc, tail_seen>>
        BY ONLY ~wild', <2>b, ZenonT(60) DEF Procs
      <4>2. ~SpawnPhase
        BY <2>3, <3>a, <3>c, ZenonT(60) DEF Spawning
      <4>3. ~BootPhase
        BY <3>a, <4>2, Zenon DEF Spawning, SpawnPhase, BootPhase
      <4>4. ~SpawnPhase' /\ ~BootPhase'
        BY ONLY <4>1, <4>2, <4>3, Zenon DEF SpawnPhase, BootPhase
      <4>5. Spawner \notin created => created = {}
        BY <3>a, Zenon DEF Spawning
      <4> QED
        BY ONLY <4>1, <4>4, <4>5, Zenon DEF Spawning, BootPhase, SpawnPhase
    <3> QED
      BY <3>5, <3>6, <3>7, <3>8, Zenon
  <2> QED
    BY <2>2, <2>3, ZenonT(60)
<1>23. QED
  BY <1>a, <1>1, <1>2, <1>3, <1>4, <1>5, <1>6, <1>7, <1>8, <1>9, <1>10, <1>11, <1>12, <1>13,
     <1>14, <1>15, <1>16, <1>17, <1>18, <1>19, <1>20, <1>21, <1>22, ZenonT(60)
     DEF Next, Creating, Section, GiveUp, Handler, MainStep, Isr

\* One list header serves every queue of proc.c, and no Process is ever linked
\* twice, although the ready queue is shared with interrupt handlers.
THEOREM QueueSafety == Spec => []LinkedOnce
<1>1. QueueInv => LinkedOnce
  BY ZenonT(60) DEF QueueInv
<1> QED
  BY <1>1, IrqInit, IrqNext, QueueInit, QueueNext, PTL DEF Spec

\* PROC_block_on, PROC_unblock_all, PROC_unblock_head and PROC_reschedule never
\* lose a process between them, wherever the interrupt that wakes it arrives.
THEOREM NoneLost == Spec => []NoProcessLost
<1>1. QueueInv => NoProcessLost
  BY ZenonT(60) DEF QueueInv
<1> QED
  BY <1>1, IrqInit, IrqNext, QueueInit, QueueNext, PTL DEF Spec

\* No interrupt moves a process while PROC_create_process links one with
\* interrupts enabled.
THEOREM CreationSafety == Spec => []CreateUndisturbed
<1>1. QueueInv => CreateUndisturbed
  <2> SUFFICES ASSUME QueueInv, NEW c \in {Main, Spawner}, Running(c), pc[c] = "link"
               PROVE  \A q \in Queues : waitq[q] = <<>>
    BY ZenonT(60) DEF CreateUndisturbed
  <2>1. pc[Spawner] \in {"spawn", "link"}
    BY DEF QueueInv, Running, Spawning, BootPhase
  <2> QED
    BY <2>1, Zenon DEF QueueInv, Running, Spawning, SpawnPhase
<1> QED
  BY <1>1, IrqInit, IrqNext, QueueInit, QueueNext, PTL DEF Spec

\* When the context switch returns to a process, that process is on no queue:
\* PROC_block_on never returns before its interrupt handler has run.
THEOREM ResumeSafety == Spec => []ResumedOnlyWhenWoken
<1>1. IrqInv /\ QueueInv => ResumedOnlyWhenWoken
  <2> SUFFICES ASSUME IrqInv, QueueInv, trap = "iretq", ~wild PROVE ~InSomeQueue(curr_proc)
    BY Zenon DEF ResumedOnlyWhenWoken
  <2>1. curr_proc = next_proc
    BY Zenon DEF IrqInv, Control
  <2>2. CASE next_proc \in Procs
    BY <2>1, <2>2, ZenonT(60) DEF QueueInv, Runner, NoProcessLost
  <2>3. CASE next_proc = Main
    BY <2>1, <2>3, SchedAssumption, EmptyQueueLemma, Zenon DEF IrqInv, TypeOK, InSomeQueue
  <2> QED
    BY <2>2, <2>3, Zenon DEF IrqInv, TypeOK
<1> QED
  BY <1>1, IrqInit, IrqNext, QueueInit, QueueNext, PTL DEF Spec

-----------------------------------------------------------------------------
(* Sched implements Dispatcher                                             *)

\* The process that runs, as Dispatcher sees it.
RunningProc ==
  IF next_proc \in Procs /\ (sleep_curr \/ next_proc \notin procs) THEN NULL ELSE next_proc

\* Steps that leave everything alone that Dispatcher sees.
LEMMA DispatcherStutters ==
  ASSUME UNCHANGED <<ready_queue, waitq, procs, next_proc, sleep_curr>>
  PROVE  UNCHANGED D!dvars
BY Zenon DEF D!dvars

\* PROC_reschedule is a Yield of the process that runs, a Dispatch once it
\* has queued or freed itself, or Idle.
LEMMA RescheduleImplements ==
  ASSUME IrqInv, QueueInv, PROC_reschedule
  PROVE  [D!Next]_(D!dvars)
<1> USE SchedAssumption
<1>1. /\ ~wild /\ trap = "resched" /\ UNCHANGED <<waitq, procs>>
      /\ ready_queue \in Seq(Procs) /\ next_proc \in Procs \union {Main}
      /\ next_proc' = IF Requeued = <<>> THEN Main ELSE Head(Requeued)
      /\ ready_queue' = IF Requeued = <<>> THEN <<>> ELSE Tail(Requeued)
      /\ sleep_curr' = (next_proc' = Main)
  BY Zenon DEF PROC_reschedule, createVars, SleepAfter, IrqInv, TypeOK
<1>2. \A p \in Range(ready_queue) : p \in Procs /\ p \in procs
  BY <1>1, EmptyQueueLemma, Zenon DEF QueueInv, LinkedOnce, InSomeQueue
<1>3. CASE curr_proc # NULL /\ ~sleep_curr
  <2>1. curr_proc = next_proc /\ next_proc \in Procs /\ next_proc \in procs
    BY <1>1, <1>3, Zenon DEF IrqInv, TypeOK, Control, Held, MainSleeps, QueueInv, Runner
  <2>2. Requeued = Append(ready_queue, next_proc)
    BY <1>3, <2>1, Zenon DEF Requeued
  <2>3. /\ Requeued # <<>> /\ Requeued \in Seq(Procs)
        /\ Range(Requeued) = Range(ready_queue) \union {next_proc}
    BY ONLY <1>1, <2>1, <2>2, EnqueueLemma
  <2>4. Head(Requeued) \in Procs /\ Head(Requeued) \in Range(Requeued)
    BY ONLY <2>3, DequeueLemma, Zenon
  <2>5. Head(Requeued) \in procs
    BY <1>2, <2>1, <2>3, <2>4, Zenon
  <2>6. RunningProc = next_proc /\ RunningProc' = Head(Requeued)
    BY <1>1, <1>3, <2>1, <2>3, <2>4, <2>5, Zenon DEF RunningProc
  <2>7. D!Yield
    BY <1>1, <2>1, <2>2, <2>3, <2>6, Zenon DEF D!Yield, RunningProc
  <2> QED
    BY <2>7, Zenon DEF D!Next
<1>4. CASE ~(curr_proc # NULL /\ ~sleep_curr)
  <2>1. Requeued = ready_queue
    BY <1>4, Zenon DEF Requeued
  <2>2. RunningProc \in {NULL, Main}
    BY <1>1, <1>4, Zenon DEF RunningProc, IrqInv, Control
  <2>3. CASE ready_queue # <<>>
    <3>1. Head(ready_queue) \in Procs /\ Head(ready_queue) \in procs
      BY ONLY <1>1, <1>2, <2>3, DequeueLemma, Zenon
    <3>2. RunningProc' = Head(ready_queue)
      BY <1>1, <2>1, <2>3, <3>1, Zenon DEF RunningProc
    <3>3. D!Dispatch
      BY <1>1, <2>1, <2>2, <2>3, <3>2, Zenon DEF D!Dispatch, RunningProc
    <3> QED
      BY <3>3, Zenon DEF D!Next
  <2>4. CASE ready_queue = <<>>
    <3>1. RunningProc' = Main /\ ready_queue' = <<>>
      BY <1>1, <2>1, <2>4, Zenon DEF RunningProc
    <3>2. CASE RunningProc = Main
      BY <1>1, <2>4, <3>1, <3>2, Zenon DEF D!dvars, RunningProc
    <3>3. CASE RunningProc = NULL
      <4>1. D!Idle
        BY <1>1, <2>4, <3>1, <3>3, Zenon DEF D!Idle, RunningProc
      <4> QED
        BY <4>1, Zenon DEF D!Next
    <3> QED
      BY <2>2, <3>2, <3>3, Zenon
  <2> QED
    BY <2>3, <2>4, Zenon
<1> QED
  BY <1>3, <1>4, Zenon

\* Every step of the scheduler is a step of Dispatcher or changes nothing that
\* Dispatcher sees.
LEMMA StepImplements == IrqInv /\ QueueInv /\ [Next]_vars => [D!Next]_(D!dvars)
<1>a. SUFFICES ASSUME IrqInv, QueueInv, [Next]_vars PROVE [D!Next]_(D!dvars)
  BY Zenon
<1> USE SchedAssumption
<1>1. CASE UNCHANGED vars
  BY <1>1, DispatcherStutters, Zenon DEF vars
<1>2. ASSUME NEW c \in {Main, Spawner}, NEW p \in Procs, CreateBegin(c, p)
      PROVE  [D!Next]_(D!dvars)
  BY <1>2, DispatcherStutters, Zenon DEF CreateBegin, queueVars
<1>3. ASSUME NEW c \in {Main, Spawner}, CreateDone(c) PROVE [D!Next]_(D!dvars)
  BY <1>3, DispatcherStutters, Zenon DEF CreateDone, queueVars, createVars
<1>4. ASSUME NEW p \in Procs \union {Main}, Section(p) \/ DisableNested(p)
      PROVE  [D!Next]_(D!dvars)
  BY <1>4, DispatcherStutters, Zenon
     DEF Section, DisableRead, DisableSet, DisableNested, Enable, queueVars, createVars
<1>5. ASSUME NEW p \in Procs, yield(p) \/ ExitDrop(p) PROVE [D!Next]_(D!dvars)
  BY <1>5, DispatcherStutters, Zenon DEF yield, Trap, ExitDrop, queueVars, createVars
<1>6. CASE ExitYield \/ MainYield \/ hlt
  BY <1>6, DispatcherStutters, Zenon DEF ExitYield, MainYield, hlt, Trap, queueVars, createVars
<1>7. CASE IRQ_generic_isr \/ iretq \/ IsrOther
  BY <1>7, DispatcherStutters, Zenon
     DEF IRQ_generic_isr, iretq, IsrOther, IsrReturn, queueVars, createVars
\* Only the flag of main_proc changes, which always counts as running.
<1>8. CASE MainCheck
  <2>1. next_proc = Main /\ UNCHANGED <<ready_queue, waitq, procs, next_proc>>
    BY <1>a, <1>8, Zenon DEF MainCheck, Running, IrqInv, Control, queueVars, createVars
  <2> QED
    BY <2>1, Zenon DEF D!dvars
<1>9. CASE PROC_reschedule
  BY <1>a, <1>9, RescheduleImplements, Zenon
\* PROC_create_process: the ready queue still is what the call has read.
<1>10. ASSUME NEW c \in {Main, Spawner}, CreateEnd(c) PROVE [D!Next]_(D!dvars)
  <2>1. ~wild /\ trap = "none" /\ curr_proc = c /\ pc[c] = "link" /\ c # NULL
    BY <1>10, Zenon DEF CreateEnd, Running, Procs
  <2>2. /\ next_proc = c
        /\ new_proc \in Procs /\ new_proc \notin procs /\ tail_seen = ready_queue
    BY <1>a, <2>1, Zenon DEF IrqInv, Control, Linking, QueueInv, Spawning
  <2>3. new_proc # next_proc
    BY <1>a, <2>1, <2>2, Zenon DEF QueueInv, Runner
  <2>4. /\ ready_queue' = Append(ready_queue, new_proc) /\ procs' = procs \union {new_proc}
        /\ UNCHANGED <<waitq, next_proc, sleep_curr>>
    BY <1>10, <2>2, Zenon DEF CreateEnd
  <2>5. D!Create(new_proc)
    BY <2>2, <2>3, <2>4, Zenon DEF D!Create
  <2> QED
    BY <2>2, <2>5, Zenon DEF D!Next
<1>11. ASSUME NEW p \in Procs, process_exit(p) PROVE [D!Next]_(D!dvars)
  <2>1. /\ ~wild /\ trap = "none" /\ curr_proc = p /\ pc[p] = "run" /\ p # NULL
        /\ procs' = procs \ {p} /\ UNCHANGED <<ready_queue, waitq, next_proc, sleep_curr>>
    BY <1>11, Zenon DEF process_exit, Running, queueVars
  <2>2. next_proc = p /\ ~sleep_curr /\ p \in procs
    BY <1>a, <2>1, Zenon DEF IrqInv, TypeOK, Control, QueueInv, Runner
  <2>3. D!Exit
    BY <2>1, <2>2, Zenon DEF D!Exit
  <2> QED
    BY <2>3, Zenon DEF D!Next
<1>12. ASSUME NEW p \in Procs, NEW q \in Queues, PROC_block_on(p, q) PROVE [D!Next]_(D!dvars)
  <2>1. /\ ~wild /\ trap = "none" /\ curr_proc = p /\ pc[p] = "critical" /\ p # NULL
        /\ waitq' = [waitq EXCEPT ![q] = Append(@, p)] /\ sleep_curr' = TRUE
        /\ UNCHANGED <<ready_queue, procs, next_proc>>
    BY <1>12, Zenon DEF PROC_block_on, Running, createVars
  <2>2. next_proc = p /\ ~sleep_curr /\ p \in procs
    BY <1>a, <2>1, Zenon DEF IrqInv, TypeOK, Control, QueueInv, Runner
  <2>3. D!Block(q)
    BY <2>1, <2>2, Zenon DEF D!Block
  <2> QED
    BY <2>3, Zenon DEF D!Next, D!Queues, Queues
<1>13. ASSUME NEW q \in AllQueues, IsrUnblockAll(q) PROVE [D!Next]_(D!dvars)
  <2>1. D!WakeAll(q)
    BY <1>13, Zenon DEF IsrUnblockAll, IsrReturn, createVars, D!WakeAll
  <2> QED
    BY <2>1, Zenon DEF D!Next
<1>14. ASSUME NEW q \in HeadQueues, IsrUnblockHead(q) PROVE [D!Next]_(D!dvars)
  <2>1. CASE waitq[q] = <<>>
    BY <1>14, <2>1, DispatcherStutters, Zenon DEF IsrUnblockHead, IsrReturn, queueVars, createVars
  <2>2. CASE waitq[q] # <<>>
    <3>1. D!WakeHead(q)
      BY <1>14, <2>2 DEF IsrUnblockHead, IsrReturn, createVars, D!WakeHead
    <3> QED
      BY <3>1, Zenon DEF D!Next
  <2> QED
    BY <2>1, <2>2, Zenon
<1>15. QED
  BY <1>a, <1>1, <1>2, <1>3, <1>4, <1>5, <1>6, <1>7, <1>8, <1>9, <1>10, <1>11, <1>12, <1>13,
     <1>14, ZenonT(60) DEF Next, Creating, GiveUp, Handler, MainStep, Isr

\* proc.c and interrupts.c implement the first-come first-served scheduler of
\* Dispatcher for any number of processes and wait queues, wherever interrupts
\* arrive: every system call and interrupt is one of its steps or none.
THEOREM SchedRefines == Spec => ImplementsDispatcher
<1>1. Init => D!Init
  BY SchedAssumption, Zenon DEF Init, D!Init, D!Queues, Queues
<1> QED
  BY <1>1, IrqInit, IrqNext, QueueInit, QueueNext, StepImplements, PTL
     DEF Spec, ImplementsDispatcher, D!Spec
=============================================================================
