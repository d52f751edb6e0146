-------------------------- MODULE DispatcherProofs --------------------------
(***************************************************************************)
(* What Dispatcher guarantees whatever its clients do: a process is in one *)
(* place.  The drivers' proofs use it through an instance of this module.  *)
(***************************************************************************)
EXTENDS Dispatcher, CommonLemmas

TypeOK ==
  /\ running \in Procs \union {Main, NONE}
  /\ runq \in Seq(Procs)
  /\ waiting \in [Queues -> Seq(Procs)]
  /\ alive \subseteq Procs

Waits(p) == \E q \in Queues : p \in Range(waiting[q])

\* A process runs, can run, or waits on one queue, and is there once.
OnePlace ==
  /\ IsInjective(runq) /\ \A q \in Queues : IsInjective(waiting[q])
  /\ \A p \in Range(runq) : ~Waits(p) /\ p # running
  /\ ~Waits(running)
  /\ \A q, r \in Queues : q # r => Range(waiting[q]) \intersect Range(waiting[r]) = {}
  /\ \A p \in Procs : p \in alive <=> p = running \/ p \in Range(runq) \/ Waits(p)

DispatcherInv == TypeOK /\ OnePlace

Constants == Main \notin Procs /\ NONE \notin Procs

\* When PROC_init has run nobody but the main thread exists.
LEMMA DispatcherInit == Constants /\ Init => DispatcherInv
<1> SUFFICES ASSUME Constants, Init PROVE DispatcherInv
  OBVIOUS
<1>1. TypeOK
  BY DEF Init, TypeOK
<1>2. Range(runq) = {} /\ IsInjective(runq)
  BY EmptyQueueLemma DEF Init
<1>3. \A q \in Queues : Range(waiting[q]) = {} /\ IsInjective(waiting[q])
  BY EmptyQueueLemma DEF Init
<1>4. OnePlace
  BY <1>2, <1>3 DEF Init, OnePlace, Waits, Constants
<1> QED
  BY <1>1, <1>4 DEF DispatcherInv

\* PROC_create_kthread, PROC_block_on, the unblock calls, kexit and
\* PROC_reschedule keep every process in one place.
LEMMA DispatcherNext == Constants /\ DispatcherInv /\ [Next]_dvars => DispatcherInv'
<1>a. SUFFICES ASSUME Constants, DispatcherInv, [Next]_dvars PROVE DispatcherInv'
  OBVIOUS
<1>b. /\ runq \in Seq(Procs) /\ waiting \in [Queues -> Seq(Procs)]
      /\ \A q \in Queues : waiting[q] \in Seq(Procs)
      /\ Range(runq) \subseteq Procs
      /\ \A p : Waits(p) => p \in Procs
  BY <1>a, EmptyQueueLemma DEF DispatcherInv, TypeOK, Waits
<1>c. TypeOK /\ OnePlace
  BY <1>a DEF DispatcherInv
<1>1. CASE UNCHANGED dvars
  BY <1>c, <1>1 DEF dvars, DispatcherInv, TypeOK, OnePlace, Waits
<1>2. ASSUME NEW p \in Procs, Create(p) PROVE DispatcherInv'
  <2>1. /\ p \notin alive /\ runq' = Append(runq, p)
        /\ alive' = alive \union {p} /\ UNCHANGED <<running, waiting>>
    BY <1>2 DEF Create
  <2>2. p # running /\ p \notin Range(runq) /\ ~Waits(p)
    BY <1>c, <2>1 DEF OnePlace
  <2>3. /\ runq' \in Seq(Procs) /\ Range(runq') = Range(runq) \union {p}
        /\ IsInjective(runq')
    <3>1. IsInjective(runq)
      BY <1>c DEF OnePlace
    <3> QED
      BY ONLY <1>b, <2>1, <2>2, <3>1, EnqueueLemma, p \in Procs
  <2>4. \A x : Waits(x)' <=> Waits(x)
    BY <2>1 DEF Waits
  <2>5. TypeOK'
    BY <1>c, <2>1, <2>3 DEF TypeOK
  <2>6. OnePlace'
    BY <1>c, <2>1, <2>2, <2>3, <2>4 DEF OnePlace
  <2> QED
    BY <2>5, <2>6 DEF DispatcherInv
<1>3. CASE Yield
  <2>1. /\ running \in Procs
        /\ UNCHANGED <<waiting, alive>>
    BY <1>3 DEF Yield
  <2>2. PICK s : s = Append(runq, running)
    OBVIOUS
  <2>3. running' = Head(s) /\ runq' = Tail(s)
    BY <1>3, <2>2 DEF Yield
  <2>4. running \notin Range(runq) /\ ~Waits(running) /\ IsInjective(runq)
    BY <1>c DEF OnePlace
  <2>5. s \in Seq(Procs) /\ s # <<>> /\ Range(s) = Range(runq) \union {running} /\ IsInjective(s)
    BY ONLY <1>b, <2>1, <2>2, <2>4, EnqueueLemma
  <2>6. /\ running' \in Procs /\ runq' \in Seq(Procs)
        /\ Range(s) = Range(runq') \union {running'}
        /\ IsInjective(runq') /\ running' \notin Range(runq')
    BY ONLY <2>3, <2>5, DequeueLemma
  <2>7. \A x : Waits(x)' <=> Waits(x)
    BY <2>1 DEF Waits
  <2>8. \A x : x \in Range(runq) \/ x = running <=> x \in Range(runq') \/ x = running'
    BY <2>5, <2>6
  <2>9. TypeOK'
    BY <1>c, <2>1, <2>6 DEF TypeOK
  <2>10. OnePlace'
    BY <1>c, <2>1, <2>4, <2>6, <2>7, <2>8 DEF OnePlace
  <2> QED
    BY <2>9, <2>10 DEF DispatcherInv
<1>4. CASE Exit
  <2>1. /\ running \in Procs /\ running' = NONE /\ alive' = alive \ {running}
        /\ UNCHANGED <<runq, waiting>>
    BY <1>4 DEF Exit
  <2>2. \A x : Waits(x)' <=> Waits(x)
    BY <2>1 DEF Waits
  <2>3. TypeOK'
    BY <1>c, <2>1 DEF TypeOK
  <2>4. ~Waits(NONE) /\ NONE \notin Range(runq)
    BY <1>a, <1>b DEF Constants
  <2>5. OnePlace'
    BY <1>a, <1>c, <2>1, <2>2, <2>4 DEF OnePlace, Constants
  <2> QED
    BY <2>3, <2>5 DEF DispatcherInv
<1>5. CASE Dispatch
  <2>1. /\ running \in {NONE, Main} /\ runq # <<>>
        /\ running' = Head(runq) /\ runq' = Tail(runq) /\ UNCHANGED <<waiting, alive>>
    BY <1>5 DEF Dispatch
  <2>2. running \notin Procs
    BY <1>a, <2>1 DEF Constants
  <2>3. IsInjective(runq)
    BY <1>c DEF OnePlace
  <2>4. /\ running' \in Procs /\ runq' \in Seq(Procs)
        /\ Range(runq) = Range(runq') \union {running'}
        /\ IsInjective(runq') /\ running' \notin Range(runq')
    BY ONLY <1>b, <2>1, <2>3, DequeueLemma
  <2>5. \A x : Waits(x)' <=> Waits(x)
    BY <2>1 DEF Waits
  <2>6. TypeOK'
    BY <1>c, <2>1, <2>4 DEF TypeOK
  <2>7. OnePlace'
    BY <1>c, <2>1, <2>2, <2>4, <2>5 DEF OnePlace
  <2> QED
    BY <2>6, <2>7 DEF DispatcherInv
<1>6. CASE Idle
  <2>1. running = NONE /\ running' = Main /\ UNCHANGED <<runq, waiting, alive>>
    BY <1>6 DEF Idle
  <2>2. \A x : Waits(x)' <=> Waits(x)
    BY <2>1 DEF Waits
  <2>3. TypeOK'
    BY <1>c, <2>1 DEF TypeOK
  <2>4. ~Waits(Main) /\ Main \notin Range(runq)
    BY <1>a, <1>b DEF Constants
  <2>5. OnePlace'
    BY <1>a, <1>c, <2>1, <2>2, <2>4 DEF OnePlace, Constants
  <2> QED
    BY <2>3, <2>5 DEF DispatcherInv
<1>7. ASSUME NEW q \in Queues, Block(q) PROVE DispatcherInv'
  <2>1. /\ running \in Procs /\ running' = NONE
        /\ waiting' = [waiting EXCEPT ![q] = Append(@, running)]
        /\ UNCHANGED <<runq, alive>>
    BY <1>7 DEF Block
  <2>2. /\ waiting'[q] = Append(waiting[q], running)
        /\ \A r \in Queues : r # q => waiting'[r] = waiting[r]
        /\ waiting' \in [Queues -> Seq(Procs)]
    BY ONLY <1>b, <2>1, q \in Queues
  <2>3. running \notin Range(runq) /\ \A r \in Queues : running \notin Range(waiting[r])
    BY <1>c DEF OnePlace, Waits
  <2>4. /\ Range(waiting'[q]) = Range(waiting[q]) \union {running}
        /\ IsInjective(waiting'[q])
    <3>1. IsInjective(waiting[q])
      BY <1>c DEF OnePlace
    <3> QED
      BY ONLY <1>b, <2>1, <2>2, <2>3, <3>1, EnqueueLemma, q \in Queues
  <2>5. \A x : Waits(x)' <=> Waits(x) \/ x = running
    BY ONLY <2>2, <2>4, q \in Queues DEF Waits
  <2>6. TypeOK'
    BY <1>c, <2>1, <2>2 DEF TypeOK
  <2>7. \A r, s \in Queues : r # s => Range(waiting'[r]) \intersect Range(waiting'[s]) = {}
    <3>1. \A r, s \in Queues : r # s => Range(waiting[r]) \intersect Range(waiting[s]) = {}
      BY <1>c DEF OnePlace
    <3> SUFFICES ASSUME NEW r \in Queues, NEW s \in Queues, r # s
                 PROVE  Range(waiting'[r]) \intersect Range(waiting'[s]) = {}
      OBVIOUS
    <3>2. CASE r # q /\ s # q
      BY ONLY <2>2, <3>1, <3>2, r \in Queues, s \in Queues, r # s
    <3>3. CASE r = q
      BY ONLY <2>2, <2>3, <2>4, <3>1, <3>3, r \in Queues, s \in Queues, r # s
    <3>4. CASE s = q
      BY ONLY <2>2, <2>3, <2>4, <3>1, <3>4, r \in Queues, s \in Queues, r # s
    <3> QED
      BY <3>2, <3>3, <3>4
  <2>8. \A r \in Queues : IsInjective(waiting'[r])
    BY <1>c, <2>2, <2>4, Zenon DEF OnePlace
  <2>9. ~Waits(NONE) /\ NONE \notin Range(runq) /\ NONE # running
    BY <1>a, <1>b, <2>1 DEF Constants
  <2>10. OnePlace'
    BY <1>a, <1>c, <2>1, <2>3, <2>5, <2>7, <2>8, <2>9 DEF OnePlace, Constants
  <2> QED
    BY <2>6, <2>10 DEF DispatcherInv
<1>8. ASSUME NEW q \in AllQueues, WakeAll(q) PROVE DispatcherInv'
  <2>1. /\ q \in Queues /\ runq' = runq \o waiting[q]
        /\ waiting' = [waiting EXCEPT ![q] = <<>>] /\ UNCHANGED <<running, alive>>
    BY <1>8 DEF WakeAll, Queues
  <2>2. /\ waiting'[q] = <<>>
        /\ \A r \in Queues : r # q => waiting'[r] = waiting[r]
        /\ waiting' \in [Queues -> Seq(Procs)]
        /\ Range(waiting'[q]) = {} /\ IsInjective(waiting'[q])
    BY ONLY <1>b, <2>1, EmptyQueueLemma
  <2>3. /\ IsInjective(runq) /\ IsInjective(waiting[q])
        /\ Range(runq) \intersect Range(waiting[q]) = {}
    BY <1>c, <2>1 DEF OnePlace, Waits
  <2>4. /\ runq' \in Seq(Procs) /\ Range(runq') = Range(runq) \union Range(waiting[q])
        /\ IsInjective(runq')
    BY ONLY <1>b, <2>1, <2>3, TransferLemma
  <2>5. \A x : Waits(x)' <=> \E r \in Queues : r # q /\ x \in Range(waiting[r])
    BY ONLY <2>1, <2>2 DEF Waits
  <2>6. \A r \in Queues : r # q => Range(waiting[q]) \intersect Range(waiting[r]) = {}
    BY <1>c, <2>1 DEF OnePlace
  <2>7. \A x : Waits(x) <=> Waits(x)' \/ x \in Range(waiting[q])
    BY ONLY <2>1, <2>5 DEF Waits
  <2>8. \A x \in Range(waiting[q]) : ~Waits(x)' /\ x # running
    BY <1>c, <2>5, <2>6, <2>7 DEF OnePlace
  <2>9. TypeOK'
    BY <1>c, <2>1, <2>2, <2>4 DEF TypeOK
  <2>10. /\ \A r \in Queues : IsInjective(waiting'[r])
         /\ \A r, s \in Queues : r # s => Range(waiting'[r]) \intersect Range(waiting'[s]) = {}
    BY <1>c, <2>2, Zenon DEF OnePlace
  <2>11. OnePlace'
    BY <1>c, <2>1, <2>4, <2>7, <2>8, <2>10 DEF OnePlace
  <2> QED
    BY <2>9, <2>11 DEF DispatcherInv
<1>9. ASSUME NEW q \in HeadQueues, WakeHead(q) PROVE DispatcherInv'
  <2>1. PICK h : h = Head(waiting[q])
    OBVIOUS
  <2>2. /\ q \in Queues /\ waiting[q] # <<>> /\ runq' = Append(runq, h)
        /\ waiting' = [waiting EXCEPT ![q] = Tail(@)] /\ UNCHANGED <<running, alive>>
    BY <1>9, <2>1 DEF WakeHead, Queues
  <2>3. IsInjective(runq) /\ IsInjective(waiting[q])
    BY <1>c, <2>2 DEF OnePlace
  <2>4. /\ h \in Procs /\ Tail(waiting[q]) \in Seq(Procs)
        /\ Range(waiting[q]) = Range(Tail(waiting[q])) \union {h}
        /\ IsInjective(Tail(waiting[q])) /\ h \notin Range(Tail(waiting[q]))
    BY ONLY <1>b, <2>1, <2>2, <2>3, DequeueLemma
  <2>5. /\ waiting'[q] = Tail(waiting[q])
        /\ \A r \in Queues : r # q => waiting'[r] = waiting[r]
        /\ waiting' \in [Queues -> Seq(Procs)]
    BY ONLY <1>b, <2>2, <2>4
  <2>6. Waits(h) /\ h # running /\ h \notin Range(runq)
    BY <1>c, <2>2, <2>4 DEF OnePlace, Waits
  <2>7. /\ runq' \in Seq(Procs) /\ Range(runq') = Range(runq) \union {h}
        /\ IsInjective(runq')
    BY ONLY <1>b, <2>2, <2>3, <2>4, <2>6, EnqueueLemma
  <2>8. \A r \in Queues : Range(waiting'[r]) \subseteq Range(waiting[r]) /\ h \notin Range(waiting'[r])
    <3>1. \A r \in Queues : r # q => Range(waiting[q]) \intersect Range(waiting[r]) = {}
      BY <1>c, <2>2 DEF OnePlace
    <3> QED
      BY ONLY <2>2, <2>4, <2>5, <3>1
  <2>9. \A x : Waits(x) <=> Waits(x)' \/ x = h
    BY ONLY <2>2, <2>4, <2>5, <2>8 DEF Waits
  <2>10. ~Waits(h)'
    BY ONLY <2>8 DEF Waits
  <2>11. TypeOK'
    BY <1>c, <2>2, <2>5, <2>7 DEF TypeOK
  <2>12. /\ \A r \in Queues : IsInjective(waiting'[r])
         /\ \A r, s \in Queues : r # s => Range(waiting'[r]) \intersect Range(waiting'[s]) = {}
    <3>1. \A r \in Queues : IsInjective(waiting[r])
      BY <1>c DEF OnePlace
    <3>2. \A r \in Queues : IsInjective(waiting'[r])
      BY ONLY <2>4, <2>5, <3>1, Zenon
    <3> QED
      BY <1>c, <2>8, <3>2 DEF OnePlace
  <2>13. OnePlace'
    BY <1>c, <2>2, <2>6, <2>7, <2>9, <2>10, <2>12 DEF OnePlace
  <2> QED
    BY <2>11, <2>13 DEF DispatcherInv
<1>10. QED
  BY <1>a, <1>1, <1>2, <1>3, <1>4, <1>5, <1>6, <1>7, <1>8, <1>9, Zenon DEF Next

\* A process under Dispatcher is in one place, once, from its creation to its
\* exit, for any number of processes and queues: this is what the drivers
\* rely on when they put the running process to sleep or wake one.
THEOREM OnePlaceAlways == Constants => (Spec => []OnePlace)
<1> SUFFICES ASSUME Constants PROVE Spec => []OnePlace
  OBVIOUS
<1>1. DispatcherInv => OnePlace
  BY DEF DispatcherInv
<1>2. Init => DispatcherInv
  BY DispatcherInit
<1>3. DispatcherInv /\ [Next]_dvars => DispatcherInv'
  BY DispatcherNext
<1> QED
  BY <1>1, <1>2, <1>3, PTL DEF Spec
=============================================================================
