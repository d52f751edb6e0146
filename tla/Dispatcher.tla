----------------------------- MODULE Dispatcher -----------------------------
(***************************************************************************)
(* What the scheduler promises to processes and drivers, without the       *)
(* interrupt flag, the system call handler and the two-variable hand-over  *)
(* between curr_proc and next_proc.  A process is created onto the run     *)
(* queue; the processor takes processes from its head and puts one that    *)
(* yields at its tail; a process that blocks waits, in arrival order, on   *)
(* one queue until an interrupt moves it to the tail of the run queue.     *)
(* Module Sched implements this specification.                             *)
(***************************************************************************)
EXTENDS Sequences

CONSTANTS Procs, AllQueues, HeadQueues, Main, NONE

Queues == AllQueues \union HeadQueues

VARIABLES
  running,  \* the process that runs, Main, or NONE while one gives up
  runq,     \* the processes that can run
  waiting,  \* the processes that wait, for each queue
  alive     \* the processes created and not yet exited

dvars == <<running, runq, waiting, alive>>

Init ==
  /\ running = Main
  /\ runq = <<>>
  /\ waiting = [q \in Queues |-> <<>>]
  /\ alive = {}

Create(p) ==
  /\ p \notin alive
  /\ alive' = alive \union {p}
  /\ runq' = Append(runq, p)
  /\ UNCHANGED <<running, waiting>>

Yield ==
  /\ running \in Procs
  /\ running' = Head(Append(runq, running))
  /\ runq' = Tail(Append(runq, running))
  /\ UNCHANGED <<waiting, alive>>

Block(q) ==
  /\ running \in Procs
  /\ waiting' = [waiting EXCEPT ![q] = Append(@, running)]
  /\ running' = NONE
  /\ UNCHANGED <<runq, alive>>

Exit ==
  /\ running \in Procs
  /\ alive' = alive \ {running}
  /\ running' = NONE
  /\ UNCHANGED <<runq, waiting>>

Dispatch ==
  /\ running \in {NONE, Main} /\ runq # <<>>
  /\ running' = Head(runq)
  /\ runq' = Tail(runq)
  /\ UNCHANGED <<waiting, alive>>

Idle ==
  /\ running = NONE /\ runq = <<>>
  /\ running' = Main
  /\ UNCHANGED <<runq, waiting, alive>>

WakeAll(q) ==
  /\ runq' = runq \o waiting[q]
  /\ waiting' = [waiting EXCEPT ![q] = <<>>]
  /\ UNCHANGED <<running, alive>>

WakeHead(q) ==
  /\ waiting[q] # <<>>
  /\ runq' = Append(runq, Head(waiting[q]))
  /\ waiting' = [waiting EXCEPT ![q] = Tail(@)]
  /\ UNCHANGED <<running, alive>>

Next ==
  \/ \E p \in Procs : Create(p)
  \/ Yield \/ Exit \/ Dispatch \/ Idle
  \/ \E q \in Queues : Block(q)
  \/ \E q \in AllQueues : WakeAll(q)
  \/ \E q \in HeadQueues : WakeHead(q)

Spec == Init /\ [][Next]_dvars
=============================================================================
