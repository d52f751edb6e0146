-------------------------------- MODULE Ata --------------------------------
(***************************************************************************)
(* The disk driver of src/src/drivers/disk/ata.c: devices that serve one   *)
(* command at a time, for each a list of requests that live on the stacks  *)
(* of the processes that made them, and a queue of sleeping processes.     *)
(* Every device uses the same interrupt line.                              *)
(*                                                                         *)
(* The scheduler is Dispatcher, which module Sched implements.             *)
(* ata_read_block runs inside IRQ_disable until it sleeps; what follows    *)
(* runs without a yield, so only the interrupt handler can come between,   *)
(* and the device raises no interrupt before its next command.             *)
(***************************************************************************)
EXTENDS List

CONSTANTS
  Procs,   \* the processes that read from the disk
  Disks,   \* the IDE controllers the machine may have
  Main

ASSUME AtaAssumption ==
  /\ Main \notin Procs /\ NULL \notin Procs /\ NULL \notin Disks
  /\ IsFiniteSet(Procs) /\ IsFiniteSet(Disks)

VARIABLES
  running, runq, waiting, alive,  \* the scheduler, see Dispatcher
  links,     \* the headers of the lists, see List
  device,    \* each disk's status and the block of its last command
  irq,       \* a disk has raised the interrupt and it is not yet taken
  isr_arg,   \* the ATADevice that ata_isr is called with
  asked,     \* the disk and the block each process waits for (ATARequest.lba)
  result     \* what each process's last ata_read_block delivered

schedVars == <<running, runq, waiting, alive>>
diskVars == <<links, device, irq, isr_arg, asked, result>>

S == INSTANCE Dispatcher WITH AllQueues <- {}, HeadQueues <- Disks, NONE <- NULL

\* The header of the list of requests of disk d, and that of the ATARequest on
\* the stack of process p, which names the process.
requests(d) == <<"requests", d>>
req(p) == <<"req", p>>
ProcOf(header) == header[2]

NoRead == [disk |-> NULL, lba |-> NULL]

AtaInit ==
  /\ S!Init
  /\ device = [d \in Disks |-> [status |-> "idle", lba |-> NULL]]
  /\ irq = FALSE
  /\ isr_arg = NULL
  /\ asked = [p \in Procs |-> NoRead]
  /\ result = [p \in Procs |-> [asked |-> NULL, data |-> NULL]]

\* ata_write_lba, then the read command.
Command(lba) == [status |-> "busy", lba |-> lba]

\* Variant: every request is sent to the device at once.
IssueAlways(d, lba) == Command(lba)

\* The device after a request has arrived: a command only if it is the first.
Issue(d, lba) == IF LL_empty(links, requests(d)) THEN Command(lba) ELSE device[d]

\* ata_read_block up to the end of PROC_block_on.
ata_read_block(p, d, lba) ==
  /\ running = p /\ asked[p] = NoRead
  /\ device' = [device EXCEPT ![d] = Issue(d, lba)]
  /\ links' = LL_enqueue(links, requests(d), req(p))
  /\ asked' = [asked EXCEPT ![p] = [disk |-> d, lba |-> lba]]
  /\ S!Block(d)
  /\ UNCHANGED <<irq, isr_arg, result>>

ata_check_data(d) == device[d].status = "data"

\* The data of the last command.
ata_read(d) == device[d].lba

\* Variant: no further command is sent.
StartNextNever(d, L) == [status |-> "idle", lba |-> NULL]

\* The device after the data has been read, with list L of requests left.
StartNext(d, L) ==
  LET next == LL_head(L, requests(d))
  IN IF next = NULL THEN [status |-> "idle", lba |-> NULL]
     ELSE Command(asked[ProcOf(next)].lba)

\* ata_read_block after PROC_block_on: give up if there is no data, else take
\* the head request off the list, read, and start the next one.
ata_read_blockResume(p) ==
  /\ running = p /\ asked[p] # NoRead
  /\ LET d == asked[p].disk
     IN IF ata_check_data(d)
        THEN /\ links' = LL_dequeue(links, requests(d))
             /\ result' = [result EXCEPT ![p] = [asked |-> asked[p].lba, data |-> ata_read(d)]]
             /\ device' = [device EXCEPT ![d] = StartNext(d, links')]
        ELSE /\ result' = [result EXCEPT ![p] = [asked |-> asked[p].lba, data |-> NULL]]
             /\ UNCHANGED <<links, device>>
  /\ asked' = [asked EXCEPT ![p] = NoRead]
  /\ UNCHANGED <<schedVars, irq, isr_arg>>

\* External: a disk finishes its command and raises the interrupt.
DeviceDone(d, status) ==
  /\ device[d].status = "busy"
  /\ device' = [device EXCEPT ![d].status = status]
  /\ irq' = TRUE
  /\ UNCHANGED <<schedVars, links, isr_arg, asked, result>>

\* Variant: returns before it wakes anybody.
ata_isrSilent ==
  /\ isr_arg # NULL
  /\ irq \/ device[isr_arg].status \in {"idle", "busy"}
  /\ irq' = FALSE
  /\ UNCHANGED <<schedVars, links, device, isr_arg, asked, result>>

\* ata_isr.  The line may also be raised by nobody while the device has no
\* result to show (a stale IDENTIFY interrupt): the handler then only logs.
ata_isr ==
  /\ isr_arg # NULL
  /\ irq \/ device[isr_arg].status \in {"idle", "busy"}
  /\ irq' = FALSE
  /\ IF ata_check_data(isr_arg) /\ waiting[isr_arg] # <<>>
     THEN S!WakeHead(isr_arg)
     ELSE UNCHANGED schedVars
  /\ UNCHANGED <<links, device, isr_arg, asked, result>>
-----------------------------------------------------------------------------
\* The disks whose list of requests ata_probe has initialised.
Probed == {d \in Disks : links[requests(d)].next # NULL}

\* The processes whose requests are on the list of disk d.
Requesters(d) ==
  LET visited == Visited(links, requests(d))
  IN [k \in 1..Len(visited) |-> ProcOf(visited[k])]

\* A read delivers the block that was asked for, although requests and
\* sleepers are on two queues and the process that reads takes whatever
\* request is at the head.
ReadsOwnBlock == \A p \in Procs : result[p].data = result[p].asked

\* The two queues agree: request k belongs to sleeper k, except that the
\* process whose data is ready has left the sleepers and not yet the requests;
\* and the links of the requests, which lie on the stacks of the processes,
\* are right in both directions.
QueuesAgree ==
  \A d \in Probed :
    LET rs == Requesters(d)
    IN /\ Ring(links, requests(d), [k \in 1..Len(rs) |-> req(rs[k])])
       /\ \/ rs = waiting[d]
          \/ /\ ata_check_data(d) /\ rs # <<>>
             /\ waiting[d] = Tail(rs)
             /\ Head(rs) = running \/ \E k \in 1..Len(runq) : runq[k] = Head(rs)

\* A disk is at work, or shows its result, exactly while there are requests,
\* and then on the first of them: no command is sent to a device that has not
\* finished.
DeviceServesHead ==
  \A d \in Probed :
    IF Requesters(d) = <<>> THEN device[d].status = "idle"
    ELSE device[d].status # "idle" /\ device[d].lba = asked[Head(Requesters(d))].lba
=============================================================================
