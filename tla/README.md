# Verification of the marimba kernel

marimba is a small x86_64 kernel for one processor: a cooperative scheduler with nested
interrupt masking, physical and virtual memory, a heap, a keyboard, a disk, a screen and a
serial port, and the beginnings of a file system.  This directory models it in TLA+, checks
the models with TLC on small instances and proves most of their safety properties with TLAPS,
for every size.

## The system and its modules

| Part | Source (src/src/) | Modules | State of the work |
| --- | --- | --- | --- |
| Scheduler, context switch, idle loop | proc.c, kmain.c, syscall.c, arch/x86_64/proc.c | `Sched`, abstractly `Dispatcher` | checked, refined, proved |
| Interrupt masking and entry | arch/x86_64/interrupts.c, atomic.c, isr.asm | `Sched` | checked, proved |
| Interrupt controllers, handler table | arch/x86_64/interrupts.c | `Pic`, composed in `Console` | checked, proved |
| Linked lists | list.c | `List` | proved, used by `Ata` and `Files` |
| Keyboard | drivers/keyboard/ps2.c, keyboard.c | `Ps2` over `Dispatcher` | checked, proved |
| Disk | drivers/disk/ata.c | `Ata` over `Dispatcher` and `List` | checked, proved |
| PCI, block devices, partitions, FAT32, filesystem process | drivers/pci.c, fs.c, fs/fat.c, procs/fs.c | `Files` over `Ata` | checked, proved |
| Screen, number formatting | vga.c, printk.c | `Vga`, `Printk` | checked; the screen proved |
| Serial port, boot of the console | drivers/serial/, arch/x86_64/hw_init.c, printk.c | `Serial` over `Pic`, `Console` | checked, proved |
| Memory map at boot | boot.c, elf.c, utils.c, mmu.c (first part) | `MemMap` | checked |
| Frame allocator | mmu.c | `Frames`, abstractly `FramePool`; `Memory` composes it with `MemMap` | checked, refined, proved |
| Page table, heap pages, stacks | mmu.c, arch/x86_64/paging.c | `Paging` | checked, proved |
| Heap | kmalloc.c | `Kmalloc` | checked, proved |

How the parts depend on each other: the drivers sleep and wake processes through
PROC_block_on and PROC_unblock_*.  `Sched` models these with every interrupt that can come
between two instructions that matter, and is shown to implement `Dispatcher`, in which each
call is one step.  `Ps2` and `Ata` use `Dispatcher`, so their state stays small.  `Files` runs
the boot of the devices and the file system on top of `Ata`, with the lists of `List` as they
are in memory.  In the same way `MemMap` computes the segments from which `Frames` works, and
`Frames` implements `FramePool`, whose first-in first-out order is what `Paging` keeps in its
field `pool`; `Kmalloc` uses of `Paging` only that MMU_alloc_pages hands out ascending
addresses and fails for good at the end of the heap.

## The models

**Sched.**  `cpu` is irq_semaphore and the interrupt flag.  Code that runs with the flag clear
is one action; code that runs with it set is cut wherever an interrupt makes a difference:
IRQ_disable into the read of the counter and the rest (`DisableRead`, `DisableSet`),
PROC_create_process into the read of the queue's tail and the store (`CreateBegin`,
`CreateEnd`), process_exit into the free, curr_proc = NULL and the yield (`process_exit`,
`ExitDrop`, `ExitYield`), and INT 123 into `yield`, `PROC_reschedule`, `IRQ_generic_isr` and
`iretq`.  `IsrUnblockAll`, `IsrUnblockHead` and `IsrOther` are hardware interrupts.  Processes
are the most general client: in any order they yield, nest IRQ_disable sections, block or
exit.  `wild` records that a context was loaded from a freed Process (see the findings);
nothing is modelled after that, and the properties that depend on a sane context say `~wild`.

**List.**  A function from headers to their two links, and every operation of list.c that the
kernel uses as the stores it makes.  `Ring` says that a header's list is a given sequence in
both directions.

**Ps2.**  The ring buffer, one position per open file, and readers that sleep.  A key is
translated with the shift state of its arrival.  A reader that falls a whole buffer behind is
`lapped`: the code does not detect this, and the properties are stated for the others.

**Ata, Files.**  In `Ata`, the requests on the stacks of their processes, linked as in list.c;
the sleepers; and disks that answer each command once, with data or an error.  An interrupt may
also come while the disk has nothing to show.  That it raises no second interrupt for the same
data is assumed (reading the status register acknowledges it).  `Files` is kmain from PCI_enum
to the creation of the processes (`PCI_enum`, `FS_register_cdev`, `PCI_register` with
`ata_probe`), then filesystem_init statement by statement, each read of a block being a call
of `Ata`.  Every kmalloc may fail.  All lists (inodes, character and block devices, PCI
devices, requests) live in one variable `links`, because the static initialiser of the list of
character devices points at that of the block devices and operations on one touch the other.

**Vga, Printk.**  `Vga` compares the screen with endless paper.  Carriage returns are limited to
lines that fit on the screen, which is how the repository uses them.  `Printk` walks a format
and converts an argument as its type says.

**Pic, Serial, Console.**  `Pic` is the handler table, the masks and the end-of-interrupt
commands, with the two cascaded 8259 controllers as external state.  `Serial` is the ring
buffer before the port; `Console` boots both (interrupts are on from IRQ_x86_64_init on, so
every later step races with them) and lets a process and ata_isr print.

**MemMap, Frames, Memory.**  `MemMap` parses the bootloader's tags, sorts, and computes the free
segments, one step per round of the last loop; addresses wrap.  Undefined order in the
overlapping structure copy of mmap_entry_swp is a choice.  `Memory` states, without lists, what
a map means (`FreePages`), and hands the segments to `Frames`, which keeps the links of its
free list inside the free frames and lets every holder overwrite them.

**Paging, Kmalloc.**  `Paging` names tables by the path that leads to them and counts addresses
in words.  `Kmalloc` has the headers, lists and addresses of all blocks.

## The runs

| Run | What it shows |
| --- | --- |
| `sched_irq` | the counter is exact and masks interrupts; no process is linked twice, lost, or resumed before it was woken; creation is undisturbed |
| `sched_live` | every ready process runs if the processor does not stay halted; interrupts are never left off for ever; Sched implements Dispatcher |
| `sched_shift` | violation, see the findings |
| `ps2` | a sleeping reader has nothing to read; every reader gets every character in order; reads return |
| `files` | each read gets its own block; both queues stay in step; a disk works on the head request only; BLK_open finds exactly the registered devices; mounting reads only its partition if the header fits it; reads return if the disk does not fail and is the only one |
| `console` | accepted characters are sent once, in order, all of them; the port never rests on a filled buffer; no interrupt comes before its handler; none stays in service |
| `printk` | writes stay in the buffer; the screen shows the last rows; a newline goes below everything displayed; numbers are displayed exactly |
| `memory` | for an ordinary map the free segments are RAM without the kernel and page 0, and boot ends; the free list is intact; every frame is in one place; the allocator is a first-in first-out pool |
| `memory_gaps` | violation, see the findings |
| `paging` | every frame has one role; pages are mapped below existing tables, never mapped twice, and stay usable and stable while in use |
| `paging_stacks` | violation, see the findings |
| `kmalloc` | blocks do not overlap, and are in use or once on their pool's list; users stay out of others' blocks, but for the header that large blocks lack |

**Bounds.**  Five processes in `sched_irq` (two created by kmain, a creator and its two
children), three in `sched_live`; one queue of each kind; nesting 2, so that the inner and the
outer IRQ_enable differ; a counter up to 7, so that a wrap is seen.  `ps2`: a buffer of 3 and 4
characters, so that it wraps and laps; two readers.  `files`: three processes, so that a queue
has a middle; seven machines with none, one or two controllers in different slots and functions,
with and without boot record, FAT32 and other partitions.  `console`: a ring of 3, three
characters of the process and two of the handler in strings of up to two, so that the ring fills
and wraps; the disk interrupts twice, the timer without limit.  `printk`: a screen of 2 by 2 and
10 characters, enough to scroll, for lines longer than the screen and for a cursor below zero;
bases 3 and 4 and types of 4, 16 and 64 values, so that every value of every type is converted.
`memory`: seven pages of two bytes, nine RAM maps and all images of up to three of five sections
in any order, and one without sections; tables of three entries, so that they fill.  `paging`:
seven frames, fewer than the tables and pages need, and two stacks below each other; MaxMasked
ends a behaviour's allocations after one that failed.  `kmalloc`: two pools, a heap of six pages
that runs out, and large requests that fill their pages exactly and almost.  Deadlock checking is
off where the system may stop: a context in freed memory, a device error (the driver then waits
for ever), exhausted memory, a panic, or a bound that is reached.

**Fairness.**  The processor keeps executing (weak fairness of the steps of the running code
and of the handlers).  A process is strongly fair in giving the processor up, because every
body in procs/ yields, blocks or returns again and again, but may be interrupted each time it
is about to.  Devices answer, the port sends, and interrupts that stay pending are taken.
Nothing is assumed about keys or other interrupts: `ReadyRuns` has as its premise that the
processor is not left halted, since an interrupt between PROC_run and hlt can leave a ready
process waiting for the next one.

## Findings

- `sched_shift`: process_exit clears curr_proc with interrupts enabled, which requests a
  context shift; a comment in interrupts.c says interrupts are then disabled.
- `paging_stacks`: the limit of the stack allocator is never met, and stacks leave the region
  that docs/x86_64_vmap.md gives them.
- `memory_gaps`: a free segment that is split around a piece of the kernel's image has no end,
  so a second piece behind a gap is not removed from it.  The sections that linker.ld lays out
  leave no such gap, and `memory` is stated for them; a bootloader that puts other sections
  (symbols, debugging information) elsewhere makes one.

Limits that the passing properties state instead of hiding:

- MMU_free_stack walks upwards, so `Usable` covers only the top page of a stack.
- kmalloc counts the pages of a large block without the header in front of it: 4096 bytes asked
  for are 4080 usable ones.  `BlocksApart` is about the pages and blocks allotted; `UsersApart`
  is about the bytes users asked for, and names this exception: the user of a large block, and no
  other, reaches out of it, by no more than a header.
- FS_register_fat32 does not check its header against the size of the partition, so the upper
  bound of `InsidePartition` is stated for a header that fits (`VolumeFits`); one machine of the
  run has one that does not.  The tables are read from sector 1 + rsvd_sects on, while the uncalled
  fat32_read_clust counts as if they began at rsvd_sects.
- PT_free does not flush the TLB.  `NeverRemapped` shows that no page gets a second frame behind a
  stale entry.  It does not show that the missing flush is harmless: MMU_free_stack and
  process_exit free pages that are still in use, which then work through stale entries on frames
  that may have another owner.
- After a disk error reads need not return; with two IDE controllers the handler knows only the
  second, while BLK_open finds the first (`ReadReturns`).
- `FreeIsRest` and `BootEnds` are stated for an `Ordinary` map: RAM entries ascending (the sort
  swaps them with the wrong size), each with a whole page (a smaller one wraps or confuses the
  list), room for one more segment, and no RAM region inside the kernel (that loop would not
  end).
- A new process starts with interrupts off, until it yields or ends an IRQ_disable section;
  `InterruptsReturn` shows that this comes.

## The proofs

TLAPS checks the theorems below for every value of the constants: any number of processes,
queues, disks, slots and frames, any sizes of buffers, pages, screens and tables, and behaviours
of any length.  Each invariant that a run checks and a theorem states is the same definition.

| Module | Theorem | Establishes |
| --- | --- | --- |
| `SchedProofs` | `IrqSafety`, `QueueSafety`, `NoneLost`, `CreationSafety`, `ResumeSafety` | `IrqDiscipline`, `LinkedOnce`, `NoProcessLost`, `CreateUndisturbed`, `ResumedOnlyWhenWoken` |
| | `SchedRefines` | `ImplementsDispatcher`: every step of Sched is a step or a stutter of Dispatcher |
| `DispatcherProofs` | `OnePlaceAlways` | in Dispatcher every live process is in one place, whatever its clients do |
| `FifoProofs` | `SleepSafety`, `ReadSafety` | `SleepersHaveNothing`, `ReadsInOrder` |
| | `ListStaysIntact`, `FramesStayApart` | `ListIntact`, `FrameOnce` |
| | `FramesImplementPool` | `ImplementsPool`: every step of Frames is a step or a stutter of FramePool |
| `DiskProofs` | `AppendKeepsRing`, `DelKeepsRing`, `DequeueKeepsRing`, `OtherListsKept` | what the operations of list.c do to well-formed lists of any length, and to other lists |
| `FilesProofs` | `WalkVisitsAll` | LL_for_each visits the elements of a well-formed list in order, each once |
| | `OwnBlockRead`, `QueuesInStep`, `HeadServed`, `DevicesFound` | `ReadsOwnBlock`, `QueuesAgree`, `DeviceServesHead`, `FindsEveryDevice` |
| `ConsoleProofs` | `SentInOrder`, `PortNeverStuck`, `WritersKeepOrder`, `ServiceAlwaysEnds`, `AllHandled` | `SerialInOrder`, `NeverStuck`, `WriterInOrder`, `ServiceEnds`, `NoneUnhandled` |
| | `CursorStaysOnScreen`, `ScreenShowsLastRows`, `NewLinesMoveBelow` | `CursorOnScreen`, `ScreenShowsPaper`, and the action property `NewLineBelow` |
| `AllocProofs` | `BlocksStayApart`, `BlocksGivenOnce`, `UsersStayApart` | `BlocksApart`, `BlockOnce`, `UsersApart` |
| | `FramesHaveOneRole`, `PagesReachable`, `PagesNeverRemapped`, `MemoryUsable`, `HeapMemoryStable` | `OneRole`, `Reachable`, `NeverRemapped`, `Usable`, and the action property `HeapStable` |

`CommonLemmas` has what they share: sequences used as queues, and remainders.

**Scheduler.**  `IrqDiscipline` is not inductive: one has to know which control points hold a
section open and when curr_proc and next_proc may differ.  `IrqInv` adds this (`Control`), that
IRQ_disable has read 0 wherever an interrupt can separate its halves (`SeenZero`), and that
main_proc yields only as a sleeper (`MainSleeps`).  `QueueInv` adds what sleep_curr means for the
running process (`Runner`) and that nothing waits until the first process has created its
children (`Spawning`), which is the order of creation in kmain.  For the refinement each action
of Sched is shown to be one of Dispatcher's or a stutter; the process that Dispatcher sees
running is next_proc unless it is about to sleep or has freed itself.  Premise:
`SchedAssumption` (the names are distinct, the counter exceeds the nesting bound by two).  Nothing
is claimed after `wild`.

**Keyboard.**  `Ps2Inv` says that the buffer holds the last Size characters, each at its own
position (`Buffer`), that the position of a reader that was not lapped is the end of what it has
got (`ReadersFollow`), and that whoever sleeps is at the position of the handler (`Sleepers`).
The last is what `SleepersHaveNothing` needs and cannot say on its own: it rests on the handler
waking all sleepers.  That a reader is in one place comes from `DispatcherProofs`, used through
an instance.

**Lists, disk and files.**  `DiskProofs` follows the stores of ll_add and ll_del one by one.
The invariant of `Files`, `FilesInv` with `DispatcherInv` of its scheduler, ties together for each
probed disk one sequence of processes (`Serves`): their requests, which lie on their stacks, are
the ring of the device; exactly they are asking; they are the sleepers, except for the first
between its wake-up and its read; and the device works on the first.  None of `QueuesAgree`,
`DeviceServesHead` and `ReadsOwnBlock` is inductive without the others.  `BlockInv` has the two
shapes of the list of block devices while it is empty (the static initialiser of the list of
character devices points at it, and the keyboard's device is linked into it), `Enumerated` how
far PCI_register's walk over the functions has come, and `FsInv` where filesystem_init is.
`WalkVisitsAll` and the loops need induction, which is done over sets of naturals
(`LeastElement`, `Induction`, `Iteration`).  Premises: `AtaAssumption` and `FilesAssumption` (finite
sets, distinct names) and `MachineAssumption`: at most four functions in a slot, a controller is
one function, and the numbers on the disk are natural.

**Console and screen.**  `ConsoleInv` has four parts.  `PortInv` adds to the order of characters
that nothing is buffered until init_x86_serial lets the port raise its interrupt, and that the
interrupt has its handler by then: otherwise an interrupt could be spent on a port whose buffer
is filled.  `Service` says that exactly the line being served is in service, with the cascade for
a line of the slave.  `OrderInv` says that what a writer has yet to put on the port comes after
all the port has of it.  `MaskInv` says that from PIC_init on a line without a handler is masked,
and that the steps that clear a mask come after those that set the handler.  The screen is proved
on its own (`VgaSpec`: VGA_clear and then any characters).  The row of the cursor is an integer that
may be negative while a line has more rows than the screen, and y is that integer modulo the
word; the paper ends with the last row of the screen, and the two agree cell by cell.  For
`NewLineBelow` it is also an invariant that, without carriage returns, everything on the paper is
before the cursor (`Below`); it holds from VGA_clear on, the boot loader's text is not.  Premises:
`SerialAssumption` (a ring of two or more), `NoneAssumption`, `PicAssumption` (16 lines),
`VgaAssumption` (a word counts more than the cells of the screen and a row), no line of 2^32
characters, and carriage returns only where `MayReturn` allows them.

**Frames, heap and virtual memory.** `ListIntact` and `FrameOnce` need each other: a write of a
frame's user spares the links because no listed frame is in use, and a frame taken from the list
is not in use because the links are right.  `FramesInv` joins them.  That the segments share no
frame, are not empty and leave out frame 0 is the premise (`FramesSpec`); it is what `FreeIsRest`
checks of MMU_init.  For the refinement the pool is the frames that the segments still have, in
the order of their addresses, followed by the freed ones in the order of freeing (`Pool`); a
recursive function concatenates the segments' frames, and induction over their number shows that
it exists and that a call of MMU_pf_alloc takes its first element.  `KmallocInv` has the blocks
one behind the other in the pages handed out (`Placed`), the lists (`OnLists`) and the sizes
(`Fit`); growing a pool is the step that uses all of it, and `UsersApart` follows from `Placed`
and `Fit` together.  `PagingInv` joins the roles of frames and the paths of tables (`Sound`) with
what has been handed out (`Handed`): heap addresses ascend, stack addresses descend, stacks are
StackPages apart and all pages ever seen lie in those two ranges.  `NeverRemapped` follows from
this and not from the page table, `Usable` from the distance between stacks.  The loops over
pages and levels of the table are handled by one lemma (`LoopKeeps`): what every round keeps, the
loop keeps.  Premises: `KmallocAssumption` (a block fits into the pages a pool grows by) and
`PagingAssumption` (stacks below the heap, the heap within what the table maps, distinct frames
other than 0, and no more stacks than there are addresses below the start of the first).

**Only model-checked.**  The liveness properties `ReadyRuns`, `InterruptsReturn`, both
`ReadReturns`, `EverythingSent` and `BootEnds`, because fairness and ENABLED are outside the
prover's reach.  `NumbersExact`: what the recursion over digits computes for every number.
`FreeIsRest`: it rests on sorting and on folds over the memory map.  `InsidePartition`, whose
proof would say little more than its premise.  The three violations are
counterexamples of TLC.

## Not modelled

- string.c and the byte layout of structures: pure functions with unit tests in the repository.
- GDT, TSS and IDT, the assembly before kmain: tables in the processor's format, written once.
- FS_open's failure: it returns a file whose driver did not open it; what a read through an
  unset pointer does is not a matter of this code.
- The composition of Paging with Sched (a process frees the stack it runs on; the early return
  of MMU_alloc_page leaves interrupts masked once the heap's addresses are used up): the
  first depends on the TLB, which is not modelled; the second is recorded as `masked` in Paging.
- Stores and reads outside an object: the NUL that printk's number conversions put one byte behind
  buf; what mmu_compute_excluded makes of an uninitialised list if the image has no section (the
  model ends there, as `wild`); what ata_probe does with an uninitialised header if
  PCI_read_config_header_0 fails for a header type other than 0 (the type is assumed to be 0).
- A page fault of an interrupt handler between the stores of MMU_free_frame, whose callers leave
  interrupts on: each call of the frame allocator is one step.
- Code that nothing calls: LL_next, LL_add, IRQ_end_of_interrupt, SER_write, dump_block, and
  the cluster and directory functions of fat.c.
- Handler numbers and lines out of range: every caller passes a constant that is in range.
