------------------------------- MODULE Files -------------------------------
(***************************************************************************)
(* Devices, partitions and file systems, from PCI_enum to a mounted FAT32  *)
(* partition: src/src/drivers/pci.c, fs.c, fs/fat.c, procs/fs.c and the    *)
(* probing half of drivers/disk/ata.c, over the disk driver Ata and the    *)
(* lists of List.  kmalloc may fail wherever it is called.                 *)
(*                                                                         *)
(* kmain runs boot alone (boot_pc); then process FSP runs filesystem_init  *)
(* (fs_pc) while other processes use the disk.                             *)
(***************************************************************************)
EXTENDS Integers, Ata

CONSTANTS
  FSP,        \* the process that runs filesystem_init
  Reads,      \* the other processes, each with the blocks it reads
  MaxSlots,   \* PCI slots with something in them
  Machines    \* what may be there: PCI slots, and the disk's contents

\* The headers of list.c: the lists of struct Files and of struct PCI, the
\* keyboard's INode and CharDev, the PCIDevice of function f in slot s, and the
\* BlockDevs of disk d and of partition k of the disk that was opened.
inodes == <<"inodes", 0>>
blocks == <<"blocks", 0>>
chars == <<"chars", 0>>
pci_dev_list == <<"pci", 0>>
ps2_inode == <<"inode", 0>>
ps2_cdev == <<"cdev", 0>>
PCIDevice(s, f) == <<"pci", 4 * s + f>>
Disk(d) == <<"disk", d>>
Partition(k) == <<"part", k>>

Headers ==
  {inodes, blocks, chars, pci_dev_list, ps2_inode, ps2_cdev}
    \union {PCIDevice(s, f) : s \in 1..MaxSlots, f \in 0..3}
    \union {Disk(d) : d \in Disks} \union {Partition(k) : k \in 1..4}
    \union {requests(d) : d \in Disks} \union {req(p) : p \in Procs}

ASSUME FilesAssumption ==
  /\ FSP \in Procs /\ MaxSlots \in Nat
  /\ NULL \notin Headers /\ NULL \notin Nat

\* A slot has up to four functions, and a controller is one function of one slot.
ASSUME MachineAssumption ==
  \A m \in Machines :
    /\ Len(m.slots) \in 0..MaxSlots
    /\ \A s \in 1..Len(m.slots) : Len(m.slots[s]) \in 0..4
    /\ \A s, t \in 1..Len(m.slots) : \A f \in 1..Len(m.slots[s]), g \in 1..Len(m.slots[t]) :
         m.slots[s][f] = m.slots[t][g] /\ m.slots[s][f] \in Disks => s = t /\ f = g
    /\ m.mbr.parts[1].start \in Nat /\ m.mbr.parts[1].num_sectors \in Nat
    /\ m.fat.rsvd_sects \in Nat /\ m.fat.num_fats \in Nat /\ m.fat.sects_per_fat \in Nat

VARIABLES
  machine,    \* the member of Machines this is
  boot_pc,    \* where kmain is: "enum", "ps2", "ata", "create", "up"
  slot, func, \* the next slot for PCI_enum, and function of it
  pci_cur,    \* PCI_register's position
  fs_pc,      \* where FSP is in filesystem_init
  blk, part,  \* its variables
  entry,      \* FS_process_mbr's and the FAT loop's counter
  registered  \* history: the block devices passed to BLK_register

fileVars == <<machine, boot_pc, slot, func, pci_cur, fs_pc, blk, part, entry, registered>>
vars == <<schedVars, diskVars, fileVars>>

\* The static initialisers: .chars points at .blocks; everything else that is
\* not a list is zero.
FilesLists(n) ==
  CASE n \in {inodes, blocks, pci_dev_list} -> [next |-> n, prev |-> n]
    [] n = chars -> [next |-> blocks, prev |-> blocks]
    [] OTHER -> [next |-> NULL, prev |-> NULL]

Init ==
  /\ AtaInit
  /\ machine \in Machines
  /\ links = [n \in Headers |-> FilesLists(n)]
  /\ boot_pc = "enum" /\ slot = 1 /\ func = 0 /\ pci_cur = pci_dev_list
  /\ fs_pc = "open" /\ blk = NULL /\ part = NULL /\ entry = 0
  /\ registered = <<>>
-----------------------------------------------------------------------------
\* Variant: the disk driver is initialised first.
FS_temp_dev_initAta(after) ==
  CASE after = "enum" -> "ata" [] after = "ata" -> "ps2" [] after = "ps2" -> "create"

\* The order in which the modules are initialised.
FS_temp_dev_init(after) ==
  CASE after = "enum" -> "ps2" [] after = "ps2" -> "ata" [] after = "ata" -> "create"

\* One round of pci_enum_device's loop over the functions of a slot.  It ends
\* at the first gap, after the last function, or when kmalloc fails.
pci_enum_device ==
  LET funcs == machine.slots[slot]
  IN \/ /\ func < Len(funcs) /\ funcs[func + 1] # NULL
        /\ links' = LL_enqueue(links, pci_dev_list, PCIDevice(slot, func))
        /\ func' = func + 1
        /\ UNCHANGED slot
     \/ /\ slot' = slot + 1 /\ func' = 0
        /\ UNCHANGED links

PCI_enum ==
  /\ boot_pc = "enum"
  /\ IF slot > Len(machine.slots)
     THEN boot_pc' = FS_temp_dev_init("enum") /\ UNCHANGED <<links, slot, func>>
     ELSE pci_enum_device /\ UNCHANGED boot_pc
  /\ UNCHANGED <<schedVars, device, irq, isr_arg, asked, result, machine, pci_cur,
                 fs_pc, blk, part, entry, registered>>

\* ps2_init_module: FS_register_cdev, unless there is no memory for the inode.
FS_register_cdev ==
  /\ boot_pc = "ps2"
  /\ \/ links' = LL_enqueue(LL_enqueue(links, inodes, ps2_inode), chars, ps2_cdev)
     \/ UNCHANGED links
  /\ boot_pc' = FS_temp_dev_init("ps2")
  /\ UNCHANGED <<schedVars, device, irq, isr_arg, asked, result, machine, slot, func, pci_cur,
                 fs_pc, blk, part, entry, registered>>

BLK_register(L, dev) ==
  /\ links' = LL_enqueue(L, blocks, dev)
  /\ registered' = Append(registered, dev)

FunctionAt(n) == machine.slots[n[2] \div 4][(n[2] % 4) + 1]

\* ata_probe of the disk behind a PCI function.  It may fail for want of memory,
\* or find no disk, an ATAPI device or one without 48-bit addresses.  (It ignores
\* the result of PCI_read_config_header_0; that the function's header has type 0
\* is assumed.)
ata_probe(d) ==
  \/ /\ BLK_register(LL_init(links, requests(d)), Disk(d))
     /\ isr_arg' = d
  \/ /\ links' = LL_init(links, requests(d))
     /\ UNCHANGED <<isr_arg, registered>>
  \/ UNCHANGED <<links, isr_arg, registered>>

\* One round of PCI_register's loop for the ATA driver.
PCI_register ==
  /\ boot_pc = "ata"
  /\ LET next == links[pci_cur].next
     IN IF next = pci_dev_list
        THEN boot_pc' = FS_temp_dev_init("ata") /\ UNCHANGED <<links, isr_arg, pci_cur, registered>>
        ELSE /\ IF FunctionAt(next) \in Disks
                THEN ata_probe(FunctionAt(next))
                ELSE UNCHANGED <<links, isr_arg, registered>>
             /\ pci_cur' = next
             /\ boot_pc' = boot_pc
  /\ UNCHANGED <<schedVars, device, irq, asked, result, machine, slot, func,
                 fs_pc, blk, part, entry>>

\* kmain creates the processes; then PROC_run schedules them.
Creating ==
  /\ boot_pc = "create" /\ running = Main
  /\ \E p \in Procs : S!Create(p)
  /\ boot_pc' = IF alive' = Procs THEN "up" ELSE "create"
  /\ UNCHANGED <<diskVars, machine, slot, func, pci_cur, fs_pc, blk, part, entry, registered>>

Scheduling ==
  /\ boot_pc = "up"
  /\ S!Dispatch \/ S!Idle
  /\ UNCHANGED <<diskVars, fileVars>>

yield(p) ==
  /\ running = p /\ asked[p] = NoRead
  /\ p = FSP => fs_pc = "idle"
  /\ S!Yield
  /\ UNCHANGED <<diskVars, fileVars>>
-----------------------------------------------------------------------------
\* The name of a block device: 0 for "ata", k for "ata_k".  A header of another
\* list is taken for a BlockDev too, whose name is then bytes of some pointer.
NameOf(n) == CASE n[1] = "disk" -> 0 [] n[1] = "part" -> n[2] [] OTHER -> NULL

BLK_open(name) ==
  LET visited == Visited(links, blocks)
      hits == {k \in DOMAIN visited : NameOf(visited[k]) = name}
  IN IF hits = {} THEN NULL ELSE visited[CHOOSE k \in hits : \A j \in hits : k <= j]

\* Another process opens the disk and reads from it.
OtherRead(p, lba) ==
  /\ BLK_open(0) # NULL
  /\ ata_read_block(p, BLK_open(0)[2], lba)
  /\ UNCHANGED fileVars

\* FSP executes a statement of filesystem_init that does not touch the disk.
FsAt(pc) == running = FSP /\ asked[FSP] = NoRead /\ fs_pc = pc

FsLeaves(vs) ==
  UNCHANGED <<device, irq, isr_arg, asked, result, machine, boot_pc, slot, func, pci_cur, vs>>

\* BLK_open fails and filesystem_init returns, which ends the process ...
OpenFails(pc, name) ==
  /\ FsAt(pc) /\ BLK_open(name) = NULL
  /\ S!Exit
  /\ fs_pc' = "gone"
  /\ FsLeaves(<<links, blk, part, entry, registered>>)

\* ... or it opens the disk and reads its first block, ignoring the result ...
ReadMbr ==
  /\ FsAt("open") /\ BLK_open(0) # NULL
  /\ blk' = BLK_open(0)
  /\ ata_read_block(FSP, blk'[2], 0)
  /\ fs_pc' = "mbr" /\ entry' = 1
  /\ UNCHANGED <<machine, boot_pc, slot, func, pci_cur, part, registered>>

\* ... and FS_process_mbr registers a device for every partition, one per step.
FS_process_mbr ==
  /\ FsAt("mbr")
  /\ \/ \* no signature, or the last entry is done
        /\ ~machine.mbr.sig \/ entry > 4
        /\ fs_pc' = "part"
        /\ UNCHANGED <<links, registered, entry>>
     \/ /\ machine.mbr.sig /\ entry <= 4
        /\ \/ /\ machine.mbr.parts[entry].start = 0
              /\ entry' = entry + 1
              /\ UNCHANGED <<links, registered, fs_pc>>
           \/ /\ machine.mbr.parts[entry].start # 0
              /\ BLK_register(links, Partition(entry))
              /\ entry' = entry + 1
              /\ UNCHANGED fs_pc
           \/ \* no memory for the device or for its name
              /\ machine.mbr.parts[entry].start # 0
              /\ fs_pc' = "part"
              /\ UNCHANGED <<links, registered, entry>>
  /\ UNCHANGED schedVars
  /\ FsLeaves(<<blk, part>>)

PartOf(dev) == machine.mbr.parts[dev[2]]

\* Variant: reads the block of the disk with the partition's number.
part_read_blockRaw(dev, n) == ata_read_block(FSP, blk[2], n)

part_read_block(dev, n) == ata_read_block(FSP, blk[2], n + PartOf(dev).start)

\* The first partition is opened; FS_register_fs reads its first block if it
\* is a FAT32 partition.
FS_register_fs ==
  /\ FsAt("part") /\ BLK_open(1) # NULL
  /\ part' = BLK_open(1)
  /\ IF PartOf(part').fat32
     THEN part_read_block(part', 0) /\ fs_pc' = "fat"
     ELSE fs_pc' = "idle" /\ UNCHANGED <<schedVars, diskVars>>
  /\ UNCHANGED <<machine, boot_pc, slot, func, pci_cur, blk, entry, registered>>

\* FS_register_fat32 after its first read: gives up if that failed, if the
\* signature is wrong or if memory for its tables runs out.
FatHeader ==
  /\ FsAt("fat")
  /\ \/ result[FSP].data # NULL /\ machine.fat.sig /\ fs_pc' = "table"
     \/ fs_pc' = "idle"
  /\ entry' = 0
  /\ UNCHANGED schedVars
  /\ FsLeaves(<<links, blk, part, registered>>)

\* One round of the loop that reads the allocation tables.
ReadTable ==
  /\ FsAt("table") /\ entry < machine.fat.num_fats * machine.fat.sects_per_fat
  /\ part_read_block(part, entry + (1 + machine.fat.rsvd_sects))
  /\ entry' = entry + 1
  /\ UNCHANGED <<machine, boot_pc, slot, func, pci_cur, fs_pc, blk, part, registered>>

\* The root inode is allocated or not; both ways filesystem_init ends up
\* yielding for ever.
Mounted ==
  /\ FsAt("table") /\ entry = machine.fat.num_fats * machine.fat.sects_per_fat
  /\ fs_pc' = "idle"
  /\ UNCHANGED schedVars
  /\ FsLeaves(<<links, blk, part, entry, registered>>)

filesystem_init ==
  \/ OpenFails("open", 0) \/ ReadMbr \/ FS_process_mbr
  \/ OpenFails("part", 1) \/ FS_register_fs \/ FatHeader \/ ReadTable \/ Mounted
-----------------------------------------------------------------------------
Device ==
  /\ \/ \E d \in Disks, status \in {"data", "err"} : DeviceDone(d, status)
     \/ ata_isr
     \/ \E p \in Procs : ata_read_blockResume(p)
  /\ UNCHANGED fileVars

Next ==
  \/ PCI_enum \/ FS_register_cdev \/ PCI_register \/ Creating \/ Scheduling
  \/ Device \/ filesystem_init
  \/ \E p \in Procs \ {FSP} : \E lba \in Reads[p] : OtherRead(p, lba)
  \/ \E p \in Procs : yield(p)

\* The processor keeps executing, the devices answer, their interrupt is taken,
\* and a process that is not reading gives the processor up now and then.
Fairness ==
  /\ WF_vars(Scheduling) /\ WF_vars(filesystem_init)
  /\ WF_vars(irq /\ ata_isr /\ UNCHANGED fileVars)
  /\ \A d \in Disks : WF_vars((\E st \in {"data", "err"} : DeviceDone(d, st)) /\ UNCHANGED fileVars)
  /\ \A p \in Procs : /\ WF_vars(ata_read_blockResume(p) /\ UNCHANGED fileVars)
                      /\ SF_vars(yield(p))

Spec == Init /\ [][Next]_vars /\ Fairness
-----------------------------------------------------------------------------
\* BLK_open sees exactly the block devices that have been registered, in their
\* order, and its walk ends, although the list of character devices is
\* initialised with the head of this one and the first character device is
\* linked into it (it is out again once a disk is registered).
FindsEveryDevice ==
  LET visited == Visited(links, blocks)
  IN /\ Len(visited) < Cardinality(Headers)
     /\ IF registered = <<>>
        THEN \A k \in 1..Len(visited) : NameOf(visited[k]) = NULL
        ELSE visited = registered /\ Ring(links, blocks, registered)

\* The reserved sectors and the tables that the header announces leave a sector
\* of the partition.  FS_register_fat32 does not check it.
VolumeFits ==
  machine.fat.rsvd_sects + machine.fat.num_fats * machine.fat.sects_per_fat
    < PartOf(part).num_sectors

\* While it mounts a partition the file system asks the disk that holds it, for
\* no block in front of the partition, and for none behind it if the header
\* announces a volume that fits.
InsidePartition ==
  part # NULL /\ asked[FSP] # NoRead =>
    /\ asked[FSP].disk = blk[2]
    /\ asked[FSP].lba >= PartOf(part).start
    /\ VolumeFits => asked[FSP].lba < PartOf(part).start + PartOf(part).num_sectors

\* Every read returns if the device never fails and only one controller was
\* found.  (If it fails, ata_isr wakes nobody, and the process waits for ever
\* with all that follow; with two controllers ata_isr knows only the second,
\* while BLK_open finds the first.)
ReadReturns ==
  [](/\ \A d \in Disks : device[d].status # "err"
     /\ Cardinality({k \in DOMAIN registered : registered[k][1] = "disk"}) <= 1)
    => \A p \in Procs : asked[p] # NoRead ~> asked[p] = NoRead
=============================================================================
