---------------------------- MODULE FilesProofs ----------------------------
(***************************************************************************)
(* Proofs about boot and the file system, with the theorems on the disk    *)
(* driver that rest on them: the inductive invariant of DiskProofs is kept *)
(* by every step, and what it says of LL_for_each's walks.                 *)
(***************************************************************************)
EXTENDS DiskProofs

\* N is memory L after dev has joined the block devices.
Joined(L, N, dev) ==
  /\ N \in Memory(Headers) /\ Ring(N, blocks, Append(registered, dev))
  /\ \A x \in Headers : x # blocks /\ x \notin Devices => N[x] = L[x]

\* BLK_register appends a device, to what was the list of character devices
\* too as long as there was none.
LEMMA Joins ==
  ASSUME FilesInv, NEW L \in Memory(Headers), \A x \in Devices \union {blocks} : L[x] = links[x],
         NEW dev \in Devices, dev \notin Range(registered)
  PROVE  Joined(L, LL_enqueue(L, blocks, dev), dev)
<1>1. PICK N : N = LL_append(L, blocks, dev)
  BY Zenon
<1>2. /\ blocks \in Headers /\ dev \in Headers /\ dev # blocks
      /\ registered \in Seq(Devices) /\ IsInjective(registered)
  <2>1. \A x \in Devices : x # blocks
    BY DEF Devices, Disk, Partition, blocks
  <2> QED
    BY <2>1, HeaderTypes, Zenon DEF FilesInv, RegisteredInv
<1>3. CASE registered = <<>>
  <2>1. L[blocks].prev = blocks
    BY <1>3, Zenon DEF FilesInv, BlockInv
  <2>2. FirstIn(Headers, L, LL_append(L, blocks, dev), blocks, dev)
    BY <1>2, <2>1, AppendFirst, Zenon
  <2>3. Append(registered, dev) = <<dev>>
    BY <1>3
  <2> QED
    BY <1>1, <2>2, <2>3, Zenon DEF FirstIn, Joined, LL_enqueue
<1>4. CASE registered # <<>>
  <2>1. /\ Len(registered) \in Nat /\ \A k \in 1..Len(registered) : registered[k] \in Devices
        /\ \A k \in 1..Len(registered) : registered[k] # dev
        /\ \A j, k \in 1..Len(registered) : registered[j] = registered[k] => j = k
        /\ registered \in Seq(Headers)
    <3>1. /\ Len(registered) \in Nat /\ DOMAIN registered = 1..Len(registered)
          /\ \A k \in 1..Len(registered) : registered[k] \in Devices
      BY <1>2
    <3>2. registered \in Seq(Headers)
      BY <1>2, HeaderTypes
    <3> QED
      BY <1>2, <3>1, <3>2, Zenon DEF IsInjective, Range
  <2>2. \A k \in 0..Len(registered) : At(blocks, registered, k) = IF k = 0 THEN blocks ELSE registered[k]
    BY <2>1 DEF At
  <2>3. \A x \in Devices : x # blocks
    BY DEF Devices, Disk, Partition, blocks
  <2>4. Distinct(blocks, registered)
    BY <2>1, <2>2, <2>3 DEF Distinct
  <2>5. \A k \in 0..Len(registered) : At(blocks, registered, k) # dev
    BY <1>2, <2>1, <2>2
  <2>6. Ring(L, blocks, registered)
    <3>1. Ring(links, blocks, registered)
      BY <1>4, Zenon DEF FilesInv, BlockInv
    <3>2. \A k \in 0..Len(registered) : L[At(blocks, registered, k)] = links[At(blocks, registered, k)]
      BY <2>1, <2>2
    <3> QED
      BY <2>1, <3>1, <3>2, RingSame, Zenon
  <2>7. Ring(N, blocks, Append(registered, dev))
    BY <1>1, <1>2, <2>1, <2>4, <2>5, <2>6, AppendKeepsRing, Zenon
  <2>8. Off(blocks, registered, dev)
    BY <2>5, Zenon DEF Off
  <2>9. N \in Memory(Headers) /\ \A x \in Headers : x # dev /\ Off(blocks, registered, x) => N[x] = L[x]
    BY <1>1, <1>2, <2>1, <2>6, <2>8, AppendEffect, SMTT(30)
  <2>10. \A x \in Headers : x # blocks /\ x \notin Devices => x # dev /\ Off(blocks, registered, x)
    BY <2>1, <2>2 DEF Off
  <2>11. \A x \in Headers : x # blocks /\ x \notin Devices => N[x] = L[x]
    BY ONLY <2>9, <2>10, Zenon
  <2> QED
    BY <1>1, <2>7, <2>9, <2>11, Zenon DEF Joined, LL_enqueue
<1> QED
  BY <1>3, <1>4, Zenon

\* x is function f of slot s.
InSlot(x, s, f) ==
  /\ s \in 1..Len(machine.slots) /\ f \in 1..Len(machine.slots[s])
  /\ x = PCIDevice(s, f - 1) /\ FunctionAt(x) = machine.slots[s][f]

\* A disk is found once.
LEMMA FoundOnce ==
  ASSUME FilesInv, NEW ps \in Seq(Headers), NEW j \in 0..Len(ps), Enumerated(ps, j), j < Len(ps),
         FunctionAt(ps[j + 1]) \in Disks
  PROVE  Disk(FunctionAt(ps[j + 1])) \notin Range(registered)
<1>1. SUFFICES ASSUME Disk(FunctionAt(ps[j + 1])) \in Range(registered) PROVE FALSE
  BY Zenon
<1>2. PICK i \in 1..j : FunctionAt(ps[i]) = FunctionAt(ps[j + 1])
  BY <1>1, Zenon DEF Enumerated
<1>3. Len(ps) \in Nat /\ i \in 1..Len(ps) /\ j + 1 \in 1..Len(ps) /\ i < j + 1
  OBVIOUS
<1>4. machine \in Machines /\ Len(machine.slots) \in Nat
  BY MachineAssumption DEF FilesInv, Types
<1>5. ASSUME NEW k \in 1..Len(ps) PROVE \E s, f \in Nat : InSlot(ps[k], s, f)
  <2>1. PICK s \in 1..Len(machine.slots) : \E f \in 0..(Len(machine.slots[s]) - 1) : ps[k] = PCIDevice(s, f)
    BY Zenon DEF Enumerated
  <2>2. PICK f \in 0..(Len(machine.slots[s]) - 1) : ps[k] = PCIDevice(s, f)
    BY <2>1, Zenon
  <2>3. PICK l \in 0..4 : l = Len(machine.slots[s])
    BY <1>4, MachineAssumption, Zenon
  <2>4. f \in 0..(l - 1) /\ s \in Nat
    BY <1>4, <2>3
  <2>5. f \in 0..3 /\ f + 1 \in 1..l /\ (f + 1) - 1 = f /\ f + 1 \in Nat
    BY ONLY <2>4, l \in 0..4
  <2>6. ps[k][2] = 4 * s + f
    BY <2>2 DEF PCIDevice
  <2>7. (4 * s + f) \div 4 = s /\ (4 * s + f) % 4 = f
    BY ONLY <2>4, <2>5
  <2>8. FunctionAt(ps[k]) = machine.slots[s][f + 1]
    BY <2>6, <2>7, Zenon DEF FunctionAt
  <2>9. InSlot(ps[k], s, f + 1)
    BY <2>2, <2>3, <2>5, <2>8, Zenon DEF InSlot
  <2> QED
    BY ONLY <2>4, <2>5, <2>9, Zenon
<1>6. PICK s \in Nat, f \in Nat : InSlot(ps[i], s, f)
  BY <1>3, <1>5, Zenon
<1>7. PICK t \in Nat, g \in Nat : InSlot(ps[j + 1], t, g)
  BY <1>3, <1>5, Zenon
<1>8. machine.slots[s][f] = machine.slots[t][g] /\ machine.slots[s][f] \in Disks
  <2>1. FunctionAt(ps[i]) = machine.slots[s][f] /\ FunctionAt(ps[j + 1]) = machine.slots[t][g]
    BY <1>6, <1>7, Zenon DEF InSlot
  <2> QED
    BY <1>2, <2>1, Zenon
<1>9. s \in 1..Len(machine.slots) /\ t \in 1..Len(machine.slots)
      /\ f \in 1..Len(machine.slots[s]) /\ g \in 1..Len(machine.slots[t])
  BY <1>6, <1>7, Zenon DEF InSlot
<1>10. s = t /\ f = g
  BY <1>4, <1>8, <1>9, MachineAssumption, Zenon
<1>11. ps[i] = ps[j + 1]
  BY <1>6, <1>7, <1>10, Zenon DEF InSlot
<1>12. Distinct(pci_dev_list, ps)
  BY FunctionsListed, Zenon
<1>13. i \in 0..Len(ps) /\ j + 1 \in 0..Len(ps) /\ At(pci_dev_list, ps, i) = At(pci_dev_list, ps, j + 1)
  BY <1>3, <1>11 DEF At
<1>14. i = j + 1
  BY <1>12, <1>13, Zenon DEF Distinct
<1> QED
  BY <1>3, <1>14

\* N is memory L after the list of requests of disk d has been initialised.
Initialised(L, N, d) ==
  /\ N \in Memory(Headers) /\ N[requests(d)] = [next |-> requests(d), prev |-> requests(d)]
  /\ \A x \in Headers : x # requests(d) => N[x] = L[x]

\* LL_init, called by ata_probe, makes an empty ring and touches no other
\* header.
LEMMA Initialises ==
  ASSUME NEW L \in Memory(Headers), NEW d \in Disks
  PROVE  Initialised(L, LL_init(L, requests(d)), d)
<1>1. requests(d) \in Headers /\ requests(d) \in Link(Headers)
  BY HeaderTypes, Zenon DEF Link
<1>2. [next |-> requests(d), prev |-> requests(d)] \in [next : Link(Headers), prev : Link(Headers)]
  BY <1>1, Zenon
<1> QED
  BY <1>1, <1>2, Zenon DEF Initialised, LL_init, Memory

\* PCI_register hands every function that is a disk to ata_probe, which makes
\* its list of requests and registers it, or gives up on the way.
LEMMA ProbeKeeps ==
  ASSUME FilesInv, PCI_register
  PROVE  FilesInv'
<1>1. /\ boot_pc = "ata" /\ boot_pc \in Booting
      /\ UNCHANGED <<schedVars, device, irq, asked, result, machine, fs_pc, blk, part, entry>>
      /\ UNCHANGED <<slot, func>>
  BY Zenon DEF PCI_register, Booting
<1>2. PICK ps \in Seq(Headers) : \E j \in 0..Len(ps) : Enumerated(ps, j)
  BY <1>1, Zenon DEF FilesInv, BootInv
<1>3. PICK j \in 0..Len(ps) : Enumerated(ps, j)
  BY <1>2, Zenon
<1>4. /\ links \in Memory(Headers) /\ slot \in Nat \ {0} /\ func \in 0..4 /\ Len(ps) \in Nat
      /\ isr_arg \in Disks \union {NULL} /\ registered \in Seq(Devices)
  BY DEF FilesInv, Types, RegisteredInv
<1>5. links[pci_cur].next = At(pci_dev_list, ps, j + 1)
  BY <1>3, Zenon DEF Enumerated, Ring
<1>6. CASE links[pci_cur].next = pci_dev_list
  <2>1. boot_pc' = "create" /\ UNCHANGED <<links, isr_arg, pci_cur, registered>>
    BY <1>6, Zenon DEF PCI_register, FS_temp_dev_init
  <2>2. DiskInv' /\ RegisteredInv' /\ isr_arg' \in Disks \union {NULL}
    BY <1>1, <2>1, NothingRegistered, Zenon
  <2>3. Placed' /\ AskedInv' /\ FsInv' /\ ReadsOwnBlock'
    BY <1>1, NobodyReads, Zenon
  <2>4. BlockInv'
    BY <2>1, Zenon DEF FilesInv, BlockInv
  <2>5. BootInv'
    BY <2>1, Zenon DEF BootInv, Booting
  <2>6. Types'
    BY <1>1, <2>1, Zenon DEF FilesInv, Types
  <2> QED
    BY <2>2, <2>3, <2>4, <2>5, <2>6, Zenon DEF FilesInv
<1>7. CASE links[pci_cur].next # pci_dev_list
  <2>1. /\ j < Len(ps) /\ j + 1 \in 0..Len(ps) /\ j + 1 \in 1..Len(ps)
        /\ links[pci_cur].next = ps[j + 1] /\ At(pci_dev_list, ps, j + 1) = ps[j + 1]
    BY <1>4, <1>5, <1>7 DEF At
  <2>2. pci_cur' = ps[j + 1] /\ boot_pc' = boot_pc
    BY <1>7, <2>1, Zenon DEF PCI_register
  <2>3. \A i \in 0..Len(ps) : \E n \in Nat : At(pci_dev_list, ps, i) = <<"pci", n>>
    <3> SUFFICES ASSUME NEW i \in 0..Len(ps) PROVE \E n \in Nat : At(pci_dev_list, ps, i) = <<"pci", n>>
      BY Zenon
    <3>1. CASE i = 0
      BY <3>1 DEF At, pci_dev_list
    <3>2. CASE i \in 1..Len(ps)
      <4>1. PICK n \in Nat : ps[i] = <<"pci", n>>
        BY <1>3, <3>2, FunctionsListed, Zenon
      <4> QED
        BY <3>2, <4>1, Zenon DEF At
    <3> QED
      BY <1>4, <3>1, <3>2
  \* The list of functions is not touched, and PCI_register moves on.
  <2>4. ASSUME \A x \in Headers : (\E n \in Nat : x = <<"pci", n>>) => links'[x] = links[x],
               \A d \in Disks : Disk(d) \in Range(registered') =>
                 Disk(d) \in Range(registered) \/ FunctionAt(ps[j + 1]) = d
        PROVE  Enumerated(ps, j + 1)'
    <3>1. Ring(links', pci_dev_list, ps)
      <4>1. \A i \in 0..Len(ps) : At(pci_dev_list, ps, i) \in Headers
        BY <1>4, HeaderTypes DEF At
      <4>2. \A i \in 0..Len(ps) : links'[At(pci_dev_list, ps, i)] = links[At(pci_dev_list, ps, i)]
        BY <2>3, <2>4, <4>1, Zenon
      <4> QED
        BY <1>3, <4>2, RingSame, Zenon DEF Enumerated
    <3>2. ASSUME NEW d \in Disks, Disk(d) \in Range(registered')
          PROVE  \E i \in 1..(j + 1) : FunctionAt(ps[i])' = d
      <4>1. CASE Disk(d) \in Range(registered)
        <5>1. PICK i \in 1..j : FunctionAt(ps[i]) = d
          BY <1>3, <4>1, Zenon DEF Enumerated
        <5>2. i \in 1..(j + 1)
          OBVIOUS
        <5> QED
          BY <1>1, <5>1, <5>2, Zenon DEF FunctionAt
      <4>2. CASE FunctionAt(ps[j + 1]) = d
        <5>1. j + 1 \in 1..(j + 1)
          BY <1>4
        <5> QED
          BY <1>1, <4>2, <5>1, Zenon DEF FunctionAt
      <4> QED
        BY <2>4, <3>2, <4>1, <4>2, Zenon
    <3>3. pci_cur' = At(pci_dev_list, ps, j + 1)
      BY <2>1, <2>2, Zenon
    <3> QED
      BY <1>1, <1>3, <3>1, <3>2, <3>3, Zenon DEF Enumerated
  <2>5. /\ boot_pc' \in Booting /\ boot_pc' = "ata" /\ slot' \in Nat \ {0} /\ func' \in 0..4
        /\ Types /\ BlockInv /\ RegisteredInv
    BY <1>1, <1>4, <2>2, Zenon DEF FilesInv
  \* Nothing is registered.
  <2>6. ASSUME UNCHANGED <<isr_arg, registered>>, links' \in Memory(Headers),
               \A x \in Headers : (\A d \in Disks : x # requests(d)) => links'[x] = links[x],
               \A d \in Disks : \/ links'[requests(d)] = links[requests(d)]
                                \/ links'[requests(d)] = [next |-> requests(d), prev |-> requests(d)]
        PROVE  FilesInv'
    <3>1. DiskInv' /\ RegisteredInv' /\ isr_arg' \in Disks \union {NULL}
      BY <1>1, <2>6, NothingRegistered, Zenon
    <3>2. BlockInv'
      <4>1. CASE registered # <<>>
        BY <2>6, <4>1, BlocksKept, Zenon
      <4>2. CASE registered = <<>>
        <5>1. \A d \in Disks : blocks # requests(d) /\ ps2_cdev # requests(d) /\ chars # requests(d)
          BY Zenon DEF blocks, ps2_cdev, chars, requests
        <5>2. UNCHANGED <<links[blocks], links[ps2_cdev], links[chars]>>
          BY <2>6, <5>1, HeaderTypes, Zenon
        <5> QED
          BY <2>5, <2>6, <4>2, <5>2, Zenon DEF BlockInv
      <4> QED
        BY <4>1, <4>2, Zenon
    <3>3. Enumerated(ps, j + 1)'
      <4>1. \A n \in Nat, d \in Disks : <<"pci", n>> # requests(d)
        BY Zenon DEF requests
      <4> QED
        BY <2>4, <2>6, <4>1, Zenon
    <3> QED
      BY <1>1, <2>1, <2>5, <2>6, <3>1, <3>2, <3>3, BootStep, Zenon
  \* A disk is registered.
  <2>7. ASSUME NEW d \in Disks, d = FunctionAt(ps[j + 1]), isr_arg' = d,
               BLK_register(LL_init(links, requests(d)), Disk(d))
        PROVE  FilesInv'
    <3>1. PICK M \in Memory(Headers) : M = LL_init(links, requests(d)) /\ Initialised(links, M, d)
      <4>1. Initialised(links, LL_init(links, requests(d)), d)
        BY <1>4, Initialises, Zenon
      <4> QED
        BY <4>1, Zenon DEF Initialised
    <3>2. links' = LL_enqueue(M, blocks, Disk(d)) /\ registered' = Append(registered, Disk(d))
      BY <2>7, <3>1, Zenon DEF BLK_register
    <3>3. Disk(d) \in Devices /\ Disk(d) \notin Range(registered)
      BY <1>3, <2>1, <2>7, FoundOnce, Zenon DEF Devices
    <3>4. /\ requests(d) # blocks /\ requests(d) \notin Devices /\ requests(d) \in Headers
          /\ \A e \in Disks : requests(e) # blocks /\ requests(e) \notin Devices /\ requests(e) \in Headers
          /\ \A n \in Nat : <<"pci", n>> # blocks /\ <<"pci", n>> \notin Devices /\ <<"pci", n>> # requests(d)
      <4>1. \A e \in Disks : requests(e) # blocks /\ requests(e) \notin Devices
        BY Zenon DEF requests, blocks, Devices, Disk, Partition
      <4>2. \A n \in Nat : <<"pci", n>> # blocks /\ <<"pci", n>> \notin Devices /\ <<"pci", n>> # requests(d)
        BY Zenon DEF requests, blocks, Devices, Disk, Partition
      <4> QED
        BY <4>1, <4>2, HeaderTypes, Zenon
    <3>5. Joined(M, links', Disk(d))
      <4>1. \A x \in Devices \union {blocks} : M[x] = links[x]
        BY <3>1, <3>4, HeaderTypes, Zenon DEF Initialised
      <4> QED
        BY <3>2, <3>3, <4>1, Joins, Zenon
    <3>6. \A x \in Headers : x # blocks /\ x \notin Devices => links'[x] = M[x]
      BY <3>5, Zenon DEF Joined
    <3>7. links'[requests(d)] = [next |-> requests(d), prev |-> requests(d)]
      BY <3>1, <3>4, <3>6, Zenon DEF Initialised
    <3>8. \A e \in Disks : e # d => links'[requests(e)] = links[requests(e)]
      <4>1. \A e \in Disks : e # d => requests(e) # requests(d)
        BY Zenon DEF requests
      <4> QED
        BY <3>1, <3>4, <3>6, <4>1, Zenon DEF Initialised
    <3>9. DiskInv' /\ Probed \subseteq Probed'
      BY <1>1, <3>7, <3>8, BootDisks, Zenon
    <3>10. d \in Probed'
      <4>1. requests(d) # NULL
        BY <3>4, FilesAssumption, Zenon
      <4>2. links'[requests(d)].next # NULL
        BY <3>7, <4>1
      <4> QED
        BY <4>2, Zenon DEF Probed
    <3>11. registered' # <<>> /\ BlockInv'
      <4>1. registered' # <<>>
        BY <1>4, <3>2, <3>3, EnqueueLemma
      <4>2. Ring(links', blocks, registered')
        BY <3>2, <3>5, Zenon DEF Joined
      <4> QED
        BY <4>1, <4>2, Zenon DEF BlockInv
    <3>12. Range(registered') = Range(registered) \union {Disk(d)}
      BY <1>4, <3>2, <3>3, EnqueueLemma
    <3>13. RegisteredInv'
      <4>1. registered' \in Seq(Devices) /\ IsInjective(registered')
        BY <1>4, <2>5, <3>2, <3>3, EnqueueLemma, Zenon DEF RegisteredInv
      <4>2. \E e \in Disks : registered'[1] = Disk(e)
        <5>1. registered # <<>> => registered'[1] = registered[1]
          BY <1>4, <3>2
        <5>2. registered = <<>> => registered'[1] = Disk(d)
          BY <3>2
        <5> QED
          BY <2>5, <5>1, <5>2, Zenon DEF RegisteredInv
      <4>3. \A e \in Disks : Disk(e) \in Range(registered') => e \in Probed'
        BY <2>5, <3>9, <3>10, <3>12, Zenon DEF RegisteredInv, Disk
      <4>4. \A k \in 1..4 : Partition(k) \notin Range(registered')
        <5>1. \A k \in 1..4 : Partition(k) \notin Range(registered)
          BY <1>1, NobodyReads, Zenon
        <5>2. \A k \in 1..4 : Partition(k) # Disk(d)
          BY Zenon DEF Partition, Disk
        <5> QED
          BY <3>12, <5>1, <5>2, Zenon
      <4> QED
        BY <2>7, <3>10, <4>1, <4>2, <4>3, <4>4, Zenon DEF RegisteredInv
    <3>14. Enumerated(ps, j + 1)'
      <4>1. \A x \in Headers : (\E n \in Nat : x = <<"pci", n>>) => links'[x] = links[x]
        BY <3>1, <3>4, <3>6, Zenon DEF Initialised
      <4>2. \A e \in Disks : Disk(e) \in Range(registered') => Disk(e) \in Range(registered) \/ d = e
        BY <3>12, Zenon DEF Disk
      <4> QED
        BY <2>4, <2>7, <4>1, <4>2, Zenon
    <3>15. links' \in Memory(Headers) /\ isr_arg' \in Disks \union {NULL}
      BY <2>7, <3>5, Zenon DEF Joined
    <3> QED
      BY <1>1, <2>1, <2>5, <3>9, <3>11, <3>13, <3>14, <3>15, BootStep, Zenon
  <2>8. CASE UNCHANGED <<links, isr_arg, registered>>
    BY <1>4, <2>6, <2>8, Zenon
  <2>9. ASSUME NEW d \in Disks, links' = LL_init(links, requests(d)), UNCHANGED <<isr_arg, registered>>
        PROVE  FilesInv'
    <3>1. Initialised(links, links', d)
      BY <1>4, <2>9, Initialises, Zenon
    <3>2. links' \in Memory(Headers)
      BY <3>1, Zenon DEF Initialised
    <3>3. \A x \in Headers : (\A e \in Disks : x # requests(e)) => links'[x] = links[x]
      BY <3>1, Zenon DEF Initialised
    <3>4. \A e \in Disks : \/ links'[requests(e)] = links[requests(e)]
                           \/ links'[requests(e)] = [next |-> requests(e), prev |-> requests(e)]
      <4>1. \A e \in Disks : e # d => requests(e) # requests(d)
        BY Zenon DEF requests
      <4> QED
        BY <3>1, <4>1, HeaderTypes, Zenon DEF Initialised
    <3> QED
      BY <2>6, <2>9, <3>2, <3>3, <3>4, Zenon
  <2>10. IF FunctionAt(ps[j + 1]) \in Disks THEN ata_probe(FunctionAt(ps[j + 1]))
         ELSE UNCHANGED <<links, isr_arg, registered>>
    BY <1>7, <2>1, Zenon DEF PCI_register
  <2> QED
    BY <2>7, <2>8, <2>9, <2>10, Zenon DEF ata_probe
<1> QED
  BY <1>6, <1>7, Zenon

-----------------------------------------------------------------------------
(* The file system                                                         *)

\* What a step of FSP leaves alone.
LEMMA FsStep ==
  ASSUME FilesInv, Placed', running = FSP, asked[FSP] = NoRead,
         UNCHANGED <<device, irq, isr_arg, asked, result, machine, boot_pc, slot, func, pci_cur>>,
         links' \in Memory(Headers), entry' \in Nat, alive \ {FSP} \subseteq alive',
         fs_pc' \in {"open", "mbr", "part", "fat", "table", "idle", "gone"},
         registered # <<>> => registered' # <<>> /\ registered'[1] = registered[1],
         DiskInv', BlockInv', RegisteredInv', FsInv'
  PROVE  FilesInv'
<1>1. boot_pc \notin Booting
  BY FilesAssumption, Running, Zenon
<1>2. BootInv'
  BY <1>1, Zenon DEF BootInv
<1>3. Types'
  BY Zenon DEF FilesInv, Types
<1>4. AskedInv'
  <2>1. ASSUME NEW p \in Procs, asked[p] # NoRead
        PROVE  p \in alive' /\ registered' # <<>> /\ Disk(asked[p].disk) = registered'[1]
    <3>1. p \in alive /\ registered # <<>> /\ Disk(asked[p].disk) = registered[1] /\ p # FSP
      BY <2>1, Zenon DEF FilesInv, AskedInv
    <3> QED
      BY <3>1, Zenon
  <2> QED
    BY <2>1, Zenon DEF AskedInv
<1>5. ReadsOwnBlock'
  BY Zenon DEF FilesInv, ReadsOwnBlock
<1> QED
  BY <1>2, <1>3, <1>4, <1>5, Zenon DEF FilesInv

\* Steps of FSP that register nothing and do not read.
LEMMA FsQuiet ==
  ASSUME FilesInv, Placed', Opens,
         \/ OpenFails("open", 0) \/ OpenFails("part", 1) \/ FatHeader \/ Mounted
         \/ FS_register_fs /\ UNCHANGED <<schedVars, diskVars>>
         \/ FS_process_mbr /\ UNCHANGED <<links, registered>>
  PROVE  FilesInv'
<1>1. /\ links \in Memory(Headers) /\ entry \in Nat /\ machine \in Machines
      /\ fs_pc \in {"open", "mbr", "part", "fat", "table", "idle", "gone"}
      /\ FsInv /\ RegisteredInv /\ BlockInv
  BY Zenon DEF FilesInv, Types
<1>2. \/ OpenFails("open", 0) \/ OpenFails("part", 1) \/ FatHeader \/ Mounted
      \/ FS_register_fs /\ UNCHANGED <<schedVars, diskVars>>
      \/ FS_process_mbr /\ UNCHANGED <<links, registered>>
  BY Zenon
<1> DEFINE Quiet ==
      /\ running = FSP /\ asked[FSP] = NoRead
      /\ UNCHANGED <<device, irq, isr_arg, asked, result, machine, boot_pc, slot, func, pci_cur>>
      /\ UNCHANGED <<links, registered, waiting, blk>>
      /\ alive \ {FSP} \subseteq alive' /\ entry' \in Nat
      /\ fs_pc' \in {"mbr", "part", "fat", "table", "idle", "gone"}
      /\ fs_pc' = "mbr" => (fs_pc = "mbr" /\ entry' # 0 /\ entry <= entry')
      /\ FsInv'
<1>3. ASSUME Quiet PROVE FilesInv'
  <2>1. DiskInv'
    BY <1>3, QueuesKept, Zenon
  <2>2. BlockInv' /\ Probed' = Probed
    BY <1>1, <1>3, Zenon DEF BlockInv, Probed
  <2>3. RegisteredInv'
    BY <1>1, <1>3, <2>2 DEF RegisteredInv
  <2> QED
    BY <1>1, <1>3, <2>1, <2>2, <2>3, FsStep, Zenon
<1>4. ASSUME NEW pc, NEW name, pc \in {"open", "part"}, OpenFails(pc, name) PROVE Quiet
  <2>1. /\ running = FSP /\ asked[FSP] = NoRead /\ fs_pc = pc /\ fs_pc' = "gone"
        /\ UNCHANGED <<device, irq, isr_arg, asked, result, machine, boot_pc, slot, func, pci_cur>>
        /\ UNCHANGED <<links, blk, part, entry, registered>>
        /\ S!Exit
    BY <1>4, Zenon DEF OpenFails, FsAt, FsLeaves
  <2>2. waiting' = waiting /\ alive \ {FSP} \subseteq alive'
    BY <2>1, Zenon DEF S!Exit
  <2>3. FsInv'
    BY <1>1, <1>4, <2>1, Zenon DEF FsInv
  <2> QED
    BY <1>1, <2>1, <2>2, <2>3, Zenon
<1>5. ASSUME FatHeader PROVE Quiet
  <2>1. /\ running = FSP /\ asked[FSP] = NoRead /\ fs_pc = "fat" /\ fs_pc' \in {"table", "idle"}
        /\ UNCHANGED <<device, irq, isr_arg, asked, result, machine, boot_pc, slot, func, pci_cur>>
        /\ UNCHANGED <<links, blk, part, registered>> /\ entry' = 0
        /\ UNCHANGED <<waiting, alive>>
    BY <1>5, Zenon DEF FatHeader, FsAt, FsLeaves, schedVars
  <2>2. PICK n \in Nat, m \in Nat : n = machine.fat.num_fats /\ m = machine.fat.sects_per_fat
    BY <1>1, MachineAssumption, Zenon
  <2>3. 0 <= n * m
    BY ONLY n \in Nat, m \in Nat
  <2>4. FsInv'
    BY <1>1, <2>1, <2>2, <2>3, Zenon DEF FsInv, PartOf
  <2> QED
    BY <1>1, <2>1, <2>4, Zenon
<1>6. ASSUME Mounted PROVE Quiet
  <2>1. /\ running = FSP /\ asked[FSP] = NoRead /\ fs_pc = "table" /\ fs_pc' = "idle"
        /\ UNCHANGED <<device, irq, isr_arg, asked, result, machine, boot_pc, slot, func, pci_cur>>
        /\ UNCHANGED <<links, blk, part, entry, registered>>
        /\ UNCHANGED <<waiting, alive>>
    BY <1>6, Zenon DEF Mounted, FsAt, FsLeaves, schedVars
  <2>2. FsInv'
    BY <1>1, <2>1, Zenon DEF FsInv
  <2> QED
    BY <1>1, <2>1, <2>2, Zenon
<1>7. ASSUME FS_register_fs, UNCHANGED <<schedVars, diskVars>> PROVE Quiet
  <2>1. /\ FsAt("part") /\ part' = Partition(1)
        /\ UNCHANGED <<machine, boot_pc, slot, func, pci_cur, blk, entry, registered>>
        /\ \/ /\ machine.mbr.parts[1].fat32 /\ fs_pc' = "fat" /\ registered # <<>>
              /\ ata_read_block(FSP, registered[1][2], 0 + machine.mbr.parts[1].start)
           \/ fs_pc' = "idle" /\ UNCHANGED <<schedVars, diskVars>>
    BY <1>7, PartitionReads, Zenon
  <2>2. /\ running = FSP /\ asked[FSP] = NoRead /\ fs_pc = "part"
        /\ UNCHANGED <<device, irq, isr_arg, asked, result, links, waiting, alive>>
    BY <1>7, <2>1, Zenon DEF FsAt, schedVars, diskVars
  <2>3. fs_pc' \in {"fat", "idle"} /\ (fs_pc' = "fat" => machine.mbr.parts[1].fat32)
    BY <2>1, Zenon
  <2>4. FsInv'
    <3>1. PartOf(part)' = machine.mbr.parts[1]
      BY <2>1, Zenon DEF PartOf, Partition
    <3>2. Partition(1) # NULL
      BY HeaderTypes, FilesAssumption
    <3> QED
      BY <1>1, <2>1, <2>2, <2>3, <3>1, <3>2, Zenon DEF FsInv
  <2> QED
    BY <1>1, <2>1, <2>2, <2>3, <2>4, Zenon
<1>8. ASSUME FS_process_mbr, UNCHANGED <<links, registered>> PROVE Quiet
  <2>1. /\ running = FSP /\ asked[FSP] = NoRead /\ fs_pc = "mbr"
        /\ UNCHANGED <<device, irq, isr_arg, asked, result, machine, boot_pc, slot, func, pci_cur>>
        /\ UNCHANGED <<blk, part>> /\ UNCHANGED <<waiting, alive>>
    BY <1>8, Zenon DEF FS_process_mbr, FsAt, FsLeaves, schedVars
  <2>2. \/ fs_pc' = "part" /\ entry' = entry
        \/ fs_pc' = fs_pc /\ entry' = entry + 1
    BY <1>8, Zenon DEF FS_process_mbr
  <2>3. entry' \in Nat /\ entry' # 0 /\ entry <= entry'
    BY <1>1, <2>1, <2>2 DEF FsInv
  <2>4. FsInv'
    BY <1>1, <2>1, <2>2, <2>3, <1>8, Zenon DEF FsInv
  <2> QED
    BY <1>1, <1>8, <2>1, <2>2, <2>3, <2>4, Zenon
<1> HIDE DEF Quiet
<1>9. Quiet
  <2>1. OpenFails("open", 0) \/ OpenFails("part", 1) => Quiet
    BY <1>4
  <2> QED
    BY ONLY <1>2, <1>5, <1>6, <1>7, <1>8, <2>1, Zenon
<1> QED
  BY <1>3, <1>9, Zenon

\* Linking block devices leaves the lists of requests alone.
LEMMA DisksKept ==
  ASSUME FilesInv, UNCHANGED <<device, asked, waiting, irq>>,
         \A x \in Headers : x # blocks /\ x \notin Devices => links'[x] = links[x]
  PROVE  DiskInv' /\ Probed' = Probed
<1>1. \A d \in Disks : links'[requests(d)] = links[requests(d)]
  <2>1. \A d \in Disks : requests(d) # blocks /\ requests(d) \notin Devices
    BY Zenon DEF requests, blocks, Devices, Disk, Partition
  <2> QED
    BY <2>1, HeaderTypes, Zenon
<1>2. \A p \in Procs : links'[req(p)] = links[req(p)]
  <2>1. \A p \in Procs : req(p) # blocks /\ req(p) \notin Devices
    BY Zenon DEF req, blocks, Devices, Disk, Partition
  <2> QED
    BY <2>1, HeaderTypes, Zenon
<1>3. Probed' = Probed
  BY <1>1, Zenon DEF Probed
<1>4. ASSUME NEW d \in Disks PROVE DiskOK(d)'
  <2>1. DiskOK(d)
    BY Zenon DEF FilesInv, DiskInv
  <2>2. CASE d \notin Probed
    BY <1>3, <2>1, <2>2, Zenon DEF DiskOK, Unused
  <2>3. CASE d \in Probed
    <3>1. PICK rs \in Seq(Procs) : Serves(d, rs)
      BY <2>1, <2>3, Zenon DEF DiskOK
    <3>2. Ring(links', requests(d), Reqs(rs))
      <4>1. \A k \in 0..Len(rs) : \/ At(requests(d), Reqs(rs), k) = requests(d)
                                  \/ \E q \in Procs : At(requests(d), Reqs(rs), k) = req(q)
        BY ReqsFacts, Zenon DEF At
      <4>2. Len(Reqs(rs)) = Len(rs) /\ Reqs(rs) \in Seq(Headers)
        BY ReqsFacts, Zenon
      <4>3. \A k \in 0..Len(Reqs(rs)) : links'[At(requests(d), Reqs(rs), k)] = links[At(requests(d), Reqs(rs), k)]
        BY ONLY <1>1, <1>2, <4>1, <4>2, d \in Disks, Zenon
      <4>4. Ring(links, requests(d), Reqs(rs))
        BY <3>1, Zenon DEF Serves
      <4> QED
        BY <4>2, <4>3, <4>4, RingSame, Zenon
    <3>3. Serves(d, rs)'
      BY <3>1, <3>2, Zenon DEF Serves
    <3> QED
      BY <1>3, <2>3, <3>3, Zenon DEF DiskOK
  <2> QED
    BY <2>2, <2>3, Zenon
<1> QED
  BY <1>3, <1>4, Zenon DEF DiskInv

\* FS_process_mbr registers a partition behind the disks and the partitions
\* before it.
LEMMA PartKeeps ==
  ASSUME FilesInv, Placed', FS_process_mbr, BLK_register(links, Partition(entry)),
         entry <= 4, entry' = entry + 1, UNCHANGED fs_pc
  PROVE  FilesInv'
<1>1. /\ running = FSP /\ asked[FSP] = NoRead /\ fs_pc = "mbr"
      /\ UNCHANGED <<device, irq, isr_arg, asked, result, machine, boot_pc, slot, func, pci_cur>>
      /\ UNCHANGED <<blk, part>> /\ UNCHANGED <<waiting, alive>>
  BY Zenon DEF FS_process_mbr, FsAt, FsLeaves, schedVars
<1>2. /\ links \in Memory(Headers) /\ entry \in Nat /\ registered \in Seq(Devices)
      /\ FsInv /\ RegisteredInv /\ BlockInv
  BY Zenon DEF FilesInv, Types, RegisteredInv
<1>3. entry \in 1..4 /\ entry' \in Nat /\ entry' # 0
  BY <1>1, <1>2 DEF FsInv
<1>4. Partition(entry) \in Devices /\ Partition(entry) \notin Range(registered)
  <2>1. Partition(entry) \in Devices
    BY <1>3, Zenon DEF Devices
  <2>2. Partition(entry) \in Range(registered) => entry < entry
    BY <1>1, <1>2, <1>3, Zenon DEF RegisteredInv
  <2> QED
    BY <1>3, <2>1, <2>2
<1>5. links' = LL_enqueue(links, blocks, Partition(entry)) /\ registered' = Append(registered, Partition(entry))
  BY Zenon DEF BLK_register
<1>6. Joined(links, links', Partition(entry))
  BY <1>2, <1>4, <1>5, Joins, Zenon
<1>7. /\ links' \in Memory(Headers) /\ Ring(links', blocks, registered')
      /\ \A x \in Headers : x # blocks /\ x \notin Devices => links'[x] = links[x]
  BY <1>5, <1>6, Zenon DEF Joined
<1>8. DiskInv' /\ Probed' = Probed
  BY <1>1, <1>7, DisksKept, Zenon
<1>9. /\ registered' # <<>> /\ registered' \in Seq(Devices) /\ IsInjective(registered')
      /\ Range(registered') = Range(registered) \union {Partition(entry)}
  BY <1>2, <1>4, <1>5, EnqueueLemma DEF RegisteredInv
<1>10. registered # <<>> /\ registered'[1] = registered[1] /\ blk = registered[1]
  <2>1. registered # <<>> /\ blk = registered[1]
    BY <1>1, <1>2, Zenon DEF FsInv
  <2> QED
    BY <1>2, <1>5, <2>1
<1>11. BlockInv'
  BY <1>7, <1>9, Zenon DEF BlockInv
<1>12. RegisteredInv'
  <2>1. \A d \in Disks : Disk(d) \in Range(registered') => Disk(d) \in Range(registered)
    BY <1>9, Zenon DEF Disk, Partition
  <2>2. \A k \in 1..4 : Partition(k) \in Range(registered') => k < entry + 1
    <3> SUFFICES ASSUME NEW k \in 1..4, Partition(k) \in Range(registered') PROVE k < entry + 1
      BY Zenon
    <3>1. CASE Partition(k) \in Range(registered)
      <4>1. k < entry
        BY <1>1, <1>2, <3>1, Zenon DEF RegisteredInv
      <4> QED
        BY <1>3, <4>1
    <3>2. CASE Partition(k) = Partition(entry)
      BY <1>3, <3>2 DEF Partition
    <3> QED
      BY <1>9, <3>1, <3>2, Zenon
  <2> QED
    BY <1>1, <1>2, <1>8, <1>9, <1>10, <2>1, <2>2, Zenon DEF RegisteredInv
<1>13. FsInv'
  BY <1>1, <1>2, <1>3, <1>9, <1>10, Zenon DEF FsInv
<1>14. fs_pc' \in {"open", "mbr", "part", "fat", "table", "idle", "gone"} /\ alive \ {FSP} \subseteq alive'
  BY <1>1, Zenon
<1> QED
  BY <1>1, <1>3, <1>7, <1>8, <1>9, <1>10, <1>11, <1>12, <1>13, <1>14, FsStep, Zenon

\* A read leaves the invariant as it is if its caller keeps its own part of it.
LEMMA ReadStep ==
  ASSUME FilesInv, Placed', NEW p \in Procs, NEW lba \in Lba, registered # <<>>,
         ata_read_block(p, registered[1][2], lba),
         UNCHANGED <<machine, boot_pc, slot, func, registered>>, entry' \in Nat,
         fs_pc' \in {"open", "mbr", "part", "fat", "table", "idle", "gone"},
         \A k \in 1..4 : Partition(k) \in Range(registered) => fs_pc' # "open" /\ (fs_pc' = "mbr" => k < entry'),
         (asked'[p].lba = lba /\ \A q \in Procs : q # p => asked'[q] = asked[q]) => FsInv'
  PROVE  FilesInv'
<1>1. /\ DiskInv' /\ BlockInv' /\ AskedInv' /\ BootInv' /\ ReadsOwnBlock' /\ Probed' = Probed
      /\ links' \in Memory(Headers)
      /\ device' \in [Disks -> [status : Status, lba : Lba]]
      /\ asked' \in [Procs -> [disk : Disks \union {NULL}, lba : Lba]]
      /\ asked'[p].lba = lba /\ \A q \in Procs : q # p => asked'[q] = asked[q]
      /\ UNCHANGED <<irq, isr_arg, result>>
  BY ReadKeeps, Zenon
<1>2. FsInv'
  BY <1>1, Zenon
<1>3. Types'
  BY <1>1, Zenon DEF FilesInv, Types
<1>4. RegisteredInv'
  BY <1>1, Zenon DEF FilesInv, RegisteredInv
<1> QED
  BY <1>1, <1>2, <1>3, <1>4, Zenon DEF FilesInv

\* The numbers of a machine are natural.
LEMMA MachineNumbers ==
  ASSUME FilesInv
  PROVE  \E start, rsvd, size \in Nat :
           /\ start = machine.mbr.parts[1].start /\ rsvd = machine.fat.rsvd_sects
           /\ size = machine.fat.num_fats * machine.fat.sects_per_fat
<1>1. machine \in Machines
  BY Zenon DEF FilesInv, Types
<1>2. PICK n \in Nat, m \in Nat : n = machine.fat.num_fats /\ m = machine.fat.sects_per_fat
  BY <1>1, MachineAssumption, Zenon
<1>3. PICK size \in Nat : size = n * m
  BY ONLY n \in Nat, m \in Nat
<1>4. PICK start \in Nat, rsvd \in Nat :
        start = machine.mbr.parts[1].start /\ rsvd = machine.fat.rsvd_sects
  BY <1>1, MachineAssumption, Zenon
<1>5. size = machine.fat.num_fats * machine.fat.sects_per_fat
  BY ONLY <1>2, <1>3, Zenon
<1> QED
  BY <1>4, <1>5, Zenon

\* Reads by other processes, and FSP's read of the first block.
LEMMA PlainReads ==
  ASSUME FilesInv, Placed', Opens
  PROVE  /\ (\E p \in Procs \ {FSP} : \E lba \in Reads[p] : OtherRead(p, lba)) => FilesInv'
         /\ ReadMbr => FilesInv'
<1>1. /\ entry \in Nat /\ fs_pc \in {"open", "mbr", "part", "fat", "table", "idle", "gone"}
      /\ FsInv /\ RegisteredInv
  BY Zenon DEF FilesInv, Types
<1>2. ASSUME NEW p \in Procs \ {FSP}, NEW lba \in Reads[p], OtherRead(p, lba) PROVE FilesInv'
  <2>1. registered # <<>> /\ ata_read_block(p, registered[1][2], lba) /\ UNCHANGED fileVars
    BY <1>2, ReadsFirst, Zenon
  <2>2. UNCHANGED <<machine, boot_pc, slot, func, pci_cur, fs_pc, blk, part, entry, registered>>
    BY <2>1, Zenon DEF fileVars
  <2>3. lba \in Lba
    BY Zenon DEF Lba
  <2>4. (asked'[p].lba = lba /\ \A q \in Procs : q # p => asked'[q] = asked[q]) => FsInv'
    BY <1>1, <2>2, FilesAssumption, Zenon DEF FsInv, PartOf
  <2>5. \A k \in 1..4 : Partition(k) \in Range(registered) => fs_pc' # "open" /\ (fs_pc' = "mbr" => k < entry')
    BY <1>1, <2>2, Zenon DEF RegisteredInv
  <2> QED
    BY <1>1, <2>1, <2>2, <2>3, <2>4, <2>5, ReadStep, Zenon
<1>3. ASSUME ReadMbr PROVE FilesInv'
  <2>1. registered # <<>> /\ ata_read_block(FSP, registered[1][2], 0) /\ blk' = registered[1]
    BY <1>3, ReadsFirst, Zenon
  <2>2. /\ fs_pc = "open" /\ fs_pc' = "mbr" /\ entry' = 1
        /\ UNCHANGED <<machine, boot_pc, slot, func, pci_cur, part, registered>>
    BY <1>3, Zenon DEF ReadMbr, FsAt
  <2>3. 0 \in Lba
    BY Zenon DEF Lba
  <2>4. FsInv'
    BY <1>1, <2>1, <2>2 DEF FsInv
  <2>5. \A k \in 1..4 : Partition(k) \in Range(registered) => fs_pc' # "open" /\ (fs_pc' = "mbr" => k < entry')
    BY <1>1, <2>2, Zenon DEF RegisteredInv
  <2> QED
    BY <1>1, <2>1, <2>2, <2>3, <2>4, <2>5, FilesAssumption, ReadStep, Zenon
<1> QED
  BY <1>2, <1>3, Zenon

\* FSP's reads of the first block of the partition and of the tables.
LEMMA MountReads ==
  ASSUME FilesInv, Placed', Opens
  PROVE  /\ FS_register_fs => FilesInv'
         /\ ReadTable => FilesInv'
<1>1. /\ entry \in Nat /\ fs_pc \in {"open", "mbr", "part", "fat", "table", "idle", "gone"}
      /\ FsInv /\ RegisteredInv
  BY DEF FilesInv, Types
<1>2. PICK start \in Nat, rsvd \in Nat, size \in Nat :
        /\ start = machine.mbr.parts[1].start /\ rsvd = machine.fat.rsvd_sects
        /\ size = machine.fat.num_fats * machine.fat.sects_per_fat
  BY MachineNumbers, Zenon
<1>3. Partition(1) # NULL
  BY HeaderTypes, FilesAssumption
<1>4. ASSUME FS_register_fs PROVE FilesInv'
  <2>1. /\ FsAt("part") /\ part' = Partition(1)
        /\ UNCHANGED <<machine, boot_pc, slot, func, pci_cur, blk, entry, registered>>
        /\ \/ /\ machine.mbr.parts[1].fat32 /\ fs_pc' = "fat" /\ registered # <<>>
              /\ ata_read_block(FSP, registered[1][2], 0 + machine.mbr.parts[1].start)
           \/ fs_pc' = "idle" /\ UNCHANGED <<schedVars, diskVars>>
    BY <1>4, PartitionReads, Zenon
  <2>2. CASE UNCHANGED <<schedVars, diskVars>>
    BY <1>4, <2>2, FsQuiet, Zenon
  <2>3. CASE /\ machine.mbr.parts[1].fat32 /\ fs_pc' = "fat" /\ registered # <<>>
             /\ ata_read_block(FSP, registered[1][2], 0 + machine.mbr.parts[1].start)
    <3>1. PICK lba \in Nat : lba = 0 + start
      OBVIOUS
    <3>2. ata_read_block(FSP, registered[1][2], lba) /\ fs_pc = "part"
      BY <1>2, <2>1, <2>3, <3>1, Zenon DEF FsAt
    <3>3. lba \in Lba
      BY Zenon DEF Lba
    <3>4. PartOf(part)' = machine.mbr.parts[1]
      BY <2>1, Zenon DEF PartOf, Partition
    <3>5. FsInv'
      BY <1>1, <1>3, <2>1, <2>3, <3>2, <3>4, Zenon DEF FsInv
    <3>6. fs_pc' # "open" /\ fs_pc' # "mbr" /\ entry' \in Nat
      BY <1>1, <2>1, <2>3, Zenon
    <3>7. fs_pc' \in {"open", "mbr", "part", "fat", "table", "idle", "gone"}
      BY <2>3, Zenon
    <3> QED
      BY <2>1, <2>3, <3>2, <3>3, <3>5, <3>6, <3>7, FilesAssumption, ReadStep, Zenon
  <2> QED
    BY <2>1, <2>2, <2>3, Zenon
<1>5. ASSUME ReadTable PROVE FilesInv'
  <2>1. /\ FsAt("table") /\ registered # <<>>
        /\ entry < machine.fat.num_fats * machine.fat.sects_per_fat
        /\ ata_read_block(FSP, registered[1][2],
             (entry + (1 + machine.fat.rsvd_sects)) + machine.mbr.parts[1].start)
        /\ entry' = entry + 1
        /\ UNCHANGED <<machine, boot_pc, slot, func, pci_cur, fs_pc, blk, part, registered>>
    BY <1>5, PartitionReads, Zenon
  <2>2. PICK lba \in Nat : lba = (entry + (1 + rsvd)) + start
    BY <1>1
  <2>3. ata_read_block(FSP, registered[1][2], lba) /\ fs_pc = "table" /\ entry < size
    BY <1>2, <2>1, <2>2, Zenon DEF FsAt
  <2>4. lba \in Lba
    BY DEF Lba
  <2>5. part = Partition(1) /\ PartOf(part) = machine.mbr.parts[1] /\ machine.mbr.parts[1].fat32
    BY <1>1, <2>3 DEF FsInv, PartOf, Partition
  <2>6. entry + 1 <= size /\ entry + 1 \in Nat
    <3>1. entry < size /\ entry \in Nat
      BY <1>1, <2>3, Zenon
    <3> QED
      BY ONLY <3>1, size \in Nat
  <2>7. PartOf(part)' = machine.mbr.parts[1]
    BY <2>1, <2>5, Zenon DEF PartOf
  <2>8. FsInv'
    <3>1. entry' <= machine'.fat.num_fats * machine'.fat.sects_per_fat
      BY ONLY <1>2, <2>1, <2>6, Zenon
    <3>2. /\ part' = Partition(1) /\ fs_pc' = "table" /\ PartOf(part)'.fat32
          /\ registered' # <<>> /\ blk' = registered'[1]
      BY <1>1, <2>1, <2>3, <2>5, <2>7, Zenon DEF FsInv
    <3> QED
      BY ONLY <1>3, <3>1, <3>2, Zenon DEF FsInv
  <2>9. fs_pc' # "open" /\ fs_pc' # "mbr" /\ entry' \in Nat
    BY <2>1, <2>3, <2>6, Zenon
  <2>10. fs_pc' \in {"open", "mbr", "part", "fat", "table", "idle", "gone"}
    BY <1>1, <2>1, Zenon
  <2> QED
    BY <2>1, <2>3, <2>4, <2>8, <2>9, <2>10, FilesAssumption, ReadStep, Zenon
<1> QED
  BY <1>4, <1>5, Zenon

\* A process that reads goes on when it has been woken.
LEMMA ResumeStep ==
  ASSUME FilesInv, Placed', NEW p \in Procs, ata_read_blockResume(p), UNCHANGED fileVars
  PROVE  FilesInv'
<1>1. /\ DiskInv' /\ BlockInv' /\ AskedInv' /\ BootInv' /\ ReadsOwnBlock' /\ Probed' = Probed
      /\ Types' /\ asked'[p] = NoRead /\ \A q \in Procs : q # p => asked'[q] = asked[q]
      /\ UNCHANGED <<irq, isr_arg>>
  BY ResumeKeeps, Zenon
<1>2. UNCHANGED <<machine, boot_pc, slot, func, pci_cur, fs_pc, blk, part, entry, registered>>
  BY Zenon DEF fileVars
<1>3. asked'[FSP] # NoRead => asked'[FSP] = asked[FSP]
  BY <1>1, FilesAssumption, Zenon
<1>4. FsInv'
  BY <1>2, <1>3, Zenon DEF FilesInv, FsInv, PartOf
<1>5. RegisteredInv'
  BY <1>1, <1>2, Zenon DEF FilesInv, RegisteredInv
<1> QED
  BY <1>1, <1>4, <1>5, Zenon DEF FilesInv

\* Every step keeps the invariant, if the scheduler's does and BLK_open finds
\* what it should.
LEMMA StepKeeps ==
  ASSUME FilesInv, Placed', Opens, [Next]_vars
  PROVE  FilesInv'
<1>1. CASE UNCHANGED vars
  <2>1. /\ UNCHANGED <<links, device, irq, isr_arg, asked, result, machine, slot, func, pci_cur>>
        /\ UNCHANGED <<fs_pc, blk, part, entry, registered, waiting, alive, boot_pc>>
    BY <1>1, Zenon DEF vars, schedVars, diskVars, fileVars
  <2>2. DiskInv'
    BY <2>1, QueuesKept, Zenon
  <2>3. /\ device' \in [Disks -> [status : Status, lba : Lba]] /\ irq' \in BOOLEAN
        /\ boot_pc' \in Booting \union {"create", "up"}
    BY <2>1, Zenon DEF FilesInv, Types
  <2> QED
    BY <2>1, <2>2, <2>3, RestKept, Zenon
<1>2. CASE PCI_enum
  BY <1>2, EnumKeeps, Zenon
<1>3. CASE FS_register_cdev
  BY <1>3, CdevKeeps, Zenon
<1>4. CASE PCI_register
  BY <1>4, ProbeKeeps
<1>5. CASE Creating \/ Scheduling \/ \E p \in Procs : yield(p)
  BY <1>5, SchedulingKeeps, Zenon
<1>6. CASE Device
  BY <1>6, DoneKeeps, IsrKeeps, ResumeStep, Zenon DEF Device
<1>7. CASE filesystem_init
  <2>1. FS_process_mbr => FilesInv'
    <3> SUFFICES ASSUME FS_process_mbr PROVE FilesInv'
      BY Zenon
    <3>1. \/ UNCHANGED <<links, registered>>
          \/ BLK_register(links, Partition(entry)) /\ entry <= 4 /\ entry' = entry + 1 /\ UNCHANGED fs_pc
      BY Zenon DEF FS_process_mbr
    <3> QED
      BY <3>1, FsQuiet, PartKeeps, Zenon
  <2>2. OpenFails("open", 0) \/ OpenFails("part", 1) \/ FatHeader \/ Mounted => FilesInv'
    BY FsQuiet, Zenon
  <2> QED
    BY <1>7, <2>1, <2>2, PlainReads, MountReads, Zenon DEF filesystem_init
<1>8. CASE \E p \in Procs \ {FSP} : \E lba \in Reads[p] : OtherRead(p, lba)
  BY <1>8, PlainReads, Zenon
<1> QED
  BY <1>1, <1>2, <1>3, <1>4, <1>5, <1>6, <1>7, <1>8, Zenon DEF Next

-----------------------------------------------------------------------------
\* Every step is a step of Dispatcher or leaves the scheduler alone.
LEMMA SchedulerSteps == FilesInv /\ Opens /\ [Next]_vars => [S!Next]_(S!dvars)
<1>a. SUFFICES ASSUME FilesInv, Opens, [Next]_vars PROVE [S!Next]_(S!dvars)
  BY Zenon
<1> USE DEF schedVars, S!dvars
<1>b. ASSUME NEW p \in Procs, NEW lba, registered # <<>>, ata_read_block(p, registered[1][2], lba)
      PROVE  S!Next
  <2>1. PICK d \in Disks : registered[1][2] = d
    BY <1>a, <1>b, FirstDisk, Zenon
  <2>2. S!Block(d)
    BY <1>b, <2>1, Zenon DEF ata_read_block
  <2> QED
    BY <2>2, Zenon DEF S!Next, S!Queues
<1>1. CASE UNCHANGED vars
  BY <1>1, Zenon DEF vars
<1>2. CASE PCI_enum \/ FS_register_cdev \/ PCI_register
  BY <1>2, Zenon DEF PCI_enum, FS_register_cdev, PCI_register
<1>3. CASE Creating
  BY <1>3, Zenon DEF Creating, S!Next
<1>4. CASE Scheduling
  BY <1>4, Zenon DEF Scheduling, S!Next
<1>5. CASE Device
  <2>1. ASSUME NEW d \in Disks, NEW st, DeviceDone(d, st) PROVE [S!Next]_(S!dvars)
    BY <2>1, Zenon DEF DeviceDone
  <2>2. CASE ata_isr
    <3>1. isr_arg \in Disks
      BY <1>a, <2>2, Zenon DEF ata_isr, FilesInv, Types
    <3> QED
      BY <2>2, <3>1, Zenon DEF ata_isr, S!Next
  <2>3. ASSUME NEW p \in Procs, ata_read_blockResume(p) PROVE [S!Next]_(S!dvars)
    BY <2>3, Zenon DEF ata_read_blockResume
  <2> QED
    BY <1>5, <2>1, <2>2, <2>3, Zenon DEF Device
<1>6. CASE filesystem_init
  <2>1. FSP \in Procs
    BY FilesAssumption, Zenon
  <2>2. CASE OpenFails("open", 0) \/ OpenFails("part", 1)
    BY <2>2, Zenon DEF OpenFails, S!Next
  <2>3. CASE ReadMbr
    <3>1. registered # <<>> /\ ata_read_block(FSP, registered[1][2], 0)
      BY <1>a, <2>3, ReadsFirst, Zenon
    <3> QED
      BY <1>b, <2>1, <3>1, Zenon
  <2>4. CASE FS_process_mbr \/ FatHeader \/ Mounted
    BY <2>4, Zenon DEF FS_process_mbr, FatHeader, Mounted
  <2>5. CASE FS_register_fs
    <3>1. \/ registered # <<>> /\ ata_read_block(FSP, registered[1][2], 0 + machine.mbr.parts[1].start)
          \/ UNCHANGED schedVars
      BY <1>a, <2>5, PartitionReads, Zenon
    <3>2. CASE registered # <<>> /\ ata_read_block(FSP, registered[1][2], 0 + machine.mbr.parts[1].start)
      BY <1>b, <2>1, <3>2, Zenon
    <3>3. CASE UNCHANGED schedVars
      BY <3>3, Zenon
    <3> QED
      BY <3>1, <3>2, <3>3, Zenon
  <2>6. CASE ReadTable
    <3>1. \E n : registered # <<>> /\ ata_read_block(FSP, registered[1][2], n)
      BY <1>a, <2>6, PartitionReads, Zenon
    <3> QED
      BY <1>b, <2>1, <3>1, Zenon
  <2> QED
    BY <1>6, <2>2, <2>3, <2>4, <2>5, <2>6, Zenon DEF filesystem_init
<1>7. ASSUME NEW p \in Procs \ {FSP}, NEW lba \in Reads[p], OtherRead(p, lba) PROVE [S!Next]_(S!dvars)
  <2>1. registered # <<>> /\ ata_read_block(p, registered[1][2], lba)
    BY <1>a, <1>7, ReadsFirst, Zenon
  <2> QED
    BY <1>b, <2>1, Zenon
<1>8. ASSUME NEW p \in Procs, yield(p) PROVE [S!Next]_(S!dvars)
  BY <1>8, Zenon DEF yield, S!Next
<1> QED
  BY <1>a, <1>1, <1>2, <1>3, <1>4, <1>5, <1>6, <1>7, <1>8, Zenon DEF Next

-----------------------------------------------------------------------------
INSTANCE FiniteSetTheorems

(* Induction                                                               *)

\* Every set of naturals that has an element has a least one.
LEMMA LeastElement ==
  ASSUME NEW T \in SUBSET Nat, T # {}
  PROVE  \E n \in T : \A m \in T : n <= m
<1>1. PICK R : R = {ss \in Nat \X Nat : ss[1] < ss[2]}
  BY Zenon
<1>2. OpToRel(<, Nat) = R
  BY <1>1, Zenon DEF OpToRel
<1>3. IsWellFoundedOn(R, Nat)
  BY <1>2, NatLessThanWellFounded, Zenon
<1>4. PICK n \in T : \A m \in T : ~(<<m, n>> \in R)
  BY <1>3, WFMin, Zenon
<1>5. \A m \in Nat : m < n => <<m, n>> \in R
  BY <1>1, Zenon
<1>6. \A m \in T : ~(m < n)
  BY <1>4, <1>5, Zenon
<1> QED
  BY <1>6

\* Induction with the property given as a set.
LEMMA Induction ==
  ASSUME NEW P \in SUBSET Nat, 0 \in P, \A n \in P : n + 1 \in P
  PROVE  P = Nat
<1> SUFFICES ASSUME Nat \ P # {} PROVE FALSE
  BY Zenon
<1>1. PICK n \in Nat \ P : \A m \in Nat \ P : n <= m
  BY LeastElement, Zenon
<1>2. n # 0 /\ n - 1 \in Nat /\ n - 1 \in P
  BY <1>1
<1> QED
  BY <1>1, <1>2

\* g goes from a in n steps of F.
Iterates(F, a, n, g) == g[0] = a /\ \A k \in 1..n : g[k] = F[g[k - 1]]

\* A function defined by iterating F over 0..n exists.
LEMMA Iteration ==
  ASSUME NEW D, NEW F \in [D -> D], NEW a \in D
  PROVE  \A n \in Nat : \E g \in [0..n -> D] : Iterates(F, a, n, g)
<1> DEFINE Good(n, g) == Iterates(F, a, n, g)
           P == {n \in Nat : \E g \in [0..n -> D] : Good(n, g)}
<1>1. 0 \in P
  <2>1. [k \in 0..0 |-> a] \in [0..0 -> D] /\ Good(0, [k \in 0..0 |-> a])
    BY DEF Iterates
  <2> QED
    BY <2>1, Zenon
<1>2. ASSUME NEW n \in P PROVE n + 1 \in P
  <2>1. PICK g \in [0..n -> D] : Good(n, g)
    BY Zenon
  <2> DEFINE h == [k \in 0..(n + 1) |-> IF k <= n THEN g[k] ELSE F[g[n]]]
  <2>2. h \in [0..(n + 1) -> D]
    OBVIOUS
  <2>3. Good(n + 1, h)
    BY <2>1 DEF Iterates
  <2> HIDE DEF h, Good
  <2> QED
    BY <2>2, <2>3
<1>3. P = Nat
  <2> HIDE DEF P
  <2> QED BY <1>1, <1>2, Induction, Zenon DEF P
<1> QED
  BY <1>3, Zenon
-----------------------------------------------------------------------------
(* Walks                                                                   *)

\* Step k of a walk from h is at at[k].
Walks(L, h, max, at) == at = [k \in 0..max |-> IF k = 0 THEN h ELSE L[at[k - 1]].next]

\* The headers of a walk before it is back at h.
Before(h, max, at) == {i \in 1..max : \A j \in 1..i : at[j] # h}

\* If the walk of Visited can be made, Visited makes one.
LEMMA WalkDefined ==
  ASSUME NEW L, NEW h, NEW max \in Nat, NEW g, Walks(L, h, max, g), max = Cardinality(DOMAIN L)
  PROVE  \E at : /\ Walks(L, h, max, at)
                 /\ Visited(L, h) = [k \in 1..Cardinality(Before(h, max, at)) |-> at[k]]
<1> DEFINE at == CHOOSE f : f = [k \in 0..max |-> IF k = 0 THEN h ELSE L[f[k - 1]].next]
<1>1. Walks(L, h, max, at)
  BY Zenon DEF Walks
<1>2. Visited(L, h) = [k \in 1..Cardinality(Before(h, max, at)) |-> at[k]]
  BY DEF Visited, Before
<1> HIDE DEF at
<1> QED
  BY <1>1, <1>2, Zenon

\* LL_for_each visits the elements of a list, in their order, and ends.
THEOREM WalkVisitsAll ==
  ASSUME NEW H, IsFiniteSet(H), NEW L \in Memory(H), NEW h \in H, NEW s \in Seq(H),
         Distinct(h, s), Chain(L, h, s)
  PROVE  Visited(L, h) = s /\ Len(s) < Cardinality(H)
<1> DEFINE max == Cardinality(H)
           n == Len(s)
           R == {At(h, s, i) : i \in 0..n}
<1>1. n \in Nat /\ max \in Nat /\ DOMAIN L = H
  BY FS_CardinalityType DEF Memory
<1>2. n + 1 <= max
  <2> DEFINE f == [k \in 1..(n + 1) |-> At(h, s, k - 1)]
  <2>1. f \in [1..(n + 1) -> H]
    BY <1>1, AtType
  <2>2. \A a, b \in 1..(n + 1) : f[a] = f[b] => a = b
    BY <1>1 DEF Distinct
  <2>3. IsFiniteSet(1..(n + 1)) /\ Cardinality(1..(n + 1)) = n + 1
    BY <1>1, FS_Interval
  <2> HIDE DEF f
  <2>4. f \in Injection(1..(n + 1), H)
    BY <2>1, <2>2, Zenon DEF Injection, IsInjective
  <2>5. Cardinality(1..(n + 1)) <= max
    BY <2>3, <2>4, FS_Injection, Zenon
  <2> QED
    BY <2>3, <2>5, Zenon
<1>3. \A x \in R : x \in H /\ L[x].next \in R
  <2> SUFFICES ASSUME NEW i \in 0..n PROVE At(h, s, i) \in H /\ At(h, s, i + 1) \in R
    BY Zenon DEF Chain
  <2>1. At(h, s, i) \in H
    BY <1>1, AtType
  <2>2. CASE i < n
    BY <1>1, <2>1, <2>2
  <2>3. CASE i = n
    <3>1. At(h, s, i + 1) = At(h, s, 0) /\ 0 \in 0..n
      BY <1>1, <2>3 DEF At
    <3> QED
      BY <2>1, <3>1, Zenon
  <2> QED
    BY <1>1, <2>2, <2>3
<1>4. h \in R /\ At(h, s, 0) = h /\ At(h, s, n + 1) = h
  BY <1>1 DEF At
<1> DEFINE F == [x \in R |-> L[x].next]
<1>5. PICK g \in [0..max -> R] : g[0] = h /\ \A k \in 1..max : g[k] = F[g[k - 1]]
  <2>1. F \in [R -> R]
    BY <1>3, Zenon
  <2> HIDE DEF F, R, max
  <2>2. \E g \in [0..max -> R] : Iterates(F, h, max, g)
    BY <1>1, <1>4, <2>1, Iteration, Zenon
  <2> QED
    BY <2>2, Zenon DEF Iterates
<1>6. \A k \in 1..max : g[k] = L[g[k - 1]].next
  <2> SUFFICES ASSUME NEW k \in 1..max PROVE F[g[k - 1]] = L[g[k - 1]].next
    BY <1>5, Zenon
  <2> HIDE DEF R, max
  <2>1. g[k - 1] \in R
    BY <1>1, <1>5
  <2> QED
    BY <2>1, Zenon
<1>7. Walks(L, h, max, g)
  <2> HIDE DEF R, F
  <2> QED
    BY <1>1, <1>5, <1>6, SMTT(30) DEF Walks
<1> HIDE DEF R, F, max, n
<1>8. PICK at : /\ Walks(L, h, max, at)
                /\ Visited(L, h) = [k \in 1..Cardinality(Before(h, max, at)) |-> at[k]]
  <2>1. max = Cardinality(DOMAIN L)
    BY <1>1, Zenon DEF max
  <2> QED
    BY <1>1, <1>7, <2>1, WalkDefined, SMTT(30)
<1>9. at[0] = h /\ \A k \in 1..max : at[k] = L[at[k - 1]].next
  <2>1. at = [k \in 0..max |-> IF k = 0 THEN h ELSE L[at[k - 1]].next] /\ max \in Nat
    BY <1>1, <1>8, Zenon DEF Walks
  <2> QED
    BY ONLY <2>1
<1>10. \A k \in 0..(n + 1) : at[k] = At(h, s, k)
  <2> DEFINE P == {k \in Nat : k <= n + 1 => at[k] = At(h, s, k)}
  <2>1. 0 \in P
    BY <1>4, <1>9, Zenon
  <2>2. ASSUME NEW k \in P PROVE k + 1 \in P
    <3> SUFFICES ASSUME k + 1 <= n + 1 PROVE at[k + 1] = At(h, s, k + 1)
      OBVIOUS
    <3>1. k \in 0..n /\ k + 1 \in 1..max /\ (k + 1) - 1 = k
      BY <1>1, <1>2
    <3>2. at[k] = At(h, s, k)
      BY <1>1, <3>1
    <3>3. L[At(h, s, k)].next = At(h, s, k + 1)
      BY <3>1, Zenon DEF Chain, n
    <3> QED
      BY <1>9, <3>1, <3>2, <3>3, Zenon
  <2> HIDE DEF P
  <2>3. P = Nat
    <3>1. P \in SUBSET Nat
      BY Zenon DEF P
    <3> QED
      BY <2>1, <2>2, <3>1, Induction, Zenon
  <2> QED
    BY <1>1, <2>3 DEF P
<1>11. Before(h, max, at) = 1..n
  <2>1. \A j \in 1..n : at[j] # h
    BY <1>1, <1>4, <1>10, SMTT(30) DEF Distinct, n
  <2>2. at[n + 1] = h
    BY <1>1, <1>4, <1>10
  <2> QED
    BY <1>1, <1>2, <2>1, <2>2, SMTT(30) DEF Before
<1>12. Visited(L, h) = [k \in 1..n |-> at[k]]
  <2>1. Cardinality(1..n) = n
    BY <1>1, FS_Interval
  <2> QED
    BY <1>8, <1>11, <2>1, Zenon
<1>13. \A k \in 1..n : at[k] = s[k]
  BY <1>1, <1>10 DEF At, n
<1>14. Visited(L, h) = s
  BY <1>12, <1>13 DEF n
<1> QED
  BY <1>1, <1>2, <1>14, SMTT(30) DEF n, max

\* There are finitely many headers.
LEMMA HeadersFinite == IsFiniteSet(Headers)
<1> DEFINE Tags == {"inodes", "blocks", "chars", "pci", "inode", "cdev", "disk", "part", "requests", "req"}
           Numbers == (0..(4 * MaxSlots + 4)) \union Disks \union Procs
<1>1. IsFiniteSet(Tags)
  <2> DEFINE T5 == ((((({} \union {"inodes"}) \union {"blocks"}) \union {"chars"}) \union {"pci"}) \union {"inode"})
             T10 == ((((T5 \union {"cdev"}) \union {"disk"}) \union {"part"}) \union {"requests"}) \union {"req"}
  <2>1. IsFiniteSet(T5)
    BY FS_EmptySet, FS_AddElement, Zenon
  <2> HIDE DEF T5
  <2>2. IsFiniteSet(T10)
    BY <2>1, FS_AddElement, Zenon
  <2>3. Tags = T10
    BY Zenon DEF T5
  <2> QED
    BY <2>2, <2>3, Zenon
<1>2. IsFiniteSet(Numbers)
  <2>1. IsFiniteSet(0..(4 * MaxSlots + 4))
    BY FS_Interval, FilesAssumption
  <2> QED
    BY <2>1, FS_Union, AtaAssumption, Zenon
<1>3. IsFiniteSet(Tags \X Numbers)
  <2> HIDE DEF Tags, Numbers
  <2> QED
    BY <1>1, <1>2, FS_Product, Zenon
<1>4. Headers \subseteq Tags \X Numbers
  BY FilesAssumption DEF Headers, inodes, blocks, chars, pci_dev_list, ps2_inode, ps2_cdev,
     PCIDevice, Disk, Partition, requests, req
<1> HIDE DEF Tags, Numbers
<1> QED
  BY <1>3, <1>4, FS_Subset, Zenon

\* What BLK_open walks over.
LEMMA BlocksVisited ==
  ASSUME Types, BlockInv, RegisteredInv
  PROVE  /\ Visited(links, blocks) \in Seq(Headers)
         /\ Len(Visited(links, blocks)) < Cardinality(Headers)
         /\ IF registered = <<>>
            THEN \A k \in 1..Len(Visited(links, blocks)) : NameOf(Visited(links, blocks)[k]) = NULL
            ELSE Visited(links, blocks) = registered /\ Ring(links, blocks, registered)
<1>1. links \in Memory(Headers) /\ blocks \in Headers /\ IsFiniteSet(Headers)
  BY HeaderTypes, HeadersFinite, Zenon DEF Types
<1>2. CASE registered # <<>>
  <2>1. /\ registered \in Seq(Headers) /\ Ring(links, blocks, registered)
        /\ Len(registered) \in Nat /\ DOMAIN registered = 1..Len(registered)
        /\ \A k \in 1..Len(registered) : registered[k] \in Devices
    <3>1. registered \in Seq(Devices) /\ Devices \subseteq Headers
      BY HeaderTypes, Zenon DEF RegisteredInv
    <3>2. Ring(links, blocks, registered)
      BY <1>2, Zenon DEF BlockInv
    <3> QED
      BY ONLY <3>1, <3>2
  <2>2. Distinct(blocks, registered)
    <3>1. \A k \in 0..Len(registered) : At(blocks, registered, k) = IF k = 0 THEN blocks ELSE registered[k]
      BY <2>1 DEF At
    <3>2. \A k \in 1..Len(registered) : registered[k] # blocks
      BY <2>1 DEF Devices, Disk, Partition, blocks
    <3>3. \A j, k \in 1..Len(registered) : registered[j] = registered[k] => j = k
      BY <2>1, Zenon DEF RegisteredInv, IsInjective
    <3> QED
      BY <2>1, <3>1, <3>2, <3>3, SMTT(30) DEF Distinct
  <2>3. Chain(links, blocks, registered)
    BY <2>1, Zenon DEF Ring, Chain
  <2> QED
    BY <1>1, <1>2, <2>1, <2>2, <2>3, WalkVisitsAll, Zenon
<1>3. CASE registered = <<>> /\ links[blocks].next = blocks
  <2>1. Chain(links, blocks, <<>>) /\ Distinct(blocks, <<>>) /\ <<>> \in Seq(Headers)
    BY <1>3, EmptyRing DEF BlockInv
  <2>2. Visited(links, blocks) = <<>> /\ Len(<<>>) < Cardinality(Headers)
    BY <1>1, <2>1, WalkVisitsAll, Zenon
  <2> QED
    BY <1>3, <2>2
<1>4. CASE registered = <<>> /\ links[blocks].next # blocks
  <2> DEFINE s == <<ps2_cdev, chars>>
  <2>1. s \in Seq(Headers) /\ Len(s) = 2 /\ s[1] = ps2_cdev /\ s[2] = chars
    BY HeaderTypes
  <2>2. /\ links[blocks].next = ps2_cdev /\ links[ps2_cdev].next = chars
        /\ links[chars].next = blocks
    BY <1>4, Zenon DEF BlockInv
  <2> HIDE DEF s
  <2>3. /\ At(blocks, s, 0) = blocks /\ At(blocks, s, 1) = ps2_cdev
        /\ At(blocks, s, 2) = chars /\ At(blocks, s, 3) = blocks
    BY <2>1 DEF At
  <2>4. Chain(links, blocks, s)
    <3>1. \A k \in 0..2 : k = 0 \/ k = 1 \/ k = 2
      OBVIOUS
    <3>2. 0 + 1 = 1 /\ 1 + 1 = 2 /\ 2 + 1 = 3
      OBVIOUS
    <3> QED
      BY <2>1, <2>2, <2>3, <3>1, <3>2, Zenon DEF Chain
  <2>5. Distinct(blocks, s)
    <3>1. \A k \in 0..2 : k = 0 \/ k = 1 \/ k = 2
      OBVIOUS
    <3>2. blocks # ps2_cdev /\ blocks # chars /\ ps2_cdev # chars
      BY Zenon DEF blocks, ps2_cdev, chars
    <3> QED
      BY <2>1, <2>3, <3>1, <3>2, Zenon DEF Distinct
  <2>6. Visited(links, blocks) = s /\ Len(s) < Cardinality(Headers)
    BY <1>1, <2>1, <2>4, <2>5, WalkVisitsAll, Zenon
  <2>7. NameOf(ps2_cdev) = NULL /\ NameOf(chars) = NULL
    BY Zenon DEF NameOf, ps2_cdev, chars
  <2>8. \A k \in 1..Len(s) : NameOf(s[k]) = NULL
    BY <2>1, <2>7
  <2> QED
    BY <1>4, <2>1, <2>6, <2>8, Zenon
<1> QED
  BY <1>2, <1>3, <1>4, Zenon

\* BLK_open finds the first disk that was registered, and the first partition
\* or nothing.
LEMMA Opened ==
  ASSUME Types, BlockInv, RegisteredInv
  PROVE  Opens
<1> DEFINE visited == Visited(links, blocks)
           hits(name) == {k \in DOMAIN visited : NameOf(visited[k]) = name}
<1>1. \A name : BLK_open(name) =
        IF hits(name) = {} THEN NULL ELSE visited[CHOOSE k \in hits(name) : \A j \in hits(name) : k <= j]
  BY Zenon DEF BLK_open
<1>2. CASE registered = <<>>
  <2>1. \A k \in 1..Len(visited) : NameOf(visited[k]) = NULL
    BY <1>2, BlocksVisited, Zenon
  <2>2. DOMAIN visited = 1..Len(visited)
    BY BlocksVisited, SeqLength, Zenon
  <2>3. NULL # 0 /\ NULL # 1
    BY FilesAssumption
  <2> HIDE DEF visited
  <2>4. hits(0) = {} /\ hits(1) = {}
    BY <2>1, <2>2, <2>3, Zenon
  <2> HIDE DEF hits
  <2> QED
    BY <1>1, <1>2, <2>4, Zenon DEF Opens
<1>3. CASE registered # <<>>
  <2>1. visited = registered
    BY <1>3, BlocksVisited, Zenon
  <2>2. /\ Len(visited) \in Nat /\ Len(visited) >= 1 /\ DOMAIN visited = 1..Len(visited)
        /\ \A k \in 1..Len(visited) : visited[k] \in Devices
    BY <1>3, <2>1, SMTT(30) DEF RegisteredInv
  <2>3. NameOf(visited[1]) = 0
    BY <1>3, <2>1 DEF RegisteredInv, NameOf, Disk
  <2>4. \A x \in Devices : NameOf(x) = 1 => x = Partition(1)
    BY DEF Devices, NameOf, Disk, Partition
  <2> HIDE DEF visited
  <2>5. hits(0) # {} /\ (CHOOSE k \in hits(0) : \A j \in hits(0) : k <= j) = 1
    BY <2>2, <2>3
  <2>6. BLK_open(0) = registered[1]
    BY <1>1, <2>1, <2>5, Zenon
  <2>7. hits(1) # {} => (CHOOSE k \in hits(1) : \A j \in hits(1) : k <= j) \in hits(1)
    <3>1. hits(1) \in SUBSET Nat
      BY <2>2
    <3> HIDE DEF hits
    <3> QED
      BY <3>1, LeastElement, Zenon
  <2>8. \A k \in hits(1) : visited[k] = Partition(1)
    BY <2>2, <2>4, Zenon
  <2> HIDE DEF hits
  <2> QED
    BY <1>1, <1>3, <2>6, <2>7, <2>8, Zenon DEF Opens
<1> QED
  BY <1>2, <1>3, Zenon
-----------------------------------------------------------------------------
(* The scheduler                                                           *)

-----------------------------------------------------------------------------
(* What the invariant says                                                 *)

\* Every process that lives runs, can run or waits for a disk.
Somewhere ==
  /\ runq \in Seq(Procs)
  /\ \A p \in alive : p = running \/ p \in Range(runq) \/ \E d \in Disks : p \in Range(waiting[d])

\* A walk over the requests of a disk finds the processes it serves.
LEMMA Requesting ==
  ASSUME FilesInv, NEW d \in Probed
  PROVE  \E rs \in Seq(Procs) : Serves(d, rs) /\ Requesters(d) = rs
<1>1. d \in Disks
  BY Zenon DEF Probed
<1>2. PICK rs \in Seq(Procs) : Serves(d, rs)
  BY <1>1, Zenon DEF FilesInv, DiskInv, DiskOK
<1>3. /\ links \in Memory(Headers) /\ requests(d) \in Headers /\ IsFiniteSet(Headers)
      /\ Ring(links, requests(d), Reqs(rs)) /\ IsInjective(rs)
  BY <1>1, <1>2, HeaderTypes, HeadersFinite, Zenon DEF FilesInv, Types, Serves
<1>4. PICK us \in Seq(Headers) : us = Reqs(rs)
  BY ReqsFacts, Zenon
<1>5. Distinct(requests(d), us) /\ Chain(links, requests(d), us)
  <2>1. Distinct(requests(d), Reqs(rs))
    BY <1>1, <1>3, ReqsFacts, Zenon
  <2> QED
    BY <1>3, <1>4, <2>1, Zenon DEF Ring, Chain
<1>6. Visited(links, requests(d)) = us
  BY <1>3, <1>5, WalkVisitsAll, Zenon
<1>7. Requesters(d) = [k \in 1..Len(us) |-> ProcOf(us[k])]
  BY <1>6, Zenon DEF Requesters
<1>8. Len(us) = Len(rs) /\ \A k \in 1..Len(rs) : us[k] = req(rs[k])
  BY <1>4, ReqsFacts, Zenon
<1>9. \A k \in 1..Len(rs) : ProcOf(us[k]) = rs[k]
  BY <1>8 DEF ProcOf, req
<1>10. rs = [k \in 1..Len(rs) |-> rs[k]]
  OBVIOUS
<1>11. Requesters(d) = rs
  BY <1>7, <1>8, <1>9, <1>10, Zenon
<1> QED
  BY <1>2, <1>11, Zenon

\* A process with a request on the list that does not sleep runs or can run.
LEMMA WokenRuns ==
  ASSUME FilesInv, Somewhere, NEW d \in Disks, NEW rs \in Seq(Procs), Serves(d, rs), rs # <<>>, waiting[d] = Tail(rs)
  PROVE  Head(rs) = running \/ \E k \in 1..Len(runq) : runq[k] = Head(rs)
<1>2. PICK p \in Procs : p = Head(rs) /\ p \in Range(rs) /\ p \notin Range(Tail(rs))
  <2>1. Head(rs) \in Procs /\ Head(rs) \in Range(rs) /\ Head(rs) \notin Range(Tail(rs))
    BY DequeueLemma, Zenon DEF Serves
  <2> QED
    BY <2>1, Zenon
<1>3. asked[p].disk = d
  BY <1>2, Zenon DEF Serves
<1>4. p \in alive
  BY <1>3, NoDisk DEF FilesInv, AskedInv, NoRead
<1>5. ASSUME NEW e \in Disks, p \in Range(waiting[e]) PROVE FALSE
  <2>1. e # d
    BY <1>2, <1>5, Zenon
  <2>2. DiskOK(e) /\ waiting[e] \in Seq(Procs)
    BY Zenon DEF FilesInv, DiskInv, Placed
  <2>3. waiting[e] # <<>>
    BY <1>5, EmptyQueueLemma, Zenon
  <2>4. PICK es \in Seq(Procs) : Serves(e, es)
    BY <2>2, <2>3, Zenon DEF DiskOK, Unused
  <2>5. p \in Range(es)
    <3>1. waiting[e] = es \/ (es # <<>> /\ waiting[e] = Tail(es))
      BY <2>4, Zenon DEF Serves
    <3>2. es # <<>> => Range(Tail(es)) \subseteq Range(es)
      BY <2>4, DequeueLemma, Zenon DEF Serves
    <3> QED
      BY <1>5, <3>1, <3>2, Zenon
  <2> QED
    BY <1>3, <2>1, <2>4, <2>5, Zenon DEF Serves
<1>6. p = running \/ p \in Range(runq)
  BY ONLY <1>4, <1>5, Somewhere, Zenon DEF Somewhere
<1>7. runq \in Seq(Procs)
  BY Zenon DEF Somewhere
<1>8. p \in Range(runq) => \E k \in 1..Len(runq) : runq[k] = p
  BY <1>7 DEF Range
<1> QED
  BY <1>2, <1>6, <1>8, Zenon

\* The lists of requests and of sleepers agree.
LEMMA Agree == FilesInv /\ Somewhere => QueuesAgree
<1> SUFFICES ASSUME FilesInv, Somewhere, NEW d \in Probed
             PROVE  LET rs == Requesters(d)
                    IN /\ Ring(links, requests(d), [k \in 1..Len(rs) |-> req(rs[k])])
                       /\ \/ rs = waiting[d]
                          \/ /\ ata_check_data(d) /\ rs # <<>>
                             /\ waiting[d] = Tail(rs)
                             /\ Head(rs) = running \/ \E k \in 1..Len(runq) : runq[k] = Head(rs)
  BY Zenon DEF QueuesAgree
<1>1. d \in Disks
  BY Zenon DEF Probed
<1>2. PICK rs \in Seq(Procs) : Serves(d, rs) /\ Requesters(d) = rs
  BY <1>1, Requesting, Zenon
<1>3. Ring(links, requests(d), [k \in 1..Len(rs) |-> req(rs[k])])
  BY <1>2, Zenon DEF Serves, Reqs
<1>4. \/ rs = waiting[d]
      \/ device[d].status = "data" /\ rs # <<>> /\ waiting[d] = Tail(rs)
  BY <1>2, Zenon DEF Serves
<1>5. rs # <<>> /\ waiting[d] = Tail(rs) =>
        Head(rs) = running \/ \E k \in 1..Len(runq) : runq[k] = Head(rs)
  BY <1>1, <1>2, WokenRuns, Zenon
<1> QED
  BY <1>2, <1>3, <1>4, <1>5, Zenon DEF ata_check_data

\* The device works for the first request.
LEMMA ServesHead == FilesInv => DeviceServesHead
<1> SUFFICES ASSUME FilesInv, NEW d \in Probed
             PROVE  IF Requesters(d) = <<>> THEN device[d].status = "idle"
                    ELSE device[d].status # "idle" /\ device[d].lba = asked[Head(Requesters(d))].lba
  BY Zenon DEF DeviceServesHead
<1>1. PICK rs \in Seq(Procs) : Serves(d, rs) /\ Requesters(d) = rs
  BY Requesting, Zenon
<1> QED
  BY <1>1, Zenon DEF Serves

\* BLK_open's walk sees every device.
LEMMA Finds == FilesInv => FindsEveryDevice
BY BlocksVisited, Zenon DEF FilesInv, FindsEveryDevice

-----------------------------------------------------------------------------
(* The theorems                                                            *)

\* The scheduler's state and what is proved of it.
DP == INSTANCE DispatcherProofs WITH AllQueues <- {}, HeadQueues <- Disks, NONE <- NULL

\* The constants are as DispatcherProofs assumes them.
LEMMA DispatcherConstants == DP!Constants
BY AtaAssumption, Zenon DEF DP!Constants

\* A step of the scheduler as Ata names it is one as DispatcherProofs does.
LEMMA SameScheduler == [S!Next]_(S!dvars) => [DP!Next]_(DP!dvars)
BY Zenon DEF S!dvars, DP!dvars, S!Next, DP!Next, S!Queues, DP!Queues, S!Create, DP!Create, S!Yield, DP!Yield,
       S!Exit, DP!Exit, S!Dispatch, DP!Dispatch, S!Idle, DP!Idle, S!Block, DP!Block,
       S!WakeAll, DP!WakeAll, S!WakeHead, DP!WakeHead

\* What the scheduler guarantees says who runs and where the others are.
LEMMA SchedulerPlaces == DP!DispatcherInv => Placed /\ Somewhere
<1> SUFFICES ASSUME DP!DispatcherInv PROVE Placed /\ Somewhere
  BY Zenon
<1>1. DP!TypeOK /\ DP!OnePlace
  BY Zenon DEF DP!DispatcherInv
<1>2. DP!Queues = Disks
  BY Zenon DEF DP!Queues
<1>3. waiting \in [Disks -> Seq(Procs)] /\ runq \in Seq(Procs)
  BY <1>1, <1>2, Zenon DEF DP!TypeOK
<1>4. ~DP!Waits(running) /\ \A p \in Procs : p = running => p \in alive
  BY <1>1, Zenon DEF DP!OnePlace
<1>5. \A d \in Disks : running \notin Range(waiting[d])
  BY <1>2, <1>4, Zenon DEF DP!Waits, DP!Range, Range
<1>6. \A p \in alive : p = running \/ p \in Range(runq) \/ \E d \in Disks : p \in Range(waiting[d])
  <2>1. \A p \in alive : p \in Procs
    BY <1>1, Zenon DEF DP!TypeOK
  <2>2. \A p \in Procs : p \in alive => p = running \/ p \in DP!Range(runq) \/ DP!Waits(p)
    BY <1>1, Zenon DEF DP!OnePlace
  <2>3. \A p : DP!Waits(p) => \E d \in Disks : p \in Range(waiting[d])
    BY <1>2, Zenon DEF DP!Waits, DP!Range, Range
  <2>4. DP!Range(runq) = Range(runq)
    BY Zenon DEF DP!Range, Range
  <2> QED
    BY <2>1, <2>2, <2>3, <2>4, Zenon
<1> QED
  BY <1>3, <1>4, <1>5, <1>6, Zenon DEF Placed, Somewhere

\* The inductive invariant: DiskProofs' and the scheduler's.
IInv == FilesInv /\ DP!DispatcherInv

\* It holds when PCI_enum starts.
LEMMA InvInit == Init => IInv
<1> SUFFICES ASSUME Init PROVE IInv
  BY Zenon
<1>1. FilesInv
  BY FilesInit, Zenon
<1>2. DP!Init
  BY Zenon DEF Init, AtaInit, S!Init, DP!Init, S!Queues, DP!Queues
<1>3. DP!DispatcherInv
  BY <1>2, DispatcherConstants, DP!DispatcherInit, Zenon
<1> QED
  BY <1>1, <1>3, Zenon DEF IInv

\* Every step keeps it.
LEMMA InvNext == IInv /\ [Next]_vars => IInv'
<1> SUFFICES ASSUME IInv, [Next]_vars PROVE IInv'
  BY Zenon
<1>1. FilesInv /\ DP!DispatcherInv
  BY Zenon DEF IInv
<1>2. Opens
  BY <1>1, Opened, Zenon DEF FilesInv
<1>3. [DP!Next]_(DP!dvars)
  BY <1>1, <1>2, SchedulerSteps, SameScheduler, Zenon
<1>4. DP!DispatcherInv'
  BY <1>1, <1>3, DispatcherConstants, DP!DispatcherNext, Zenon
<1>5. Placed'
  BY <1>4, SchedulerPlaces, PTL
<1>6. FilesInv'
  BY <1>1, <1>2, <1>5, StepKeeps, Zenon
<1> QED
  BY <1>4, <1>6, Zenon DEF IInv

\* The lists of requests, the sleepers, the device and the list of block
\* devices fit together, from the start of PCI_enum on.
THEOREM FilesInvariant == Spec => []IInv
<1>1. Init => IInv
  BY InvInit, Zenon
<1>2. IInv /\ [Next]_vars => IInv'
  BY InvNext, Zenon
<1> QED
  BY <1>1, <1>2, PTL DEF Spec

\* ata_read_block delivers the block that its caller asked for, however many
\* processes and controllers there are.
THEOREM OwnBlockRead == Spec => []ReadsOwnBlock
<1>1. IInv => ReadsOwnBlock
  BY Zenon DEF IInv, FilesInv
<1> QED
  BY <1>1, FilesInvariant, PTL

\* The requests of a disk and its sleepers are the same processes in the same
\* order, but for the one whose data is ready, and the links of the requests
\* are right in both directions.
THEOREM QueuesInStep == Spec => []QueuesAgree
<1>1. IInv => QueuesAgree
  BY SchedulerPlaces, Agree, Zenon DEF IInv
<1> QED
  BY <1>1, FilesInvariant, PTL

\* A disk is at work exactly while it has requests, and on the first of them:
\* no command is sent to a device that has not finished.
THEOREM HeadServed == Spec => []DeviceServesHead
<1>1. IInv => DeviceServesHead
  BY ServesHead, Zenon DEF IInv
<1> QED
  BY <1>1, FilesInvariant, PTL

\* BLK_open's walk ends and sees the devices that were registered, in their
\* order, whichever functions PCI_enum finds and whichever allocations fail.
THEOREM DevicesFound == Spec => []FindsEveryDevice
<1>1. IInv => FindsEveryDevice
  BY Finds DEF IInv
<1> QED
  BY <1>1, FilesInvariant, PTL
=============================================================================
