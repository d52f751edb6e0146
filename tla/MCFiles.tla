------------------------------ MODULE MCFiles ------------------------------
(* Machines without a disk, with one and with two; disks without a master  *)
(* boot record, with no, one and two partitions.                           *)
EXTENDS Files, TLC

CONSTANTS p1, p2, p3

MCReads == p2 :> {1} @@ p3 :> {7}

Bridge == 0  \* a PCI function that is not a disk controller

None == [start |-> 0, fat32 |-> FALSE, num_sectors |-> 0]
Fat32 == [start |-> 2, fat32 |-> TRUE, num_sectors |-> 4]
Small == [start |-> 2, fat32 |-> TRUE, num_sectors |-> 2]  \* too small for its header
Other == [start |-> 6, fat32 |-> FALSE, num_sectors |-> 1]

Mbr(s, p) == [sig |-> s, parts |-> p]
Fat == [sig |-> TRUE, rsvd_sects |-> 1, num_fats |-> 1, sects_per_fat |-> 1]

Machine(slots, mbr) == [slots |-> slots, mbr |-> mbr, fat |-> Fat]

MCMachines ==
  {Machine(<<<<Bridge, 1>>>>, m) : m \in
     {Mbr(FALSE, <<Fat32, None, None, None>>), Mbr(TRUE, <<None, None, None, None>>),
      Mbr(TRUE, <<Fat32, None, Other, None>>), Mbr(TRUE, <<Other, None, None, None>>)}}
  \union
  {Machine(s, Mbr(TRUE, <<Fat32, None, None, None>>)) : s \in
     {<<>>, <<<<1>>, <<2>>>>}}
  \union
  {Machine(<<<<Bridge>>, <<1, NULL, 2>>>>, Mbr(TRUE, <<Small, None, None, None>>))}
=============================================================================
