------------------------------ MODULE MCMemory ------------------------------
(* Seven pages of two bytes.  RAM maps in and out of order, with holes,    *)
(* reserved entries, ragged edges and entries too small for a page; kernel *)
(* images of up to three sections in any order, and none; both orders of   *)
(* the tags.                                                               *)
EXTENDS Memory

Entry(b, l) == [base |-> b, len |-> l, available |-> TRUE]
Reserved(b, l) == [base |-> b, len |-> l, available |-> FALSE]

RamMaps == {
  <<Entry(0, 14)>>,
  <<Entry(0, 4), Reserved(4, 2), Entry(6, 8)>>,
  <<Entry(1, 4), Entry(5, 9)>>,
  <<Entry(0, 1), Entry(2, 11)>>,
  <<Entry(1, 1), Entry(4, 10)>>,
  <<Entry(0, 1), Entry(2, 1), Entry(4, 8)>>,
  <<Entry(6, 8), Entry(0, 4)>>,
  <<Entry(8, 6), Entry(4, 3), Entry(0, 3)>>,
  <<Entry(10, 2), Entry(4, 4), Entry(0, 2), Entry(12, 2)>>}

Section(b, l) == [base |-> b, len |-> l, used |-> TRUE]

Images ==
  LET Sects == {Section(2, 2), Section(3, 4), Section(5, 1), Section(6, 2), Section(9, 3)}
  IN {<<s>> : s \in Sects} \union {<<s, t>> : s, t \in Sects}
     \union {<<s, t, u>> : s, t, u \in Sects}
     \union {<<[Section(0, 0) EXCEPT !.used = FALSE], s, t>> : s, t \in Sects}
     \union {<<[Section(0, 0) EXCEPT !.used = FALSE]>>}
     \union {<<Section(2, 2), Section(3, 1), Section(3, 2), Section(5, 1)>>}

MCInputs ==
  LET Mmap(r) == [type |-> "mmap", entries |-> r]
      Elf(h) == [type |-> "elf", headers |-> h]
      Other == [type |-> "other"]
  IN {[magic |-> TRUE, tags |-> <<Mmap(r), Elf(h)>>] : r \in RamMaps, h \in Images}
     \union {[magic |-> m, tags |-> <<Elf(h), Other, Mmap(<<Entry(0, 14)>>)>>] :
               m \in BOOLEAN, h \in Images}
=============================================================================
