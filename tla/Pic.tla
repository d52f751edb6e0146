-------------------------------- MODULE Pic --------------------------------
(***************************************************************************)
(* The interrupt lines of src/src/arch/x86_64/interrupts.c: the handler    *)
(* table, the masks of the two interrupt controllers (the slave hangs on   *)
(* line 2 of the master) and the end-of-interrupt commands.  The           *)
(* controllers themselves (8259) are external.                             *)
(***************************************************************************)
EXTENDS Integers, FiniteSetsExt

CONSTANT Lines  \* the lines that devices use

ASSUME PicAssumption == Lines \subseteq 0..15

VARIABLES
  handlers,  \* the lines whose vector has a handler in handlers[]
  imr,       \* external: the mask register of each controller
  irr,       \* external: the lines with a request
  isr        \* external: what each controller has in service

picVars == <<handlers, imr, irr, isr>>

Ports == {"master", "slave"}
Cascade == 2

Port(line) == IF line < 8 THEN "master" ELSE "slave"

Bit(line) == IF line < 8 THEN line ELSE line - 8

\* Variant: forgets that the slave counts from zero, and 1 << line leaves the byte.
IRQ_set_maskWide(m, line) == [m EXCEPT ![Port(line)] = @ \union ({line} \intersect 0..7)]

IRQ_set_mask(m, line) == [m EXCEPT ![Port(line)] = @ \union {Bit(line)}]

IRQ_clear_mask(m, line) == [m EXCEPT ![Port(line)] = @ \ {Bit(line)}]

\* The masks after PIC_init: it writes back what it found and sets one line after
\* the other, all but one (each call adds its bit to what the others leave).
PIC_init(m) == [p \in Ports |-> UNION {IRQ_set_mask(m, line)[p] : line \in (0..15) \ {Cascade}}]

\* External: what the firmware leaves in the masks and in handlers (bss).
PicInit ==
  /\ handlers = {}
  /\ imr \in {[p \in Ports |-> {}], [p \in Ports |-> 3..7]}
  /\ irr = {} /\ isr = [p \in Ports |-> {}]

\* IRQ_x86_64_init up to STI.  (The system call's vector is not a line.)
IRQ_x86_64_init ==
  /\ handlers' = {}
  /\ imr' = PIC_init(imr)
  /\ UNCHANGED <<irr, isr>>

IRQ_set_handler(line) ==
  /\ handlers' = handlers \union {line}
  /\ UNCHANGED <<imr, irr, isr>>

ClearMask(line) ==
  /\ imr' = IRQ_clear_mask(imr, line)
  /\ UNCHANGED <<handlers, irr, isr>>

\* External: the "end of interrupt" command ends what has the highest priority.
EOI(bits) == IF bits = {} THEN {} ELSE bits \ {Min(bits)}

\* Variant: only the master is told.
PIC_sendEOIMaster(line) ==
  /\ isr' = [isr EXCEPT !["master"] = EOI(@)]
  /\ UNCHANGED <<handlers, imr, irr>>

PIC_sendEOI(line) ==
  /\ isr' = [p \in Ports |-> IF p = "master" \/ line >= 8 THEN EOI(isr[p]) ELSE isr[p]]
  /\ UNCHANGED <<handlers, imr, irr>>

\* External: the bit of the master that a line comes in by, and whether the
\* controllers would pass the line's request to the processor.
MasterBit(line) == IF line < 8 THEN line ELSE Cascade

Passes(line) ==
  /\ line \in irr
  /\ Bit(line) \notin imr[Port(line)] /\ MasterBit(line) \notin imr["master"]
  /\ \A b \in isr[Port(line)] : Bit(line) < b
  /\ \A b \in isr["master"] : MasterBit(line) < b

\* External: the request that is passed first.
First(line) ==
  /\ Passes(line)
  /\ \A k \in irr : Passes(k) =>
       \/ MasterBit(line) < MasterBit(k)
       \/ MasterBit(line) = MasterBit(k) /\ line <= k

\* External: the processor accepts the interrupt of a line.
Accept(line) ==
  /\ First(line)
  /\ irr' = irr \ {line}
  /\ isr' = [p \in Ports |-> isr[p] \union (IF p = Port(line) THEN {Bit(line)} ELSE {})
                                   \union (IF p = "master" THEN {MasterBit(line)} ELSE {})]
  /\ UNCHANGED <<handlers, imr>>
=============================================================================
