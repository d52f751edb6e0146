------------------------------ MODULE Console ------------------------------
(***************************************************************************)
(* The console: HW_init of src/src/arch/x86_64/hw_init.c brings up the     *)
(* interrupt lines and the serial port while interrupts already arrive,    *)
(* and display_str of src/src/printk.c puts every text on the screen and   *)
(* then on the port, for a process or for ata_isr, which logs disk errors  *)
(* and may come between any two characters of the process.  What printk    *)
(* makes of its format is in Printk.                                       *)
(***************************************************************************)
EXTENDS Serial

CONSTANTS
  MaxText,   \* bound: how many characters the process prints
  MaxError,  \* bound: how many characters ata_isr prints
  MaxStr,    \* bound: the longest string
  MaxDisk    \* bound: how often the disk raises its line

VARIABLES
  boot,       \* how far kmain has come
  active,     \* who has the processor: Proc, or the line whose interrupt it serves
  called,     \* IRQ_generic_isr has called the line's handler
  screen,     \* the characters in the order VGA_display_char got them, see Vga
  printed,    \* how many characters each has displayed
  left,       \* how much of its string each still has to put on the screen
  pending,    \* what of its string each still has to put on the port
  raised,     \* how often the disk has raised its line
  unhandled   \* history: the lines whose interrupt found no handler

printVars == <<screen, printed, left, pending>>
vars == <<picVars, serialVars, boot, active, called, printVars, raised, unhandled>>

Proc == -1
Timer == 0
ATA_PRIMARY_IRQ == 14  \* the line of vector 0x2e
Writers == {Proc, ATA_PRIMARY_IRQ}

Init ==
  /\ PicInit /\ SerialInit
  /\ boot = "HW_init" /\ active = Proc /\ called = FALSE
  /\ screen = <<>>
  /\ printed = [w \in Writers |-> 0]
  /\ left = [w \in Writers |-> 0]
  /\ pending = [w \in Writers |-> <<>>]
  /\ raised = 0 /\ unhandled = {}
-----------------------------------------------------------------------------
(* Printing                                                                *)

\* HW_init has set main_serial_dev.
main_serial_dev == boot \in {"klog", "ata_mask", "up"}

\* Nothing of w's string is left.
Silent(w) == left[w] = 0 /\ pending[w] = <<>>

\* Who may start to print: kmain between its steps, ata_isr on an error.
MayPrint(w) ==
  /\ active = w /\ Silent(w)
  /\ IF w = Proc THEN boot \in {"klog", "up"} ELSE called /\ w \in handlers

\* printk calls display_str with a string of n characters, or display_char,
\* which does the same with one.
display_str(w, n) ==
  /\ MayPrint(w)
  /\ printed[w] + n <= IF w = Proc THEN MaxText ELSE MaxError
  /\ left' = [left EXCEPT ![w] = n]
  /\ UNCHANGED <<picVars, serialVars, boot, active, called, screen, printed, pending, raised, unhandled>>

\* VGA_display_char.  The n-th character of w is <<w, n>>.
DisplayScreen(w) ==
  LET c == <<w, printed[w] + 1>>
  IN /\ active = w /\ left[w] > 0
     /\ screen' = Append(screen, c)
     /\ printed' = [printed EXCEPT ![w] = @ + 1]
     /\ left' = [left EXCEPT ![w] = @ - 1]
     /\ pending' = [pending EXCEPT ![w] = IF main_serial_dev THEN Append(@, c) ELSE @]
     /\ UNCHANGED <<picVars, serialVars, boot, active, called, raised, unhandled>>

\* Variant: the character is written again and again.
SER_write_charAgain(w) ==
  /\ active = w /\ left[w] = 0 /\ pending[w] # <<>>
  /\ x86_write(Head(pending[w]))
  /\ UNCHANGED <<handlers, imr, isr, boot, active, called, printVars, raised, unhandled>>

\* SER_write_str's next character.
SER_write_char(w) ==
  /\ active = w /\ left[w] = 0 /\ pending[w] # <<>>
  /\ x86_write(Head(pending[w]))
  /\ pending' = [pending EXCEPT ![w] = Tail(@)]
  /\ UNCHANGED <<handlers, imr, isr, boot, active, called, screen, printed, left, raised, unhandled>>
-----------------------------------------------------------------------------
(* kmain                                                                   *)

\* One step of kmain outside any interrupt: from one place to another.
Step(from, to) ==
  /\ boot = from /\ boot' = to
  /\ active = Proc /\ Silent(Proc)
  /\ UNCHANGED <<active, called, printVars, raised, unhandled>>

HW_init == Step("HW_init", "set_handler") /\ IRQ_x86_64_init /\ UNCHANGED serialVars

\* init_x86_serial: its three steps that other parts of the kernel can see.
init_x86_serial ==
  \/ Step("set_handler", "clear_mask") /\ IRQ_set_handler(COM1_COM3_IRQ) /\ UNCHANGED serialVars
  \/ Step("clear_mask", "enable") /\ ClearMask(COM1_COM3_IRQ) /\ UNCHANGED serialVars
  \/ Step("enable", "klog") /\ EnableTransmit /\ UNCHANGED <<handlers, imr, isr>>

\* PCI_enum finds the disk.
ata_probe ==
  \/ Step("klog", "ata_mask") /\ IRQ_set_handler(ATA_PRIMARY_IRQ) /\ UNCHANGED serialVars
  \/ Step("ata_mask", "up") /\ ClearMask(ATA_PRIMARY_IRQ) /\ UNCHANGED serialVars
-----------------------------------------------------------------------------
(* Interrupts                                                              *)

\* The processor accepts an interrupt; IRQ_x86_64_init ends with STI.
Interrupt ==
  /\ boot # "HW_init" /\ active = Proc
  /\ \E line \in Lines : Accept(line) /\ active' = line
  /\ called' = FALSE
  /\ UNCHANGED <<serialVars, boot, printVars, raised, unhandled>>

\* IRQ_generic_isr calls the handler, if there is one.  (The text it logs if
\* there is none is left out.)
CallHandler ==
  /\ active # Proc /\ ~called /\ called' = TRUE
  /\ IF active \in handlers
     THEN /\ IF active = COM1_COM3_IRQ THEN x86_serial_isr ELSE UNCHANGED <<serialVars, irr>>
          /\ UNCHANGED unhandled
     ELSE /\ unhandled' = unhandled \union {active}
          /\ UNCHANGED <<serialVars, irr>>
  /\ UNCHANGED <<handlers, imr, isr, boot, active, printVars, raised>>

\* IRQ_generic_isr ends.
IRQ_generic_isr ==
  /\ active # Proc /\ called /\ (active \in Writers => Silent(active))
  /\ PIC_sendEOI(active)
  /\ active' = Proc /\ called' = FALSE
  /\ UNCHANGED <<serialVars, boot, printVars, raised, unhandled>>

\* External: the devices.
PortSends ==
  /\ Transmitted
  /\ UNCHANGED <<handlers, imr, isr, boot, active, called, printVars, raised, unhandled>>

\* (the port may be as the firmware left it until init_x86_serial turns it off)
OtherDevice ==
  /\ \/ irr' = irr \union {Timer} /\ UNCHANGED raised
     \/ boot = "set_handler" /\ irr' = irr \union {COM1_COM3_IRQ} /\ UNCHANGED raised
     \/ /\ raised < MaxDisk /\ raised' = raised + 1
        /\ irr' = irr \union {ATA_PRIMARY_IRQ}
  /\ UNCHANGED <<handlers, imr, isr, serialVars, boot, active, called, printVars, unhandled>>

kmain == HW_init \/ init_x86_serial \/ ata_probe

Next ==
  \/ kmain \/ Interrupt \/ CallHandler \/ IRQ_generic_isr \/ PortSends \/ OtherDevice
  \/ \E w \in Writers :
       SER_write_char(w) \/ DisplayScreen(w) \/ \E n \in 1..MaxStr : display_str(w, n)

\* The processor keeps executing and accepts interrupts, and the port sends.
Fairness ==
  /\ WF_vars(kmain) /\ WF_vars(Interrupt) /\ WF_vars(CallHandler)
  /\ WF_vars(IRQ_generic_isr) /\ WF_vars(PortSends)
  /\ \A w \in Writers : WF_vars(SER_write_char(w)) /\ WF_vars(DisplayScreen(w))

Spec == Init /\ [][Next]_vars /\ Fairness
-----------------------------------------------------------------------------
\* The driver never rests on a filled buffer: while characters are buffered the
\* port is sending, or its interrupt is on the way.
NeverStuck ==
  Buffered > 0 => thr # NONE \/ COM1_COM3_IRQ \in irr \/ (active = COM1_COM3_IRQ /\ ~called)

\* On the port each of the two is in the order in which it printed, and what
\* the port has of it is on the screen, although the handler can come between
\* the screen and the port (so that the two texts may be mixed differently).
WriterInOrder ==
  /\ \A i, j \in 1..Len(accepted) :
       i < j /\ accepted[i][1] = accepted[j][1] => accepted[i][2] < accepted[j][2]
  /\ \A i \in 1..Len(accepted) : \E j \in 1..Len(screen) : screen[j] = accepted[i]

\* PIC_init and the order in which the drivers set their handlers and clear
\* their masks let no interrupt through that IRQ_generic_isr has no handler for.
NoneUnhandled == unhandled = {}

\* Outside interrupts nothing is in service at either controller: every handler
\* ends with the commands its line needs, so that no line is blocked by an
\* earlier one.
ServiceEnds == active = Proc => \A p \in Ports : isr[p] = {}

\* Every character the port accepted is sent in the end.
EverythingSent ==
  \A n \in 1..(MaxText + MaxError) : Len(accepted) >= n ~> Len(sent) >= n
=============================================================================
