------------------------------- MODULE Serial -------------------------------
(***************************************************************************)
(* The serial port of src/src/drivers/serial/x86.c: a ring buffer between  *)
(* x86_write and the "transmitter empty" interrupt on line 4 of Pic.       *)
(* x86_write runs inside IRQ_disable and the handler with interrupts off,  *)
(* so each is one step.                                                    *)
(***************************************************************************)
EXTENDS Pic, Sequences

CONSTANTS
  Size,  \* OUTPUT_BUFF_SIZE (1024 in the code)
  NONE   \* an empty transmitter

ASSUME SerialAssumption == Size \in Nat /\ Size >= 2

\* Characters are pairs, see Console.
ASSUME NoneAssumption == NONE \notin Int \X Nat

VARIABLES
  output_buff, out_producer_pos, out_consumer_pos,
  thr,       \* external: the character the port is sending
  ier,       \* external: the port may raise its interrupt
  sent,      \* history: the characters sent
  accepted   \* history: the characters that found room in the buffer

COM1_COM3_IRQ == 4  \* the line of vector 0x24

serialVars == <<output_buff, out_producer_pos, out_consumer_pos, thr, ier, sent, accepted>>

BUFF_POS(pos) == (IF pos = -1 THEN Size - 1 ELSE pos) % Size

SerialInit ==
  /\ output_buff = [i \in 0..(Size - 1) |-> NONE]
  /\ out_producer_pos = 0
  /\ out_consumer_pos = 0
  /\ thr = NONE
  /\ ier = FALSE
  /\ sent = <<>>
  /\ accepted = <<>>

is_transmit_empty == thr = NONE

\* Variant: never full.
BufferFullNever == FALSE

BufferFull == out_producer_pos = BUFF_POS(out_consumer_pos - 1)

\* consumer_write_next with the buffer and producer position b and p, if the
\* transmitter is empty.  Writing the port may withdraw a request that the
\* processor has not accepted yet (this differs between controllers).
consumer_write_next(b, p) ==
  IF is_transmit_empty /\ out_consumer_pos # p
  THEN /\ thr' = b[out_consumer_pos]
       /\ out_consumer_pos' = BUFF_POS(out_consumer_pos + 1)
       /\ irr' \in {irr, irr \ {COM1_COM3_IRQ}}
  ELSE UNCHANGED <<thr, out_consumer_pos, irr>>

\* Variant: only the interrupt handler sends.
x86_writeQueued(c) ==
  /\ output_buff' = IF BufferFull THEN output_buff ELSE [output_buff EXCEPT ![out_producer_pos] = c]
  /\ out_producer_pos' = IF BufferFull THEN out_producer_pos ELSE BUFF_POS(out_producer_pos + 1)
  /\ accepted' = IF BufferFull THEN accepted ELSE Append(accepted, c)
  /\ UNCHANGED <<out_consumer_pos, thr, ier, irr, sent>>

\* producer_add_char, then consumer_write_next.
x86_write(c) ==
  LET b == IF BufferFull THEN output_buff ELSE [output_buff EXCEPT ![out_producer_pos] = c]
      p == IF BufferFull THEN out_producer_pos ELSE BUFF_POS(out_producer_pos + 1)
  IN /\ output_buff' = b
     /\ out_producer_pos' = p
     /\ accepted' = IF BufferFull THEN accepted ELSE Append(accepted, c)
     /\ consumer_write_next(b, p)
     /\ UNCHANGED <<ier, sent>>

\* Variant: returns at once.
x86_serial_isrIdle == UNCHANGED <<serialVars, irr>>

x86_serial_isr ==
  /\ consumer_write_next(output_buff, out_producer_pos)
  /\ UNCHANGED <<output_buff, out_producer_pos, ier, sent, accepted>>

\* External: the port has sent its character and raises its interrupt.
Transmitted ==
  /\ thr # NONE
  /\ sent' = Append(sent, thr)
  /\ thr' = NONE
  /\ irr' = IF ier THEN irr \union {COM1_COM3_IRQ} ELSE irr
  /\ UNCHANGED <<output_buff, out_producer_pos, out_consumer_pos, ier, accepted>>

\* The last store of init_x86_serial; the empty transmitter may raise the
\* interrupt at once.
EnableTransmit ==
  /\ ier' = TRUE
  /\ irr' \in {irr, irr \union {COM1_COM3_IRQ}}
  /\ UNCHANGED <<output_buff, out_producer_pos, out_consumer_pos, thr, sent, accepted>>

Buffered == (out_producer_pos - out_consumer_pos) % Size

\* Every accepted character is sent once, in the order of acceptance: what is
\* sent, the transmitter and the ring buffer together are what was accepted.
SerialInOrder ==
  accepted = sent \o (IF thr = NONE THEN <<>> ELSE <<thr>>)
                  \o [i \in 1..Buffered |-> output_buff[BUFF_POS(out_consumer_pos + i - 1)]]
=============================================================================
