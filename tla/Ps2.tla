-------------------------------- MODULE Ps2 --------------------------------
(***************************************************************************)
(* The keyboard driver of src/src/drivers/keyboard/ps2.c: a ring buffer    *)
(* that the interrupt handler fills and that every open file reads at its  *)
(* own position, and readers that sleep while there is nothing new.        *)
(*                                                                         *)
(* The scheduler is Dispatcher, which module Sched implements.  ps2_open,  *)
(* each pass of ps2_read's loop and ps2_close run inside IRQ_disable, and  *)
(* ps2_isr runs with interrupts off, so each is one step.                  *)
(***************************************************************************)
EXTENDS Integers, Sequences

CONSTANTS
  Readers,   \* the processes that use the keyboard
  Keys,      \* the keys that translate_scan_code turns into a character
  Size,      \* PS2_BUFF_SIZE (128 in the code)
  MaxLen,    \* bound: the largest len passed to ps2_read
  MaxChars,  \* bound: how many characters are typed
  Main, NONE

ASSUME Ps2Assumption ==
  /\ Size \in Nat /\ Size >= 2
  /\ MaxLen \in Nat \ {0} /\ MaxChars \in Nat
  /\ NONE \notin Nat /\ Main \notin Readers /\ NONE \notin Readers

VARIABLES
  running, runq, waiting, alive,  \* the scheduler, see Dispatcher
  data,      \* ps2_dev.data
  pos,       \* ps2_dev.pos, where the next character goes
  num_open,  \* ps2_dev.num_open; the interrupt is masked while it is 0
  shift,     \* ps2_dev.shift_pressed
  user,      \* PS2User.pos of each reader's open file, NONE if it has none
  want,      \* len of the ps2_read call each reader is in, 0 if in none
  made,      \* history: every character the interrupt handler added
  first,     \* history: how many there were when the reader opened the file
  got,       \* history: the characters the reader got since
  lapped     \* history: the handler overwrote what the reader had not read

schedVars == <<running, runq, waiting, alive>>
histVars == <<made, first, got, lapped>>
vars == <<schedVars, data, pos, num_open, shift, user, want, histVars>>

S == INSTANCE Dispatcher WITH
       Procs <- Readers, AllQueues <- {"blocked_procs"}, HeadQueues <- {}

\* A key gives one character with shift and another one without.
translate_scan_code(shift_pressed, code) == [key |-> code, shift |-> shift_pressed]

BUFF_POS(n) == n % Size

Init ==
  /\ S!Init
  /\ data = [i \in 0..(Size - 1) |-> NONE]
  /\ pos = 0
  /\ num_open = 0
  /\ shift = FALSE
  /\ user = [p \in Readers |-> NONE]
  /\ want = [p \in Readers |-> 0]
  /\ made = <<>>
  /\ first = [p \in Readers |-> 0]
  /\ got = [p \in Readers |-> <<>>]
  /\ lapped = [p \in Readers |-> FALSE]

-----------------------------------------------------------------------------
(* The interrupt handler                                                   *)

\* What the controller holds when the handler runs: nothing, a key or shift
\* pressed, or the two bytes of a release, which one call consumes.
Codes == Keys \union {"none", "shift", "released_key", "released_shift"}

\* ps2_read_char: the shift state it leaves.
ShiftAfter(code) ==
  CASE code = "shift" -> TRUE
    [] code = "released_shift" -> FALSE
    [] OTHER -> shift

\* A reader whose position the handler is about to reach from behind.
Lapping(p) == user[p] # NONE /\ Len(made) + 1 - first[p] - Len(got[p]) >= Size

\* Variant: advances before it stores.
producer_addAhead(c) ==
  /\ data' = [data EXCEPT ![BUFF_POS(pos + 1)] = c]
  /\ pos' = BUFF_POS(pos + 1)
  /\ made' = Append(made, c)
  /\ lapped' = [p \in Readers |-> lapped[p] \/ Lapping(p)]

producer_add(c) ==
  /\ data' = [data EXCEPT ![pos] = c]
  /\ pos' = BUFF_POS(pos + 1)
  /\ made' = Append(made, c)
  /\ lapped' = [p \in Readers |-> lapped[p] \/ Lapping(p)]

\* Variant: the handler forgets to wake the readers.
ps2_isrSilent(code) ==
  /\ num_open > 0
  /\ shift' = ShiftAfter(code)
  /\ IF code \in Keys
     THEN Len(made) < MaxChars /\ producer_add(translate_scan_code(shift, code))
     ELSE UNCHANGED <<data, pos, made, lapped>>
  /\ UNCHANGED <<schedVars, num_open, user, want, first, got>>

ps2_isr(code) ==
  /\ num_open > 0
  /\ shift' = ShiftAfter(code)
  /\ IF code \in Keys
     THEN /\ Len(made) < MaxChars
          /\ producer_add(translate_scan_code(shift, code))
          /\ S!WakeAll("blocked_procs")
     ELSE UNCHANGED <<schedVars, data, pos, made, lapped>>
  /\ UNCHANGED <<num_open, user, want, first, got>>

-----------------------------------------------------------------------------
(* The file operations                                                     *)

\* ps2_open, which clears the interrupt's mask if the file is the first one.  (If
\* kmalloc fails it returns before it changes anything.)
ps2_open(p) ==
  /\ running = p /\ user[p] = NONE
  /\ num_open' = num_open + 1
  /\ user' = [user EXCEPT ![p] = pos]
  /\ first' = [first EXCEPT ![p] = Len(made)]
  /\ got' = [got EXCEPT ![p] = <<>>]
  /\ lapped' = [lapped EXCEPT ![p] = FALSE]
  /\ UNCHANGED <<schedVars, data, pos, shift, want, made>>

FS_read(p, len) ==
  /\ running = p /\ user[p] # NONE /\ want[p] = 0
  /\ want' = [want EXCEPT ![p] = len]
  /\ UNCHANGED <<schedVars, data, pos, num_open, shift, user, histVars>>

\* Variant: takes a position ahead of the handler's for an empty buffer.
consumer_has_bytesAhead(p) == user[p] < pos

consumer_has_bytes(p) == user[p] # pos

\* How often consumer_has_bytes can answer yes in a row.
Avail(p) == BUFF_POS(pos - user[p])

\* What the n-th call of consumer_read_next in one ps2_read returns.
consumer_read_next(p, n) == data[BUFF_POS(user[p] + n - 1)]

\* One pass of ps2_read's loop: sleep, or copy what there is and return.
ps2_read(p) ==
  /\ running = p /\ want[p] > 0
  /\ IF ~consumer_has_bytes(p)
     THEN /\ S!Block("blocked_procs")
          /\ UNCHANGED <<user, want, got>>
     ELSE LET n == IF want[p] <= Avail(p) THEN want[p] ELSE Avail(p)
          IN /\ got' = [got EXCEPT ![p] =
                          @ \o [i \in 1..n |-> consumer_read_next(p, i)]]
             /\ user' = [user EXCEPT ![p] = BUFF_POS(@ + n)]
             /\ want' = [want EXCEPT ![p] = 0]
             /\ UNCHANGED schedVars
  /\ UNCHANGED <<data, pos, num_open, shift, made, first, lapped>>

\* ps2_close, which masks the interrupt if the file is the last one.  The heap
\* block it frees is not modelled.
ps2_close(p) ==
  /\ running = p /\ user[p] # NONE /\ want[p] = 0
  /\ num_open' = num_open - 1
  /\ user' = [user EXCEPT ![p] = NONE]
  /\ UNCHANGED <<schedVars, data, pos, shift, want, histVars>>

-----------------------------------------------------------------------------
\* Steps of the scheduler that the driver has no part in.
Scheduling ==
  /\ S!Dispatch \/ S!Idle
  /\ UNCHANGED <<data, pos, num_open, shift, user, want, histVars>>

Creating ==
  /\ running = Main /\ \E p \in Readers : S!Create(p)
  /\ UNCHANGED <<data, pos, num_open, shift, user, want, histVars>>

yield(p) ==
  /\ running = p /\ want[p] = 0
  /\ S!Yield
  /\ UNCHANGED <<data, pos, num_open, shift, user, want, histVars>>

Next ==
  \/ Creating \/ Scheduling
  \/ \E code \in Codes : ps2_isr(code)
  \/ \E p \in Readers :
       \/ ps2_open(p) \/ ps2_read(p) \/ ps2_close(p) \/ yield(p)
       \/ \E len \in 1..MaxLen : FS_read(p, len)

\* The processor keeps executing, and a process that is not in ps2_read gives
\* it up now and then.
Fairness ==
  /\ WF_vars(Scheduling)
  /\ \A p \in Readers : WF_vars(ps2_read(p)) /\ SF_vars(yield(p))

Spec == Init /\ [][Next]_vars /\ Fairness
-----------------------------------------------------------------------------
\* ps2_read tests the buffer and goes to sleep inside one IRQ_disable, so no
\* character can slip in between: a sleeping reader has nothing to read.
SleepersHaveNothing ==
  \A i \in 1..Len(waiting["blocked_procs"]) :
    LET p == waiting["blocked_procs"][i] IN want[p] > 0 /\ user[p] = pos

\* Every reader gets every character typed since it opened the file, in order
\* and once, whatever the other readers do, as long as it is never more than
\* Size - 1 characters behind (producer_add does not look for readers).
ReadsInOrder ==
  \A p \in Readers : user[p] # NONE /\ ~lapped[p] =>
    /\ Len(made) >= first[p] + Len(got[p])
    /\ got[p] = SubSeq(made, first[p] + 1, first[p] + Len(got[p]))
    /\ Avail(p) = Len(made) - first[p] - Len(got[p])

\* A ps2_read call with something to read returns, unless Size characters
\* arrive before the reader runs and the buffer looks empty again.
ReadReturns ==
  \A p \in Readers : want[p] > 0 /\ consumer_has_bytes(p) ~> want[p] = 0 \/ lapped[p]
=============================================================================
