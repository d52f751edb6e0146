----------------------------- MODULE FifoProofs -----------------------------
(***************************************************************************)
(* Two queues that hand on what they get in the order in which it came.    *)
(* The keyboard's buffer, for any number of readers, any size of the ring  *)
(* and any length of ps2_read: a reader gets what was typed.  The frame    *)
(* allocator, for any memory: whatever segments MMU_init leaves (each with *)
(* a frame, apart from each other and without frame 0, which FreeIsRest of *)
(* Memory checks), the free list stays intact, no frame is lost or has two *)
(* users, and frames are given out in the order in which they became free. *)
(***************************************************************************)
EXTENDS Ps2, Frames, CommonLemmas

-----------------------------------------------------------------------------
(* The keyboard                                                            *)

Sleeping == "blocked_procs"

DP == INSTANCE DispatcherProofs WITH
        Procs <- Readers, AllQueues <- {Sleeping}, HeadQueues <- {}

Positions == 0..(Size - 1)

Chars == [key : Keys, shift : BOOLEAN]

-----------------------------------------------------------------------------
(* The inductive invariant                                                 *)

Ps2Type ==
  /\ data \in [Positions -> Chars \union {NONE}]
  /\ shift \in BOOLEAN
  /\ user \in [Readers -> Positions \union {NONE}]
  /\ want \in [Readers -> Nat]
  /\ made \in Seq(Chars)
  /\ first \in [Readers -> Nat]
  /\ got \in [Readers -> Seq(Chars \union {NONE})]
  /\ lapped \in [Readers -> BOOLEAN]

\* The number of characters typed when reader p's position was reached.
ReadTo(p) == first[p] + Len(got[p])

\* The buffer holds the last Size characters, each at its own position.
Buffer ==
  /\ pos = BUFF_POS(Len(made))
  /\ \A j \in 1..Len(made) : j > Len(made) - Size => data[BUFF_POS(j - 1)] = made[j]

\* A reader that was not lapped has got a stretch of what was typed, and its
\* position is the end of that stretch.
Follows(p) ==
  /\ ReadTo(p) <= Len(made) /\ Len(made) - ReadTo(p) < Size
  /\ user[p] = BUFF_POS(ReadTo(p))
  /\ \A i \in 1..Len(got[p]) : got[p][i] = made[first[p] + i]

ReadersFollow == \A p \in Readers : user[p] # NONE /\ ~lapped[p] => Follows(p)

InCall == \A p \in Readers : want[p] > 0 => user[p] # NONE

Sleepers == \A p \in Range(waiting[Sleeping]) : want[p] > 0 /\ user[p] = pos

Ps2Inv == DP!DispatcherInv /\ Ps2Type /\ Buffer /\ ReadersFollow /\ InCall /\ Sleepers

-----------------------------------------------------------------------------
(* BUFF_POS                                                                *)

\* BUFF_POS of any offset is a position of the buffer.
LEMMA PosIn == ASSUME NEW a \in Int PROVE BUFF_POS(a) \in Positions
BY DivMod, Ps2Assumption DEF BUFF_POS, Positions

\* BUFF_POS may be taken before or after an addition.
LEMMA PosAdd ==
  ASSUME NEW a \in Int, NEW b \in Int
  PROVE  BUFF_POS(BUFF_POS(a) + b) = BUFF_POS(a + b)
<1>1. Size \in Nat \ {0}
  BY Ps2Assumption
<1> QED
  BY ONLY <1>1, ModAdd, a \in Int, b \in Int, Zenon DEF BUFF_POS

\* Offsets less than a buffer apart have different positions.
LEMMA PosApart ==
  ASSUME NEW a \in Int, NEW b \in Int, a < b, b - a < Size
  PROVE  BUFF_POS(a) # BUFF_POS(b)
<1>1. Size \in Nat \ {0} /\ b - a \in 1..(Size - 1)
  BY Ps2Assumption
<1> QED
  BY <1>1, ModApart, Zenon DEF BUFF_POS

\* The distance that PS2_read and PS2_interrupt compute from two positions is
\* the real one.
LEMMA PosDistance ==
  ASSUME NEW a \in Int, NEW b \in Int, a <= b, b - a < Size
  PROVE  BUFF_POS(BUFF_POS(b) - BUFF_POS(a)) = b - a
<1>1. Size \in Nat \ {0} /\ b - a \in 0..(Size - 1)
  BY Ps2Assumption
<1> QED
  BY <1>1, ModDistance, Zenon DEF BUFF_POS

-----------------------------------------------------------------------------
(* The driver's steps                                                      *)

\* The driver moves processes only as Dispatcher does.
LEMMA SchedulerSteps == [Next]_vars => [DP!Next]_(DP!dvars)
<1> USE DEF schedVars, DP!dvars, Sleeping
<1>1. CASE UNCHANGED vars
  BY <1>1, Zenon DEF vars
<1>2. CASE Creating
  BY <1>2, Zenon DEF Creating, S!Create, DP!Create, DP!Next
<1>3. CASE Scheduling
  BY <1>3, Zenon DEF Scheduling, S!Dispatch, S!Idle, DP!Dispatch, DP!Idle, DP!Next
<1>4. ASSUME NEW code \in Codes, ps2_isr(code) PROVE [DP!Next]_(DP!dvars)
  BY <1>4, Zenon DEF ps2_isr, S!WakeAll, DP!WakeAll, DP!Next
<1>5. ASSUME NEW p \in Readers, ps2_read(p) PROVE [DP!Next]_(DP!dvars)
  BY <1>5, Zenon DEF ps2_read, S!Block, DP!Block, DP!Next, DP!Queues
<1>6. ASSUME NEW p \in Readers, yield(p) PROVE [DP!Next]_(DP!dvars)
  BY <1>6, Zenon DEF yield, S!Yield, DP!Yield, DP!Next
<1>7. ASSUME NEW p \in Readers, ps2_open(p) \/ ps2_close(p) \/ \E len \in 1..MaxLen : FS_read(p, len)
      PROVE  [DP!Next]_(DP!dvars)
  BY <1>7, Zenon DEF ps2_open, ps2_close, FS_read
<1> QED
  BY <1>1, <1>2, <1>3, <1>4, <1>5, <1>6, <1>7, Zenon DEF Next

\* producer_add overwrites the oldest character and nothing that a reader who
\* is not lapped has still to read.
LEMMA ProducerKeeps ==
  ASSUME Ps2Type, Buffer, ReadersFollow, NEW c \in Chars, producer_add(c),
         UNCHANGED <<user, first, got>>
  PROVE  /\ data' \in [Positions -> Chars \union {NONE}]
         /\ made' \in Seq(Chars) /\ lapped' \in [Readers -> BOOLEAN]
         /\ Buffer' /\ ReadersFollow'
<1> PICK n : n = Len(made)
  BY Zenon
<1>1. /\ made \in Seq(Chars) /\ made' = Append(made, c) /\ n \in Nat
      /\ data \in [Positions -> Chars \union {NONE}] /\ data' = [data EXCEPT ![pos] = c]
      /\ Size \in Nat /\ Size >= 2
  BY SeqLength, Ps2Assumption, Zenon DEF Ps2Type, producer_add
<1>2. /\ made' \in Seq(Chars) /\ Len(made') = n + 1
      /\ \A j \in 1..n : made'[j] = made[j]
      /\ made'[n + 1] = c
  BY ONLY <1>1, SeqAppend, n = Len(made), c \in Chars
<1>3. pos = BUFF_POS(n) /\ pos \in Positions
  BY <1>1, PosIn DEF Buffer
<1>4. /\ data' \in [Positions -> Chars \union {NONE}] /\ data'[pos] = c
      /\ \A i \in Positions : i # pos => data'[i] = data[i]
  BY ONLY <1>1, <1>3, c \in Chars, Zenon
<1>5. Buffer'
  <2>1. pos' = BUFF_POS(n + 1)
    BY <1>1, <1>3, PosAdd DEF producer_add
  <2>2. \A j \in 1..Len(made') : j > Len(made') - Size => data'[BUFF_POS(j - 1)] = made'[j]
    <3> SUFFICES ASSUME NEW j \in 1..Len(made'), j > Len(made') - Size
                 PROVE  data'[BUFF_POS(j - 1)] = made'[j]
      BY Zenon
    <3>0. j \in 1..(n + 1) /\ j > n + 1 - Size
      BY ONLY <1>1, <1>2, j \in 1..Len(made'), j > Len(made') - Size
    <3>1. CASE j = n + 1
      BY <1>1, <1>2, <1>3, <1>4, <3>1
    <3>2. CASE j <= n
      <4>1. j - 1 \in Int /\ j - 1 < n /\ n - (j - 1) < Size /\ j > n - Size /\ j \in 1..n
        BY ONLY <1>1, <3>0, <3>2
      <4>2. BUFF_POS(j - 1) # pos /\ BUFF_POS(j - 1) \in Positions
        BY ONLY <1>1, <1>3, <4>1, PosApart, PosIn
      <4>3. data[BUFF_POS(j - 1)] = made[j]
        BY <4>1, Zenon DEF Buffer
      <4> QED
        BY ONLY <1>2, <1>4, <4>1, <4>2, <4>3, Zenon
    <3> QED
      <4>1. j = n + 1 \/ j <= n
        BY ONLY <1>1, <3>0
      <4> QED
        BY ONLY <3>1, <3>2, <4>1, Zenon
  <2>3. pos' = BUFF_POS(Len(made'))
    BY ONLY <1>2, <2>1, Zenon
  <2> QED
    BY ONLY <2>2, <2>3, Zenon DEF Buffer, BUFF_POS
<1>6. lapped' \in [Readers -> BOOLEAN]
  BY Zenon DEF producer_add, Ps2Type
<1>7. ReadersFollow'
  <2> SUFFICES ASSUME NEW p \in Readers, user[p] # NONE, ~lapped'[p] PROVE Follows(p)'
    BY Zenon DEF ReadersFollow
  <2>1. ~lapped[p] /\ ~Lapping(p)
    BY Zenon DEF producer_add, Ps2Type
  <2>2. Follows(p)
    BY <2>1, Zenon DEF ReadersFollow
  <2>3. first[p] \in Nat /\ Len(got[p]) \in Nat
    BY SeqLength, Zenon DEF Ps2Type
  <2>4. n + 1 - ReadTo(p) < Size
    BY <1>1, <2>1, <2>3 DEF Lapping, ReadTo
  <2>5. ReadTo(p)' = ReadTo(p) /\ ReadTo(p) \in Nat
    BY <2>3 DEF ReadTo
  <2>6. \A i \in 1..Len(got[p]) : got[p][i] = made'[first[p] + i]
    <3> TAKE i \in 1..Len(got[p])
    <3>1. first[p] + i \in 1..n /\ got[p][i] = made[first[p] + i]
      BY <2>2, <2>3, SMTT(30) DEF Follows, ReadTo
    <3> QED
      BY ONLY <1>2, <3>1, Zenon
  <2>7. ReadTo(p) <= n /\ user[p] = BUFF_POS(ReadTo(p))
    BY <2>2, Zenon DEF Follows
  <2>8. ReadTo(p) <= n + 1
    BY ONLY <1>1, <2>5, <2>7
  <2>9. ReadTo(p)' <= Len(made') /\ Len(made') - ReadTo(p)' < Size
    BY ONLY <1>1, <1>2, <2>4, <2>5, <2>8
  <2>10. user'[p] = BUFF_POS(ReadTo(p)')
    BY ONLY <2>5, <2>7, UNCHANGED <<user, first, got>>, Zenon
  <2>11. \A i \in 1..Len(got'[p]) : got'[p][i] = made'[first'[p] + i]
    BY ONLY <2>6, UNCHANGED <<user, first, got>>, Zenon
  <2> QED
    BY ONLY <2>9, <2>10, <2>11, Zenon DEF Follows, BUFF_POS
<1> QED
  BY <1>2, <1>4, <1>5, <1>6, <1>7, Zenon

\* ps2_read copies the next characters, as many as it is asked for or there are.
LEMMA ReaderKeeps ==
  ASSUME Ps2Type, Buffer, ReadersFollow, NEW p \in Readers, NEW n \in Nat,
         user[p] # NONE, n <= Avail(p),
         got' = [got EXCEPT ![p] = @ \o [i \in 1..n |-> consumer_read_next(p, i)]],
         user' = [user EXCEPT ![p] = BUFF_POS(@ + n)],
         UNCHANGED <<data, pos, made, first, lapped>>
  PROVE  /\ user' \in [Readers -> Positions \union {NONE}]
         /\ got' \in [Readers -> Seq(Chars \union {NONE})]
         /\ ReadersFollow'
<1> DEFINE s == [i \in 1..n |-> consumer_read_next(p, i)]
<1>1. user[p] \in Positions /\ user[p] \in Int
  BY Ps2Assumption DEF Ps2Type, Positions
<1>2. s \in Seq(Chars \union {NONE}) /\ Len(s) = n
  <2>1. \A i \in 1..n : consumer_read_next(p, i) \in Chars \union {NONE}
    <3> TAKE i \in 1..n
    <3>1. user[p] + i - 1 \in Int
      BY <1>1
    <3>2. BUFF_POS(user[p] + i - 1) \in Positions
      BY ONLY <3>1, PosIn, Zenon
    <3> QED
      BY <3>2, Zenon DEF consumer_read_next, Ps2Type
  <2> QED
    BY <2>1
<1>3. /\ got[p] \in Seq(Chars \union {NONE}) /\ got'[p] = got[p] \o s
      /\ \A r \in Readers : r # p => got'[r] = got[r] /\ user'[r] = user[r]
      /\ user'[p] = BUFF_POS(user[p] + n)
      /\ Len(got[p]) \in Nat
  BY SeqLength, Zenon DEF Ps2Type
<1>4. /\ got'[p] \in Seq(Chars \union {NONE}) /\ Len(got'[p]) = Len(got[p]) + n
      /\ \A i \in 1..Len(got[p]) : got'[p][i] = got[p][i]
      /\ \A i \in 1..n : got'[p][Len(got[p]) + i] = s[i]
  BY ONLY <1>2, <1>3, SeqConcat, n \in Nat
<1>5. user'[p] \in Positions
  <2>1. user[p] + n \in Int
    BY ONLY <1>1, n \in Nat
  <2> QED
    BY ONLY <1>3, <2>1, PosIn, Zenon
<1>6. ASSUME ~lapped[p] PROVE Follows(p)'
  <2>1. Follows(p)
    BY <1>6, Zenon DEF ReadersFollow
  <2> PICK m : m = Len(made)
    BY Zenon
  <2>2. /\ first[p] \in Nat /\ ReadTo(p) \in Nat /\ ReadTo(p) = first[p] + Len(got[p])
        /\ m \in Nat /\ Size \in Nat /\ made \in Seq(Chars)
        /\ ReadTo(p) <= m /\ m - ReadTo(p) < Size /\ user[p] = BUFF_POS(ReadTo(p))
        /\ pos = BUFF_POS(m)
    BY <1>3, <2>1, SeqLength, Ps2Assumption DEF Ps2Type, ReadTo, Follows, Buffer
  <2>3. Avail(p) = m - ReadTo(p)
    BY ONLY <2>2, PosDistance DEF Avail
  <2>4. ReadTo(p)' = ReadTo(p) + n
    BY <1>3, <1>4, <2>2, SMTT(30) DEF ReadTo
  <2>5. user'[p] = BUFF_POS(ReadTo(p) + n)
    BY ONLY <1>3, <2>2, PosAdd, n \in Nat
  <2>6. \A i \in 1..n : s[i] = made[ReadTo(p) + i]
    <3> TAKE i \in 1..n
    <3>1. s[i] = data[BUFF_POS(user[p] + i - 1)]
      BY Zenon DEF consumer_read_next
    <3>2. BUFF_POS(user[p] + i - 1) = BUFF_POS(ReadTo(p) + i - 1)
      <4>1. user[p] + i - 1 = user[p] + (i - 1) /\ ReadTo(p) + i - 1 = ReadTo(p) + (i - 1)
        BY ONLY <1>1, <2>2, i \in 1..n, n \in Nat, Zenon
      <4> QED
        BY ONLY <2>2, <4>1, PosAdd, i \in 1..n, n \in Nat, SMTT(30)
    <3>3. ReadTo(p) + i \in 1..m /\ ReadTo(p) + i > m - Size
      BY ONLY <2>2, <2>3, i \in 1..n, n \in Nat, n <= Avail(p), SMTT(30)
    <3>4. PICK j \in 1..m : j = ReadTo(p) + i
      BY <3>3, Zenon
    <3>5. data[BUFF_POS(j - 1)] = made[j]
      BY <3>3, <3>4, Zenon DEF Buffer
    <3>6. BUFF_POS(ReadTo(p) + i - 1) = BUFF_POS(j - 1)
      <4>1. ReadTo(p) + i - 1 = j - 1
        BY ONLY <2>2, <3>4
      <4> QED
        BY ONLY <4>1, Zenon
    <3>7. s[i] = data[BUFF_POS(j - 1)]
      BY ONLY <3>1, <3>2, <3>6, Zenon
    <3> HIDE DEF s
    <3> QED
      BY ONLY <3>4, <3>5, <3>7, Zenon
  <2>7. \A i \in 1..Len(got'[p]) : got'[p][i] = made[first[p] + i]
    <3> TAKE i \in 1..Len(got'[p])
    <3>1. CASE i \in 1..Len(got[p])
      BY <1>4, <2>1, <3>1, Zenon DEF Follows
    <3>2. CASE i > Len(got[p])
      <4>1. PICK j \in 1..n : i = Len(got[p]) + j
        <5>1. i - Len(got[p]) \in 1..n /\ i = Len(got[p]) + (i - Len(got[p]))
          BY ONLY <1>3, <1>4, <3>2, i \in 1..Len(got'[p]), n \in Nat
        <5> QED
          BY ONLY <5>1, Zenon
      <4>2. got'[p][i] = made[ReadTo(p) + j]
        BY ONLY <1>4, <2>6, <4>1, j \in 1..n, Zenon
      <4>3. ReadTo(p) + j = first[p] + i
        BY ONLY <1>3, <2>2, <4>1, j \in 1..n, n \in Nat, SMTT(30)
      <4> QED
        BY <4>2, <4>3, Zenon
    <3> QED
      BY ONLY <1>3, <3>1, <3>2, i \in 1..Len(got'[p])
  <2>8. ReadTo(p) + n <= m /\ m - (ReadTo(p) + n) < Size
    BY ONLY <2>2, <2>3, n \in Nat, n <= Avail(p)
  <2>9. /\ ReadTo(p)' <= Len(made') /\ Len(made') - ReadTo(p)' < Size
        /\ user'[p] = BUFF_POS(ReadTo(p)')
        /\ \A i \in 1..Len(got'[p]) : got'[p][i] = made'[first'[p] + i]
    BY ONLY <2>4, <2>5, <2>7, <2>8, m = Len(made), UNCHANGED <<made, first>>, Zenon
  <2> QED
    BY ONLY <2>9, Zenon DEF Follows, BUFF_POS
<1>7. ASSUME NEW r \in Readers, r # p, user'[r] # NONE, ~lapped[r] PROVE Follows(r)'
  BY <1>3, <1>7 DEF ReadersFollow, Follows, ReadTo
<1>8. ReadersFollow'
  BY <1>6, <1>7, Zenon DEF ReadersFollow
<1>9. user' \in [Readers -> Positions \union {NONE}] /\ got' \in [Readers -> Seq(Chars \union {NONE})]
  BY <1>3, <1>4, <1>5, Zenon DEF Ps2Type
<1> QED
  BY <1>8, <1>9, Zenon

-----------------------------------------------------------------------------
(* The invariant                                                           *)

\* The constants of the dispatcher that PS2 uses.
LEMMA DispatcherConstants == DP!Constants
BY Ps2Assumption, Zenon DEF DP!Constants

\* The empty buffer without readers.
LEMMA Ps2Init == Init => Ps2Inv
<1> SUFFICES ASSUME Init PROVE Ps2Inv
  BY Zenon
<1>1. DP!DispatcherInv
  BY DispatcherConstants, DP!DispatcherInit, Zenon DEF Init, S!Init, DP!Init, S!Queues, DP!Queues, Sleeping
<1>2. Ps2Type
  <2>1. data \in [Positions -> Chars \union {NONE}] /\ made \in Seq(Chars)
    BY DEF Init, Positions
  <2>2. shift \in BOOLEAN /\ lapped \in [Readers -> BOOLEAN]
    BY Zenon DEF Init
  <2>3. /\ user \in [Readers -> Positions \union {NONE}] /\ want \in [Readers -> Nat]
        /\ first \in [Readers -> Nat] /\ got \in [Readers -> Seq(Chars \union {NONE})]
    BY DEF Init
  <2> QED
    BY <2>1, <2>2, <2>3, Zenon DEF Ps2Type
<1>3. Buffer
  <2>1. Len(made) = 0 /\ pos = 0
    BY Zenon DEF Init
  <2>2. 0 = BUFF_POS(0)
    BY Ps2Assumption DEF BUFF_POS
  <2> QED
    BY <2>1, <2>2 DEF Buffer
<1>4. ReadersFollow /\ InCall
  BY DEF Init, ReadersFollow, InCall
<1>5. Sleepers
  <2>1. waiting[Sleeping] = <<>>
    BY Zenon DEF Init, S!Init, S!Queues, Sleeping
  <2> QED
    BY <2>1, EmptyQueueLemma, Zenon DEF Sleepers
<1> QED
  BY <1>1, <1>2, <1>3, <1>4, <1>5, Zenon DEF Ps2Inv

\* What leaves the buffer, or the readers, alone keeps what is said of them.
LEMMA Kept ==
  /\ Buffer /\ UNCHANGED <<data, pos, made>> => Buffer'
  /\ ReadersFollow /\ UNCHANGED <<made, user, first, got, lapped>> => ReadersFollow'
  /\ Sleepers /\ UNCHANGED <<waiting, want, user, pos>> => Sleepers'
<1>1. ASSUME Buffer, UNCHANGED <<data, pos, made>> PROVE Buffer'
  BY <1>1, Zenon DEF Buffer, BUFF_POS
<1>2. ASSUME ReadersFollow, UNCHANGED <<made, user, first, got, lapped>> PROVE ReadersFollow'
  BY <1>2, Zenon DEF ReadersFollow, Follows, ReadTo, BUFF_POS
<1>3. ASSUME Sleepers, UNCHANGED <<waiting, want, user, pos>> PROVE Sleepers'
  BY <1>3, Zenon DEF Sleepers
<1> QED
  BY <1>1, <1>2, <1>3, Zenon

\* Interrupt, read and scheduling steps keep the invariant.
LEMMA Ps2Next == Ps2Inv /\ [Next]_vars => Ps2Inv'
<1> SUFFICES ASSUME Ps2Inv, [Next]_vars PROVE Ps2Inv'
  BY Zenon
<1>a. DP!DispatcherInv'
  BY DispatcherConstants, SchedulerSteps, DP!DispatcherNext, Zenon DEF Ps2Inv
<1>b. /\ Ps2Type /\ Buffer /\ ReadersFollow /\ InCall /\ Sleepers
      /\ waiting[Sleeping] \in Seq(Readers) /\ waiting \in [{Sleeping} -> Seq(Readers)]
  BY Zenon DEF Ps2Inv, DP!DispatcherInv, DP!TypeOK, DP!Queues
<1> DEFINE Rest == Ps2Type /\ Buffer /\ ReadersFollow /\ InCall /\ Sleepers
<1>1. ASSUME UNCHANGED <<data, pos, shift, user, want, histVars, waiting>> PROVE Rest'
  <2>1. Ps2Type' /\ InCall'
    BY <1>b, <1>1, Zenon DEF Ps2Type, InCall, histVars
  <2> QED
    BY <1>b, <1>1, <2>1, Kept, Zenon DEF histVars
<1>2. ASSUME Creating \/ Scheduling \/ UNCHANGED vars PROVE Rest'
  <2>1. UNCHANGED <<data, pos, shift, user, want, histVars, waiting>>
    BY <1>2, Zenon DEF Creating, Scheduling, vars, schedVars, S!Create, S!Dispatch, S!Idle
  <2> QED
    BY <1>1, <2>1, Zenon
<1>3. ASSUME NEW p \in Readers, yield(p) PROVE Rest'
  <2>1. UNCHANGED <<data, pos, shift, user, want, histVars, waiting>>
    BY <1>3, Zenon DEF yield, S!Yield
  <2> QED
    BY <1>1, <2>1, Zenon
<1>4. ASSUME NEW code \in Codes, ps2_isr(code) PROVE Rest'
  <2>1. shift' \in BOOLEAN /\ UNCHANGED <<user, want, first, got>>
    BY <1>b, <1>4, Zenon DEF ps2_isr, ShiftAfter, Ps2Type
  <2>2. InCall'
    BY <1>b, <2>1, Zenon DEF InCall
  <2>3. CASE code \in Keys
    <3>1. /\ producer_add(translate_scan_code(shift, code))
          /\ translate_scan_code(shift, code) \in Chars
          /\ waiting' = [waiting EXCEPT ![Sleeping] = <<>>]
      BY <1>b, <1>4, <2>3, Zenon DEF ps2_isr, S!WakeAll, Sleeping, translate_scan_code, Chars, Ps2Type
    <3>2. /\ data' \in [Positions -> Chars \union {NONE}]
          /\ made' \in Seq(Chars) /\ lapped' \in [Readers -> BOOLEAN]
          /\ Buffer' /\ ReadersFollow'
      BY ONLY <1>b, <2>1, <3>1, ProducerKeeps, Zenon
    <3>3. Ps2Type'
      BY <1>b, <2>1, <3>2, Zenon DEF Ps2Type
    <3>4. Sleepers'
      <4>1. waiting'[Sleeping] = <<>>
        BY <1>b, <3>1, Zenon
      <4> QED
        BY <4>1, EmptyQueueLemma, Zenon DEF Sleepers
    <3> QED
      BY <2>2, <3>2, <3>3, <3>4, Zenon
  <2>4. CASE code \notin Keys
    <3>1. UNCHANGED <<waiting, data, pos, made, lapped>>
      BY <1>4, <2>4, Zenon DEF ps2_isr, schedVars
    <3>2. Ps2Type'
      BY <1>b, <2>1, <3>1, Zenon DEF Ps2Type
    <3> QED
      BY <1>b, <2>1, <2>2, <3>1, <3>2, Kept, Zenon
  <2> QED
    BY <2>3, <2>4, Zenon
<1>5. ASSUME NEW p \in Readers, ps2_open(p) PROVE Rest'
  <2>1. /\ user[p] = NONE /\ user' = [user EXCEPT ![p] = pos]
        /\ first' = [first EXCEPT ![p] = Len(made)] /\ got' = [got EXCEPT ![p] = <<>>]
        /\ lapped' = [lapped EXCEPT ![p] = FALSE]
        /\ UNCHANGED <<waiting, data, pos, shift, want, made>>
    BY <1>5, Zenon DEF ps2_open, schedVars
  <2>2. Len(made) \in Nat /\ pos = BUFF_POS(Len(made)) /\ pos \in Positions /\ pos # NONE
    BY <1>b, SeqLength, PosIn, Ps2Assumption DEF Ps2Type, Buffer, Positions
  <2>3. Ps2Type'
    BY <1>b, <2>1, <2>2 DEF Ps2Type
  <2>4. Buffer'
    BY <1>b, <2>1, Kept, Zenon
  <2>5. Follows(p)'
    <3>1. user'[p] = pos /\ first'[p] = Len(made) /\ got'[p] = <<>> /\ Len(got'[p]) = 0
      BY <1>b, <2>1, Zenon DEF Ps2Type
    <3>2. ReadTo(p)' = Len(made) /\ Len(made) - Len(made) < Size
      BY <2>2, <3>1, Ps2Assumption DEF ReadTo
    <3> QED
      BY <2>1, <2>2, <3>1, <3>2 DEF Follows, BUFF_POS
  <2>6. ReadersFollow'
    <3> SUFFICES ASSUME NEW r \in Readers, r # p, user'[r] # NONE, ~lapped'[r] PROVE Follows(r)'
      BY <2>5, Zenon DEF ReadersFollow
    <3>1. /\ user'[r] = user[r] /\ first'[r] = first[r] /\ got'[r] = got[r]
          /\ lapped'[r] = lapped[r] /\ made' = made
      BY <1>b, <2>1, Zenon DEF Ps2Type
    <3>2. Follows(r)
      BY <1>b, <3>1, Zenon DEF ReadersFollow
    <3> QED
      BY ONLY <3>1, <3>2, Zenon DEF Follows, ReadTo, BUFF_POS
  <2>7. InCall'
    BY <1>b, <2>1, Zenon DEF InCall, Ps2Type
  <2>8. Sleepers'
    BY <1>b, <2>1, EmptyQueueLemma, Zenon DEF Sleepers, InCall, Ps2Type
  <2> QED
    BY <2>3, <2>4, <2>6, <2>7, <2>8, Zenon
<1>6. ASSUME NEW p \in Readers, ps2_close(p) PROVE Rest'
  <2>1. /\ want[p] = 0 /\ user' = [user EXCEPT ![p] = NONE]
        /\ UNCHANGED <<waiting, data, pos, shift, want, made, first, got, lapped>>
    BY <1>6, Zenon DEF ps2_close, schedVars, histVars
  <2>2. Ps2Type' /\ InCall'
    BY <1>b, <2>1 DEF Ps2Type, InCall
  <2>3. Buffer'
    BY <1>b, <2>1, Kept, Zenon
  <2>4. ReadersFollow'
    <3> SUFFICES ASSUME NEW r \in Readers, user'[r] # NONE, ~lapped'[r] PROVE Follows(r)'
      BY Zenon DEF ReadersFollow
    <3>1. /\ user'[r] = user[r] /\ first' = first /\ got' = got
          /\ lapped'[r] = lapped[r] /\ made' = made
      BY <1>b, <2>1, Zenon DEF Ps2Type
    <3>2. Follows(r)
      BY <1>b, <3>1, Zenon DEF ReadersFollow
    <3> QED
      BY ONLY <3>1, <3>2, Zenon DEF Follows, ReadTo, BUFF_POS
  <2>5. Sleepers'
    BY <1>b, <2>1, EmptyQueueLemma DEF Sleepers, Ps2Type
  <2> QED
    BY <2>2, <2>3, <2>4, <2>5, Zenon
<1>7. ASSUME NEW p \in Readers, NEW len \in 1..MaxLen, FS_read(p, len) PROVE Rest'
  <2>1. /\ want[p] = 0 /\ user[p] # NONE /\ want' = [want EXCEPT ![p] = len] /\ len \in Nat
        /\ UNCHANGED <<waiting, data, pos, shift, user, made, first, got, lapped>>
    BY <1>7 DEF FS_read, schedVars, histVars
  <2>2. Ps2Type' /\ InCall'
    BY <1>b, <2>1, Zenon DEF Ps2Type, InCall
  <2>3. Sleepers'
    BY <1>b, <2>1, EmptyQueueLemma DEF Sleepers, Ps2Type
  <2> QED
    BY <1>b, <2>1, <2>2, <2>3, Kept, Zenon
<1>8. ASSUME NEW p \in Readers, ps2_read(p) PROVE Rest'
  <2>1. /\ running = p /\ want[p] > 0 /\ user[p] # NONE
        /\ UNCHANGED <<data, pos, shift, made, first, lapped>>
    BY <1>b, <1>8, Zenon DEF ps2_read, InCall
  <2>2. Buffer'
    BY <1>b, <2>1, Kept, Zenon
  <2>3. CASE ~consumer_has_bytes(p)
    <3>1. /\ waiting' = [waiting EXCEPT ![Sleeping] = Append(@, p)]
          /\ UNCHANGED <<user, want, got>>
      BY <1>8, <2>1, <2>3, Zenon DEF ps2_read, S!Block, Sleeping
    <3>2. Ps2Type' /\ InCall'
      BY <1>b, <2>1, <3>1, Zenon DEF Ps2Type, InCall
    <3>3. Range(waiting'[Sleeping]) = Range(waiting[Sleeping]) \union {p}
      <4>1. waiting'[Sleeping] = Append(waiting[Sleeping], p)
        BY <1>b, <3>1, Zenon
      <4> QED
        BY <1>b, <4>1, EnqueueLemma
    <3>4. Sleepers'
      BY <1>b, <2>1, <2>3, <3>1, <3>3, Zenon DEF Sleepers, consumer_has_bytes
    <3> QED
      BY <1>b, <2>1, <2>2, <3>1, <3>2, <3>4, Kept, Zenon
  <2>4. CASE consumer_has_bytes(p)
    <3> DEFINE k == IF want[p] <= Avail(p) THEN want[p] ELSE Avail(p)
    <3>1. Avail(p) \in Nat
      <4>1. pos \in Int /\ user[p] \in Int
        BY <1>b, <2>1, SeqLength, PosIn, Ps2Assumption DEF Ps2Type, Buffer, Positions
      <4>2. pos - user[p] \in Int
        BY ONLY <4>1
      <4>3. Avail(p) \in Positions
        BY ONLY <4>2, PosIn, Zenon DEF Avail
      <4> QED
        BY <4>3, Ps2Assumption DEF Positions
    <3>2. k \in Nat /\ k <= Avail(p)
      BY <1>b, <3>1 DEF Ps2Type
    <3>3. /\ got' = [got EXCEPT ![p] = @ \o [i \in 1..k |-> consumer_read_next(p, i)]]
          /\ user' = [user EXCEPT ![p] = BUFF_POS(@ + k)]
          /\ want' = [want EXCEPT ![p] = 0]
          /\ UNCHANGED waiting
      BY <1>8, <2>4, Zenon DEF ps2_read, schedVars
    <3> HIDE DEF k
    <3>4. /\ user' \in [Readers -> Positions \union {NONE}]
          /\ got' \in [Readers -> Seq(Chars \union {NONE})]
          /\ ReadersFollow'
      BY ONLY <1>b, <2>1, <3>2, <3>3, p \in Readers, ReaderKeeps, Zenon
    <3>5. Ps2Type'
      BY <1>b, <2>1, <3>3, <3>4, Zenon DEF Ps2Type
    <3>6. InCall'
      BY <1>b, <3>3, <3>4 DEF InCall, Ps2Type
    <3>7. Sleepers'
      <4>1. p \notin Range(waiting[Sleeping])
        BY <1>b, <2>4, Zenon DEF Sleepers, consumer_has_bytes
      <4> QED
        BY <1>b, <2>1, <3>3, <4>1, EmptyQueueLemma, Zenon DEF Sleepers, Ps2Type
    <3> QED
      BY <2>2, <3>4, <3>5, <3>6, <3>7, Zenon
  <2> QED
    BY <2>3, <2>4, Zenon
<1>9. Rest'
  BY <1>2, <1>3, <1>4, <1>5, <1>6, <1>7, <1>8, Zenon DEF Next
<1> QED
  BY <1>a, <1>9, Zenon DEF Ps2Inv

-----------------------------------------------------------------------------
\* ps2_read tests the buffer and sleeps in one IRQ_disable: for any number of
\* readers and any buffer size, a reader that sleeps has nothing to read.
THEOREM SleepSafety == Spec => []SleepersHaveNothing
<1>1. Ps2Inv => SleepersHaveNothing
  <2> SUFFICES ASSUME Ps2Inv, NEW i \in 1..Len(waiting[Sleeping])
               PROVE  LET p == waiting[Sleeping][i] IN want[p] > 0 /\ user[p] = pos
    BY Zenon DEF SleepersHaveNothing, Sleeping
  <2>1. waiting[Sleeping] \in Seq(Readers)
    BY Zenon DEF Ps2Inv, DP!DispatcherInv, DP!TypeOK, DP!Queues
  <2>2. waiting[Sleeping][i] \in Range(waiting[Sleeping])
    BY <2>1, SeqLength, Zenon DEF Range
  <2> QED
    BY <2>2, Zenon DEF Ps2Inv, Sleepers
<1> QED
  BY <1>1, Ps2Init, Ps2Next, PTL DEF Spec

\* A part of a sequence.
LEMMA SeqSub ==
  ASSUME NEW T, NEW s \in Seq(T), NEW k \in Nat, NEW n \in Nat, k + n <= Len(s)
  PROVE  /\ SubSeq(s, k + 1, k + n) \in Seq(T) /\ Len(SubSeq(s, k + 1, k + n)) = n
         /\ \A i \in 1..n : SubSeq(s, k + 1, k + n)[i] = s[k + i]
OBVIOUS

\* The ring buffer of producer_add and consumer_read_next: a reader that is
\* never Size characters behind gets every character typed since it opened the
\* file, in order and once, and consumer_has_bytes counts what is left right.
THEOREM ReadSafety == Spec => []ReadsInOrder
<1>1. Ps2Inv => ReadsInOrder
  <2> SUFFICES ASSUME Ps2Inv, NEW p \in Readers, user[p] # NONE, ~lapped[p]
               PROVE  /\ Len(made) >= first[p] + Len(got[p])
                      /\ got[p] = SubSeq(made, first[p] + 1, first[p] + Len(got[p]))
                      /\ Avail(p) = Len(made) - first[p] - Len(got[p])
    BY Zenon DEF ReadsInOrder
  <2>1. Follows(p) /\ Ps2Type /\ Buffer
    BY Zenon DEF Ps2Inv, ReadersFollow
  <2> PICK m, f, g : m = Len(made) /\ f = first[p] /\ g = got[p]
    BY Zenon
  <2>2. /\ m \in Nat /\ f \in Nat /\ Len(g) \in Nat /\ Size \in Nat
        /\ made \in Seq(Chars) /\ g \in Seq(Chars \union {NONE})
    BY <2>1, SeqLength, Ps2Assumption, Zenon DEF Ps2Type
  <2>3. /\ f + Len(g) <= m /\ m - (f + Len(g)) < Size
        /\ user[p] = BUFF_POS(f + Len(g)) /\ pos = BUFF_POS(m)
        /\ \A i \in 1..Len(g) : g[i] = made[f + i]
    BY <2>1, Zenon DEF Follows, ReadTo, Buffer
  <2>4. g = SubSeq(made, f + 1, f + Len(g))
    <3>1. Len(SubSeq(made, f + 1, f + Len(g))) = Len(g)
      BY ONLY <2>2, <2>3, SeqSub, m = Len(made)
    <3>2. \A i \in 1..Len(g) : SubSeq(made, f + 1, f + Len(g))[i] = g[i]
      BY ONLY <2>2, <2>3, SeqSub, m = Len(made)
    <3> QED
      BY ONLY <2>2, <2>3, <3>1, <3>2, SeqSub, m = Len(made)
  <2>5. Avail(p) = m - (f + Len(g))
    <3>1. f + Len(g) \in Int /\ m \in Int
      BY ONLY <2>2
    <3> QED
      BY ONLY <2>3, <3>1, PosDistance, Zenon DEF Avail
  <2>6. m >= f + Len(g) /\ m - (f + Len(g)) = m - f - Len(g)
    BY ONLY <2>2, <2>3
  <2> QED
    BY <2>4, <2>5, <2>6, Zenon
<1> QED
  BY <1>1, Ps2Init, Ps2Next, PTL DEF Spec
-----------------------------------------------------------------------------
(* The frame allocator                                                     *)

Segment == [base : Nat \ {0}, len : Nat \ {0}]

\* Segments that share no frame.
Apart(ss) ==
  \A j, k \in 1..Len(ss) : j # k => FramesOf(ss[j]) \intersect FramesOf(ss[k]) = {}

\* The allocator on its own: Memory's steps on the allocator's variables, with any
\* segments in place of the ones MMU_init computes.
FramesSpec ==
  FramesInit /\ [][FramesNext \/ \E ss \in Seq(Segment) : Apart(ss) /\ Fill(ss)]_fvars

FrameNumber == Nat \ {NULL}

FramesType ==
  /\ segments \in Seq(Segment)
  /\ free_segments \in Seq(Segment) /\ Apart(free_segments)
  /\ freed \in Seq(FrameNumber)
  /\ DOMAIN link = AllFrames

\* The inductive invariant.
FramesInv == FramesType /\ ListIntact /\ FrameOnce

\* The frames of segments ss.
In(ss) == UNION {FramesOf(ss[k]) : k \in 1..Len(ss)}
-----------------------------------------------------------------------------
\* A frame of some segments is a frame of one of them.
LEMMA InMember ==
  ASSUME NEW ss, NEW f
  PROVE  f \in In(ss) <=> \E k \in 1..Len(ss) : f \in FramesOf(ss[k])
BY Zenon DEF In

\* Frames have positive numbers.
LEMMA InPositive ==
  ASSUME NEW ss \in Seq(Segment)
  PROVE  In(ss) \subseteq FrameNumber
<1>1. SUFFICES ASSUME NEW f \in In(ss) PROVE f \in FrameNumber
  BY Zenon
<1>2. PICK k \in 1..Len(ss) : f \in FramesOf(ss[k])
  BY InMember, Zenon
<1>3. ss[k] \in Segment
  BY SeqElement, <1>2, Zenon
<1>. QED
  BY <1>2, <1>3 DEF FramesOf, Segment, FrameNumber, NULL

\* The segments that are left when the first frame is given out hold the other
\* frames, and are still apart.
LEMMA AfterFirstFrames ==
  ASSUME free_segments \in Seq(Segment), Apart(free_segments), free_segments # <<>>
  PROVE  /\ AfterFirst \in Seq(Segment) /\ Apart(AfterFirst)
         /\ Head(free_segments).base \in In(free_segments)
         /\ In(AfterFirst) = In(free_segments) \ {Head(free_segments).base}
<1> DEFINE ss == free_segments
           s == Head(ss)
           n == Len(ss)
<1>1. /\ s \in Segment /\ s = ss[1] /\ n \in Nat \ {0}
      /\ Tail(ss) \in Seq(Segment) /\ Len(Tail(ss)) = n - 1
      /\ \A k \in 1..(n - 1) : Tail(ss)[k] = ss[k + 1]
  BY SeqHeadTail, SeqEmpty, Zenon
<1>2. s.base \in FramesOf(ss[1])
  BY <1>1 DEF FramesOf, Segment
<1>3. s.base \in In(ss)
  BY <1>1, <1>2, InMember
<1>4. \A f : f \in In(ss) <=> f \in FramesOf(s) \/ \E k \in 2..n : f \in FramesOf(ss[k])
  <2>1. \A k : k \in 1..n <=> k = 1 \/ k \in 2..n
    BY <1>1
  <2>. QED
    BY <1>1, <2>1, InMember, Zenon
<1>5. \A k \in 2..n : s.base \notin FramesOf(ss[k])
  <2>1. \A k \in 2..n : k \in 1..n /\ 1 \in 1..n /\ k # 1
    BY <1>1
  <2>. QED
    BY <2>1, <1>2, Zenon DEF Apart
<1>6. CASE s.len = 1
  <2>1. AfterFirst = Tail(ss)
    BY <1>6, Zenon DEF AfterFirst
  <2>2. Apart(Tail(ss))
    <3>1. SUFFICES ASSUME NEW j \in 1..(n - 1), NEW k \in 1..(n - 1), j # k
                   PROVE  FramesOf(Tail(ss)[j]) \intersect FramesOf(Tail(ss)[k]) = {}
      BY <1>1, Zenon DEF Apart
    <3>2. j + 1 \in 1..n /\ k + 1 \in 1..n /\ j + 1 # k + 1
      BY <1>1, <3>1
    <3>3. Tail(ss)[j] = ss[j + 1] /\ Tail(ss)[k] = ss[k + 1]
      BY <1>1, Zenon
    <3>. QED
      BY <3>2, <3>3, Zenon DEF Apart
  <2>3. FramesOf(s) = {s.base}
    BY <1>1, <1>6 DEF FramesOf, Segment
  <2>4. \A f : f \in In(Tail(ss)) <=> \E k \in 2..n : f \in FramesOf(ss[k])
    <3>1. ASSUME NEW f, f \in In(Tail(ss)) PROVE \E k \in 2..n : f \in FramesOf(ss[k])
      <4>1. PICK k \in 1..(n - 1) : f \in FramesOf(Tail(ss)[k])
        BY <1>1, <3>1, InMember, Zenon
      <4>2. k + 1 \in 2..n
        BY <1>1
      <4>. QED
        BY <1>1, <4>1, <4>2, Zenon
    <3>2. ASSUME NEW f, NEW k \in 2..n, f \in FramesOf(ss[k]) PROVE f \in In(Tail(ss))
      <4>1. k - 1 \in 1..(n - 1) /\ Tail(ss)[k - 1] = ss[k - 1 + 1] /\ k - 1 + 1 = k
        BY <1>1
      <4>. QED
        BY <1>1, <3>2, <4>1, InMember, Zenon
    <3>. QED
      BY <3>1, <3>2, Zenon
  <2>. QED
    BY <1>1, <1>3, <1>4, <1>5, <2>1, <2>2, <2>3, <2>4
<1>7. CASE s.len # 1
  <2> DEFINE t == [base |-> s.base + 1, len |-> s.len - 1]
             rr == <<t>> \o Tail(ss)
  <2>1. AfterFirst = rr
    BY <1>7, Zenon DEF AfterFirst
  <2>2. t \in Segment
    BY <1>1, <1>7 DEF Segment
  <2>3. /\ rr \in Seq(Segment) /\ Len(rr) = n /\ rr[1] = t
        /\ \A k \in 2..n : rr[k] = ss[k]
    <3>1. <<t>> \in Seq(Segment) /\ Len(<<t>>) = 1 /\ <<t>>[1] = t
      BY <2>2
    <3>2. rr \in Seq(Segment) /\ Len(rr) = n
      BY <1>1, <3>1, SeqConcat
    <3>3. \A k \in 1..n : rr[k] = IF k <= 1 THEN <<t>>[k] ELSE Tail(ss)[k - 1]
      BY <1>1, <3>1, SeqConcat
    <3>4. \A k \in 2..n : k - 1 \in 1..(n - 1) /\ k - 1 + 1 = k /\ k \in 1..n /\ ~(k <= 1)
      BY <1>1
    <3>. QED
      BY <1>1, <3>1, <3>2, <3>3, <3>4
  <2>4. FramesOf(t) = FramesOf(s) \ {s.base}
    BY <1>1, <1>7 DEF FramesOf, Segment
  <2>5. Apart(rr)
    <3>1. SUFFICES ASSUME NEW j \in 1..n, NEW k \in 1..n, j # k
                   PROVE  FramesOf(rr[j]) \intersect FramesOf(rr[k]) = {}
      BY <2>3, Zenon DEF Apart
    <3>2. \A i \in 1..n : FramesOf(rr[i]) \subseteq FramesOf(ss[i])
      <4>1. \A i \in 1..n : i = 1 \/ i \in 2..n
        BY <1>1
      <4>. QED
        BY <1>1, <2>3, <2>4, <4>1, Zenon
    <3>3. FramesOf(ss[j]) \intersect FramesOf(ss[k]) = {}
      BY <3>1, Zenon DEF Apart
    <3>. QED
      BY <3>2, <3>3, Zenon
  <2>6. \A f : f \in In(rr) <=> f \in FramesOf(t) \/ \E k \in 2..n : f \in FramesOf(ss[k])
    <3>1. \A k : k \in 1..n <=> k = 1 \/ k \in 2..n
      BY <1>1
    <3> HIDE DEF t, rr, n
    <3>2. \A f : f \in In(rr) <=> \E k \in 1..n : f \in FramesOf(rr[k])
      BY <2>3, InMember, Zenon
    <3>. QED
      BY <2>3, <3>1, <3>2, Zenon
  <2>. QED
    BY <1>1, <1>3, <1>4, <1>5, <2>1, <2>3, <2>4, <2>5, <2>6, SMTT(30)
<1>. QED
  BY <1>6, <1>7, Zenon

\* AllFrames and Untouched are the frames of their segments.
LEMMA FrameSets == AllFrames = In(segments) /\ Untouched = In(free_segments)
BY Zenon DEF AllFrames, Untouched, In

\* At boot nothing is free, in use or listed.
LEMMA FramesInitInv == FramesInit => FramesInv
<1>1. SUFFICES ASSUME FramesInit PROVE FramesInv
  BY Zenon
<1>2. In(<<>>) = {}
  BY InMember
<1>3. AllFrames = {} /\ Untouched = {} /\ Listed = {}
  BY <1>1, <1>2, FrameSets DEF FramesInit, Listed
<1>. QED
  BY <1>1, <1>3 DEF FramesInit, FramesInv, FramesType, Apart, ListIntact, FrameOnce

\* MMU_init hands its segments to an allocator without any frame.
LEMMA FillInv ==
  ASSUME FramesInv, NEW ss \in Seq(Segment), Apart(ss), Fill(ss)
  PROVE  FramesInv'
<1>1. AllFrames = {}
  BY FrameSets, InMember DEF Fill
<1>2. held = {} /\ Listed = {}
  BY <1>1, Zenon DEF FramesInv, FrameOnce
<1>3. freed = <<>>
  <2>1. freed \in Seq(FrameNumber)
    BY Zenon DEF FramesInv, FramesType
  <2>2. SUFFICES ASSUME freed # <<>> PROVE FALSE
    BY Zenon
  <2>3. 1 \in 1..Len(freed)
    BY <2>1, <2>2, SeqEmpty, SeqLength
  <2>. QED
    BY <1>2, <2>3, Zenon DEF Listed
<1>4. /\ segments' = ss /\ free_segments' = ss /\ freed' = <<>> /\ held' = {}
      /\ free_page_head' = free_page_head
      /\ DOMAIN link' = In(ss)
  BY <1>2, <1>3, Zenon DEF Fill, In
<1>5. AllFrames' = In(ss) /\ Untouched' = In(ss) /\ Listed' = {}
  BY <1>4 DEF AllFrames, Untouched, In, Listed
<1>6. ListIntact'
  BY <1>3, <1>4, Zenon DEF FramesInv, ListIntact
<1>7. FrameOnce'
  BY <1>4, <1>5 DEF FrameOnce
<1>8. Apart(free_segments)' /\ freed' \in Seq(FrameNumber)
  <2>1. Apart(free_segments)'
    BY <1>4, Zenon DEF Apart
  <2>2. <<>> \in Seq(FrameNumber)
    OBVIOUS
  <2>. QED
    BY <1>4, <2>1, <2>2, Zenon
<1>. QED
  BY <1>4, <1>5, <1>6, <1>7, <1>8, Zenon DEF FramesInv, FramesType

\* A frame from a segment leaves the untouched frames for the ones in use.  It
\* is not on the free list, so the new user's writes hit no link.
LEMMA SegmentInv ==
  ASSUME FramesInv, AllocFromSegment
  PROVE  FramesInv'
<1> DEFINE f == Head(free_segments).base
<1>1. /\ AfterFirst \in Seq(Segment) /\ Apart(AfterFirst)
      /\ f \in Untouched
      /\ In(AfterFirst) = Untouched \ {f}
  BY AfterFirstFrames, FrameSets, Zenon DEF FramesInv, FramesType, AllocFromSegment
<1>2. /\ segments' = segments /\ free_segments' = AfterFirst /\ freed' = freed
      /\ held' = held \union {f} /\ link' = [link EXCEPT ![f] = JUNK]
      /\ free_page_head' = free_page_head /\ free_page_tail' = free_page_tail
  BY Zenon DEF AllocFromSegment, Given
<1> HIDE DEF f
<1>3. AllFrames' = AllFrames /\ Untouched' = Untouched \ {f} /\ Listed' = Listed
  BY <1>1, <1>2, Zenon DEF AllFrames, Untouched, In, Listed
<1>4. DOMAIN link' = AllFrames' /\ Apart(free_segments)'
  BY <1>1, <1>2, <1>3, Zenon DEF FramesInv, FramesType, Apart
<1>5. FrameOnce'
  <2>1. FrameOnce
    BY Zenon DEF FramesInv
  <2>. QED
    BY <1>1, <1>2, <1>3, <2>1, Zenon DEF FrameOnce
<1>6. f \in AllFrames /\ f \notin Listed
  BY <1>1, Zenon DEF FramesInv, FrameOnce
<1>7. \A g \in Listed : link'[g] = link[g]
  <2>1. Listed \subseteq AllFrames
    BY Zenon DEF FramesInv, FrameOnce
  <2>. QED
    BY <1>2, <1>6, <2>1, Zenon DEF FramesInv, FramesType
<1>8. ListIntact'
  <2>1. freed \in Seq(FrameNumber) /\ ListIntact
    BY Zenon DEF FramesInv, FramesType
  <2>2. CASE freed = <<>>
    BY <1>2, <2>1, <2>2, Zenon DEF ListIntact
  <2>3. CASE freed # <<>>
    <3>1. Len(freed) \in Nat \ {0}
      BY <2>1, <2>3, SeqEmpty, SeqLength, Zenon
    <3>2. /\ \A k \in 1..Len(freed) : freed[k] \in Listed
          /\ Len(freed) \in 1..Len(freed)
          /\ \A k \in 1..(Len(freed) - 1) : k \in 1..Len(freed)
      BY <3>1 DEF Listed
    <3>. QED
      BY <1>2, <1>7, <2>1, <2>3, <3>2, Zenon DEF ListIntact
  <2>. QED
    BY <2>2, <2>3, Zenon
<1>. QED
  BY <1>1, <1>2, <1>4, <1>5, <1>8, Zenon DEF FramesInv, FramesType

\* A frame from the list is its head.  Its first word, read before the new user
\* writes to it, leads to the rest of the list.
LEMMA ListInv ==
  ASSUME FramesInv, AllocFromList
  PROVE  FramesInv'
<1> DEFINE n == Len(freed)
           f == free_page_head
<1>1. freed \in Seq(FrameNumber) /\ freed # <<>>
  BY Zenon DEF FramesInv, FramesType, ListIntact, AllocFromList
<1>2. /\ n \in Nat \ {0} /\ Tail(freed) \in Seq(FrameNumber) /\ Len(Tail(freed)) = n - 1
      /\ Head(freed) = freed[1]
      /\ \A k \in 1..(n - 1) : Tail(freed)[k] = freed[k + 1]
  BY <1>1, SeqHeadTail, SeqEmpty, Zenon
<1>3. /\ f = freed[1]
      /\ free_page_tail = freed[n]
      /\ link[free_page_tail] = NULL
      /\ \A k \in 1..(n - 1) : link[freed[k]] = freed[k + 1]
  BY <1>1, <1>2, Zenon DEF FramesInv, ListIntact
<1>4. /\ segments' = segments /\ free_segments' = free_segments /\ freed' = Tail(freed)
      /\ held' = held \union {f} /\ link' = [link EXCEPT ![f] = JUNK]
      /\ free_page_head' = link[f] /\ free_page_tail' = free_page_tail
  BY Zenon DEF AllocFromList, Given, NextFree
<1> HIDE DEF f, n
<1>5. \A j, k \in 1..n : freed[j] = freed[k] => j = k
  BY Zenon DEF FramesInv, FrameOnce, n
<1>6. \A k \in 1..(n - 1) : k + 1 \in 1..n /\ k \in 1..n /\ k + 1 # 1 /\ 1 \in 1..n
  BY <1>2
<1>7. Listed' = Listed \ {f} /\ f \in Listed
  <2>1. Listed' = {Tail(freed)[k] : k \in 1..(n - 1)}
    BY <1>2, <1>4, Zenon DEF Listed
  <2>2. Listed = {freed[k] : k \in 1..n}
    BY Zenon DEF Listed, n
  <2>3. f \in Listed
    BY <1>2, <1>3, <2>2
  <2>4. ASSUME NEW g \in Listed' PROVE g \in Listed \ {f}
    <3>1. PICK k \in 1..(n - 1) : g = Tail(freed)[k]
      BY <2>1, <2>4, Zenon
    <3>. QED
      BY <1>2, <1>3, <1>5, <1>6, <2>2, <3>1
  <2>5. ASSUME NEW g \in Listed \ {f} PROVE g \in Listed'
    <3>1. PICK k \in 1..n : g = freed[k]
      BY <2>2, <2>5, Zenon
    <3>2. k # 1
      BY <1>3, <2>5, <3>1, Zenon
    <3>3. PICK j \in 1..(n - 1) : j + 1 = k
      <4>1. k - 1 \in 1..(n - 1) /\ (k - 1) + 1 = k
        BY <1>2, <3>2
      <4>. QED
        BY ONLY <4>1, Zenon
    <3>4. Tail(freed)[j] = g
      BY <1>2, <3>1, <3>3, Zenon
    <3>. QED
      BY ONLY <2>1, <3>3, <3>4, Zenon
  <2>. QED
    BY <2>3, <2>4, <2>5, Zenon
<1>8. AllFrames' = AllFrames /\ Untouched' = Untouched
  BY <1>4, Zenon DEF AllFrames, Untouched
<1>9. \A j, k \in 1..(n - 1) : Tail(freed)[j] = Tail(freed)[k] => j = k
  <2>1. \A j, k \in 1..(n - 1) : j + 1 = k + 1 => j = k
    BY <1>2
  <2>. QED
    BY <1>2, <1>5, <1>6, <2>1
<1>10. FrameOnce'
  <2>1. FrameOnce
    BY DEF FramesInv
  <2>2. \A j, k \in 1..Len(freed') : freed'[j] = freed'[k] => j = k
    BY <1>2, <1>4, <1>9, Zenon
  <2>. QED
    BY <1>4, <1>7, <1>8, <2>1, <2>2 DEF FrameOnce
<1>11. Listed \subseteq DOMAIN link
  BY Zenon DEF FramesInv, FramesType, FrameOnce
<1>12. \A g \in Listed' : link'[g] = link[g]
  BY <1>4, <1>7, <1>11, Zenon
<1>13. ListIntact'
  <2>1. CASE n = 1
    <3>1. Tail(freed) = <<>>
      <4>1. Tail(freed) \in Seq(FrameNumber) /\ Len(Tail(freed)) = 0
        BY <1>2, <2>1
      <4>. QED
        BY <4>1, SeqEmpty, Zenon
    <3>2. link[f] = NULL
      BY <1>3, <2>1, Zenon
    <3>. QED
      BY <1>4, <3>1, <3>2, Zenon DEF ListIntact
  <2>2. CASE n # 1
    <3>1. n - 1 \in Nat \ {0} /\ n - 1 + 1 = n /\ 1 \in 1..(n - 1) /\ n - 1 \in 1..(n - 1)
      BY <1>2, <2>2
    <3>2. Tail(freed) # <<>>
      BY <1>2, <3>1, SeqEmpty, Zenon
    <3>3. Head(Tail(freed)) = Tail(freed)[1] /\ Tail(freed)[1] = freed[1 + 1]
      BY <1>2, <3>1, <3>2, SeqHeadTail, Zenon
    <3>4. link[f] = Head(Tail(freed))
      BY <1>3, <3>1, <3>3, Zenon
    <3>5. free_page_tail = Tail(freed)[n - 1]
      BY <1>2, <1>3, <3>1, Zenon
    <3>6. \A k \in 1..(n - 1) : Tail(freed)[k] \in Listed'
      BY <1>2, <1>4, Zenon DEF Listed
    <3>7. link'[free_page_tail] = NULL
      BY <1>3, <1>12, <3>1, <3>5, <3>6, Zenon
    <3>8. \A k \in 1..(n - 1 - 1) : link'[Tail(freed)[k]] = Tail(freed)[k + 1]
      <4>1. \A k \in 1..(n - 1 - 1) : k \in 1..(n - 1) /\ k + 1 \in 1..(n - 1)
        BY <1>2
      <4>. QED
        BY <1>2, <1>3, <1>12, <3>6, <4>1
    <3>. QED
      BY <1>2, <1>4, <3>2, <3>4, <3>5, <3>7, <3>8, Zenon DEF ListIntact
  <2>. QED
    BY <2>1, <2>2, Zenon
<1>14. DOMAIN link' = AllFrames' /\ Apart(free_segments)'
  BY <1>4, <1>8, Zenon DEF FramesInv, FramesType, Apart
<1>. QED
  BY <1>2, <1>4, <1>10, <1>13, <1>14, Zenon DEF FramesInv, FramesType

\* A freed frame becomes the last of the list.  The link that MMU_free_frame
\* writes into the tail is written into a listed frame, never into one in use,
\* because the tail is read only while the list is not empty.
LEMMA FreeInv ==
  ASSUME FramesInv, NEW f \in AllFrames, MMU_free_frame(f)
  PROVE  FramesInv'
<1> DEFINE n == Len(freed)
<1>1. freed \in Seq(FrameNumber) /\ n \in Nat
  BY SeqLength, Zenon DEF FramesInv, FramesType
<1>2. f \in FrameNumber
  BY InPositive, FrameSets, Zenon DEF FramesInv, FramesType
<1>3. /\ Append(freed, f) \in Seq(FrameNumber)
      /\ Append(freed, f) # <<>>
      /\ Len(Append(freed, f)) = n + 1
      /\ \A k \in 1..n : Append(freed, f)[k] = freed[k]
      /\ Append(freed, f)[n + 1] = f
  BY <1>1, <1>2, SeqAppend
<1>4. /\ segments' = segments /\ free_segments' = free_segments
      /\ freed' = Append(freed, f) /\ held' = held \ {f} /\ f \in held
  BY Zenon DEF MMU_free_frame
<1> HIDE DEF n
<1>5. AllFrames' = AllFrames /\ Untouched' = Untouched
  BY <1>4, Zenon DEF AllFrames, Untouched
<1>6. f \notin Listed /\ Listed \subseteq AllFrames
  BY <1>4, Zenon DEF FramesInv, FrameOnce
<1>7. \A k : k \in 1..(n + 1) <=> k \in 1..n \/ k = n + 1
  BY <1>1
<1>8. Listed = {freed[k] : k \in 1..n}
  BY Zenon DEF Listed, n
<1>9. Listed' = Listed \union {f}
  <2>1. Listed' = {Append(freed, f)[k] : k \in 1..(n + 1)}
    BY <1>3, <1>4, Zenon DEF Listed
  <2>. QED
    BY <1>3, <1>7, <1>8, <2>1, Zenon
<1>10. FrameOnce'
  <2>1. FrameOnce
    BY Zenon DEF FramesInv
  <2>2. \A j, k \in 1..n : freed[j] = freed[k] => j = k
    BY <2>1, Zenon DEF FrameOnce, n
  <2>3. \A k \in 1..n : freed[k] # f
    BY <1>6, <1>8, Zenon
  <2>4. \A j, k \in 1..Len(freed') : freed'[j] = freed'[k] => j = k
    BY <1>3, <1>4, <1>7, <2>2, <2>3
  <2>. QED
    BY <1>4, <1>5, <1>9, <2>1, <2>4 DEF FrameOnce
<1>11. DOMAIN link = AllFrames
  BY Zenon DEF FramesInv, FramesType
<1>12. CASE free_page_head = NULL
  <2>1. freed = <<>> /\ n = 0
    <3>1. SUFFICES ASSUME freed # <<>> PROVE FALSE
      BY <1>1, SeqEmpty, Zenon DEF n
    <3>2. Head(freed) \in FrameNumber
      BY <1>1, <3>1, SeqHeadTail, Zenon
    <3>. QED
      BY <1>12, <3>1, <3>2, Zenon DEF FramesInv, ListIntact, FrameNumber
  <2>2. free_page_head' = f /\ free_page_tail' = f /\ link' = [link EXCEPT ![f] = NULL]
    BY <1>12, Zenon DEF MMU_free_frame, Enlist
  <2>3. link'[f] = NULL /\ DOMAIN link' = AllFrames'
    BY <1>5, <1>11, <2>2, Zenon
  <2>4. Head(freed') = f /\ freed'[Len(freed')] = f
    BY <1>1, <1>3, <1>4, <2>1, SeqHeadTail
  <2>5. ListIntact'
    <3>1. 1..(Len(freed') - 1) = {}
      BY <1>3, <1>4, <2>1
    <3>. QED
      BY <1>3, <1>4, <2>2, <2>3, <2>4, <3>1, Zenon DEF ListIntact
  <2>6. Apart(free_segments)'
    BY <1>4, Zenon DEF FramesInv, FramesType, Apart
  <2>. QED
    BY <1>3, <1>4, <1>10, <2>3, <2>5, <2>6, Zenon DEF FramesInv, FramesType
<1>13. CASE free_page_head # NULL
  <2>1. freed # <<>>
    BY <1>13, Zenon DEF FramesInv, ListIntact
  <2>2. n \in Nat \ {0} /\ Head(freed) = freed[1]
    BY <1>1, <2>1, SeqEmpty, SeqHeadTail, Zenon DEF n
  <2>3. /\ free_page_head = freed[1]
        /\ free_page_tail = freed[n]
        /\ \A k \in 1..(n - 1) : link[freed[k]] = freed[k + 1]
    BY <2>1, <2>2, Zenon DEF FramesInv, ListIntact, n
  <2>4. /\ free_page_head' = free_page_head /\ free_page_tail' = f
        /\ link' = [[link EXCEPT ![free_page_tail] = f] EXCEPT ![f] = NULL]
    BY <1>13, Zenon DEF MMU_free_frame, Enlist
  <2>5. free_page_tail \in Listed
    BY <1>8, <2>2, <2>3
  <2>6. /\ link'[f] = NULL /\ link'[free_page_tail] = f
        /\ \A g \in Listed : g # free_page_tail => link'[g] = link[g]
        /\ DOMAIN link' = AllFrames'
    BY <1>5, <1>6, <1>11, <2>4, <2>5, Zenon
  <2>7. \A k \in 1..n : link'[freed[k]] = Append(freed, f)[k + 1]
    <3>1. SUFFICES ASSUME NEW k \in 1..n PROVE link'[freed[k]] = Append(freed, f)[k + 1]
      BY Zenon
    <3>2. CASE k = n
      BY <1>3, <2>3, <2>6, <3>2, Zenon
    <3>3. CASE k # n
      <4>1. k \in 1..(n - 1) /\ k + 1 \in 1..n /\ n \in 1..n
        BY <2>2, <3>3
      <4>2. freed[k] \in Listed /\ freed[k] # free_page_tail
        <5>1. \A i, j \in 1..n : freed[i] = freed[j] => i = j
          BY Zenon DEF FramesInv, FrameOnce, n
        <5>. QED
          BY <1>8, <2>3, <3>3, <4>1, <5>1, Zenon
      <4>. QED
        BY <1>3, <2>3, <2>6, <4>1, <4>2, Zenon
    <3>. QED
      BY <3>2, <3>3, Zenon
  <2>8. ListIntact'
    <3>1. Head(freed') = freed'[1] /\ freed'[1] = freed[1]
      BY <1>3, <1>4, <2>2, SeqHeadTail
    <3>2. /\ Len(freed') = n + 1 /\ freed'[Len(freed')] = f
          /\ \A k \in 1..n : freed'[k] = freed[k]
      BY <1>3, <1>4, Zenon
    <3>3. Len(freed') - 1 = n
      BY <2>2, <3>2
    <3>4. \A k \in 1..(Len(freed') - 1) : link'[freed'[k]] = freed'[k + 1]
      BY <1>4, <2>7, <3>2, <3>3, Zenon
    <3>. QED
      BY <1>3, <1>4, <2>3, <2>4, <2>6, <3>1, <3>2, <3>4, Zenon DEF ListIntact
  <2>9. Apart(free_segments)'
    BY <1>4, Zenon DEF FramesInv, FramesType, Apart
  <2>. QED
    BY <1>3, <1>4, <1>10, <2>6, <2>8, <2>9, Zenon DEF FramesInv, FramesType
<1>. QED
  BY <1>12, <1>13, Zenon
-----------------------------------------------------------------------------
\* Every call of MMU_alloc_frame and MMU_free_frame keeps the invariant.
THEOREM FramesInvariant == FramesSpec => []FramesInv
<1>1. FramesInv /\ [FramesNext \/ \E ss \in Seq(Segment) : Apart(ss) /\ Fill(ss)]_fvars
      => FramesInv'
  <2>1. SUFFICES ASSUME FramesInv,
                        [FramesNext \/ \E ss \in Seq(Segment) : Apart(ss) /\ Fill(ss)]_fvars
                 PROVE  FramesInv'
    BY Zenon
  <2>2. CASE AllocFromSegment
    BY <2>1, <2>2, SegmentInv, Zenon
  <2>3. CASE AllocFromList
    BY <2>1, <2>3, ListInv
  <2>4. CASE AllocFails \/ UNCHANGED fvars
    <3>1. UNCHANGED <<segments, free_segments, free_page_head, free_page_tail, link, held, freed>>
      BY <2>4, Zenon DEF AllocFails, fvars
    <3>2. AllFrames' = AllFrames /\ Untouched' = Untouched /\ Listed' = Listed
      BY <3>1, Zenon DEF AllFrames, Untouched, Listed
    <3>3. ListIntact'
      BY <2>1, <3>1, Zenon DEF FramesInv, ListIntact
    <3>4. FrameOnce'
      BY <2>1, <3>1, <3>2, Zenon DEF FramesInv, FrameOnce
    <3>5. FramesType'
      BY <2>1, <3>1, <3>2, Zenon DEF FramesInv, FramesType, Apart
    <3>. QED
      BY <3>3, <3>4, <3>5, Zenon DEF FramesInv
  <2>5. ASSUME NEW f \in AllFrames, MMU_free_frame(f) PROVE FramesInv'
    BY <2>1, <2>5, FreeInv, Zenon
  <2>6. ASSUME NEW ss \in Seq(Segment), Apart(ss), Fill(ss) PROVE FramesInv'
    BY <2>1, <2>6, FillInv, Zenon
  <2>. QED
    BY <2>1, <2>2, <2>3, <2>4, <2>5, <2>6, Zenon DEF FramesNext, MMU_alloc_frame
<1>. QED
  BY <1>1, FramesInitInv, PTL DEF FramesSpec

\* Whatever segments MMU_init leaves and in whatever order frames are taken and
\* freed, the list through the free frames stays intact.
THEOREM ListStaysIntact == FramesSpec => []ListIntact
BY FramesInvariant, PTL DEF FramesInv

\* Whatever segments MMU_init leaves and in whatever order frames are taken and
\* freed, no frame is lost and none has two users.
THEOREM FramesStayApart == FramesSpec => []FrameOnce
BY FramesInvariant, PTL DEF FramesInv
-----------------------------------------------------------------------------
(* The allocator implements the pool                                       *)
INSTANCE WellFoundedInduction

\* Every set of naturals that has an element has a least one.
LEMMA LeastElement ==
  ASSUME NEW T \in SUBSET Nat, T # {}
  PROVE  \E n \in T : \A m \in T : n <= m
<1>1. PICK R : R = {ss \in Nat \X Nat : ss[1] < ss[2]}
  BY Zenon
<1>2. OpToRel(<, Nat) = R
  BY <1>1, Zenon DEF OpToRel
<1>3. IsWellFoundedOn(R, Nat)
  BY <1>2, NatLessThanWellFounded, Zenon
<1>4. PICK n \in T : \A m \in T : ~(<<m, n>> \in R)
  BY <1>3, WFMin, Zenon
<1>5. \A m \in Nat : m < n => <<m, n>> \in R
  BY <1>1, Zenon
<1>6. \A m \in T : ~(m < n)
  BY <1>4, <1>5, Zenon
<1> QED
  BY <1>6

\* Induction with the property given as a set.
LEMMA Induction ==
  ASSUME NEW T \in SUBSET Nat, 0 \in T, \A n \in T : n + 1 \in T
  PROVE  T = Nat
<1> SUFFICES ASSUME Nat \ T # {} PROVE FALSE
  BY Zenon
<1>1. PICK n \in Nat \ T : \A m \in Nat \ T : n <= m
  BY LeastElement, Zenon
<1>2. n # 0 /\ n - 1 \in Nat /\ n - 1 \in T
  BY <1>1
<1> QED
  BY <1>1, <1>2

\* Segments, and the frames of one in address order.
Segments == Seq([base : Nat, len : Nat])
Block(s) == [i \in 1..s.len |-> s.base + i - 1]

\* g lists the frames of segments, as far as there are no more than n of them.
Lists(g, n) ==
  \A ss \in Segments : Len(ss) <= n => g[ss] = IF ss = <<>> THEN <<>> ELSE Block(Head(ss)) \o g[Tail(ss)]

\* The rest of some segments.
LEMMA RestOf ==
  ASSUME NEW ss \in Segments, ss # <<>>
  PROVE  /\ Tail(ss) \in Segments /\ Len(Tail(ss)) = Len(ss) - 1 /\ Len(ss) \in Nat \ {0}
         /\ Block(Head(ss)) \in Seq(Nat) /\ Head(ss) \in [base : Nat, len : Nat]
<1>1. /\ Tail(ss) \in Segments /\ Len(Tail(ss)) = Len(ss) - 1 /\ Len(ss) \in Nat \ {0}
      /\ Head(ss) \in [base : Nat, len : Nat]
  BY SeqEmpty, SeqHeadTail, Zenon DEF Segments
<1>2. ASSUME NEW s \in [base : Nat, len : Nat] PROVE Block(s) \in Seq(Nat)
  <2>1. s.len \in Nat /\ \A i \in 1..s.len : s.base + i - 1 \in Nat
    OBVIOUS
  <2> QED
    BY <2>1 DEF Block
<1> QED
  BY <1>1, <1>2, Zenon

\* There is such a list for every n ...
LEMMA ListsExist ==
  ASSUME NEW n \in Nat
  PROVE  \E g \in [Segments -> Seq(Nat)] : Lists(g, n)
<1> DEFINE T == {k \in Nat : \E g \in [Segments -> Seq(Nat)] : Lists(g, k)}
<1>1. 0 \in T
  <2>1. PICK g \in [Segments -> Seq(Nat)] : g = [ss \in Segments |-> <<>>]
    BY SeqEmpty, Zenon
  <2>2. \A ss \in Segments : Len(ss) <= 0 => ss = <<>>
    <3>1. \A ss \in Segments : Len(ss) \in Nat /\ (ss # <<>> => Len(ss) \in Nat \ {0})
      BY SeqEmpty DEF Segments
    <3> QED
      BY ONLY <3>1
  <2>3. Lists(g, 0)
    BY <2>1, <2>2, Zenon DEF Lists
  <2> QED
    BY <2>3, Zenon
<1>2. ASSUME NEW k \in T PROVE k + 1 \in T
  <2>1. PICK g \in [Segments -> Seq(Nat)] : Lists(g, k)
    BY Zenon
  <2>2. \A ss \in Segments : (IF ss = <<>> THEN <<>> ELSE Block(Head(ss)) \o g[Tail(ss)]) \in Seq(Nat)
    <3>1. ASSUME NEW ss \in Segments, ss # <<>> PROVE Block(Head(ss)) \o g[Tail(ss)] \in Seq(Nat)
      BY <3>1, RestOf, SeqConcat, Zenon
    <3> QED
      BY <3>1
  <2>3. PICK h \in [Segments -> Seq(Nat)] :
          h = [ss \in Segments |-> IF ss = <<>> THEN <<>> ELSE Block(Head(ss)) \o g[Tail(ss)]]
    BY <2>2, Zenon
  <2>4. ASSUME NEW ss \in Segments, Len(ss) <= k + 1, ss # <<>>
        PROVE  h[ss] = Block(Head(ss)) \o h[Tail(ss)]
    <3>1. Tail(ss) \in Segments /\ Len(Tail(ss)) <= k
      BY <2>4, RestOf
    <3>2. h[Tail(ss)] = g[Tail(ss)]
      BY <2>1, <2>3, <3>1, Zenon DEF Lists
    <3> QED
      BY <2>3, <2>4, <3>2, Zenon
  <2>5. Lists(h, k + 1)
    BY <2>3, <2>4, Zenon DEF Lists
  <2> QED
    BY <2>5
<1>3. T = Nat
  <2> HIDE DEF T
  <2> QED BY <1>1, <1>2, Induction, Zenon DEF T
<1> QED
  BY <1>3, Zenon

\* ... and no two that differ.
LEMMA ListsAgree ==
  ASSUME NEW m \in Nat, NEW n \in Nat, m <= n, NEW g, NEW h, Lists(g, m), Lists(h, n)
  PROVE  \A ss \in Segments : Len(ss) <= m => g[ss] = h[ss]
<1> DEFINE T == {k \in Nat : k <= m => \A ss \in Segments : Len(ss) = k => g[ss] = h[ss]}
<1>1. 0 \in T
  <2>1. \A ss \in Segments : Len(ss) = 0 => ss = <<>>
    BY DEF Segments
  <2> QED
    BY <2>1 DEF Lists
<1>2. ASSUME NEW k \in T PROVE k + 1 \in T
  <2> SUFFICES ASSUME k + 1 <= m, NEW ss \in Segments, Len(ss) = k + 1 PROVE g[ss] = h[ss]
    OBVIOUS
  <2>1. ss # <<>>
    OBVIOUS
  <2>2. Tail(ss) \in Segments /\ Len(Tail(ss)) = k
    BY <2>1, RestOf
  <2>3. k <= m /\ \A tt \in Segments : Len(tt) = k => g[tt] = h[tt]
    <3>1. k <= m
      OBVIOUS
    <3> QED
      BY <3>1, Zenon
  <2>4. g[Tail(ss)] = h[Tail(ss)]
    BY <2>2, <2>3, Zenon
  <2> QED
    BY <2>1, <2>4 DEF Lists
<1>3. T = Nat
  <2> HIDE DEF T
  <2> QED BY <1>1, <1>2, Induction, Zenon DEF T
<1>4. \A ss \in Segments : Len(ss) \in Nat
  BY DEF Segments
<1> QED
  BY <1>3, <1>4, Zenon

\* Flat lists the frames of segments of any number.
LEMMA FlatLists ==
  /\ Flat \in [Segments -> Seq(Nat)]
  /\ Flat[<<>>] = <<>>
  /\ \A ss \in Segments : ss # <<>> => Flat[ss] = Block(Head(ss)) \o Flat[Tail(ss)]
<1> DEFINE G(n) == CHOOSE g \in [Segments -> Seq(Nat)] : Lists(g, n)
           F == [ss \in Segments |-> G(Len(ss))[ss]]
<1>1. \A n \in Nat : G(n) \in [Segments -> Seq(Nat)] /\ Lists(G(n), n)
  BY ListsExist, Zenon
<1>2. \A ss \in Segments : Len(ss) \in Nat
  BY DEF Segments
<1> HIDE DEF G
<1>3. F \in [Segments -> Seq(Nat)]
  BY <1>1, <1>2, Zenon
<1>4. ASSUME NEW ss \in Segments
      PROVE  F[ss] = IF ss = <<>> THEN <<>> ELSE Block(Head(ss)) \o F[Tail(ss)]
  <2>1. G(Len(ss))[ss] = IF ss = <<>> THEN <<>> ELSE Block(Head(ss)) \o G(Len(ss))[Tail(ss)]
    BY <1>1, <1>2 DEF Lists
  <2>2. ASSUME ss # <<>> PROVE G(Len(ss))[Tail(ss)] = G(Len(Tail(ss)))[Tail(ss)]
    <3>1. Tail(ss) \in Segments /\ Len(Tail(ss)) \in Nat /\ Len(Tail(ss)) <= Len(ss) /\ Len(ss) \in Nat
      BY <2>2, RestOf
    <3>2. Lists(G(Len(ss)), Len(ss)) /\ Lists(G(Len(Tail(ss))), Len(Tail(ss)))
      BY <1>1, <3>1, Zenon
    <3>3. PICK m \in Nat, n \in Nat : m = Len(Tail(ss)) /\ n = Len(ss)
      BY <3>1, Zenon
    <3>4. \A tt \in Segments : Len(tt) <= m => G(m)[tt] = G(n)[tt]
      BY <3>1, <3>2, <3>3, ListsAgree, SMTT(30)
    <3>5. Len(Tail(ss)) <= m
      BY <3>3
    <3> QED
      BY <3>1, <3>3, <3>4, <3>5, Zenon
  <2>3. ss # <<>> => F[Tail(ss)] = G(Len(Tail(ss)))[Tail(ss)]
    BY RestOf, Zenon
  <2> QED
    BY <2>1, <2>2, <2>3, Zenon
<1>5. F = [ss \in Segments |-> IF ss = <<>> THEN <<>> ELSE Block(Head(ss)) \o F[Tail(ss)]]
  <2> HIDE DEF F
  <2> QED BY <1>3, <1>4, Zenon
<1>6. Flat = [ss \in Segments |-> IF ss = <<>> THEN <<>> ELSE Block(Head(ss)) \o Flat[Tail(ss)]]
  <2> HIDE DEF F
  <2> QED BY <1>5, Zenon DEF Flat, Segments, Block
<1>7. ASSUME NEW n \in Nat PROVE Lists(Flat, n)
  BY <1>6, Zenon DEF Lists
<1>8. ASSUME NEW ss \in Segments PROVE Flat[ss] \in Seq(Nat)
  <2>1. Flat[ss] = G(Len(ss))[ss]
    BY <1>1, <1>2, <1>7, ListsAgree, SMTT(30)
  <2> QED
    BY <1>1, <1>2, <2>1, Zenon
<1>9. <<>> \in Segments
  BY DEF Segments
<1> QED
  BY <1>6, <1>8, <1>9, Zenon

\* Segments with frames are segments.
LEMMA SegmentSeq ==
  ASSUME NEW ss \in Seq(Segment)
  PROVE  ss \in Segments
<1>1. \A s \in Segment : s \in [base : Nat, len : Nat]
  BY Zenon DEF Segment
<1>2. ss \in [1..Len(ss) -> Segment] /\ Len(ss) \in Nat
  OBVIOUS
<1>3. ss \in [1..Len(ss) -> [base : Nat, len : Nat]]
  BY <1>1, <1>2, Zenon
<1>4. \A T, n : n \in Nat /\ ss \in [1..n -> T] => ss \in Seq(T)
  OBVIOUS
<1> QED
  BY <1>2, <1>3, <1>4, Zenon DEF Segments

\* The list of the frames of segments that are apart has each of them once.
LEMMA FlatFrames ==
  ASSUME NEW ss \in Seq(Segment), Apart(ss)
  PROVE  IsInjective(Flat[ss]) /\ Range(Flat[ss]) = In(ss)
<1> DEFINE Good(tt) == IsInjective(Flat[tt]) /\ Range(Flat[tt]) = In(tt)
           T == {n \in Nat : \A tt \in Seq(Segment) : Len(tt) = n /\ Apart(tt) => Good(tt)}
<1>1. 0 \in T
  <2>1. \A tt \in Seq(Segment) : Len(tt) = 0 => tt = <<>>
    BY SeqEmpty, Zenon
  <2>2. In(<<>>) = {}
    BY InMember
  <2>3. Good(<<>>)
    BY <2>2, FlatLists, EmptyQueueLemma, Zenon
  <2> HIDE DEF Good
  <2> QED
    BY <2>1, <2>3, Zenon
<1>2. ASSUME NEW n \in T PROVE n + 1 \in T
  <2> SUFFICES ASSUME NEW tt \in Seq(Segment), Len(tt) = n + 1, Apart(tt) PROVE Good(tt)
    OBVIOUS
  <2>1. PICK s, us : s = Head(tt) /\ us = Tail(tt)
    BY Zenon
  <2>2. /\ tt # <<>> /\ s \in Segment /\ s = tt[1] /\ us \in Seq(Segment) /\ Len(us) = n
        /\ \A k \in 1..n : us[k] = tt[k + 1]
    <3>1. tt # <<>>
      OBVIOUS
    <3>2. Len(us) = n
      BY <2>1, <3>1, SeqHeadTail
    <3> QED
      BY <2>1, <3>1, <3>2, SeqHeadTail, Zenon
  <2>3. Apart(us)
    <3>1. SUFFICES ASSUME NEW j \in 1..n, NEW k \in 1..n, j # k
                   PROVE  FramesOf(us[j]) \intersect FramesOf(us[k]) = {}
      BY <2>2, Zenon DEF Apart
    <3>2. j + 1 \in 1..Len(tt) /\ k + 1 \in 1..Len(tt) /\ j + 1 # k + 1
      BY <3>1
    <3>. QED
      BY <2>2, <3>2, Zenon DEF Apart
  <2>4. Good(us)
    <3> HIDE DEF Good
    <3> QED
      BY <2>2, <2>3, Zenon
  <2>5. Flat[tt] = Block(s) \o Flat[us]
    BY <2>1, <2>2, SegmentSeq, FlatLists, Zenon
  <2>6. /\ Block(s) \in Seq(Nat) /\ IsInjective(Block(s)) /\ Range(Block(s)) = FramesOf(s)
    <3>1. s.base \in Nat /\ s.len \in Nat
      BY <2>2, Zenon DEF Segment
    <3>2. \A i \in 1..s.len : s.base + i - 1 \in Nat /\ s.base + i - 1 \in FramesOf(s)
      BY <3>1, SMTT(30) DEF FramesOf
    <3>3. Block(s) \in Seq(Nat) /\ IsInjective(Block(s))
      <4>1. Block(s) \in [1..s.len -> Nat]
        BY <3>2, Zenon DEF Block
      <4>2. Block(s) \in Seq(Nat)
        BY <3>1, <4>1, SMTT(30)
      <4>3. \A i, j \in 1..s.len : Block(s)[i] = Block(s)[j] => i = j
        BY <3>1 DEF Block
      <4> QED
        BY <4>1, <4>2, <4>3, Zenon DEF IsInjective
    <3>4. ASSUME NEW f \in FramesOf(s) PROVE f \in Range(Block(s))
      <4>1. f - s.base + 1 \in 1..s.len /\ f = s.base + (f - s.base + 1) - 1
        BY <3>1, SMTT(30) DEF FramesOf
      <4> QED
        BY <4>1, Zenon DEF Block, Range
    <3>5. Range(Block(s)) \subseteq FramesOf(s)
      BY <3>2, Zenon DEF Block, Range
    <3> QED
      BY <3>3, <3>4, <3>5, Zenon
  <2>7. \A f : f \in In(tt) <=> f \in FramesOf(s) \/ f \in In(us)
    <3>1. \A k : k \in 1..Len(tt) <=> k = 1 \/ (k - 1 \in 1..n /\ k \in Int)
      OBVIOUS
    <3>2. \A k \in 1..n : us[k] = tt[k + 1] /\ k + 1 \in 1..Len(tt)
      BY <2>2
    <3>3. ASSUME NEW f, NEW k \in 1..Len(tt), f \in FramesOf(tt[k]) PROVE f \in FramesOf(s) \/ f \in In(us)
      <4>1. CASE k = 1
        BY <2>2, <3>3, <4>1, Zenon
      <4>2. CASE k # 1
        <5>1. k - 1 \in 1..n /\ (k - 1) + 1 = k
          BY <4>2
        <5>2. f \in FramesOf(us[k - 1])
          BY <3>2, <3>3, <5>1, Zenon
        <5> QED
          BY <2>2, <5>1, <5>2, InMember, Zenon
      <4> QED
        BY <4>1, <4>2, Zenon
    <3>4. ASSUME NEW f, f \in FramesOf(s) \/ f \in In(us) PROVE \E k \in 1..Len(tt) : f \in FramesOf(tt[k])
      <4>1. CASE f \in FramesOf(s)
        <5>1. 1 \in 1..Len(tt)
          OBVIOUS
        <5> QED
          BY <2>2, <4>1, <5>1, Zenon
      <4>2. CASE f \in In(us)
        <5>1. PICK k \in 1..n : f \in FramesOf(us[k])
          BY <2>2, <4>2, InMember, Zenon
        <5> QED
          BY <3>2, <5>1, Zenon
      <4> QED
        BY <3>4, <4>1, <4>2, Zenon
    <3> QED
      BY <3>3, <3>4, InMember, Zenon
  <2>8. FramesOf(s) \intersect In(us) = {}
    <3>1. ASSUME NEW k \in 1..n PROVE FramesOf(s) \intersect FramesOf(us[k]) = {}
      <4>1. 1 \in 1..Len(tt) /\ k + 1 \in 1..Len(tt) /\ 1 # k + 1
        OBVIOUS
      <4> QED
        BY <2>2, <4>1, Zenon DEF Apart
    <3> QED
      BY <2>2, <3>1, InMember, Zenon
  <2>9. Flat[us] \in Seq(Nat)
    BY <2>2, SegmentSeq, FlatLists, Zenon
  <2>10. /\ Range(Block(s) \o Flat[us]) = Range(Block(s)) \union Range(Flat[us])
         /\ IsInjective(Block(s) \o Flat[us])
    BY <2>4, <2>6, <2>8, <2>9, TransferLemma, SMTT(30)
  <2>11. Range(Flat[tt]) = In(tt)
    BY <2>4, <2>5, <2>6, <2>7, <2>10, Zenon
  <2> QED
    BY <2>5, <2>10, <2>11, Zenon
<1>3. T = Nat
  <2> HIDE DEF T
  <2> QED BY <1>1, <1>2, Induction, Zenon DEF T
<1>4. Len(ss) \in Nat
  OBVIOUS
<1> HIDE DEF Good
<1>5. Good(ss)
  BY <1>3, <1>4, Zenon
<1> QED
  BY <1>5, Zenon DEF Good

Regrouped(a, b, c) == (a \o b) \o c = a \o (b \o c)
AppendedLast(a, b, e) == Append(a \o b, e) = a \o Append(b, e)

\* Concatenation may be regrouped.
LEMMA SeqAssoc == \A T : \A a, b, c \in Seq(T) : Regrouped(a, b, c)
<1> SUFFICES ASSUME NEW T, NEW a \in Seq(T), NEW b \in Seq(T), NEW c \in Seq(T)
             PROVE  (a \o b) \o c = a \o (b \o c)
  BY Zenon DEF Regrouped
<1>1. PICK i \in Nat, j \in Nat, k \in Nat : i = Len(a) /\ j = Len(b) /\ k = Len(c)
  BY SeqLength, Zenon
<1>2. PICK l \in {(a \o b) \o c}, r \in {a \o (b \o c)} : l = (a \o b) \o c /\ r = a \o (b \o c)
  BY Zenon
<1>3. /\ a \o b \in Seq(T) /\ Len(a \o b) = i + j /\ b \o c \in Seq(T) /\ Len(b \o c) = j + k
      /\ \A m \in 1..(i + j) : (a \o b)[m] = IF m <= i THEN a[m] ELSE b[m - i]
      /\ \A m \in 1..(j + k) : (b \o c)[m] = IF m <= j THEN b[m] ELSE c[m - j]
  BY <1>1, SeqConcat, Zenon
<1>4. /\ l \in Seq(T) /\ r \in Seq(T) /\ Len(l) = (i + j) + k /\ Len(r) = i + (j + k)
      /\ \A m \in 1..((i + j) + k) : l[m] = IF m <= i + j THEN (a \o b)[m] ELSE c[m - (i + j)]
      /\ \A m \in 1..(i + (j + k)) : r[m] = IF m <= i THEN a[m] ELSE (b \o c)[m - i]
  <2>1. PICK d \in Seq(T), e \in Seq(T) : d = a \o b /\ e = b \o c
    BY <1>3, Zenon
  <2>2. /\ d \o c \in Seq(T) /\ Len(d \o c) = Len(d) + Len(c)
        /\ \A m \in 1..(Len(d) + Len(c)) : (d \o c)[m] = IF m <= Len(d) THEN d[m] ELSE c[m - Len(d)]
    BY SeqConcat, Zenon
  <2>3. /\ a \o e \in Seq(T) /\ Len(a \o e) = Len(a) + Len(e)
        /\ \A m \in 1..(Len(a) + Len(e)) : (a \o e)[m] = IF m <= Len(a) THEN a[m] ELSE e[m - Len(a)]
    BY SeqConcat, Zenon
  <2>4. Len(d) = i + j /\ Len(e) = j + k /\ l = d \o c /\ r = a \o e
    BY <1>2, <1>3, <2>1, Zenon
  <2> QED
    BY ONLY <1>1, <2>1, <2>2, <2>3, <2>4, ZenonT(60)
<1>5. ASSUME NEW m \in 1..Len(l) PROVE l[m] = r[m]
  <2>1. m \in 1..((i + j) + k) /\ m \in 1..(i + (j + k)) /\ m \in Int
    BY ONLY <1>4, <1>5, i \in Nat, j \in Nat, k \in Nat, SMTT(30)
  <2>2. CASE m <= i
    <3>1. m <= i + j /\ m \in 1..(i + j)
      BY ONLY <2>1, <2>2, i \in Nat, j \in Nat, SMTT(30)
    <3> QED
      BY ONLY <1>3, <1>4, <2>1, <2>2, <3>1, Zenon
  <2>3. CASE ~(m <= i) /\ m <= i + j
    <3>1. m \in 1..(i + j) /\ m - i \in 1..(j + k) /\ m - i <= j
      BY ONLY <2>1, <2>3, i \in Nat, j \in Nat, k \in Nat, SMTT(30)
    <3> QED
      BY ONLY <1>3, <1>4, <2>1, <2>3, <3>1, ZenonT(60)
  <2>4. CASE ~(m <= i + j)
    <3>1. ~(m <= i) /\ m - i \in 1..(j + k) /\ ~(m - i <= j) /\ (m - i) - j = m - (i + j)
      BY ONLY <2>1, <2>4, i \in Nat, j \in Nat, k \in Nat, SMTT(30)
    <3> QED
      BY ONLY <1>3, <1>4, <2>1, <2>4, <3>1, Zenon
  <2> QED
    BY ONLY <2>2, <2>3, <2>4, Zenon
<1>6. Len(l) = Len(r)
  BY ONLY <1>4, i \in Nat, j \in Nat, k \in Nat, SMTT(30)
<1> QED
  BY <1>2, <1>4, <1>5, <1>6, SeqSame, Zenon

\* An element put in front of a sequence is its head, the sequence its tail.
LEMMA SeqCons ==
  ASSUME NEW T, NEW x \in T, NEW s \in Seq(T)
  PROVE  /\ <<x>> \o s \in Seq(T) /\ <<x>> \o s # <<>>
         /\ Head(<<x>> \o s) = x /\ Tail(<<x>> \o s) = s
<1>1. <<x>> \in Seq(T) /\ Len(<<x>>) = 1 /\ <<x>>[1] = x
  OBVIOUS
<1>2. PICK n \in Nat, t \in {<<x>> \o s} : n = Len(s) /\ t = <<x>> \o s
  BY SeqLength, Zenon
<1>3. /\ t \in Seq(T) /\ Len(t) = 1 + n
      /\ \A k \in 1..(1 + n) : t[k] = IF k <= 1 THEN <<x>>[k] ELSE s[k - 1]
  BY <1>1, <1>2, SeqConcat, Zenon
<1>4. t # <<>>
  BY ONLY <1>3, SeqEmpty, n \in Nat
<1>5. t[1] = x
  <2>1. 1 \in 1..(1 + n) /\ 1 <= 1
    BY ONLY n \in Nat
  <2> QED
    BY ONLY <1>1, <1>3, <2>1, Zenon
<1>6. Head(t) = x /\ Tail(t) \in Seq(T) /\ Len(Tail(t)) = n /\ \A k \in 1..n : Tail(t)[k] = t[k + 1]
  <2>1. Head(t) = t[1] /\ Tail(t) \in Seq(T) /\ Len(Tail(t)) = Len(t) - 1
        /\ \A k \in 1..Len(Tail(t)) : Tail(t)[k] = t[k + 1]
    BY <1>3, <1>4, SeqHeadTail, Zenon
  <2>2. Len(Tail(t)) = n
    BY ONLY <1>3, <2>1, n \in Nat
  <2> QED
    BY <1>5, <2>1, <2>2, Zenon
<1>7. \A k \in 1..n : Tail(t)[k] = s[k]
  <2>1. \A k \in 1..n : k + 1 \in 1..(1 + n) /\ ~(k + 1 <= 1) /\ (k + 1) - 1 = k
    BY ONLY n \in Nat
  <2> QED
    BY ONLY <1>3, <1>6, <2>1, Zenon
<1>8. Tail(t) = s
  BY <1>2, <1>6, <1>7, SeqSame, Zenon
<1> QED
  BY <1>2, <1>3, <1>4, <1>6, <1>8, Zenon

\* What is appended to a sequence is appended to its last part.
LEMMA SeqAppendConcat ==
  \A T : \A a, b \in Seq(T) : \A e \in T : AppendedLast(a, b, e)
<1> SUFFICES ASSUME NEW T, NEW a \in Seq(T), NEW b \in Seq(T), NEW e \in T
             PROVE  Append(a \o b, e) = a \o Append(b, e)
  BY Zenon DEF AppendedLast
<1>1. \A s \in Seq(T) : Append(s, e) = s \o <<e>>
  <2> SUFFICES ASSUME NEW s \in Seq(T) PROVE Append(s, e) = s \o <<e>>
    BY Zenon
  <2>1. PICK n \in Nat, l \in Seq(T), r \in Seq(T) : n = Len(s) /\ l = Append(s, e) /\ r = s \o <<e>>
    <3>1. <<e>> \in Seq(T) /\ Len(s) \in Nat /\ Append(s, e) \in Seq(T)
      OBVIOUS
    <3> QED
      BY <3>1, SeqConcat, Zenon
  <2>2. <<e>> \in Seq(T) /\ Len(<<e>>) = 1 /\ <<e>>[1] = e
    OBVIOUS
  <2>3. Len(l) = n + 1 /\ l[n + 1] = e /\ \A k \in 1..n : l[k] = s[k]
    <3>1. /\ Len(Append(s, e)) = Len(s) + 1 /\ Append(s, e)[Len(s) + 1] = e
          /\ \A k \in 1..Len(s) : Append(s, e)[k] = s[k]
      BY SeqAppend
    <3> QED
      BY ONLY <2>1, <3>1, Zenon
  <2>4. /\ Len(r) = n + 1
        /\ \A k \in 1..(n + 1) : r[k] = IF k <= n THEN s[k] ELSE <<e>>[k - n]
    BY <2>1, <2>2, SeqConcat, ZenonT(60)
  <2>5. ASSUME NEW k \in 1..(n + 1) PROVE l[k] = r[k]
    <3>1. CASE k \in 1..n
      <4>1. k <= n
        BY ONLY <3>1, n \in Nat
      <4> QED
        BY ONLY <2>3, <2>4, <2>5, <3>1, <4>1, Zenon
    <3>2. CASE k = n + 1
      <4>1. ~(n + 1 <= n) /\ (n + 1) - n = 1
        BY ONLY n \in Nat
      <4> QED
        BY ONLY <2>2, <2>3, <2>4, <2>5, <3>2, <4>1, Zenon
    <3>3. k \in 1..n \/ k = n + 1
      BY ONLY <2>5, n \in Nat, SMTT(30)
    <3> QED
      BY ONLY <3>1, <3>2, <3>3, Zenon
  <2>6. l = r
    BY ONLY <2>3, <2>4, <2>5, SeqSame, l \in Seq(T), r \in Seq(T), Zenon
  <2> QED
    BY ONLY <2>1, <2>6, Zenon
<1>2. PICK c \in Seq(T) : c = <<e>>
  <2>1. <<e>> \in Seq(T)
    OBVIOUS
  <2> QED
    BY <2>1, Zenon
<1>3. Regrouped(a, b, c)
  BY SeqAssoc, Zenon
<1>4. a \o b \in Seq(T)
  BY SeqConcat, Zenon
<1> QED
  BY ONLY <1>1, <1>2, <1>3, <1>4, b \in Seq(T), Zenon DEF Regrouped

\* The first frame of the segments, and the frames after it.
LEMMA FlatFirst ==
  ASSUME free_segments \in Seq(Segment), Apart(free_segments), free_segments # <<>>
  PROVE  Flat[free_segments] = <<Head(free_segments).base>> \o Flat[AfterFirst]
<1>1. PICK s \in {Head(free_segments)}, rr \in {Tail(free_segments)} :
        s = Head(free_segments) /\ rr = Tail(free_segments)
  BY Zenon
<1>2. s \in Segment /\ rr \in Seq(Segment) /\ rr \in Segments /\ free_segments \in Segments
  BY <1>1, SeqHeadTail, SegmentSeq, Zenon
<1>3. Flat[free_segments] = Block(s) \o Flat[rr] /\ Flat[rr] \in Seq(Nat)
  BY <1>1, <1>2, FlatLists, Zenon
<1>4. PICK b \in Nat, n \in Nat \ {0} : b = s.base /\ n = s.len
  BY <1>2, Zenon DEF Segment
<1>5. Block(s) = [i \in 1..n |-> b + i - 1]
  BY <1>4, Zenon DEF Block
<1>6. CASE s.len = 1
  <2>1. Block(s) = <<b>>
    BY <1>4, <1>5, <1>6, SMTT(30)
  <2>2. AfterFirst = rr
    BY <1>1, <1>6, Zenon DEF AfterFirst
  <2> QED
    BY <1>1, <1>3, <1>4, <2>1, <2>2, Zenon
<1>7. CASE s.len # 1
  <2>1. PICK t \in {[base |-> s.base + 1, len |-> s.len - 1]} : t = [base |-> s.base + 1, len |-> s.len - 1]
    BY Zenon
  <2>2. t \in Segment /\ t.base = b + 1 /\ t.len = n - 1 /\ n - 1 \in Nat
    <3>1. n - 1 \in Nat \ {0} /\ n - 1 \in Nat /\ b + 1 \in Nat \ {0}
      BY ONLY <1>4, <1>7, b \in Nat, n \in Nat \ {0}, SMTT(30)
    <3>2. t = [base |-> b + 1, len |-> n - 1]
      BY <1>4, <2>1, Zenon
    <3>3. t.base = b + 1 /\ t.len = n - 1
      BY ONLY <3>2, Zenon
    <3>4. t \in Segment
      BY ONLY <3>1, <3>2, Zenon DEF Segment
    <3> QED
      BY ONLY <3>1, <3>3, <3>4, Zenon
  <2>3. Block(t) = [i \in 1..(n - 1) |-> (b + 1) + i - 1]
    BY <2>2, Zenon DEF Block
  <2>4. Block(t) \in Seq(Nat) /\ Len(Block(t)) = n - 1 /\ \A i \in 1..(n - 1) : Block(t)[i] = b + i
    <3>1. \A i \in 1..(n - 1) : (b + 1) + i - 1 = b + i /\ b + i \in Nat
      BY ONLY <2>2, b \in Nat
    <3>2. Block(t) \in [1..(n - 1) -> Nat] /\ \A i \in 1..(n - 1) : Block(t)[i] = b + i
      BY ONLY <2>3, <3>1, ZenonT(60)
    <3> HIDE DEF Block
    <3>3. Block(t) \in Seq(Nat) /\ Len(Block(t)) = n - 1
      BY ONLY <2>2, <3>2
    <3> QED
      BY ONLY <3>2, <3>3, Zenon
  <2>5. Block(s) \in Seq(Nat) /\ Len(Block(s)) = n /\ \A i \in 1..n : Block(s)[i] = b + i - 1
    <3>1. \A i \in 1..n : b + i - 1 \in Nat
      BY ONLY b \in Nat
    <3>2. Block(s) \in [1..n -> Nat] /\ \A i \in 1..n : Block(s)[i] = b + i - 1
      BY ONLY <1>5, <3>1, Zenon
    <3>3. Block(s) \in Seq(Nat) /\ Len(Block(s)) = n
      BY ONLY <3>2, n \in Nat \ {0}, SMTT(30)
    <3> QED
      BY ONLY <3>2, <3>3, Zenon
  <2>6. <<b>> \in Seq(Nat) /\ Len(<<b>>) = 1 /\ <<b>>[1] = b
    BY ONLY b \in Nat
  <2>7. /\ <<b>> \o Block(t) \in Seq(Nat) /\ Len(<<b>> \o Block(t)) = 1 + (n - 1)
        /\ \A i \in 1..(1 + (n - 1)) : (<<b>> \o Block(t))[i] = IF i <= 1 THEN <<b>>[i] ELSE Block(t)[i - 1]
    <3>1. PICK c \in Seq(Nat), d \in Seq(Nat) : c = <<b>> /\ d = Block(t)
      BY <2>4, <2>6, Zenon
    <3>2. /\ c \o d \in Seq(Nat) /\ Len(c \o d) = Len(c) + Len(d)
          /\ \A i \in 1..(Len(c) + Len(d)) : (c \o d)[i] = IF i <= Len(c) THEN c[i] ELSE d[i - Len(c)]
      BY SeqConcat, Zenon
    <3>3. Len(c) = 1 /\ Len(d) = n - 1
      BY <2>4, <2>6, <3>1, Zenon
    <3> QED
      BY ONLY <3>1, <3>2, <3>3, Zenon
  <2>8. 1 + (n - 1) = n
    BY ONLY n \in Nat \ {0}
  <2>9. ASSUME NEW i \in 1..n PROVE Block(s)[i] = (<<b>> \o Block(t))[i]
    <3>1. CASE i = 1
      <4>1. 1 <= 1 /\ b + 1 - 1 = b
        BY ONLY b \in Nat
      <4> QED
        BY ONLY <2>5, <2>6, <2>7, <2>8, <2>9, <3>1, <4>1, Zenon
    <3>2. CASE i # 1
      <4>1. ~(i <= 1) /\ i - 1 \in 1..(n - 1) /\ b + (i - 1) = b + i - 1
        BY ONLY <2>9, <3>2, b \in Nat, n \in Nat \ {0}, SMTT(30)
      <4> QED
        BY ONLY <2>4, <2>5, <2>7, <2>8, <2>9, <4>1, Zenon
    <3> QED
      BY ONLY <3>1, <3>2, Zenon
  <2>10. Block(s) = <<b>> \o Block(t)
    BY <2>5, <2>7, <2>8, <2>9, SeqSame, Zenon
  <2>11. AfterFirst = <<t>> \o rr
    BY <1>1, <1>7, <2>1, Zenon DEF AfterFirst
  <2>12. Flat[AfterFirst] = Block(t) \o Flat[rr]
    <3>1. /\ <<t>> \o rr \in Seq(Segment) /\ <<t>> \o rr # <<>>
          /\ Head(<<t>> \o rr) = t /\ Tail(<<t>> \o rr) = rr
      BY <1>2, <2>2, SeqCons, Zenon
    <3> QED
      BY <2>11, <3>1, SegmentSeq, FlatLists, Zenon
  <2>13. (<<b>> \o Block(t)) \o Flat[rr] = <<b>> \o (Block(t) \o Flat[rr])
    <3>1. PICK c \in Seq(Nat), d \in Seq(Nat), e \in Seq(Nat) : c = <<b>> /\ d = Block(t) /\ e = Flat[rr]
      BY <1>3, <2>4, <2>6, Zenon
    <3>2. Regrouped(c, d, e)
      BY SeqAssoc, Zenon
    <3> QED
      BY ONLY <3>1, <3>2, Zenon DEF Regrouped
  <2> QED
    BY <1>1, <1>3, <1>4, <2>10, <2>12, <2>13, Zenon
<1> QED
  BY <1>6, <1>7, Zenon

\* Before MMU_init has found memory nothing has been given out.
Fresh ==
  segments = <<>> => free_segments = <<>> /\ freed = <<>> /\ held = {} /\ ret = NULL

\* The pool as its refinement mapping gives it.
Pool == Flat[free_segments] \o freed

\* The pool is a sequence of frames.
LEMMA PoolType ==
  ASSUME FramesInv
  PROVE  /\ free_segments \in Seq(Segment) /\ Apart(free_segments) /\ freed \in Seq(Nat)
         /\ Flat[free_segments] \in Seq(Nat) /\ Pool \in Seq(Nat)
<1>1. free_segments \in Seq(Segment) /\ Apart(free_segments) /\ freed \in Seq(FrameNumber)
  BY Zenon DEF FramesInv, FramesType
<1>2. freed \in Seq(Nat)
  <2>1. freed \in [1..Len(freed) -> FrameNumber] /\ Len(freed) \in Nat
    BY <1>1, SeqLength, Zenon
  <2>2. freed \in [1..Len(freed) -> Nat]
    BY <2>1, Zenon DEF FrameNumber
  <2>3. \A n \in Nat : freed \in [1..n -> Nat] => freed \in Seq(Nat)
    OBVIOUS
  <2> QED
    BY <2>1, <2>2, <2>3, Zenon
<1>3. Flat[free_segments] \in Seq(Nat)
  BY <1>1, SegmentSeq, FlatLists, Zenon
<1>4. Pool \in Seq(Nat)
  <2>1. PICK a \in Seq(Nat) : a = Flat[free_segments]
    BY <1>3, Zenon
  <2>2. a \o freed \in Seq(Nat)
    BY ONLY <1>2, SeqConcat, a \in Seq(Nat), Zenon
  <2> QED
    BY ONLY <2>1, <2>2, Zenon DEF Pool, Regrouped
<1> QED
  BY <1>1, <1>2, <1>3, <1>4, Zenon

\* A frame from a segment is the first of the pool.
LEMMA SegmentPool ==
  ASSUME FramesInv, AllocFromSegment
  PROVE  P!Alloc
<1>1. /\ free_segments \in Seq(Segment) /\ Apart(free_segments) /\ free_segments # <<>>
      /\ freed \in Seq(Nat)
  BY PoolType, Zenon DEF AllocFromSegment
<1>2. PICK x \in {Head(free_segments).base}, a \in {Flat[AfterFirst]} :
        x = Head(free_segments).base /\ a = Flat[AfterFirst]
  BY Zenon
<1>3. x \in Nat /\ a \in Seq(Nat)
  <2>1. AfterFirst \in Seq(Segment) /\ x \in In(free_segments)
    BY <1>1, <1>2, AfterFirstFrames, Zenon
  <2>2. a \in Seq(Nat)
    BY <1>2, <2>1, SegmentSeq, FlatLists, Zenon
  <2>3. x \in FrameNumber
    BY <1>1, <2>1, InPositive, Zenon
  <2> QED
    BY <2>2, <2>3, Zenon DEF FrameNumber
<1>4. Flat[free_segments] = <<x>> \o a
  BY <1>1, <1>2, FlatFirst, Zenon
<1>5. PICK c \in Seq(Nat), d \in Seq(Nat) : c = <<x>> /\ d = a \o freed
  <2>1. <<x>> \in Seq(Nat)
    BY ONLY <1>3
  <2>2. a \o freed \in Seq(Nat)
    BY ONLY <1>1, <1>3, SeqConcat, Zenon
  <2> QED
    BY ONLY <2>1, <2>2, Zenon
<1>6. Pool = <<x>> \o d
  <2>1. PICK e \in Seq(Nat), g \in Seq(Nat) : e = a /\ g = freed
    BY <1>1, <1>3, Zenon
  <2>2. Regrouped(c, e, g)
    BY SeqAssoc, Zenon
  <2> QED
    BY ONLY <1>4, <1>5, <2>1, <2>2, Zenon DEF Pool, Regrouped
<1>7. Pool # <<>> /\ Head(Pool) = x /\ Tail(Pool) = d
  BY ONLY <1>3, <1>6, SeqCons, d \in Seq(Nat), Zenon
<1>8. ret' = x /\ held' = held \union {x} /\ Pool' = d
  BY <1>2, <1>5, Zenon DEF AllocFromSegment, Given, Pool
<1> QED
  BY <1>7, <1>8, Zenon DEF P!Alloc, Pool

\* So is one from the list, once the segments are used up.
LEMMA ListPool ==
  ASSUME FramesInv, AllocFromList
  PROVE  P!Alloc
<1>1. freed \in Seq(Nat) /\ free_segments = <<>> /\ Flat[<<>>] = <<>>
  BY PoolType, FlatLists, Zenon DEF AllocFromList
<1>2. Pool = freed
  BY <1>1, SeqConcatEmpty, Zenon DEF Pool
<1>3. freed # <<>> /\ free_page_head = Head(freed)
  BY Zenon DEF FramesInv, ListIntact, AllocFromList
<1>4. /\ ret' = Head(freed) /\ held' = held \union {Head(freed)} /\ freed' = Tail(freed)
      /\ free_segments' = <<>>
  BY <1>1, <1>3, Zenon DEF AllocFromList, Given
<1>5. Pool' = Tail(freed)
  <2>1. Tail(freed) \in Seq(Nat)
    BY <1>1, <1>3, SeqHeadTail, Zenon
  <2> QED
    BY <1>1, <1>4, <2>1, SeqConcatEmpty, Zenon DEF Pool
<1> QED
  BY <1>2, <1>3, <1>4, <1>5, Zenon DEF P!Alloc, Pool

\* MMU_alloc_frame returns NULL only from an empty pool.
LEMMA FailsPool ==
  ASSUME FramesInv, AllocFails
  PROVE  P!Alloc
<1>1. freed \in Seq(FrameNumber) /\ free_segments = <<>> /\ free_page_head = NULL
  BY Zenon DEF FramesInv, FramesType, AllocFails
<1>2. freed = <<>>
  <2> SUFFICES ASSUME freed # <<>> PROVE FALSE
    BY Zenon
  <2>1. Head(freed) \in FrameNumber /\ Head(freed) = NULL
    BY <1>1, SeqHeadTail, Zenon DEF FramesInv, ListIntact
  <2> QED
    BY <2>1, Zenon DEF FrameNumber
<1>3. Pool = <<>>
  <2>1. Flat[<<>>] = <<>> /\ <<>> \in Seq(Nat)
    BY FlatLists, SeqEmpty, Zenon
  <2> QED
    BY <1>1, <1>2, <2>1, SeqConcatEmpty, Zenon DEF Pool
<1>4. Pool' = Pool /\ held' = held /\ ret' = NULL
  BY Zenon DEF AllocFails, Pool
<1> QED
  BY <1>3, <1>4, Zenon DEF P!Alloc, Pool

\* A freed frame goes to the end of the pool, behind the untouched segments too.
LEMMA FreePool ==
  ASSUME FramesInv, NEW f \in AllFrames, MMU_free_frame(f)
  PROVE  P!Next
<1>1. freed \in Seq(Nat) /\ Flat[free_segments] \in Seq(Nat)
  BY PoolType, Zenon
<1>2. f \in Nat
  BY FrameSets, InPositive, Zenon DEF FramesInv, FramesType, FrameNumber
<1>3. PICK a \in Seq(Nat), c \in Seq(Nat) : a = Flat[free_segments] /\ c = freed
  BY <1>1, Zenon
<1>4. AppendedLast(a, c, f)
  BY <1>2, SeqAppendConcat, Zenon
<1>5. Pool' = Append(Pool, f)
  BY <1>3, <1>4, Zenon DEF Pool, MMU_free_frame, AppendedLast
<1>6. f \in held /\ held' = held \ {f} /\ ret' = ret
  BY Zenon DEF MMU_free_frame
<1> QED
  BY <1>5, <1>6, Zenon DEF P!Next, P!Free, Pool

\* MMU_init fills an empty pool, with each frame once and none of them NULL.
LEMMA FillPool ==
  ASSUME Fresh, NEW ss \in Seq(Segment), Apart(ss), Fill(ss)
  PROVE  P!Fill
<1>1. free_segments = <<>> /\ freed = <<>> /\ held = {} /\ ret = NULL
  BY Zenon DEF Fresh, Fill
<1>2. free_segments' = ss /\ freed' = <<>> /\ held' = held /\ ret' = ret
  BY <1>1, Zenon DEF Fill
<1>3. Flat[<<>>] = <<>> /\ <<>> \in Seq(Nat) /\ Flat[ss] \in Seq(Nat)
  BY SegmentSeq, FlatLists, SeqEmpty, Zenon
<1>4. Pool = <<>> /\ Pool' = Flat[ss]
  BY <1>1, <1>2, <1>3, SeqConcatEmpty, Zenon DEF Pool
<1>5. PICK t \in Seq(Nat) : t = Flat[ss]
  BY <1>3, Zenon
<1>6. IsInjective(t) /\ Range(t) = In(ss) /\ DOMAIN t = 1..Len(t)
  BY <1>5, FlatFrames, SeqLength, Zenon
<1>7. \A j, k \in 1..Len(t) : t[j] = t[k] => j = k
  BY ONLY <1>6, Zenon DEF IsInjective
<1>8. \A k \in 1..Len(t) : t[k] # NULL
  <2>1. \A k \in 1..Len(t) : t[k] \in In(ss)
    BY ONLY <1>6, Zenon DEF Range
  <2>2. In(ss) \subseteq FrameNumber
    BY InPositive, Zenon
  <2> QED
    BY ONLY <2>1, <2>2, Zenon DEF FrameNumber
<1>9. /\ \A j, k \in 1..Len(Pool') : Pool'[j] = Pool'[k] => j = k
      /\ \A k \in 1..Len(Pool') : Pool'[k] # NULL
  BY ONLY <1>4, <1>5, <1>7, <1>8, Zenon
<1> QED
  BY <1>1, <1>2, <1>4, <1>9, Zenon DEF P!Fill, Pool

\* Until the segments are there, every allocation fails and nothing can be freed.
LEMMA FreshStays ==
  ASSUME FramesInv, Fresh, [FramesNext \/ \E ss \in Seq(Segment) : Apart(ss) /\ Fill(ss)]_fvars
  PROVE  Fresh'
<1>1. CASE UNCHANGED fvars
  BY <1>1, Zenon DEF fvars, Fresh
<1>2. ASSUME NEW ss \in Seq(Segment), Fill(ss) PROVE Fresh'
  BY <1>2, Zenon DEF Fill, Fresh
<1>3. CASE AllocFromSegment
  BY <1>3, Zenon DEF AllocFromSegment, Fresh
<1>4. CASE AllocFromList
  BY <1>4, Zenon DEF AllocFromList, Fresh, FramesInv, ListIntact
<1>5. CASE AllocFails
  BY <1>5, Zenon DEF AllocFails, Fresh
<1>6. ASSUME NEW f \in AllFrames, MMU_free_frame(f) PROVE Fresh'
  BY <1>6, Zenon DEF MMU_free_frame, Fresh
<1> QED
  BY <1>1, <1>2, <1>3, <1>4, <1>5, <1>6, Zenon DEF FramesNext, MMU_alloc_frame

\* The frame allocator of mmu.c is a first-in first-out pool: MMU_alloc_frame
\* returns the frame that has been free for longest, or NULL if none is, although
\* it takes frames from two places and keeps the list in the frames themselves.
THEOREM FramesImplementPool == FramesSpec => ImplementsPool
<1>1. FramesInit => P!Init /\ Fresh
  <2> SUFFICES ASSUME FramesInit PROVE P!Init /\ Fresh
    BY Zenon
  <2>1. Flat[<<>>] = <<>> /\ <<>> \in Seq(Nat)
    BY FlatLists, SeqEmpty, Zenon
  <2>2. Pool = <<>>
    BY <2>1, SeqConcatEmpty, Zenon DEF FramesInit, Pool
  <2> QED
    BY <2>2, Zenon DEF FramesInit, Fresh, P!Init, Pool
<1>2. FramesInv /\ FramesInv' /\ Fresh /\ [FramesNext \/ \E ss \in Seq(Segment) : Apart(ss) /\ Fill(ss)]_fvars
        => Fresh' /\ [P!Next]_(P!pvars)
  <2> SUFFICES ASSUME FramesInv, FramesInv', Fresh,
                      [FramesNext \/ \E ss \in Seq(Segment) : Apart(ss) /\ Fill(ss)]_fvars
               PROVE  Fresh' /\ [P!Next]_(P!pvars)
    BY Zenon
  <2>1. Fresh'
    BY FreshStays, Zenon
  <2> SUFFICES [P!Next]_(P!pvars)
    BY <2>1, Zenon
  <2>2. CASE UNCHANGED fvars
    <3>1. free_segments' = free_segments /\ freed' = freed /\ held' = held /\ ret' = ret
      BY <2>2, Zenon DEF fvars
    <3>2. Pool' = Pool
      BY <3>1, Zenon DEF Pool
    <3> QED
      BY <3>1, <3>2, Zenon DEF P!pvars, Pool
  <2>3. ASSUME NEW ss \in Seq(Segment), Apart(ss), Fill(ss) PROVE P!Next
    BY <2>3, FillPool, Zenon DEF P!Next
  <2>4. CASE MMU_alloc_frame
    <3>1. P!Alloc
      BY <2>4, SegmentPool, ListPool, FailsPool, Zenon DEF MMU_alloc_frame
    <3> QED
      BY <3>1, Zenon DEF P!Next
  <2>5. ASSUME NEW f \in AllFrames, MMU_free_frame(f) PROVE P!Next
    BY <2>5, FreePool, Zenon
  <2> QED
    BY <2>2, <2>3, <2>4, <2>5, Zenon DEF FramesNext
<1> QED
  BY <1>1, <1>2, FramesInvariant, PTL DEF FramesSpec, ImplementsPool, P!Spec
=============================================================================
