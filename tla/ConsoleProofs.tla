--------------------------- MODULE ConsoleProofs ---------------------------
(***************************************************************************)
(* The console for any size of the serial port's buffer, any lines and any *)
(* amount of text: characters are sent in their order, the port is never   *)
(* left idle on a filled buffer, and every interrupt ends its service.     *)
(* The screen for any size: no character is written outside it, and it     *)
(* shows the last rows of what was displayed.                              *)
(***************************************************************************)
EXTENDS Console, Vga, CommonLemmas

-----------------------------------------------------------------------------
(* The ring buffer of drivers/serial/x86.c, for any size:                  *)
(* producer_add_char appends to it, consumer_write_next takes its first    *)
(* character, and both together keep every character and their order.      *)

\* An element is appended as a sequence of one.
LEMMA SeqAppendConcat ==
  ASSUME NEW T, NEW s \in Seq(T), NEW e \in T
  PROVE  Append(s, e) = s \o <<e>>
OBVIOUS

\* Appending is associative.
LEMMA SeqAssoc ==
  ASSUME NEW T, NEW s \in Seq(T), NEW t \in Seq(T), NEW u \in Seq(T)
  PROVE  (s \o t) \o u = s \o (t \o u)
OBVIOUS

Positions == 0..(Size - 1)

\* The content of a buffer b between the positions c and p.
Ring(b, c, p) == [i \in 1..((p - c) % Size) |-> b[BUFF_POS(c + i - 1)]]

\* A sequence with x before or behind it, and a buffer with x at position p.
Before(x, r) == <<x>> \o r
Behind(r, x) == Append(r, x)
With(b, p, x) == [b EXCEPT ![p] = x]

\* The values of the port's variables, for characters from S.
SerialType(S) ==
  /\ output_buff \in [Positions -> S \union {NONE}]
  /\ out_producer_pos \in Positions /\ out_consumer_pos \in Positions
  /\ thr \in S \union {NONE}
  /\ ier \in BOOLEAN
  /\ sent \in Seq(S) /\ accepted \in Seq(S)
  /\ Ring(output_buff, out_consumer_pos, out_producer_pos) \in Seq(S)
-----------------------------------------------------------------------------
\* BUFF_POS leaves a position as it is.
LEMMA ModIn == ASSUME NEW x \in Positions PROVE x % Size = x
BY SerialAssumption DEF Positions

\* BUFF_POS of a number behind the end of the buffer by less than its size.
LEMMA ModOver == ASSUME NEW x \in Size..(2 * Size - 1) PROVE x % Size = x - Size
BY SerialAssumption

\* A difference of positions that wraps around.
LEMMA ModUnder == ASSUME NEW x \in (-Size)..(-1) PROVE x % Size = x + Size
BY SerialAssumption

\* The positions before and behind a position, and the one k further on.
LEMMA Neighbours ==
  ASSUME NEW c \in Positions
  PROVE  /\ BUFF_POS(c + 1) \in Positions
         /\ BUFF_POS(c - 1) = IF c = 0 THEN Size - 1 ELSE c - 1
         /\ BUFF_POS(c + 1) = IF c = Size - 1 THEN 0 ELSE c + 1
         /\ \A k \in Positions : BUFF_POS(c + k) = IF c + k < Size THEN c + k ELSE c + k - Size
<1>1. c \in Int /\ 0 <= c /\ c < Size /\ Size \in Nat /\ Size >= 2
  BY SerialAssumption DEF Positions
<1>2. BUFF_POS(c - 1) = IF c = 0 THEN Size - 1 ELSE c - 1
  <2>1. CASE c = 0
    <3>1. c - 1 = -1 /\ Size - 1 \in Positions
      BY <1>1, <2>1 DEF Positions
    <3>. QED
      BY <2>1, <3>1, ModIn, Zenon DEF BUFF_POS
  <2>2. CASE c # 0
    <3>1. c - 1 # -1 /\ c - 1 \in Positions
      BY <1>1, <2>2 DEF Positions
    <3>. QED
      BY <2>2, <3>1, ModIn, Zenon DEF BUFF_POS
  <2>. QED
    BY <2>1, <2>2, Zenon
<1>3. \A k \in Positions : BUFF_POS(c + k) = IF c + k < Size THEN c + k ELSE c + k - Size
  <2>1. SUFFICES ASSUME NEW k \in Positions
                 PROVE  BUFF_POS(c + k) = IF c + k < Size THEN c + k ELSE c + k - Size
    BY Zenon
  <2>2. /\ c + k # -1
        /\ c + k < Size => c + k \in Positions
        /\ ~(c + k < Size) => c + k \in Size..(2 * Size - 1)
    BY <1>1 DEF Positions
  <2>3. BUFF_POS(c + k) = (c + k) % Size
    BY <2>2, Zenon DEF BUFF_POS
  <2>4. CASE c + k < Size
    BY <2>2, <2>3, <2>4, ModIn, Zenon
  <2>5. CASE ~(c + k < Size)
    <3>1. c + k \in Size..(2 * Size - 1)
      BY <2>2, <2>5, Zenon
    <3>2. (c + k) % Size = c + k - Size
      BY <1>1, <2>5 DEF Positions
    <3>. QED
      BY <2>3, <2>5, <3>2, Zenon
  <2>. QED
    BY <2>4, <2>5, Zenon
<1>4. 1 \in Positions /\ (c + 1 < Size <=> c # Size - 1) /\ (c = Size - 1 => c + 1 - Size = 0)
  BY <1>1 DEF Positions
<1>5. BUFF_POS(c + 1) = IF c = Size - 1 THEN 0 ELSE c + 1
  BY <1>3, <1>4, Zenon
<1>6. BUFF_POS(c + 1) \in Positions
  BY <1>1, <1>5 DEF Positions
<1>. QED
  BY <1>2, <1>3, <1>5, <1>6, Zenon

\* How many characters lie between two positions.
LEMMA Between ==
  ASSUME NEW c \in Positions, NEW p \in Positions
  PROVE  (p - c) % Size = IF c <= p THEN p - c ELSE p - c + Size
<1>1. /\ c <= p => p - c \in Positions
      /\ ~(c <= p) => p - c \in (-Size)..(-1)
  BY SerialAssumption DEF Positions
<1>. QED
  BY <1>1, ModIn, ModUnder, Zenon

\* producer_add_char appends to the content.
LEMMA RingAdd ==
  ASSUME NEW S, NEW b \in [Positions -> S \union {NONE}],
         NEW c \in Positions, NEW p \in Positions, NEW x \in S,
         p # BUFF_POS(c - 1), Ring(b, c, p) \in Seq(S)
  PROVE  Ring(With(b, p, x), c, BUFF_POS(p + 1)) = Behind(Ring(b, c, p), x)
<1> DEFINE n == (p - c) % Size
           q == BUFF_POS(p + 1)
           d == [b EXCEPT ![p] = x]
<1>1. /\ Size \in Nat /\ Size >= 2
      /\ c \in Int /\ 0 <= c /\ c < Size
      /\ p \in Int /\ 0 <= p /\ p < Size
  BY SerialAssumption DEF Positions
<1>2. n = IF c <= p THEN p - c ELSE p - c + Size
  BY Between, Zenon
<1>3. q = IF p = Size - 1 THEN 0 ELSE p + 1
  BY Neighbours, Zenon
<1>4. p # IF c = 0 THEN Size - 1 ELSE c - 1
  BY Neighbours, Zenon
<1> HIDE DEF n, q
<1>5. q \in Positions
  BY <1>1, <1>3 DEF Positions
<1>6. n \in Nat /\ n + 1 < Size
  BY <1>1, <1>2, <1>4
<1>7. (q - c) % Size = n + 1
  <2>1. (q - c) % Size = IF c <= q THEN q - c ELSE q - c + Size
    BY <1>5, Between, Zenon
  <2>. QED
    BY <1>1, <1>2, <1>3, <1>4, <2>1
<1>8. \A i \in 1..(n + 1) : BUFF_POS(c + i - 1) \in Positions /\ (BUFF_POS(c + i - 1) = p <=> i = n + 1)
  <2>1. SUFFICES ASSUME NEW i \in 1..(n + 1)
                 PROVE  BUFF_POS(c + i - 1) \in Positions /\ (BUFF_POS(c + i - 1) = p <=> i = n + 1)
    BY Zenon
  <2>2. i - 1 \in Positions /\ c + i - 1 = c + (i - 1)
    BY <1>1, <1>6 DEF Positions
  <2>3. BUFF_POS(c + i - 1) = IF c + (i - 1) < Size THEN c + (i - 1) ELSE c + (i - 1) - Size
    BY <2>2, Neighbours, Zenon
  <2>. QED
    BY <1>1, <1>2, <1>6, <2>3 DEF Positions
<1>9. Ring(d, c, q) = [i \in 1..(n + 1) |-> d[BUFF_POS(c + i - 1)]]
  BY <1>7, Zenon DEF Ring
<1>10. /\ Ring(b, c, p) = [i \in 1..n |-> b[BUFF_POS(c + i - 1)]]
       /\ Len(Ring(b, c, p)) = n
  BY <1>6 DEF Ring, n
<1>11. \A i \in 1..n : Ring(d, c, q)[i] = Ring(b, c, p)[i]
  <2>1. SUFFICES ASSUME NEW i \in 1..n PROVE Ring(d, c, q)[i] = Ring(b, c, p)[i]
    BY Zenon
  <2>2. i \in 1..(n + 1) /\ i # n + 1
    BY <1>6
  <2>3. d[BUFF_POS(c + i - 1)] = b[BUFF_POS(c + i - 1)]
    BY <1>8, <2>2, Zenon
  <2>. QED
    BY <1>9, <1>10, <2>2, <2>3, Zenon
<1>12. Ring(d, c, q)[n + 1] = x
  <2>1. n + 1 \in 1..(n + 1)
    BY <1>6
  <2>2. d[BUFF_POS(c + (n + 1) - 1)] = x
    BY <1>8, <2>1, Zenon
  <2>. QED
    BY <1>9, <2>1, <2>2, Zenon
<1>13. Ring(d, c, q) \in Seq(S) /\ Len(Ring(d, c, q)) = n + 1
  <2>1. \A i \in 1..(n + 1) : Ring(d, c, q)[i] \in S
    <3>1. \A i \in 1..(n + 1) : i \in 1..n \/ i = n + 1
      BY <1>6
    <3>2. \A i \in 1..n : Ring(b, c, p)[i] \in S
      BY <1>10, SeqElement, Zenon
    <3>. QED
      BY <1>11, <1>12, <3>1, <3>2, Zenon
  <2>2. \A i \in 1..(n + 1) : d[BUFF_POS(c + i - 1)] \in S
    BY <1>9, <2>1, Zenon
  <2>3. n + 1 \in Nat
    BY <1>6
  <2>. QED
    BY <1>9, <2>2, <2>3
<1>14. /\ Append(Ring(b, c, p), x) \in Seq(S)
       /\ Len(Append(Ring(b, c, p), x)) = n + 1
       /\ \A i \in 1..n : Append(Ring(b, c, p), x)[i] = Ring(b, c, p)[i]
       /\ Append(Ring(b, c, p), x)[n + 1] = x
  <2> DEFINE r == Ring(b, c, p)
  <2>1. r \in Seq(S) /\ Len(r) = n
    BY <1>10, Zenon
  <2> HIDE DEF r
  <2>2. /\ Append(r, x) \in Seq(S)
        /\ Len(Append(r, x)) = Len(r) + 1
        /\ \A i \in 1..Len(r) : Append(r, x)[i] = r[i]
        /\ Append(r, x)[Len(r) + 1] = x
    BY <2>1, SeqAppend
  <2>. QED
    BY <2>1, <2>2, Zenon DEF r
<1>15. \A i \in 1..(n + 1) : Ring(d, c, q)[i] = Append(Ring(b, c, p), x)[i]
  <2>1. \A i \in 1..(n + 1) : i \in 1..n \/ i = n + 1
    BY <1>6
  <2>. QED
    BY <1>11, <1>12, <1>14, <2>1, Zenon
<1>16. Ring(d, c, q) = Append(Ring(b, c, p), x)
  <2> HIDE DEF d
  <2>. QED
    BY <1>13, <1>14, <1>15, SeqSame, Zenon
<1>. QED
  BY <1>16, Zenon DEF q, Behind, With

\* consumer_write_next takes the first character of the content.
LEMMA RingRest ==
  ASSUME NEW S, NEW b, NEW c \in Positions, NEW p \in Positions, c # p,
         Ring(b, c, p) \in Seq(S)
  PROVE  /\ BUFF_POS(c + 1) \in Positions
         /\ b[c] \in S
         /\ Ring(b, BUFF_POS(c + 1), p) \in Seq(S)
         /\ Len(Ring(b, c, p)) \in Nat \ {0}
         /\ Ring(b, c, p)[1] = b[c]
         /\ Len(Ring(b, BUFF_POS(c + 1), p)) = Len(Ring(b, c, p)) - 1
         /\ \A i \in 1..(Len(Ring(b, c, p)) - 1) :
              Ring(b, BUFF_POS(c + 1), p)[i] = Ring(b, c, p)[i + 1]
<1> DEFINE n == (p - c) % Size
           d == BUFF_POS(c + 1)
           r == Ring(b, c, p)
           t == Ring(b, d, p)
<1>1. /\ Size \in Nat /\ Size >= 2
      /\ c \in Int /\ 0 <= c /\ c < Size
      /\ p \in Int /\ 0 <= p /\ p < Size
  BY SerialAssumption DEF Positions
<1>2. n = IF c <= p THEN p - c ELSE p - c + Size
  BY Between, Zenon
<1>3. d = IF c = Size - 1 THEN 0 ELSE c + 1
  BY Neighbours, Zenon
<1>4. r = [i \in 1..n |-> b[BUFF_POS(c + i - 1)]]
  BY Zenon DEF Ring
<1> HIDE DEF n, d
<1>5. d \in Positions
  BY <1>1, <1>3 DEF Positions
<1>6. n \in Nat \ {0} /\ n < Size
  BY <1>1, <1>2
<1>7. (p - d) % Size = n - 1
  <2>1. (p - d) % Size = IF d <= p THEN p - d ELSE p - d + Size
    BY <1>5, Between, Zenon
  <2>. QED
    BY <1>1, <1>2, <1>3, <2>1
<1>8. t = [i \in 1..(n - 1) |-> b[BUFF_POS(d + i - 1)]]
  BY <1>7, Zenon DEF Ring
<1>9. Len(r) = n /\ \A i \in 1..n : r[i] = b[BUFF_POS(c + i - 1)] /\ r[i] \in S
  <2>1. Len(r) = n
    BY <1>4, <1>6
  <2>2. \A i \in 1..n : r[i] = b[BUFF_POS(c + i - 1)]
    BY <1>4, Zenon
  <2> HIDE DEF r
  <2>3. \A i \in 1..n : r[i] \in S
    BY <2>1, SeqElement, Zenon DEF r
  <2>. QED
    BY <2>1, <2>2, <2>3, Zenon
<1>10. \A i \in 1..(n - 1) : BUFF_POS(d + i - 1) = BUFF_POS(c + (i + 1) - 1) /\ i + 1 \in 1..n
  <2>1. SUFFICES ASSUME NEW i \in 1..(n - 1)
                 PROVE  BUFF_POS(d + i - 1) = BUFF_POS(c + (i + 1) - 1) /\ i + 1 \in 1..n
    BY Zenon
  <2>2. /\ i - 1 \in Positions /\ i \in Positions /\ i + 1 \in 1..n
        /\ d + i - 1 = d + (i - 1) /\ c + (i + 1) - 1 = c + i
    BY <1>1, <1>5, <1>6 DEF Positions
  <2>3. BUFF_POS(d + (i - 1)) = IF d + (i - 1) < Size THEN d + (i - 1) ELSE d + (i - 1) - Size
    BY <1>5, <2>2, Neighbours, Zenon
  <2>4. BUFF_POS(c + i) = IF c + i < Size THEN c + i ELSE c + i - Size
    BY <2>2, Neighbours, Zenon
  <2>. QED
    BY <1>1, <1>3, <1>6, <2>2, <2>3, <2>4
<1>11. b[c] = r[1] /\ b[c] \in S
  <2>1. 0 \in Positions /\ c + 1 - 1 = c + 0 /\ c + 0 < Size /\ c + 0 = c /\ 1 \in 1..n
    BY <1>1, <1>6 DEF Positions
  <2>2. BUFF_POS(c + 0) = c
    BY <2>1, Neighbours, Zenon
  <2>. QED
    BY <1>9, <2>1, <2>2, Zenon
<1>12. \A i \in 1..(n - 1) : t[i] = r[i + 1] /\ t[i] \in S
  BY <1>8, <1>9, <1>10
<1>13. t \in Seq(S) /\ Len(t) = n - 1
  <2>1. n - 1 \in Nat
    BY <1>6
  <2>2. \A i \in 1..(n - 1) : b[BUFF_POS(d + i - 1)] \in S
    BY <1>8, <1>12, Zenon
  <2>. QED
    BY <1>8, <2>1, <2>2
<1> HIDE DEF r, t
<1>. QED
  BY <1>5, <1>6, <1>9, <1>11, <1>12, <1>13, Zenon DEF r, t, d

\* The first character and the others are the content.
LEMMA RingHead ==
  ASSUME NEW S, NEW b, NEW c \in Positions, NEW p \in Positions, c # p,
         Ring(b, c, p) \in Seq(S)
  PROVE  Ring(b, c, p) = Before(b[c], Ring(b, BUFF_POS(c + 1), p))
<1> DEFINE r == Ring(b, c, p)
           t == Ring(b, BUFF_POS(c + 1), p)
           n == Len(r)
           h == <<b[c]>>
<1>1. /\ b[c] \in S /\ t \in Seq(S) /\ n \in Nat \ {0} /\ r[1] = b[c] /\ Len(t) = n - 1
      /\ \A i \in 1..(n - 1) : t[i] = r[i + 1]
  BY RingRest
<1>2. r \in Seq(S)
  BY Zenon
<1> HIDE DEF r, t, n
<1>3. h \in Seq(S) /\ Len(h) = 1 /\ h[1] = b[c]
  BY <1>1
<1> HIDE DEF h
<1>4. /\ h \o t \in Seq(S) /\ Len(h \o t) = Len(h) + Len(t)
      /\ \A i \in 1..(Len(h) + Len(t)) : (h \o t)[i] = IF i <= Len(h) THEN h[i] ELSE t[i - Len(h)]
  BY <1>1, <1>3, SeqConcat, Zenon
<1>5. Len(h \o t) = n /\ Len(h) + Len(t) = n
  BY <1>1, <1>3, <1>4
<1>6. \A i \in 1..n : (h \o t)[i] = r[i]
  <2>1. SUFFICES ASSUME NEW i \in 1..n PROVE (h \o t)[i] = r[i]
    BY Zenon
  <2>2. CASE i = 1
    BY <1>1, <1>3, <1>4, <1>5, <2>2
  <2>3. CASE i # 1
    <3>1. ~(i <= 1) /\ i - 1 \in 1..(n - 1) /\ i - 1 + 1 = i
      BY <1>1, <2>3
    <3>. QED
      BY <1>1, <1>3, <1>4, <1>5, <3>1, Zenon
  <2>. QED
    BY <2>2, <2>3, Zenon
<1>7. h \o t = r
  BY <1>2, <1>4, <1>5, <1>6, SeqSame, Zenon DEF n
<1>. QED
  BY <1>7, Zenon DEF r, t, h, Before
-----------------------------------------------------------------------------
\* The character in the transmitter.
InFlight(t) == IF t = NONE THEN <<>> ELSE <<t>>

\* SerialInOrder in terms of Ring.
LEMMA InOrderRing ==
  SerialInOrder <=>
    accepted = sent \o InFlight(thr) \o Ring(output_buff, out_consumer_pos, out_producer_pos)
BY Zenon DEF SerialInOrder, InFlight, Ring, Buffered

\* The transmitter holds no character or one, so what is in flight is a sequence.
LEMMA InFlightType ==
  ASSUME NEW S, NEW t \in S \union {NONE}
  PROVE  InFlight(t) \in Seq(S)
<1>1. CASE t = NONE
  BY <1>1 DEF InFlight
<1>2. CASE t # NONE
  <2>1. t \in S /\ InFlight(t) = <<t>>
    BY <1>2, Zenon DEF InFlight
  <2>. QED
    BY <2>1
<1>. QED
  BY <1>1, <1>2, Zenon

\* consumer_write_next moves a character from the buffer to an empty transmitter
\* and loses none.  Afterwards the transmitter is busy or the buffer is empty.
LEMMA Consumer ==
  ASSUME NEW S, NONE \notin S, NEW b, NEW p \in Positions, NEW a,
         out_consumer_pos \in Positions, thr \in S \union {NONE}, sent \in Seq(S),
         Ring(b, out_consumer_pos, p) \in Seq(S),
         a = sent \o InFlight(thr) \o Ring(b, out_consumer_pos, p),
         consumer_write_next(b, p)
  PROVE  /\ out_consumer_pos' \in Positions /\ thr' \in S \union {NONE}
         /\ Ring(b, out_consumer_pos', p) \in Seq(S)
         /\ a = sent \o InFlight(thr') \o Ring(b, out_consumer_pos', p)
         /\ thr' # NONE \/ (out_consumer_pos = p /\ out_consumer_pos' = p)
         /\ thr' # NONE \/ irr' = irr
<1>1. CASE is_transmit_empty /\ out_consumer_pos # p
  <2>1. PICK c \in Positions : c = out_consumer_pos
    BY Zenon
  <2>2. /\ BUFF_POS(c + 1) \in Positions /\ b[c] \in S
        /\ Ring(b, BUFF_POS(c + 1), p) \in Seq(S)
        /\ Ring(b, c, p) = <<b[c]>> \o Ring(b, BUFF_POS(c + 1), p)
    <3>1. /\ BUFF_POS(c + 1) \in Positions /\ b[c] \in S
          /\ Ring(b, BUFF_POS(c + 1), p) \in Seq(S)
      BY <1>1, <2>1, RingRest, Zenon
    <3>2. c # p /\ Ring(b, c, p) \in Seq(S)
      BY <1>1, <2>1, Zenon
    <3>3. Ring(b, c, p) = Before(b[c], Ring(b, BUFF_POS(c + 1), p))
      BY <3>2, RingHead
    <3>. QED
      BY <3>1, <3>3, Zenon DEF Before
  <2>3. PICK d : d = BUFF_POS(c + 1)
    BY Zenon
  <2>4. thr = NONE /\ thr' = b[c] /\ out_consumer_pos' = d
    BY <1>1, <2>1, <2>3, Zenon DEF consumer_write_next, is_transmit_empty
  <2>5. InFlight(thr) = <<>> /\ InFlight(thr') = <<b[c]>> /\ b[c] # NONE
    BY <2>2, <2>4, Zenon DEF InFlight
  <2>6. a = sent \o <<b[c]>> \o Ring(b, d, p)
    <3>1. sent \o <<>> = sent
      BY SeqConcatEmpty, Zenon
    <3>2. a = sent \o (<<b[c]>> \o Ring(b, d, p))
      BY <2>1, <2>2, <2>3, <2>5, <3>1, Zenon
    <3>3. <<b[c]>> \in Seq(S) /\ Ring(b, d, p) \in Seq(S)
      BY <2>2, <2>3
    <3>. QED
      BY <3>2, <3>3, SeqAssoc, SMTT(30)
  <2>. QED
    BY <2>2, <2>3, <2>4, <2>5, <2>6, Zenon
<1>2. CASE ~(is_transmit_empty /\ out_consumer_pos # p)
  <2>1. thr' = thr /\ out_consumer_pos' = out_consumer_pos /\ irr' = irr
    BY <1>2, Zenon DEF consumer_write_next
  <2>2. thr # NONE \/ out_consumer_pos = p
    BY <1>2, Zenon DEF is_transmit_empty
  <2>. QED
    BY <2>1, <2>2, Zenon
<1>. QED
  BY <1>1, <1>2, Zenon

\* x86_write keeps the order, drops its character only if the buffer is full, and
\* leaves the transmitter busy.
LEMMA WriteInOrder ==
  ASSUME NEW S, NONE \notin S, NEW x \in S, SerialType(S), SerialInOrder, x86_write(x)
  PROVE  /\ SerialType(S)' /\ SerialInOrder'
         /\ thr' # NONE
         /\ accepted' \in {accepted, Append(accepted, x)}
<1> DEFINE b == IF BufferFull THEN output_buff ELSE [output_buff EXCEPT ![out_producer_pos] = x]
           p == IF BufferFull THEN out_producer_pos ELSE BUFF_POS(out_producer_pos + 1)
           a == IF BufferFull THEN accepted ELSE Append(accepted, x)
           c == out_consumer_pos
           r == Ring(output_buff, c, out_producer_pos)
<1>1. /\ output_buff' = b /\ out_producer_pos' = p /\ accepted' = a
      /\ consumer_write_next(b, p) /\ ier' = ier /\ sent' = sent
  BY Zenon DEF x86_write
<1>2. /\ output_buff \in [Positions -> S \union {NONE}]
      /\ out_producer_pos \in Positions /\ c \in Positions
      /\ thr \in S \union {NONE} /\ ier \in BOOLEAN
      /\ sent \in Seq(S) /\ accepted \in Seq(S) /\ r \in Seq(S)
  BY Zenon DEF SerialType
<1>3. accepted = sent \o InFlight(thr) \o r
  BY InOrderRing, Zenon
<1>4. /\ b \in [Positions -> S \union {NONE}] /\ p \in Positions /\ a \in Seq(S)
      /\ Ring(b, c, p) \in Seq(S)
      /\ a = sent \o InFlight(thr) \o Ring(b, c, p)
      /\ c # p
  <2>1. CASE BufferFull
    <3>1. out_producer_pos # c
      <4>1. out_producer_pos = IF c = 0 THEN Size - 1 ELSE c - 1
        BY <1>2, <2>1, Neighbours, Zenon DEF BufferFull
      <4>. QED
        BY <1>2, <4>1, SerialAssumption DEF Positions
    <3>. QED
      BY <1>2, <1>3, <2>1, <3>1, Zenon
  <2>2. CASE ~BufferFull
    <3> DEFINE q == BUFF_POS(out_producer_pos + 1)
               e == [output_buff EXCEPT ![out_producer_pos] = x]
    <3>1. b = e /\ p = q /\ a = Append(accepted, x)
      BY <2>2, Zenon
    <3>2. out_producer_pos # BUFF_POS(c - 1)
      BY <2>2, Zenon DEF BufferFull
    <3>3. q \in Positions /\ Ring(e, c, q) = Append(r, x)
      <4>1. q \in Positions
        BY <1>2, Neighbours, Zenon
      <4>2. Ring(With(output_buff, out_producer_pos, x), c, q) = Behind(r, x)
        BY <1>2, <3>2, RingAdd
      <4>. QED
        BY <4>1, <4>2, Zenon DEF Behind, With
    <3>4. c # q
      <4>1. q = IF out_producer_pos = Size - 1 THEN 0 ELSE out_producer_pos + 1
        BY <1>2, Neighbours, Zenon
      <4>2. out_producer_pos # IF c = 0 THEN Size - 1 ELSE c - 1
        BY <1>2, <3>2, Neighbours, Zenon
      <4> HIDE DEF q
      <4>. QED
        BY <1>2, <4>1, <4>2, SerialAssumption DEF Positions
    <3>5. e \in [Positions -> S \union {NONE}]
      BY <1>2, Zenon
    <3> HIDE DEF b, p, a, q, e, r
    <3>6. Append(r, x) \in Seq(S) /\ Append(accepted, x) \in Seq(S)
      BY <1>2, SeqAppend, Zenon
    <3>7. Append(accepted, x) = sent \o InFlight(thr) \o Append(r, x)
      <4> DEFINE f == sent \o InFlight(thr)
      <4>1. f \in Seq(S)
        BY <1>2, InFlightType, SeqConcat, Zenon
      <4>2. <<x>> \in Seq(S) /\ r \in Seq(S)
        BY <1>2
      <4> HIDE DEF f
      <4>3. accepted = f \o r
        BY <1>3, Zenon DEF f
      <4>4. Append(f \o r, x) = (f \o r) \o <<x>>
        BY <1>2, <4>3, SeqAppendConcat, Zenon
      <4>5. (f \o r) \o <<x>> = f \o (r \o <<x>>)
        BY ONLY <4>1, <4>2, SeqAssoc
      <4>6. r \o <<x>> = Append(r, x)
        BY <1>2, SeqAppendConcat, Zenon
      <4>. QED
        BY <4>3, <4>4, <4>5, <4>6, Zenon DEF f
    <3>. QED
      BY <3>1, <3>3, <3>4, <3>5, <3>6, <3>7, Zenon
  <2>. QED
    BY <2>1, <2>2, Zenon
<1>5. accepted' \in {accepted, Append(accepted, x)}
  BY <1>1, Zenon
<1> HIDE DEF b, p, a, r
<1>6. /\ out_consumer_pos' \in Positions /\ thr' \in S \union {NONE}
      /\ Ring(b, out_consumer_pos', p) \in Seq(S)
      /\ a = sent \o InFlight(thr') \o Ring(b, out_consumer_pos', p)
      /\ thr' # NONE \/ (out_consumer_pos = p /\ out_consumer_pos' = p)
  BY <1>1, <1>2, <1>4, Consumer, Zenon
<1>7. thr' # NONE
  BY <1>4, <1>6, Zenon
<1>8. SerialInOrder'
  <2>1. accepted' = sent' \o InFlight(thr') \o Ring(output_buff', out_consumer_pos', out_producer_pos')
    BY <1>1, <1>6, Zenon
  <2>. QED
    BY <2>1, Zenon DEF SerialInOrder, InFlight, Ring, Buffered
<1>9. SerialType(S)'
  BY <1>1, <1>2, <1>4, <1>6, Zenon DEF SerialType, Ring
<1>. QED
  BY <1>5, <1>7, <1>8, <1>9, Zenon

\* The handler keeps the order and leaves the transmitter busy or the buffer empty.
LEMMA IsrInOrder ==
  ASSUME NEW S, NONE \notin S, SerialType(S), SerialInOrder, x86_serial_isr
  PROVE  /\ SerialType(S)' /\ SerialInOrder'
         /\ thr' # NONE \/ out_consumer_pos' = out_producer_pos'
         /\ thr' # NONE \/ irr' = irr
         /\ accepted' = accepted
<1> DEFINE b == output_buff
           p == out_producer_pos
<1>1. /\ output_buff' = b /\ out_producer_pos' = p /\ accepted' = accepted
      /\ consumer_write_next(b, p) /\ ier' = ier /\ sent' = sent
  BY Zenon DEF x86_serial_isr
<1>2. /\ b \in [Positions -> S \union {NONE}]
      /\ p \in Positions /\ out_consumer_pos \in Positions
      /\ thr \in S \union {NONE} /\ ier \in BOOLEAN
      /\ sent \in Seq(S) /\ accepted \in Seq(S) /\ Ring(b, out_consumer_pos, p) \in Seq(S)
  BY Zenon DEF SerialType
<1>3. accepted = sent \o InFlight(thr) \o Ring(b, out_consumer_pos, p)
  BY InOrderRing, Zenon
<1> HIDE DEF b, p
<1>4. /\ out_consumer_pos' \in Positions /\ thr' \in S \union {NONE}
      /\ Ring(b, out_consumer_pos', p) \in Seq(S)
      /\ accepted = sent \o InFlight(thr') \o Ring(b, out_consumer_pos', p)
      /\ thr' # NONE \/ (out_consumer_pos = p /\ out_consumer_pos' = p)
      /\ thr' # NONE \/ irr' = irr
  BY <1>1, <1>2, <1>3, Consumer, Zenon
<1>5. SerialInOrder'
  <2>1. accepted' = sent' \o InFlight(thr') \o Ring(output_buff', out_consumer_pos', out_producer_pos')
    BY <1>1, <1>4, Zenon
  <2>. QED
    BY <2>1, Zenon DEF SerialInOrder, InFlight, Ring, Buffered
<1>6. SerialType(S)'
  BY <1>1, <1>2, <1>4, Zenon DEF SerialType, Ring
<1>. QED
  BY <1>1, <1>4, <1>5, <1>6, Zenon

\* The port's own step moves a character from the transmitter to the line.
LEMMA TransmittedInOrder ==
  ASSUME NEW S, NONE \notin S, SerialType(S), SerialInOrder, Transmitted
  PROVE  SerialType(S)' /\ SerialInOrder'
<1> DEFINE r == Ring(output_buff, out_consumer_pos, out_producer_pos)
<1>1. /\ thr # NONE /\ thr' = NONE /\ sent' = Append(sent, thr)
      /\ UNCHANGED <<output_buff, out_producer_pos, out_consumer_pos, ier, accepted>>
  BY Zenon DEF Transmitted
<1>2. thr \in S /\ sent \in Seq(S) /\ r \in Seq(S)
  BY <1>1, Zenon DEF SerialType
<1>3. accepted = sent \o InFlight(thr) \o r
  BY InOrderRing, Zenon
<1> HIDE DEF r
<1>4. InFlight(thr) = <<thr>> /\ InFlight(thr') = <<>>
  BY <1>1, Zenon DEF InFlight
<1>5. sent' \in Seq(S) /\ sent' = sent \o <<thr>>
  BY <1>1, <1>2, SeqAppend, SeqAppendConcat, Zenon
<1>6. sent' \o <<>> = sent'
  BY <1>5, SeqConcatEmpty, Zenon
<1>7. accepted' = sent' \o InFlight(thr') \o r
  BY <1>1, <1>3, <1>4, <1>5, <1>6, Zenon
<1>8. SerialInOrder'
  BY <1>1, <1>7, Zenon DEF SerialInOrder, InFlight, Ring, Buffered, r
<1>9. SerialType(S)'
  BY <1>1, <1>5, Zenon DEF SerialType, Ring
<1>. QED
  BY <1>8, <1>9, Zenon

\* A step that leaves the port alone.
LEMMA SerialKept ==
  ASSUME NEW S, SerialType(S), SerialInOrder, UNCHANGED serialVars
  PROVE  SerialType(S)' /\ SerialInOrder'
<1>1. UNCHANGED <<output_buff, out_producer_pos, out_consumer_pos, thr, ier, sent, accepted>>
  BY Zenon DEF serialVars
<1>2. SerialType(S)'
  BY <1>1, Zenon DEF SerialType, Ring
<1>3. SerialInOrder'
  BY <1>1, Zenon DEF SerialInOrder, Buffered
<1>. QED
  BY <1>2, <1>3, Zenon
-----------------------------------------------------------------------------
(* The console                                                             *)

Char == Writers \X Nat

Stages == {"HW_init", "set_handler", "clear_mask", "enable", "klog", "ata_mask", "up"}

ConsoleType ==
  /\ SerialType(Char)
  /\ boot \in Stages
  /\ active \in Lines \union {Proc} /\ called \in BOOLEAN
  /\ screen \in Seq(Char)
  /\ printed \in [Writers -> Nat]
  /\ pending \in [Writers -> Seq(Char)]

\* The port raises its interrupt before anyone writes to it, and by then the
\* interrupt has its handler.
Wired ==
  /\ ier <=> main_serial_dev
  /\ boot \notin {"HW_init", "set_handler"} => COM1_COM3_IRQ \in handlers
  /\ ~ier => /\ thr = NONE
             /\ out_producer_pos = out_consumer_pos
             /\ \A w \in Writers : pending[w] = <<>>

\* NeverStuck, in terms of the positions.
Attended ==
  out_producer_pos # out_consumer_pos =>
    thr # NONE \/ COM1_COM3_IRQ \in irr \/ (active = COM1_COM3_IRQ /\ ~called)

PortInv == ConsoleType /\ SerialInOrder /\ Wired /\ Attended

\* What a controller has in service: the line that the processor serves.
InService(p) ==
  IF active = Proc THEN {}
  ELSE (IF p = Port(active) THEN {Bit(active)} ELSE {})
       \union (IF p = "master" THEN {MasterBit(active)} ELSE {})

Service == isr = [p \in Ports |-> InService(p)]
-----------------------------------------------------------------------------
\* An empty transmitter is told from every character.
LEMMA NoneIsNoChar == NONE \notin Char
BY NoneAssumption DEF Char, Writers, Proc, ATA_PRIMARY_IRQ

\* The initial buffer has no content.
LEMMA PortInit == Init => PortInv
<1>1. SUFFICES ASSUME Init PROVE PortInv
  BY Zenon
<1>2. /\ output_buff = [i \in Positions |-> NONE] /\ out_producer_pos = 0
      /\ out_consumer_pos = 0 /\ thr = NONE /\ ier = FALSE /\ sent = <<>> /\ accepted = <<>>
  BY <1>1, Zenon DEF Init, SerialInit, Positions
<1>3. 0 \in Positions /\ (0 - 0) % Size = 0
  BY SerialAssumption, ModIn DEF Positions
<1>4. Ring(output_buff, out_consumer_pos, out_producer_pos) = <<>>
  BY <1>2, <1>3 DEF Ring
<1>5. SerialType(Char)
  BY <1>2, <1>3, <1>4 DEF SerialType
<1>6. SerialInOrder
  BY <1>2, <1>4, InOrderRing DEF InFlight
<1>7. ConsoleType
  <2>1. boot \in Stages /\ active \in Lines \union {Proc} /\ called \in BOOLEAN
    BY <1>1, Zenon DEF Init, Stages
  <2>2. <<>> \in Seq(Char)
    OBVIOUS
  <2>3. screen \in Seq(Char) /\ pending \in [Writers -> Seq(Char)]
    BY <1>1, <2>2, Zenon DEF Init
  <2>4. printed \in [Writers -> Nat]
    BY <1>1, Zenon DEF Init
  <2>. QED
    BY <1>5, <2>1, <2>3, <2>4, Zenon DEF ConsoleType
<1>8. Wired /\ Attended
  BY <1>1, <1>2, Zenon DEF Init, Wired, Attended, main_serial_dev
<1>. QED
  BY <1>6, <1>7, <1>8, Zenon DEF PortInv

\* kmain's steps.  The serial port is enabled after its handler is set.
LEMMA BootPort ==
  ASSUME PortInv, kmain
  PROVE  PortInv'
<1>1. UNCHANGED <<active, called, screen, printed, pending>>
  BY Zenon DEF kmain, HW_init, init_x86_serial, ata_probe, Step, printVars
<1>2. boot' \in Stages
  BY Zenon DEF kmain, HW_init, init_x86_serial, ata_probe, Step, Stages
<1>3. CASE Step("enable", "klog") /\ EnableTransmit /\ UNCHANGED <<handlers, imr, isr>>
  <2>1. /\ UNCHANGED <<output_buff, out_producer_pos, out_consumer_pos, thr, sent, accepted>>
        /\ ier' = TRUE /\ irr \subseteq irr' /\ boot = "enable" /\ boot' = "klog" /\ handlers' = handlers
    BY <1>3, Zenon DEF EnableTransmit, Step
  <2>2. SerialType(Char)'
    BY <2>1, Zenon DEF PortInv, ConsoleType, SerialType, Ring
  <2>3. SerialInOrder'
    BY <2>1, Zenon DEF PortInv, SerialInOrder, Buffered
  <2>4. Wired'
    BY <2>1, Zenon DEF PortInv, Wired, main_serial_dev
  <2>5. Attended'
    BY <1>1, <2>1, Zenon DEF PortInv, Attended
  <2>. QED
    BY <1>1, <1>2, <2>2, <2>3, <2>4, <2>5, Zenon DEF PortInv, ConsoleType
<1>4. CASE UNCHANGED serialVars /\ irr' = irr /\ Wired'
  <2>1. SerialType(Char)' /\ SerialInOrder'
    BY <1>4, SerialKept, Zenon DEF PortInv, ConsoleType
  <2>2. Attended'
    BY <1>1, <1>4, Zenon DEF PortInv, Attended, serialVars
  <2>. QED
    BY <1>1, <1>2, <1>4, <2>1, <2>2, Zenon DEF PortInv, ConsoleType
<1>5. CASE HW_init
  BY <1>1, <1>4, <1>5, Zenon DEF HW_init, IRQ_x86_64_init, Step, PortInv, Wired, main_serial_dev, serialVars
<1>6. CASE Step("set_handler", "clear_mask") /\ IRQ_set_handler(COM1_COM3_IRQ) /\ UNCHANGED serialVars
  BY <1>1, <1>4, <1>6, Zenon DEF IRQ_set_handler, Step, PortInv, Wired, main_serial_dev, serialVars
<1>7. CASE Step("clear_mask", "enable") /\ ClearMask(COM1_COM3_IRQ) /\ UNCHANGED serialVars
  BY <1>1, <1>4, <1>7, Zenon DEF ClearMask, Step, PortInv, Wired, main_serial_dev, serialVars
<1>8. CASE ata_probe
  BY <1>1, <1>4, <1>8, Zenon DEF ata_probe, IRQ_set_handler, ClearMask, Step, PortInv, Wired, main_serial_dev, serialVars
<1>. QED
  BY <1>3, <1>5, <1>6, <1>7, <1>8, Zenon DEF kmain, init_x86_serial

\* Interrupts, devices and the screen leave the port's variables alone; only the
\* acceptance of the port's own interrupt takes its request away.
LEMMA OtherPort ==
  ASSUME PortInv,
         \/ Interrupt \/ IRQ_generic_isr \/ OtherDevice
         \/ \E w \in Writers : \E n \in 1..MaxStr : display_str(w, n)
  PROVE  PortInv'
<1>1. UNCHANGED serialVars /\ boot' = boot /\ handlers' = handlers
      /\ UNCHANGED <<screen, printed, pending>>
  BY Zenon DEF Interrupt, Accept, IRQ_generic_isr, PIC_sendEOI, OtherDevice, display_str, printVars, picVars
<1>2. SerialType(Char)' /\ SerialInOrder'
  BY <1>1, SerialKept, Zenon DEF PortInv, ConsoleType
<1>3. Wired'
  BY <1>1, Zenon DEF PortInv, Wired, main_serial_dev, serialVars
<1>4. Attended'
  <2>1. CASE Interrupt
    <3>1. PICK line \in Lines : Accept(line) /\ active' = line
      BY <2>1, Zenon DEF Interrupt
    <3>2. irr' = irr \ {line} /\ called' = FALSE /\ active = Proc
      BY <2>1, <3>1, Zenon DEF Interrupt, Accept
    <3>3. active # COM1_COM3_IRQ
      BY <3>2 DEF Proc, COM1_COM3_IRQ
    <3>. QED
      BY <1>1, <3>1, <3>2, <3>3, Zenon DEF PortInv, Attended, serialVars
  <2>2. CASE IRQ_generic_isr
    BY <1>1, <2>2, Zenon DEF IRQ_generic_isr, PIC_sendEOI, PortInv, Attended, serialVars
  <2>3. CASE OtherDevice
    BY <1>1, <2>3, Zenon DEF OtherDevice, PortInv, Attended, serialVars
  <2>4. CASE \E w \in Writers : \E n \in 1..MaxStr : display_str(w, n)
    BY <1>1, <2>4 DEF display_str, picVars, PortInv, Attended, serialVars
  <2>. QED
    BY <2>1, <2>2, <2>3, <2>4, Zenon
<1>5. active' \in Lines \union {Proc} /\ called' \in BOOLEAN
  BY Zenon DEF Interrupt, IRQ_generic_isr, OtherDevice, display_str, PortInv, ConsoleType
<1>. QED
  BY <1>1, <1>2, <1>3, <1>4, <1>5, Zenon DEF PortInv, ConsoleType

\* A character that goes to the screen is kept for the port once this is up.
LEMMA ScreenPort ==
  ASSUME PortInv, NEW w \in Writers, DisplayScreen(w)
  PROVE  PortInv'
<1> DEFINE c == <<w, printed[w] + 1>>
<1>1. /\ UNCHANGED serialVars /\ UNCHANGED <<boot, handlers, irr, active, called>>
      /\ screen' = Append(screen, c)
      /\ printed' = [printed EXCEPT ![w] = @ + 1]
      /\ pending' = [pending EXCEPT ![w] = IF main_serial_dev THEN Append(@, c) ELSE @]
  BY Zenon DEF DisplayScreen, picVars
<1>2. SerialType(Char)' /\ SerialInOrder'
  BY <1>1, SerialKept, Zenon DEF PortInv, ConsoleType
<1>3. /\ screen \in Seq(Char) /\ printed \in [Writers -> Nat]
      /\ pending \in [Writers -> Seq(Char)]
  BY Zenon DEF PortInv, ConsoleType
<1>4. c \in Char
  BY <1>3 DEF Char
<1> HIDE DEF c
<1>5. screen' \in Seq(Char) /\ pending' \in [Writers -> Seq(Char)]
  <2>1. screen' \in Seq(Char)
    BY <1>1, <1>3, <1>4, SeqAppend, Zenon
  <2>2. Append(pending[w], c) \in Seq(Char)
    BY <1>3, <1>4, SeqAppend, Zenon
  <2>. QED
    BY <1>1, <1>3, <2>1, <2>2, Zenon
<1>6. printed' \in [Writers -> Nat]
  BY <1>1, <1>3
<1>7. Wired'
  <2>1. Wired
    BY Zenon DEF PortInv
  <2>2. ~main_serial_dev => pending' = pending
    BY <1>1, <1>3, Zenon
  <2>. QED
    BY <1>1, <2>1, <2>2, Zenon DEF Wired, main_serial_dev, serialVars
<1>8. Attended'
  BY <1>1, Zenon DEF PortInv, Attended, serialVars
<1>. QED
  BY <1>1, <1>2, <1>5, <1>6, <1>7, <1>8, Zenon DEF PortInv, ConsoleType

\* SER_write_str's character leaves the transmitter busy.
LEMMA WritePort ==
  ASSUME PortInv, NEW w \in Writers, SER_write_char(w)
  PROVE  PortInv' /\ accepted' \in {accepted, Append(accepted, Head(pending[w]))}
<1>1. /\ x86_write(Head(pending[w])) /\ pending[w] # <<>>
      /\ pending' = [pending EXCEPT ![w] = Tail(@)]
      /\ UNCHANGED <<handlers, boot, active, called, screen, printed>>
  BY Zenon DEF SER_write_char
<1>2. pending \in [Writers -> Seq(Char)]
  BY Zenon DEF PortInv, ConsoleType
<1>3. Head(pending[w]) \in Char /\ Tail(pending[w]) \in Seq(Char)
  BY <1>1, <1>2, SeqHeadTail, Zenon
<1>4. /\ SerialType(Char)' /\ SerialInOrder' /\ thr' # NONE
      /\ accepted' \in {accepted, Append(accepted, Head(pending[w]))}
  BY <1>1, <1>3, NoneIsNoChar, WriteInOrder, Zenon DEF PortInv, ConsoleType
<1>5. pending' \in [Writers -> Seq(Char)]
  BY <1>1, <1>2, <1>3, Zenon
<1>6. ier
  BY <1>1, Zenon DEF PortInv, Wired
<1>7. Wired'
  <2>1. ier' = ier
    BY <1>1, Zenon DEF x86_write
  <2>. QED
    BY <1>1, <1>6, <2>1, Zenon DEF PortInv, Wired, main_serial_dev
<1>8. Attended'
  BY <1>4, Zenon DEF Attended
<1>. QED
  BY <1>1, <1>4, <1>5, <1>7, <1>8, Zenon DEF PortInv, ConsoleType

\* The handler of the port leaves the transmitter busy or the buffer empty; other
\* handlers, or none, leave the port alone.
LEMMA HandlerPort ==
  ASSUME PortInv, CallHandler
  PROVE  PortInv' /\ accepted' = accepted
<1>1. UNCHANGED <<handlers, boot, active, screen, printed, pending>> /\ called' = TRUE
  BY Zenon DEF CallHandler, printVars
<1>2. CASE active = COM1_COM3_IRQ /\ active \in handlers
  <2>1. x86_serial_isr
    BY <1>2, Zenon DEF CallHandler
  <2>2. /\ SerialType(Char)' /\ SerialInOrder'
        /\ thr' # NONE \/ out_consumer_pos' = out_producer_pos'
        /\ thr' # NONE \/ irr' = irr
        /\ accepted' = accepted
    BY <2>1, NoneIsNoChar, IsrInOrder, Zenon DEF PortInv, ConsoleType
  <2>3. ier' = ier /\ out_producer_pos' = out_producer_pos
    BY <2>1, Zenon DEF x86_serial_isr
  <2>4. ~ier => thr' = thr /\ out_consumer_pos' = out_consumer_pos
    BY <2>1, Zenon DEF x86_serial_isr, consumer_write_next, PortInv, Wired
  <2>5. Wired'
    BY <1>1, <2>3, <2>4, Zenon DEF PortInv, Wired, main_serial_dev
  <2>6. Attended'
    BY <2>2, Zenon DEF Attended
  <2>. QED
    BY <1>1, <2>2, <2>5, <2>6, Zenon DEF PortInv, ConsoleType
<1>3. CASE ~(active = COM1_COM3_IRQ /\ active \in handlers)
  <2>1. UNCHANGED serialVars /\ irr' = irr
    BY <1>3, Zenon DEF CallHandler
  <2>2. SerialType(Char)' /\ SerialInOrder' /\ accepted' = accepted
    BY <2>1, SerialKept, Zenon DEF PortInv, ConsoleType, serialVars
  <2>3. Wired'
    BY <1>1, <2>1, Zenon DEF PortInv, Wired, main_serial_dev, serialVars
  <2>4. out_producer_pos # out_consumer_pos => COM1_COM3_IRQ \in handlers
    BY Zenon DEF PortInv, Wired, main_serial_dev
  <2>5. Attended'
    BY <1>1, <1>3, <2>1, <2>4, Zenon DEF PortInv, Attended, serialVars
  <2>. QED
    BY <1>1, <2>2, <2>3, <2>5, Zenon DEF PortInv, ConsoleType
<1>. QED
  BY <1>2, <1>3, Zenon

\* The port sends only when its interrupt is on, so the end of a character raises it.
LEMMA SendPort ==
  ASSUME PortInv, PortSends
  PROVE  PortInv'
<1>1. Transmitted /\ UNCHANGED <<handlers, boot, active, called, screen, printed, pending>>
  BY Zenon DEF PortSends, printVars
<1>2. SerialType(Char)' /\ SerialInOrder'
  BY <1>1, NoneIsNoChar, TransmittedInOrder, Zenon DEF PortInv, ConsoleType
<1>3. ier
  BY <1>1, Zenon DEF Transmitted, PortInv, Wired
<1>4. Wired'
  BY <1>1, <1>3, Zenon DEF Transmitted, PortInv, Wired, main_serial_dev
<1>5. Attended'
  BY <1>1, <1>3, Zenon DEF Transmitted, Attended
<1>. QED
  BY <1>1, <1>2, <1>4, <1>5, Zenon DEF PortInv, ConsoleType
-----------------------------------------------------------------------------
\* The end-of-interrupt command ends the only interrupt in service.
LEMMA EndsOnly == ASSUME NEW b \in Int PROVE EOI({b}) = {} /\ EOI({}) = {}
<1>1. Min({b}) = b
  BY DEF Min
<1>. QED
  BY <1>1, Zenon DEF EOI

\* Accepting a line and ending its handler keep Service; nothing else touches it.
LEMMA ServiceStep ==
  ASSUME active \in Lines \union {Proc}, Service, [Next]_vars
  PROVE  Service'
<1>1. CASE UNCHANGED <<isr, active>>
  BY <1>1, Zenon DEF Service, InService
<1>2. CASE Interrupt
  <2>1. PICK line \in Lines : Accept(line) /\ active' = line
    BY <1>2, Zenon DEF Interrupt
  <2>2. line # Proc
    BY PicAssumption DEF Proc
  <2>3. active = Proc
    BY <1>2, Zenon DEF Interrupt
  <2>4. isr = [p \in Ports |-> {}]
    BY <2>3, Zenon DEF Service, InService
  <2>5. isr' = [p \in Ports |-> isr[p] \union (IF p = Port(line) THEN {Bit(line)} ELSE {})
                                      \union (IF p = "master" THEN {MasterBit(line)} ELSE {})]
    BY <2>1, Zenon DEF Accept
  <2>6. isr' = [p \in Ports |-> (IF p = Port(line) THEN {Bit(line)} ELSE {})
                               \union (IF p = "master" THEN {MasterBit(line)} ELSE {})]
    BY <2>4, <2>5, Zenon
  <2>. QED
    BY <2>1, <2>2, <2>6, Zenon DEF Service, InService
<1>3. CASE IRQ_generic_isr
  <2>1. active \in 0..15 /\ active # Proc
    BY <1>3, PicAssumption, Zenon DEF IRQ_generic_isr
  <2>2. active' = Proc
    BY <1>3, Zenon DEF IRQ_generic_isr
  <2>3. isr' = [p \in Ports |-> IF p = "master" \/ active >= 8 THEN EOI(isr[p]) ELSE isr[p]]
    BY <1>3, Zenon DEF IRQ_generic_isr, PIC_sendEOI
  <2>4. \A p \in Ports : isr[p] = (IF p = Port(active) THEN {Bit(active)} ELSE {})
                                  \union (IF p = "master" THEN {MasterBit(active)} ELSE {})
    BY <2>1, Zenon DEF Service, InService
  <2>5. CASE active < 8
    <3>1. isr["master"] = {active} /\ isr["slave"] = {}
      BY <2>1, <2>4, <2>5, Zenon DEF Ports, Port, Bit, MasterBit
    <3>2. EOI({active}) = {}
      BY <2>1, EndsOnly
    <3>3. \A p \in Ports : isr'[p] = {}
      BY <2>1, <2>3, <2>5, <3>1, <3>2 DEF Ports
    <3>. QED
      BY <2>2, <2>3, <3>3, Zenon DEF Service, InService
  <2>6. CASE ~(active < 8)
    <3>1. isr["master"] = {Cascade} /\ isr["slave"] = {active - 8} /\ active >= 8
      BY <2>1, <2>4, <2>6 DEF Ports, Port, Bit, MasterBit
    <3>2. EOI({active - 8}) = {} /\ EOI({Cascade}) = {}
      BY <2>1, EndsOnly DEF Cascade
    <3>3. \A p \in Ports : isr'[p] = {}
      BY <2>3, <3>1, <3>2, Zenon DEF Ports
    <3>. QED
      BY <2>2, <2>3, <3>3, ZenonT(60) DEF Service, InService
  <2>. QED
    BY <2>5, <2>6, Zenon
<1>4. CASE kmain
  BY <1>1, <1>4, Zenon DEF kmain, HW_init, init_x86_serial, ata_probe, Step, IRQ_x86_64_init,
     IRQ_set_handler, ClearMask
<1>5. CASE CallHandler \/ PortSends \/ OtherDevice
  BY <1>1, <1>5, Zenon DEF CallHandler, PortSends, OtherDevice
<1>6. ASSUME NEW w \in Writers, NEW n, SER_write_char(w) \/ DisplayScreen(w) \/ display_str(w, n)
      PROVE  Service'
  BY <1>1, <1>6, Zenon DEF SER_write_char, DisplayScreen, display_str, picVars
<1>7. CASE UNCHANGED vars
  BY <1>1, <1>7, Zenon DEF vars, picVars
<1>. QED
  BY <1>2, <1>3, <1>4, <1>5, <1>6, <1>7, Zenon DEF Next
-----------------------------------------------------------------------------
Shown == {screen[j] : j \in 1..Len(screen)}

\* What w still has to put on the port is on the screen, in its order, and comes
\* after everything the port has of w.
Waiting(w) ==
  /\ \A k \in 1..Len(pending[w]) :
       /\ pending[w][k] \in Shown
       /\ pending[w][k][1] = w
       /\ pending[w][k][2] <= printed[w]
  /\ \A j, k \in 1..Len(pending[w]) : j < k => pending[w][j][2] < pending[w][k][2]
  /\ \A i \in 1..Len(accepted) : accepted[i][1] = w =>
       /\ accepted[i][2] <= printed[w]
       /\ \A k \in 1..Len(pending[w]) : accepted[i][2] < pending[w][k][2]

OrderInv == (\A w \in Writers : Waiting(w)) /\ WriterInOrder

\* At boot nothing has been printed.
LEMMA OrderInit == Init => OrderInv
<1>1. SUFFICES ASSUME Init PROVE OrderInv
  OBVIOUS
<1>2. accepted = <<>> /\ \A w \in Writers : pending[w] = <<>>
  BY <1>1, Zenon DEF Init, SerialInit
<1>3. \A w \in Writers : Waiting(w)
  BY <1>2 DEF Waiting
<1>4. WriterInOrder
  BY <1>2 DEF WriterInOrder
<1>. QED
  BY <1>3, <1>4, Zenon DEF OrderInv

\* A new character has the highest number of its writer.
LEMMA ScreenOrder ==
  ASSUME PortInv, OrderInv, NEW w \in Writers, DisplayScreen(w)
  PROVE  OrderInv'
<1> DEFINE c == <<w, printed[w] + 1>>
           q == pending[w]
<1>1. /\ accepted' = accepted
      /\ screen' = Append(screen, c)
      /\ printed' = [printed EXCEPT ![w] = @ + 1]
      /\ pending' = [pending EXCEPT ![w] = IF main_serial_dev THEN Append(@, c) ELSE @]
  BY Zenon DEF DisplayScreen, serialVars
<1>2. /\ screen \in Seq(Char) /\ printed \in [Writers -> Nat]
      /\ pending \in [Writers -> Seq(Char)] /\ accepted \in Seq(Char)
  BY Zenon DEF PortInv, ConsoleType, SerialType
<1>3. c \in Char /\ c[1] = w /\ c[2] = printed[w] + 1
  BY <1>2 DEF Char
<1>4. /\ \A v \in Writers : v # w => pending'[v] = pending[v] /\ printed'[v] = printed[v]
      /\ printed'[w] = printed[w] + 1
      /\ pending'[w] = IF main_serial_dev THEN Append(q, c) ELSE q
  BY <1>1, <1>2, Zenon
<1> HIDE DEF c
<1>5. /\ Len(screen') = Len(screen) + 1 /\ Len(screen) \in Nat
      /\ \A j \in 1..Len(screen) : screen'[j] = screen[j]
      /\ screen'[Len(screen) + 1] = c
  BY <1>1, <1>2, <1>3, SeqAppend, SeqLength
<1>6. Shown \subseteq Shown' /\ c \in Shown'
  <2>1. \A j \in 1..Len(screen) : j \in 1..Len(screen')
    BY <1>5
  <2>2. Len(screen) + 1 \in 1..Len(screen')
    BY <1>5
  <2>. QED
    BY <1>5, <2>1, <2>2, Zenon DEF Shown
<1>7. ASSUME NEW v \in Writers, v # w PROVE Waiting(v)'
  <2>1. Waiting(v)
    BY Zenon DEF OrderInv
  <2>. QED
    BY <1>1, <1>4, <1>6, <1>7, <2>1, Zenon DEF Waiting
<1>8. Waiting(w)'
  <2>1. Waiting(w)
    BY Zenon DEF OrderInv
  <2>2. q \in Seq(Char) /\ Len(q) \in Nat /\ printed[w] \in Nat
    BY <1>2, SeqLength, Zenon
  <2>3. \A k \in 1..Len(q) : q[k] \in Char /\ q[k][2] \in Nat
    BY <2>2, SeqElement DEF Char
  <2>4. \A i \in 1..Len(accepted) : accepted[i] \in Char /\ accepted[i][2] \in Nat
    BY <1>2, SeqElement DEF Char
  <2>5. CASE ~main_serial_dev
    <3>1. pending'[w] = q
      BY <1>4, <2>5, Zenon
    <3>2. \A k \in 1..Len(q) : q[k] \in Shown' /\ q[k][1] = w /\ q[k][2] <= printed'[w]
      BY <1>4, <1>6, <2>1, <2>2, <2>3 DEF Waiting
    <3>3. \A j, k \in 1..Len(q) : j < k => q[j][2] < q[k][2]
      BY <2>1, Zenon DEF Waiting
    <3>4. \A i \in 1..Len(accepted) : accepted[i][1] = w =>
            accepted[i][2] <= printed'[w] /\ \A k \in 1..Len(q) : accepted[i][2] < q[k][2]
      BY <1>4, <2>1, <2>2, <2>4 DEF Waiting
    <3>. QED
      BY <1>1, <3>1, <3>2, <3>3, <3>4, Zenon DEF Waiting
  <2>6. CASE main_serial_dev
    <3> DEFINE r == Append(q, c)
    <3>1. pending'[w] = r
      BY <1>4, <2>6, Zenon
    <3>2. Len(r) = Len(q) + 1 /\ (\A k \in 1..Len(q) : r[k] = q[k]) /\ r[Len(q) + 1] = c
      BY <1>3, <2>2, SeqAppend
    <3> HIDE DEF r
    <3>3. \A k \in 1..Len(r) : k \in 1..Len(q) \/ (k = Len(q) + 1 /\ r[k] = c)
      BY <2>2, <3>2
    <3>4. \A k \in 1..Len(q) : q[k] \in Shown /\ q[k][1] = w /\ q[k][2] <= printed[w]
      BY <2>1, Zenon DEF Waiting
    <3>5. \A k \in 1..Len(r) : r[k] \in Shown' /\ r[k][1] = w /\ r[k][2] <= printed'[w]
      <4>1. ASSUME NEW k \in 1..Len(q)
            PROVE  r[k] \in Shown' /\ r[k][1] = w /\ r[k][2] <= printed'[w]
        <5>1. r[k] \in Shown' /\ r[k][1] = w
          BY <1>6, <3>2, <3>4, Zenon
        <5>2. r[k][2] \in Nat /\ r[k][2] <= printed[w]
          BY <2>3, <3>2, <3>4, Zenon
        <5>3. printed'[w] = printed[w] + 1
          BY <1>4, Zenon
        <5>4. r[k][2] <= printed'[w]
          BY ONLY <2>2, <5>2, <5>3
        <5>. QED
          BY <5>1, <5>4, Zenon
      <4>2. c \in Shown' /\ c[1] = w /\ c[2] <= printed'[w]
        BY <1>3, <1>4, <1>6, <2>2
      <4>. QED
        BY <3>3, <4>1, <4>2, Zenon
    <3>6. \A j, k \in 1..Len(r) : j < k => r[j][2] < r[k][2]
      <4>1. SUFFICES ASSUME NEW j \in 1..Len(r), NEW k \in 1..Len(r), j < k PROVE r[j][2] < r[k][2]
        BY Zenon
      <4>2. j \in 1..Len(q)
        BY <2>2, <3>2, <4>1
      <4>3. CASE k \in 1..Len(q)
        <5>1. q[j][2] < q[k][2]
          BY <2>1, <4>1, <4>2, <4>3, Zenon DEF Waiting
        <5>. QED
          BY <3>2, <4>2, <4>3, <5>1, Zenon
      <4>4. CASE r[k] = c
        <5>1. r[j] = q[j] /\ q[j][2] \in Nat /\ q[j][2] <= printed[w]
          BY <2>3, <3>2, <3>4, <4>2, Zenon
        <5>2. c[2] = printed[w] + 1
          BY <1>3, Zenon
        <5>3. q[j][2] < c[2]
          BY <2>2, <5>1, <5>2
        <5>. QED
          BY <4>4, <5>1, <5>3, Zenon
      <4>. QED
        BY <3>3, <4>3, <4>4, Zenon
    <3>7. ASSUME NEW i \in 1..Len(accepted), accepted[i][1] = w
          PROVE  accepted[i][2] <= printed'[w] /\ \A k \in 1..Len(r) : accepted[i][2] < r[k][2]
      <4>1. accepted[i][2] <= printed[w] /\ \A k \in 1..Len(q) : accepted[i][2] < q[k][2]
        BY <2>1, <3>7, Zenon DEF Waiting
      <4>2. accepted[i][2] < c[2] /\ accepted[i][2] <= printed'[w]
        BY <1>3, <1>4, <2>2, <2>4, <4>1
      <4>. QED
        BY <3>2, <3>3, <4>1, <4>2, Zenon
    <3>. QED
      BY <1>1, <3>1, <3>5, <3>6, <3>7, Zenon DEF Waiting
  <2>. QED
    BY <2>5, <2>6, Zenon
<1>9. WriterInOrder'
  <2>1. WriterInOrder
    BY Zenon DEF OrderInv
  <2>2. \A j \in 1..Len(screen) : j \in 1..Len(screen') /\ screen'[j] = screen[j]
    BY <1>5
  <2>. QED
    BY <1>1, <2>1, <2>2 DEF WriterInOrder
<1>. QED
  BY <1>7, <1>8, <1>9, Zenon DEF OrderInv

\* A character that is written, or dropped, is the first that waited.
LEMMA WriteOrder ==
  ASSUME PortInv, OrderInv, NEW w \in Writers, SER_write_char(w)
  PROVE  OrderInv'
<1> DEFINE q == pending[w]
           h == Head(q)
           n == Len(accepted)
<1>1. /\ q # <<>> /\ UNCHANGED <<screen, printed>>
      /\ pending' = [pending EXCEPT ![w] = Tail(@)]
  BY Zenon DEF SER_write_char
<1>2. accepted' = accepted \/ accepted' = Append(accepted, h)
  BY WritePort, Zenon
<1>3. /\ pending \in [Writers -> Seq(Char)] /\ accepted \in Seq(Char) /\ printed \in [Writers -> Nat]
      /\ q \in Seq(Char) /\ n \in Nat
  BY SeqLength, Zenon DEF PortInv, ConsoleType, SerialType
<1>4. /\ \A v \in Writers : v # w => pending'[v] = pending[v]
      /\ pending'[w] = Tail(q)
  BY <1>1, <1>3, Zenon
<1>5. /\ h \in Char /\ h = q[1] /\ Len(q) \in Nat \ {0} /\ Len(Tail(q)) = Len(q) - 1
      /\ \A k \in 1..(Len(q) - 1) : Tail(q)[k] = q[k + 1]
  BY <1>1, <1>3, SeqHeadTail, SeqEmpty, Zenon
<1>6. Shown' = Shown
  BY <1>1, Zenon DEF Shown
<1>7. Waiting(w)
  BY DEF OrderInv
<1>8. /\ h \in Shown /\ h[1] = w /\ h[2] <= printed[w]
      /\ \A k \in 1..(Len(q) - 1) : h[2] < Tail(q)[k][2]
      /\ \A i \in 1..n : accepted[i][1] = w => accepted[i][2] < h[2]
  <2>1. 1 \in 1..Len(q) /\ \A k \in 1..(Len(q) - 1) : k + 1 \in 1..Len(q) /\ 1 < k + 1
    BY <1>5
  <2>. QED
    BY <1>5, <1>7, <2>1, Zenon DEF Waiting
<1>9. /\ \A k \in 1..(Len(q) - 1) : /\ Tail(q)[k] \in Shown /\ Tail(q)[k][1] = w
                                     /\ Tail(q)[k][2] <= printed[w]
      /\ \A j, k \in 1..(Len(q) - 1) : j < k => Tail(q)[j][2] < Tail(q)[k][2]
      /\ \A i \in 1..n : accepted[i][1] = w =>
           \A k \in 1..(Len(q) - 1) : accepted[i][2] < Tail(q)[k][2]
  <2>1. /\ \A k \in 1..(Len(q) - 1) : k + 1 \in 1..Len(q)
        /\ \A j, k \in 1..(Len(q) - 1) : j < k => j + 1 < k + 1
    BY <1>5
  <2>. QED
    BY <1>5, <1>7, <2>1, ZenonT(60) DEF Waiting
<1> DEFINE t == Tail(q)
           a == accepted'
<1>10. /\ Len(a) \in Nat /\ \A i \in 1..Len(a) : (i \in 1..n /\ a[i] = accepted[i]) \/ (i = n + 1 /\ a[i] = h)
  <2>1. CASE a = accepted
    BY <1>3, <2>1, Zenon
  <2>2. CASE a = Append(accepted, h)
    <3>1. Len(a) = n + 1 /\ (\A i \in 1..n : a[i] = accepted[i]) /\ a[n + 1] = h
      BY <1>3, <1>5, <2>2, SeqAppend
    <3>. QED
      BY <1>3, <3>1
  <2>. QED
    BY <1>2, <2>1, <2>2, Zenon
<1>11. Len(t) = Len(q) - 1
  BY <1>5, Zenon
<1> HIDE DEF h, n, t, a
<1>12. ASSUME NEW v \in Writers, v # w PROVE Waiting(v)'
  <2>1. Waiting(v)
    BY DEF OrderInv
  <2>2. \A i \in 1..Len(a) : a[i][1] = v => i \in 1..n /\ a[i] = accepted[i]
    BY <1>8, <1>10, <1>12, Zenon
  <2>3. \A i \in 1..Len(a) : a[i][1] = v =>
          a[i][2] <= printed[v] /\ \A k \in 1..Len(pending[v]) : a[i][2] < pending[v][k][2]
    BY <2>1, <2>2, Zenon DEF Waiting, n
  <2>. QED
    BY <1>1, <1>4, <1>6, <1>12, <2>1, <2>3 DEF Waiting, a
<1>13. Waiting(w)'
  <2>1. \A i \in 1..Len(a) : a[i][1] = w =>
          a[i][2] <= printed[w] /\ \A k \in 1..Len(t) : a[i][2] < t[k][2]
    <3>1. SUFFICES ASSUME NEW i \in 1..Len(a), a[i][1] = w
                   PROVE  a[i][2] <= printed[w] /\ \A k \in 1..Len(t) : a[i][2] < t[k][2]
      BY Zenon
    <3>2. CASE a[i] = h
      BY <1>8, <1>11, <3>2, Zenon DEF t
    <3>3. CASE i \in 1..n /\ a[i] = accepted[i]
      <4>1. accepted[i][2] <= printed[w]
        BY <1>7, <3>1, <3>3, Zenon DEF Waiting, n
      <4>2. \A k \in 1..Len(t) : accepted[i][2] < t[k][2]
        BY <1>9, <1>11, <3>1, <3>3, Zenon DEF t
      <4>. QED
        BY <3>3, <4>1, <4>2, Zenon
    <3>. QED
      BY <1>10, <3>2, <3>3, Zenon
  <2>2. /\ \A k \in 1..Len(t) : t[k] \in Shown /\ t[k][1] = w /\ t[k][2] <= printed[w]
        /\ \A j, k \in 1..Len(t) : j < k => t[j][2] < t[k][2]
    BY <1>9, <1>11, Zenon DEF t
  <2>3. pending'[w] = t
    BY <1>4, Zenon DEF t
  <2>. QED
    BY <1>1, <1>6, <2>1, <2>2, <2>3, Zenon DEF Waiting, a
<1>14. WriterInOrder'
  <2>1. /\ \A i, j \in 1..n : i < j /\ accepted[i][1] = accepted[j][1] => accepted[i][2] < accepted[j][2]
        /\ \A i \in 1..n : \E j \in 1..Len(screen) : screen[j] = accepted[i]
    BY Zenon DEF OrderInv, WriterInOrder, n
  <2>2. \A i, j \in 1..Len(a) : i < j /\ a[i][1] = a[j][1] => a[i][2] < a[j][2]
    <3>1. SUFFICES ASSUME NEW i \in 1..Len(a), NEW j \in 1..Len(a), i < j, a[i][1] = a[j][1]
                   PROVE  a[i][2] < a[j][2]
      BY Zenon
    <3>2. i \in 1..n /\ a[i] = accepted[i]
      BY <1>3, <1>10, <3>1
    <3>3. CASE j \in 1..n /\ a[j] = accepted[j]
      BY <2>1, <3>1, <3>2, <3>3, Zenon
    <3>4. CASE a[j] = h
      BY <1>8, <3>1, <3>2, <3>4, Zenon
    <3>. QED
      BY <1>10, <3>3, <3>4, Zenon
  <2>3. \E j \in 1..Len(screen) : screen[j] = h
    BY <1>8, Zenon DEF Shown
  <2>4. \A i \in 1..Len(a) : \E j \in 1..Len(screen) : screen[j] = a[i]
    BY <1>10, <2>1, <2>3, Zenon
  <2>. QED
    BY <1>1, <2>2, <2>4, Zenon DEF WriterInOrder, a
<1>. QED
  BY <1>12, <1>13, <1>14 DEF OrderInv

\* Steps that neither print nor write.
LEMMA OrderKept ==
  ASSUME OrderInv, UNCHANGED <<accepted, screen, printed, pending>>
  PROVE  OrderInv'
<1>1. \A w \in Writers : Waiting(w)'
  BY DEF OrderInv, Waiting, Shown
<1>2. WriterInOrder'
  BY Zenon DEF OrderInv, WriterInOrder
<1>. QED
  BY <1>1, <1>2, Zenon DEF OrderInv
-----------------------------------------------------------------------------
(* Handlers and masks                                                      *)

\* The lines that can have a request.
Wires == {Timer, COM1_COM3_IRQ, ATA_PRIMARY_IRQ}

\* A line without a handler is masked from PIC_init on.
MaskInv ==
  /\ imr \in [Ports -> SUBSET Int] /\ irr \subseteq Wires
  /\ boot # "HW_init" => \A line \in Wires : line \notin handlers => Bit(line) \in imr[Port(line)]
  /\ boot = "clear_mask" => COM1_COM3_IRQ \in handlers
  /\ boot = "ata_mask" => ATA_PRIMARY_IRQ \in handlers
  /\ active # Proc => active \in handlers
  /\ unhandled = {}

\* Bits and ports of the lines.
LEMMA LineBits ==
  /\ Bit(Timer) = 0 /\ Port(Timer) = "master"
  /\ Bit(COM1_COM3_IRQ) = 4 /\ Port(COM1_COM3_IRQ) = "master"
  /\ Bit(ATA_PRIMARY_IRQ) = 6 /\ Port(ATA_PRIMARY_IRQ) = "slave"
BY DEF Bit, Port, Timer, COM1_COM3_IRQ, ATA_PRIMARY_IRQ

\* PIC_init masks every line but the one of the slave.
LEMMA AllMasked ==
  ASSUME NEW m \in [Ports -> SUBSET Int]
  PROVE  /\ PIC_init(m) \in [Ports -> SUBSET Int]
         /\ \A line \in Wires : Bit(line) \in PIC_init(m)[Port(line)]
<1>1. \A line \in 0..15 : Port(line) \in Ports /\ Bit(line) \in Int
  BY DEF Port, Bit, Ports
<1>2. \A line \in 0..15 :
        /\ IRQ_set_mask(m, line) \in [Ports -> SUBSET Int]
        /\ Bit(line) \in IRQ_set_mask(m, line)[Port(line)]
  BY <1>1, Zenon DEF IRQ_set_mask
<1>3. PIC_init(m) \in [Ports -> SUBSET Int]
  <2>1. \A p \in Ports : UNION {IRQ_set_mask(m, line)[p] : line \in (0..15) \ {Cascade}} \in SUBSET Int
    BY <1>2
  <2> QED
    BY <2>1, Zenon DEF PIC_init
<1>4. \A line \in Wires : line \in (0..15) \ {Cascade}
  BY DEF Wires, Timer, COM1_COM3_IRQ, ATA_PRIMARY_IRQ, Cascade
<1>5. ASSUME NEW line \in Wires PROVE Bit(line) \in PIC_init(m)[Port(line)]
  BY <1>1, <1>2, <1>4, <1>5, Zenon DEF PIC_init
<1> QED
  BY <1>3, <1>5, Zenon

\* Steps that leave handlers and masks alone.
LEMMA MaskKept ==
  ASSUME MaskInv, UNCHANGED <<handlers, imr, boot, unhandled>>, irr' \subseteq irr \union Wires,
         active' = active \/ active' = Proc
  PROVE  MaskInv'
BY Zenon DEF MaskInv

\* Before SER_init and the first mask call every line is masked and
\* unhandled.
LEMMA MaskInit == Init => MaskInv
<1> SUFFICES ASSUME Init PROVE MaskInv
  OBVIOUS
<1>1. imr \in [Ports -> SUBSET Int]
  BY DEF Init, PicInit
<1> QED
  BY <1>1, Zenon DEF Init, PicInit, MaskInv

\* Every step of the serial driver and of the PIC code keeps it.
LEMMA MaskNext == MaskInv /\ [Next]_vars => MaskInv'
<1> SUFFICES ASSUME MaskInv, [Next]_vars PROVE MaskInv'
  BY Zenon
<1>1. CASE HW_init
  <2>1. /\ imr' = PIC_init(imr) /\ irr' = irr /\ boot' = "set_handler" /\ active = Proc
        /\ UNCHANGED <<active, unhandled>>
    BY <1>1, Zenon DEF HW_init, IRQ_x86_64_init, Step
  <2>2. imr' \in [Ports -> SUBSET Int] /\ \A line \in Wires : Bit(line) \in imr'[Port(line)]
    BY <2>1, AllMasked, Zenon DEF MaskInv
  <2> QED
    BY <2>1, <2>2, Zenon DEF MaskInv
<1>2. ASSUME NEW line \in {COM1_COM3_IRQ, ATA_PRIMARY_IRQ}, IRQ_set_handler(line),
             \/ Step("set_handler", "clear_mask") /\ line = COM1_COM3_IRQ
             \/ Step("klog", "ata_mask") /\ line = ATA_PRIMARY_IRQ
      PROVE  MaskInv'
  <2>1. /\ handlers' = handlers \union {line} /\ UNCHANGED <<imr, irr, active, unhandled>>
        /\ boot # "HW_init"
        /\ \/ boot' = "clear_mask" /\ line = COM1_COM3_IRQ
           \/ boot' = "ata_mask" /\ line = ATA_PRIMARY_IRQ
    BY <1>2, Zenon DEF IRQ_set_handler, Step
  <2> QED
    BY <2>1, Zenon DEF MaskInv
<1>3. ASSUME NEW line \in {COM1_COM3_IRQ, ATA_PRIMARY_IRQ}, ClearMask(line),
             \/ Step("clear_mask", "enable") /\ line = COM1_COM3_IRQ
             \/ Step("ata_mask", "up") /\ line = ATA_PRIMARY_IRQ
      PROVE  MaskInv'
  <2>1. /\ imr' = [imr EXCEPT ![Port(line)] = @ \ {Bit(line)}]
        /\ UNCHANGED <<handlers, irr, active, unhandled>>
        /\ boot # "HW_init" /\ boot' \in {"enable", "up"} /\ line \in handlers
    BY <1>3, Zenon DEF ClearMask, IRQ_clear_mask, Step, MaskInv
  <2>2. imr' \in [Ports -> SUBSET Int]
    BY <2>1, Zenon DEF MaskInv
  <2>3. ASSUME NEW k \in Wires, k \notin handlers PROVE Bit(k) \in imr'[Port(k)]
    <3>1. Bit(k) \in imr[Port(k)] /\ Port(k) \in Ports
      BY <2>1, <2>3, Zenon DEF MaskInv, Port, Ports
    <3>2. Port(k) # Port(line) \/ Bit(k) # Bit(line)
      <4>1. k # line
        BY <2>1, <2>3, Zenon
      <4> QED
        BY <4>1, LineBits DEF Wires
    <3> QED
      BY <2>1, <3>1, <3>2, Zenon DEF MaskInv
  <2> QED
    BY <2>1, <2>2, <2>3, Zenon DEF MaskInv
<1>4. CASE Step("enable", "klog") /\ EnableTransmit /\ UNCHANGED <<handlers, imr, isr>>
  <2>1. irr' \subseteq irr \union Wires /\ UNCHANGED <<handlers, imr, active, unhandled>>
        /\ boot # "HW_init" /\ boot' = "klog"
    BY <1>4, Zenon DEF Step, EnableTransmit, Wires
  <2> QED
    BY <2>1, Zenon DEF MaskInv
<1>5. CASE Interrupt
  <2>1. PICK line \in Lines : Accept(line) /\ active' = line
    BY <1>5, Zenon DEF Interrupt
  <2>2. /\ line \in irr /\ Bit(line) \notin imr[Port(line)] /\ irr' \subseteq irr
        /\ UNCHANGED <<handlers, imr, boot, unhandled>> /\ boot # "HW_init"
    BY <1>5, <2>1, Zenon DEF Accept, First, Passes, Interrupt
  <2>3. line \in handlers
    BY <2>2, Zenon DEF MaskInv
  <2> QED
    BY <2>1, <2>2, <2>3, Zenon DEF MaskInv
<1>6. CASE CallHandler
  <2>1. active \in handlers
    BY <1>6, Zenon DEF CallHandler, MaskInv
  <2>2. irr' \subseteq irr /\ UNCHANGED <<handlers, imr, boot, active, unhandled>>
    BY <1>6, <2>1, Zenon DEF CallHandler, x86_serial_isr, consumer_write_next
  <2> QED
    BY <2>2, MaskKept, Zenon
<1>7. CASE IRQ_generic_isr
  <2>1. irr' = irr /\ active' = Proc /\ UNCHANGED <<handlers, imr, boot, unhandled>>
    BY <1>7, Zenon DEF IRQ_generic_isr, PIC_sendEOI
  <2> QED
    BY <2>1, MaskKept, Zenon
<1>8. CASE PortSends \/ OtherDevice
  <2>1. irr' \subseteq irr \union Wires /\ UNCHANGED <<handlers, imr, boot, active, unhandled>>
    BY <1>8, Zenon DEF PortSends, Transmitted, OtherDevice, Wires
  <2> QED
    BY <2>1, MaskKept, Zenon
<1>9. ASSUME NEW w \in Writers,
             SER_write_char(w) \/ DisplayScreen(w) \/ \E n \in 1..MaxStr : display_str(w, n)
      PROVE  MaskInv'
  <2>1. irr' \subseteq irr \union Wires /\ UNCHANGED <<handlers, imr, boot, active, unhandled>>
    BY <1>9, Zenon DEF SER_write_char, x86_write, consumer_write_next, DisplayScreen, display_str, picVars
  <2> QED
    BY <2>1, MaskKept, Zenon
<1>10. CASE UNCHANGED vars
  BY <1>10, MaskKept, Zenon DEF vars, picVars
<1> QED
  BY <1>1, <1>2, <1>3, <1>4, <1>5, <1>6, <1>7, <1>8, <1>9, <1>10, Zenon
     DEF Next, kmain, init_x86_serial, ata_probe

-----------------------------------------------------------------------------
\* The inductive invariant.
ConsoleInv == PortInv /\ Service /\ OrderInv

\* Every step of kmain, of the handlers, of the writers and of the devices keeps
\* the invariant.
THEOREM ConsoleInvariant == Spec => []ConsoleInv
<1>1. Init => ConsoleInv
  <2>1. SUFFICES ASSUME Init PROVE Service
    BY PortInit, OrderInit, Zenon DEF ConsoleInv
  <2>. QED
    BY <2>1, Zenon DEF Init, PicInit, Service, InService
<1>2. ConsoleInv /\ [Next]_vars => ConsoleInv'
  <2>1. SUFFICES ASSUME ConsoleInv, [Next]_vars PROVE ConsoleInv'
    OBVIOUS
  <2>2. Service'
    BY <2>1, ServiceStep, Zenon DEF ConsoleInv, PortInv, ConsoleType
  <2>3. PortInv /\ OrderInv
    BY <2>1, Zenon DEF ConsoleInv
  <2>4. CASE kmain
    <3>1. UNCHANGED <<accepted, screen, printed, pending>>
      BY <2>4, Zenon DEF kmain, HW_init, init_x86_serial, ata_probe, Step, EnableTransmit, printVars, serialVars
    <3>. QED
      BY <2>2, <2>3, <2>4, <3>1, BootPort, OrderKept, Zenon DEF ConsoleInv
  <2>5. CASE Interrupt \/ IRQ_generic_isr \/ OtherDevice
    <3>1. UNCHANGED <<accepted, screen, printed, pending>>
      BY <2>5, Zenon DEF Interrupt, IRQ_generic_isr, OtherDevice, printVars, serialVars
    <3>. QED
      BY <2>2, <2>3, <2>5, <3>1, OtherPort, OrderKept, Zenon DEF ConsoleInv
  <2>6. ASSUME NEW w \in Writers, NEW n \in 1..MaxStr, display_str(w, n) PROVE ConsoleInv'
    <3>1. UNCHANGED <<accepted, screen, printed, pending>>
      BY <2>6, Zenon DEF display_str, serialVars
    <3>2. PortInv'
      BY <2>3, <2>6, OtherPort, Zenon
    <3>. QED
      BY <2>2, <2>3, <3>1, <3>2, OrderKept, Zenon DEF ConsoleInv
  <2>7. CASE CallHandler
    <3>1. PortInv' /\ accepted' = accepted
      BY <2>3, <2>7, HandlerPort, Zenon
    <3>2. UNCHANGED <<accepted, screen, printed, pending>>
      BY <2>7, <3>1, Zenon DEF CallHandler, printVars
    <3>. QED
      BY <2>2, <2>3, <3>1, <3>2, OrderKept, Zenon DEF ConsoleInv
  <2>8. CASE PortSends
    <3>1. UNCHANGED <<accepted, screen, printed, pending>>
      BY <2>8, Zenon DEF PortSends, Transmitted, printVars
    <3>. QED
      BY <2>2, <2>3, <2>8, <3>1, SendPort, OrderKept DEF ConsoleInv
  <2>9. ASSUME NEW w \in Writers, SER_write_char(w) PROVE ConsoleInv'
    BY <2>2, <2>3, <2>9, WritePort, WriteOrder, Zenon DEF ConsoleInv
  <2>10. ASSUME NEW w \in Writers, DisplayScreen(w) PROVE ConsoleInv'
    BY <2>2, <2>3, <2>10, ScreenPort, ScreenOrder, Zenon DEF ConsoleInv
  <2>11. CASE UNCHANGED vars
    <3>1. /\ UNCHANGED <<accepted, screen, printed, pending>> /\ UNCHANGED serialVars
          /\ UNCHANGED <<handlers, irr, boot, active, called>>
      BY <2>11, Zenon DEF vars, printVars, picVars, serialVars
    <3>2. SerialType(Char)' /\ SerialInOrder'
      BY <2>3, <3>1, SerialKept, Zenon DEF PortInv, ConsoleType
    <3>3. Wired' /\ Attended'
      BY <2>3, <3>1, Zenon DEF PortInv, Wired, Attended, main_serial_dev, serialVars
    <3>4. PortInv'
      BY <2>3, <3>1, <3>2, <3>3, Zenon DEF PortInv, ConsoleType
    <3>. QED
      BY <2>2, <2>3, <3>1, <3>4, OrderKept, Zenon DEF ConsoleInv
  <2>. QED
    BY <2>1, <2>4, <2>5, <2>6, <2>7, <2>8, <2>9, <2>10, <2>11, Zenon DEF Next
<1>. QED
  BY <1>1, <1>2, PTL DEF Spec

\* For a buffer of any size, producer_add_char and consumer_write_next send every
\* accepted character once and in order, from a writer or from the handler.
THEOREM SentInOrder == Spec => []SerialInOrder
<1>1. ConsoleInv => SerialInOrder
  BY Zenon DEF ConsoleInv, PortInv
<1>. QED
  BY <1>1, ConsoleInvariant, PTL

\* For a buffer of any size, x86_write and the port's handler never leave the port
\* idle on a filled buffer, unless its interrupt is on the way.
THEOREM PortNeverStuck == Spec => []NeverStuck
<1>1. ConsoleInv => NeverStuck
  <2>1. SUFFICES ASSUME ConsoleInv, Buffered > 0
                 PROVE  out_producer_pos # out_consumer_pos
    BY Zenon DEF ConsoleInv, PortInv, Attended, NeverStuck
  <2>2. out_producer_pos \in Positions /\ out_consumer_pos \in Positions
    BY <2>1, Zenon DEF ConsoleInv, PortInv, ConsoleType, SerialType
  <2>3. Buffered = IF out_consumer_pos <= out_producer_pos
                   THEN out_producer_pos - out_consumer_pos
                   ELSE out_producer_pos - out_consumer_pos + Size
    BY <2>2, Between, Zenon DEF Buffered
  <2>. QED
    BY <2>1, <2>2, <2>3, SerialAssumption DEF Positions
<1>. QED
  BY <1>1, ConsoleInvariant, PTL

\* However printk's writers interleave, the characters that x86_write accepts of
\* each are in the order in which the writer printed them.
THEOREM WritersKeepOrder == Spec => []WriterInOrder
<1>1. ConsoleInv => WriterInOrder
  BY Zenon DEF ConsoleInv, OrderInv
<1>. QED
  BY <1>1, ConsoleInvariant, PTL

\* Whatever lines the devices use, no controller has an interrupt in service once
\* IRQ_generic_isr has called PIC_sendEOI: none blocks the later ones.
THEOREM ServiceAlwaysEnds == Spec => []ServiceEnds
<1>1. ConsoleInv => ServiceEnds
  BY Zenon DEF ConsoleInv, Service, InService, ServiceEnds
<1>. QED
  BY <1>1, ConsoleInvariant, PTL

\* PIC_init masks the lines before the first STI, and each driver sets its handler
\* before it clears its mask: IRQ_generic_isr never misses a handler, whatever
\* lines the devices use.
THEOREM AllHandled == Spec => []NoneUnhandled
<1>1. MaskInv => NoneUnhandled
  BY Zenon DEF MaskInv, NoneUnhandled
<1>. QED
  BY <1>1, MaskInit, MaskNext, PTL DEF Spec
-----------------------------------------------------------------------------
(* The screen                                                              *)

CONSTANT Chars  \* what VGA_display_char is called with

Cell == Chars \union {BLANK, <<"loader">>}

\* The screen on its own, from the boot loader's on: kmain clears it first, and it
\* shows one character after the other.  No line has 2^32 characters.
VgaSpec ==
  /\ disp = Loader
  /\ [][ \/ VGA_clear
         \/ \E c \in Chars :
              /\ disp # Loader
              /\ c = CR => MayReturn(disp)
              /\ disp.x + 1 < Word
              /\ disp' = VGA_display_char(disp, c) ]_disp

\* The types of the fields.
Field(s) ==
  /\ s \in [x : 0..(Word - 1), y : 0..(Word - 1), buf : [0..(len - 1) -> Cell],
            scrolled : Nat, paper : UNION {[D -> Cell] : D \in SUBSET Nat}, returned : BOOLEAN]

\* The row of the cursor is Y, which is below zero for a line that has more rows
\* than the screen, and y is what the unsigned variable makes of it.
Cursor(s, Y) ==
  /\ Y \in Int /\ s.y = Y % Word
  /\ Y * width + s.x \in 0..len

\* The paper ends with the last row of the screen.
Shows(s) ==
  /\ DOMAIN s.paper \subseteq 0..(s.scrolled * width + len - 1)
  /\ \A i \in 0..(len - 1) :
       s.buf[i] = IF s.scrolled * width + i \in DOMAIN s.paper THEN s.paper[s.scrolled * width + i] ELSE BLANK

\* Without carriage returns everything on the paper is before the cursor.
Below(s) ==
  s.returned \/ \A i \in DOMAIN s.paper : i < s.scrolled * width + U(s.y * width + s.x)

\* The screen when there is room for the next character.
Room(s) == IF AtEnd(s) THEN Scrolled(s) ELSE s

\* The inductive invariant.
ScreenInv(s) == Field(s) /\ (\E Y \in Int : Cursor(s, Y)) /\ Shows(s)

\* The sizes.
LEMMA Sizes ==
  /\ width \in Nat \ {0} /\ height \in Nat \ {0} /\ len \in Nat \ {0} /\ Word \in Nat \ {0}
  /\ len = width * height /\ width <= len /\ len + width < Word
<1>1. width \in Nat \ {0} /\ height \in Nat \ {0} /\ Word \in Nat /\ Word > len + width
  BY VgaAssumption, Zenon
<1>2. len = width * height
  BY Zenon DEF len
<1>3. len \in Nat /\ width <= len
  BY ONLY <1>1, <1>2
<1> QED
  BY ONLY <1>1, <1>2, <1>3

\* A number below the modulus is its own remainder.
LEMMA Small ==
  ASSUME NEW W \in Nat \ {0}, NEW n \in 0..(W - 1)
  PROVE  n % W = n
<1>1. n = W * 0 + n /\ n \in Int
  OBVIOUS
<1> QED
  BY ONLY <1>1, ModUnique, W \in Nat \ {0}, n \in 0..(W - 1), 0 \in Int

\* Unsigned arithmetic finds the cell of the cursor, also above the screen.
LEMMA Position ==
  ASSUME NEW W \in Nat \ {0}, NEW w \in Nat, NEW Y \in Int, NEW x \in Int, Y * w + x \in 0..(W - 1)
  PROVE  ((Y % W) * w + x) % W = Y * w + x
<1>1. PICK q \in Int, r \in 0..(W - 1) : Y % W = r /\ Y = W * q + r
  BY DivMod, Zenon
<1>2. PICK a \in Int, b \in Int, m \in Int, y \in Int : a = r * w /\ b = q * w /\ m = W * b /\ y = Y * w
  OBVIOUS
<1>3. y = m + a
  BY ONLY <1>1, <1>2, W \in Nat, w \in Nat
<1>4. PICK n \in Int : n = -b
  BY ONLY <1>2
<1>5. W * n = -m
  BY ONLY <1>2, <1>4, W \in Nat
<1>6. PICK p \in 0..(W - 1) : p = y + x
  BY <1>2, Zenon
<1>7. a + x = W * n + p
  BY ONLY <1>3, <1>5, <1>6, <1>2, x \in Int
<1>8. (a + x) % W = p
  <2>1. PICK c \in Int : c = a + x
    BY ONLY <1>2, x \in Int
  <2>2. c = W * n + p
    BY ONLY <1>7, <2>1, Zenon
  <2>3. c % W = p
    BY <2>2, ModUnique
  <2> QED
    BY ONLY <2>1, <2>3, Zenon
<1> QED
  BY ONLY <1>1, <1>2, <1>6, <1>8, Zenon

\* The 16-bit product and sum in VGA_display_char do not lose the cursor's
\* cell.
LEMMA CursorCell ==
  ASSUME NEW s, Field(s), NEW Y, Cursor(s, Y)
  PROVE  U(s.y * width + s.x) = Y * width + s.x
<1>1. PICK x \in Int : x = s.x /\ Y * width + x \in 0..len /\ Y \in Int /\ s.y = Y % Word
  BY DEF Field, Cursor
<1>2. Y * width + x \in 0..(Word - 1)
  BY ONLY <1>1, Sizes
<1>3. ((Y % Word) * width + x) % Word = Y * width + x
  <2>1. Word \in Nat \ {0} /\ width \in Nat
    BY Sizes, Zenon
  <2> QED
    BY ONLY <1>1, <1>2, <2>1, Position, Zenon
<1> QED
  BY <1>1, <1>3, Zenon DEF U

\* Where the cursor is tells whether VGA_display_char scrolls.
LEMMA EndOfScreen ==
  ASSUME NEW s, Field(s), NEW Y, Cursor(s, Y)
  PROVE  AtEnd(s) <=> Y * width + s.x = len
BY CursorCell, Zenon DEF AtEnd

\* The screen after scroll().
LEMMA ScrolledKeeps ==
  ASSUME NEW s, Field(s), Shows(s), NEW Y, Cursor(s, Y), AtEnd(s)
  PROVE  /\ Field(Scrolled(s)) /\ Shows(Scrolled(s)) /\ Cursor(Scrolled(s), Y - 1)
         /\ (Y - 1) * width + Scrolled(s).x < len
         /\ s.y >= 1 => Scrolled(s).y = s.y - 1
<1> DEFINE t == Scrolled(s)
<1>1. /\ s.x \in 0..(Word - 1) /\ s.y \in 0..(Word - 1) /\ s.buf \in [0..(len - 1) -> Cell]
      /\ s.scrolled \in Nat /\ s.paper \in UNION {[D -> Cell] : D \in SUBSET Nat} /\ s.returned \in BOOLEAN
  BY Zenon DEF Field
<1>2. t = [s EXCEPT !.buf = scroll(s.buf), !.y = U(s.y - 1), !.scrolled = s.scrolled + 1]
  BY Zenon DEF Scrolled
<1>3. /\ t.x = s.x /\ t.y = U(s.y - 1) /\ t.buf = scroll(s.buf) /\ t.scrolled = s.scrolled + 1
      /\ t.paper = s.paper
  BY <1>2, Zenon DEF Field
<1>4. U(s.y - 1) \in 0..(Word - 1) /\ (s.y >= 1 => U(s.y - 1) = s.y - 1)
  <2>1. PICK y \in 0..(Word - 1), d \in Int : y = s.y /\ d = y - 1
    BY <1>1, Sizes
  <2>2. d % Word \in 0..(Word - 1)
    BY ONLY Sizes, DivMod, <2>1, Zenon
  <2>3. d >= 0 => d % Word = d
    <3>1. d >= 0 => d \in 0..(Word - 1)
      BY ONLY Sizes, <2>1
    <3> QED
      BY ONLY Sizes, Small, <3>1, Zenon
  <2> QED
    BY ONLY <2>1, <2>2, <2>3, Sizes DEF U
<1>5. scroll(s.buf) \in [0..(len - 1) -> Cell]
  BY <1>1, Sizes DEF scroll, Cell
<1>6. Field(t)
  <2>1. t = [x |-> s.x, y |-> U(s.y - 1), buf |-> scroll(s.buf), scrolled |-> s.scrolled + 1,
             paper |-> s.paper, returned |-> s.returned]
    BY <1>2, Zenon DEF Field
  <2>2. s.scrolled + 1 \in Nat
    BY <1>1
  <2> QED
    BY ONLY <1>1, <1>4, <1>5, <2>1, <2>2 DEF Field
<1>7. Cursor(t, Y - 1) /\ (Y - 1) * width + t.x < len
  <2>1. PICK x \in Int, a \in Int : x = s.x /\ a = Y * width /\ Y \in Int /\ s.y = Y % Word /\ a + x \in 0..len
    <3>1. Y \in Int /\ s.y = Y % Word /\ Y * width + s.x \in 0..len
      BY Zenon DEF Cursor
    <3>2. s.x \in Int
      BY ONLY <1>1, Sizes
    <3>3. Y * width \in Int
      BY ONLY <3>1, Sizes
    <3> QED
      BY <3>1, <3>2, <3>3, Zenon
  <2>2. a + x = len
    BY <2>1, EndOfScreen, Zenon
  <2>3. (Y - 1) * width = a - width
    BY ONLY <2>1, Sizes
  <2>4. a - width + x \in 0..len /\ a - width + x < len
    BY ONLY <2>1, <2>2, Sizes
  <2>5. U(s.y - 1) = (Y - 1) % Word
    <3>1. PICK m \in Int, o \in Int : o = -1 /\ m = Y - 1
      BY ONLY <2>1
    <3>2. ((Y % Word) + o) % Word = (Y + o) % Word
      BY ONLY <2>1, <3>1, Sizes, ModAdd, ZenonT(60)
    <3>3. (Y % Word) + o = s.y - 1 /\ Y + o = Y - 1
      BY <2>1, <3>1, <1>1, Zenon
    <3> QED
      BY <3>2, <3>3, Zenon DEF U
  <2> QED
    BY <1>3, <2>1, <2>3, <2>4, <2>5 DEF Cursor
<1>8. Shows(t)
  <2>1. PICK W \in Nat, w \in Nat, k \in Nat : W = s.scrolled * width /\ w = width /\ k = len
    BY <1>1, Sizes
  <2>2. t.scrolled * width = W + w
    BY <1>1, <1>3, <2>1, Sizes
  <2>3. DOMAIN s.paper \subseteq 0..(W + k - 1)
    BY <2>1, Zenon DEF Shows
  <2>4. \A i \in 0..(k - 1) : s.buf[i] = IF W + i \in DOMAIN s.paper THEN s.paper[W + i] ELSE BLANK
    BY <2>1, Zenon DEF Shows
  <2>5. \A i \in 0..(k - 1) : t.buf[i] = IF i < k - w THEN s.buf[i + w] ELSE BLANK
    BY <1>3, <2>1, Zenon DEF scroll
  <2>6. DOMAIN t.paper \subseteq 0..(W + w + k - 1)
    BY <1>3, <2>3
  <2>7. ASSUME NEW i \in 0..(k - 1)
        PROVE  t.buf[i] = IF W + w + i \in DOMAIN t.paper THEN t.paper[W + w + i] ELSE BLANK
    <3>1. CASE i < k - w
      <4>1. i + w \in 0..(k - 1) /\ W + (i + w) = W + w + i
        BY ONLY <3>1, <2>1, i \in 0..(k - 1)
      <4>2. s.buf[i + w] = IF W + w + i \in DOMAIN s.paper THEN s.paper[W + w + i] ELSE BLANK
        BY ONLY <2>4, <4>1, Zenon
      <4> QED
        BY <1>3, <2>5, <3>1, <4>2, Zenon
    <3>2. CASE ~(i < k - w)
      <4>1. W + w + i \notin 0..(W + k - 1)
        BY ONLY <3>2, <2>1, i \in 0..(k - 1)
      <4> QED
        BY <1>3, <2>3, <2>5, <3>2, <4>1, Zenon
    <3> QED
      BY <3>1, <3>2, Zenon
  <2> QED
    BY <2>1, <2>2, <2>6, <2>7, Zenon DEF Shows
<1> QED
  BY <1>3, <1>4, <1>6, <1>7, <1>8, Zenon

\* A newline goes to the row below the last one of the line.
LEMMA NewLineKeeps ==
  ASSUME NEW s, Field(s), Shows(s), NEW Y, Cursor(s, Y), Y * width + s.x < len
  PROVE  /\ ScreenInv(NewLine(s))
         /\ \E R \in Nat \ {0} : /\ Cursor(NewLine(s), R) /\ NewLine(s).y = R /\ NewLine(s).x = 0
                                 /\ R * width > Y * width + s.x
<1> DEFINE t == NewLine(s)
<1>1. /\ s.x \in 0..(Word - 1) /\ s.y \in 0..(Word - 1) /\ s.buf \in [0..(len - 1) -> Cell]
      /\ s.scrolled \in Nat /\ s.paper \in UNION {[D -> Cell] : D \in SUBSET Nat} /\ s.returned \in BOOLEAN
  BY Zenon DEF Field
<1>2. PICK x \in 0..(Word - 1), q \in Int, r \in 0..(width - 1) :
        x = s.x /\ q = x \div width /\ x = width * q + r
  <2>1. PICK x \in 0..(Word - 1) : x = s.x
    BY <1>1, Zenon
  <2>2. PICK q \in Int, r \in 0..(width - 1) : q = x \div width /\ x = width * q + r
    <3>1. x \in Int
      BY ONLY x \in 0..(Word - 1), Sizes
    <3> QED
      BY ONLY <3>1, DivMod, Sizes
  <2> QED
    BY <2>1, <2>2, Zenon
<1>3. PICK n \in Int, y \in Int : n = 1 + q /\ y = s.y + 1 + q
  BY <1>1
<1>4. t = [x |-> 0, y |-> U(y), buf |-> s.buf, scrolled |-> s.scrolled, paper |-> s.paper,
           returned |-> s.returned]
  <2>1. s.y + 1 + (s.x \div width) = y
    BY ONLY <1>2, <1>3, Zenon
  <2>2. t = [s EXCEPT !.y = U(y), !.x = 0]
    BY <2>1, Zenon DEF NewLine
  <2> QED
    BY <2>2, Zenon DEF Field
<1>5. U(y) \in 0..(Word - 1)
  BY ONLY Sizes, DivMod, y \in Int, Zenon DEF U
<1> HIDE DEF t
<1>6. Field(t)
  <2>1. 0 \in 0..(Word - 1)
    BY Sizes
  <2> QED
    BY ONLY <1>1, <1>4, <1>5, <2>1, Zenon DEF Field
<1>7. Shows(t)
  BY <1>4, Zenon DEF Shows
<1>8. Cursor(t, Y + n)
  <2>1. PICK a \in Int, b \in Int, c \in Int :
          /\ a = Y * width /\ Y \in Int /\ s.y = Y % Word /\ a + x \in 0..len /\ a + x < len
          /\ b = width * q /\ c = (Y + q) * width
    <3>1. Y \in Int /\ s.y = Y % Word /\ Y * width + x \in 0..len /\ Y * width + x < len
      BY <1>2, Zenon DEF Cursor
    <3>2. Y * width \in Int /\ width * q \in Int /\ (Y + q) * width \in Int
      BY ONLY <3>1, Sizes, q \in Int
    <3> QED
      BY ONLY <3>1, <3>2, Zenon
  <2>2. c = a + b /\ a \in Int /\ b \in Int /\ c \in Int
    BY ONLY <2>1, Sizes, q \in Int
  <2>10. PICK k \in Nat, v \in Nat : k = len /\ v = width /\ v * height = k /\ a + x < k /\ a + x >= 0 /\ x = b + r
    BY <1>2, <2>1, Sizes
  <2>3. (Y + n) * width = c + width
    BY ONLY <1>3, <2>1, Sizes, q \in Int
  <2>4. c < width * height
    BY ONLY <2>2, <2>10, r \in 0..(width - 1), k \in Nat, v \in Nat
  <2>5. Y + q < height
    <3>1. PICK e \in Int, w \in Nat \ {0}, h \in Nat : e = Y + q /\ w = width /\ h = height /\ e * w < w * h
      BY <2>1, <2>4, Sizes
    <3>2. e < h
      BY ONLY <3>1, e \in Int, w \in Nat \ {0}, h \in Nat
    <3> QED
      BY ONLY <3>1, <3>2, Zenon
  <2>6. (Y + n) * width <= width * height
    <3>1. PICK e \in Int, w \in Nat \ {0}, h \in Nat : e = Y + n /\ w = width /\ h = height /\ e <= h
      BY <1>3, <2>1, <2>5, Sizes
    <3>2. e * w <= w * h
      BY ONLY <3>1, e \in Int, w \in Nat \ {0}, h \in Nat
    <3> QED
      BY ONLY <3>1, <3>2, Zenon
  <2>7. c + width >= 0
    BY ONLY <2>2, <2>10, r \in 0..(width - 1), k \in Nat, v \in Nat
  <2>8. (Y + n) * width + 0 \in 0..len
    BY ONLY <2>3, <2>6, <2>7, Sizes, c \in Int
  <2>9. U(y) = (Y + n) % Word
    <3>1. ((Y % Word) + n) % Word = (Y + n) % Word
      BY ONLY <2>1, Sizes, ModAdd, n \in Int, Zenon
    <3>2. (Y % Word) + n = y
      BY ONLY <1>1, <1>3, <2>1, q \in Int, SMTT(30)
    <3> QED
      BY ONLY <3>1, <3>2, Zenon DEF U
  <2> QED
    BY ONLY <1>4, <2>1, <2>8, <2>9, n \in Int DEF Cursor
<1>9. \E R \in Nat \ {0} : Cursor(t, R) /\ t.y = R /\ t.x = 0 /\ R * width > Y * width + s.x
  <2>1. PICK R \in Int : R = Y + n /\ Cursor(t, R) /\ t.x = 0 /\ t.y = R % Word /\ R * width + 0 \in 0..len
    BY <1>3, <1>4, <1>8, Zenon DEF Cursor
  <2>2. PICK a \in Int, b \in Int, w \in Nat \ {0} :
          /\ w = width /\ a = Y * w /\ b = w * q /\ R * w = a + b + w /\ x = b + r
          /\ Y * width + s.x = a + x /\ a + x >= 0 /\ r < w
    <3>1. Y \in Int /\ Y * width + x >= 0
      BY <1>2, SMTT(30) DEF Cursor
    <3>2. R * width = Y * width + width * q + width
      BY ONLY <3>1, <2>1, <1>3, Sizes, q \in Int, n \in Int
    <3> QED
      BY <1>2, <3>1, <3>2, Sizes
  <2>3. R * w > a + x /\ R * w > 0
    BY ONLY <2>2, a \in Int, b \in Int, w \in Nat \ {0}, r \in 0..(width - 1), x \in 0..(Word - 1)
  <2>4. R > 0 /\ R <= R * w
    BY ONLY <2>3, R \in Int, w \in Nat \ {0}
  <2>5. R \in 0..(Word - 1)
    BY ONLY <2>1, <2>2, <2>4, Sizes, R \in Int
  <2>6. t.y = R
    BY ONLY <2>1, <2>5, Small, Sizes, Zenon
  <2>7. R \in Nat \ {0}
    BY ONLY <2>4, R \in Int
  <2> QED
    BY <2>1, <2>2, <2>3, <2>6, <2>7, Zenon
<1> QED
  BY <1>6, <1>7, <1>8, <1>9, Zenon DEF ScreenInv, Cursor, t

\* The row that a newline goes to is below everything on the paper.
LEMMA NewLineMoves ==
  ASSUME NEW s, Field(s), Shows(s), NEW Y, Cursor(s, Y), Y * width + s.x < len, Below(s)
  PROVE  /\ Below(NewLine(s))
         /\ ~s.returned => \A i \in DOMAIN s.paper : i < (NewLine(s).scrolled + NewLine(s).y) * width
<1>1. PICK t : t = NewLine(s)
  BY Zenon
<1>2. PICK R \in Nat \ {0} : Cursor(t, R) /\ t.y = R /\ t.x = 0 /\ R * width > Y * width + s.x /\ Field(t)
  BY <1>1, NewLineKeeps, Zenon DEF ScreenInv
<1>3. t.scrolled = s.scrolled /\ t.paper = s.paper /\ t.returned = s.returned
  BY <1>1, Zenon DEF NewLine, Field
<1>4. U(s.y * width + s.x) = Y * width + s.x /\ U(t.y * width + t.x) = R * width + 0
  BY <1>2, CursorCell, Zenon
<1>5. PICK W \in Nat, a \in Int, m \in Nat :
        /\ W = s.scrolled * width /\ a = Y * width + s.x /\ m = R * width /\ a < m
        /\ (t.scrolled + t.y) * width = W + m
  <2>1. s.scrolled \in Nat /\ s.scrolled * width \in Nat /\ R * width \in Nat
    BY Sizes, SMTT(30) DEF Field
  <2>2. Y * width + s.x \in Int
    BY Sizes, SMTT(30) DEF Cursor
  <2>3. (t.scrolled + t.y) * width = s.scrolled * width + R * width
    BY ONLY <1>2, <1>3, <2>1, Sizes, R \in Nat
  <2> QED
    BY <1>2, <2>1, <2>2, <2>3, SMTT(30)
<1>6. ASSUME ~s.returned, NEW i \in DOMAIN s.paper
      PROVE  i < W + m /\ i < W + (m + 0)
  <2>1. i < W + a
    BY <1>4, <1>5, <1>6, Zenon DEF Below
  <2>2. i \in Nat
    BY Zenon DEF Field
  <2> QED
    BY ONLY <1>5, <2>1, <2>2, W \in Nat, a \in Int, m \in Nat
<1> QED
  BY <1>1, <1>3, <1>4, <1>5, <1>6, Zenon DEF Below

\* A carriage return goes to the start of a row of the screen.
LEMMA ReturnKeeps ==
  ASSUME NEW s, Field(s), Shows(s), s.y < height
  PROVE  ScreenInv([s EXCEPT !.x = 0, !.returned = TRUE])
<1>1. PICK t : t = [s EXCEPT !.x = 0, !.returned = TRUE]
  BY Zenon
<1>2. /\ s.x \in 0..(Word - 1) /\ s.y \in 0..(Word - 1) /\ s.buf \in [0..(len - 1) -> Cell]
      /\ s.scrolled \in Nat /\ s.paper \in UNION {[D -> Cell] : D \in SUBSET Nat} /\ s.returned \in BOOLEAN
  BY Zenon DEF Field
<1>3. t = [x |-> 0, y |-> s.y, buf |-> s.buf, scrolled |-> s.scrolled, paper |-> s.paper,
           returned |-> TRUE]
  BY <1>1, Zenon DEF Field
<1>4. Field(t)
  <2>1. 0 \in 0..(Word - 1)
    BY Sizes
  <2> QED
    BY ONLY <1>2, <1>3, <2>1, Zenon DEF Field
<1>5. Shows(t)
  BY <1>3, Zenon DEF Shows
<1>6. Cursor(t, s.y)
  <2>1. PICK y \in Nat, w \in Nat \ {0}, h \in Nat : y = s.y /\ w = width /\ h = height /\ y < h
    BY <1>2, Sizes
  <2>2. y * w + 0 \in 0..(w * h)
    BY ONLY <2>1, y \in Nat, w \in Nat \ {0}, h \in Nat
  <2>3. y % Word = y
    BY ONLY <1>2, <2>1, Sizes, Small, Zenon
  <2> QED
    BY <1>3, <2>1, <2>2, <2>3, Sizes, SMTT(30) DEF Cursor
<1> QED
  BY <1>1, <1>2, <1>4, <1>5, <1>6 DEF ScreenInv

\* Any other character is put into a cell of the buffer.
LEMMA PutKeeps ==
  ASSUME NEW s, Field(s), Shows(s), NEW Y, Cursor(s, Y), Y * width + s.x < len,
         NEW c \in Cell, s.x + 1 < Word
  PROVE  ScreenInv(Put(s, c)) /\ (Below(s) => Below(Put(s, c)))
<1> DEFINE t == Put(s, c)
<1>1. /\ s.x \in 0..(Word - 1) /\ s.y \in 0..(Word - 1) /\ s.buf \in [0..(len - 1) -> Cell]
      /\ s.scrolled \in Nat /\ s.paper \in UNION {[D -> Cell] : D \in SUBSET Nat} /\ s.returned \in BOOLEAN
  BY Zenon DEF Field
<1>2. PICK D \in SUBSET Nat : s.paper \in [D -> Cell]
  BY <1>1, Zenon
<1>3. PICK pos \in 0..(len - 1) : pos = U(s.y * width + s.x) /\ pos = Y * width + s.x
  <2>1. PICK a : a = Y * width + s.x /\ a \in 0..len /\ a < len
    BY Zenon DEF Cursor
  <2>2. a \in 0..(len - 1)
    BY ONLY <2>1, Sizes
  <2> QED
    BY <2>1, <2>2, CursorCell, Zenon
<1>4. PICK W \in Nat : W = s.scrolled * width
  BY <1>1, Sizes
<1>5. PICK x \in 0..(Word - 1) : x = s.x + 1 /\ x = U(s.x + 1)
  <2>1. PICK n \in 0..(Word - 1) : n = s.x + 1
    BY <1>1, Sizes
  <2>2. n % Word = n
    BY ONLY Small, Sizes, n \in 0..(Word - 1), Zenon
  <2> QED
    BY <2>1, <2>2, Zenon DEF U
<1> DEFINE b == [i \in 0..(len - 1) |-> IF i = pos THEN c ELSE s.buf[i]]
           p == [i \in D \union {W + pos} |-> IF i = W + pos THEN c ELSE s.paper[i]]
<1>6. Write(s.buf, pos, c) = b
  <2>1. DOMAIN s.buf \union {pos} = 0..(len - 1)
    BY <1>1, Zenon
  <2> QED
    BY <2>1, Zenon DEF Write
<1>7. Write(s.paper, W + pos, c) = p
  <2>1. DOMAIN s.paper = D
    BY <1>2, Zenon
  <2> QED
    BY <2>1, Zenon DEF Write
<1>8. t = [x |-> x, y |-> s.y, buf |-> b, scrolled |-> s.scrolled, paper |-> p, returned |-> s.returned]
  <2>1. t = [s EXCEPT !.buf = Write(s.buf, pos, c), !.x = U(s.x + 1), !.paper = Write(s.paper, W + pos, c)]
    BY <1>3, <1>4, Zenon DEF Put
  <2> HIDE DEF t, b, p
  <2>2. t = [s EXCEPT !.buf = b, !.x = x, !.paper = p]
    BY <1>5, <1>6, <1>7, <2>1, Zenon
  <2> QED
    BY <2>2, Zenon DEF Field
<1> HIDE DEF t
<1>9. b \in [0..(len - 1) -> Cell]
  BY <1>1, Zenon
<1>10. p \in UNION {[E -> Cell] : E \in SUBSET Nat}
  <2>1. D \union {W + pos} \in SUBSET Nat
    BY Sizes
  <2>2. p \in [D \union {W + pos} -> Cell]
    BY <1>2, Zenon
  <2> HIDE DEF p
  <2> QED
    BY <2>1, <2>2, Zenon
<1>11. Field(t)
  <2> HIDE DEF b, p
  <2> QED
    BY ONLY <1>1, <1>8, <1>9, <1>10, x \in 0..(Word - 1), Zenon DEF Field
<1>12. Cursor(t, Y)
  <2>1. Y \in Int /\ s.y = Y % Word /\ t.x = s.x + 1 /\ t.y = s.y
    BY <1>5, <1>8, Zenon DEF Cursor
  <2>2. PICK a \in Int : a = Y * width
    BY <2>1, Sizes
  <2>3. a + (s.x + 1) \in 0..len
    BY ONLY <1>1, <1>3, <2>2, Sizes, a \in Int, pos \in 0..(len - 1), SMTT(30)
  <2> QED
    BY <2>1, <2>2, <2>3, Zenon DEF Cursor
<1>13. Shows(t)
  <2>1. t.scrolled * width = W /\ t.paper = p /\ t.buf = b /\ DOMAIN p = D \union {W + pos}
    BY <1>4, <1>8, Zenon
  <2>2. D \subseteq 0..(W + len - 1)
         /\ \A i \in 0..(len - 1) : s.buf[i] = IF W + i \in D THEN s.paper[W + i] ELSE BLANK
    BY <1>2, <1>4, Zenon DEF Shows
  <2>3. DOMAIN p \subseteq 0..(W + len - 1)
    BY <2>1, <2>2, Sizes
  <2>4. ASSUME NEW i \in 0..(len - 1)
        PROVE  b[i] = IF W + i \in DOMAIN p THEN p[W + i] ELSE BLANK
    <3>1. W + i = W + pos <=> i = pos
      OBVIOUS
    <3> QED
      BY <2>1, <2>2, <3>1, Zenon
  <2> HIDE DEF b, p
  <2> QED
    BY <2>1, <2>3, <2>4, Zenon DEF Shows
<1>14. Below(s) => Below(t)
  <2>1. /\ t.scrolled = s.scrolled /\ t.returned = s.returned /\ t.paper = p
        /\ DOMAIN p = D \union {W + pos} /\ DOMAIN s.paper = D
    BY <1>2, <1>8, Zenon
  <2>2. U(t.y * width + t.x) = pos + 1
    <3>1. U(t.y * width + t.x) = Y * width + t.x
      BY <1>11, <1>12, CursorCell, Zenon
    <3>2. t.x = s.x + 1
      BY <1>5, <1>8, Zenon
    <3>3. PICK a \in Int : a = Y * width
      BY Sizes, SMTT(30) DEF Cursor
    <3>4. a + (s.x + 1) = pos + 1
      BY ONLY <1>1, <1>3, <3>3, a \in Int
    <3> QED
      BY <3>1, <3>2, <3>3, <3>4, Zenon
  <2> HIDE DEF p
  <2>3. ASSUME \A i \in D : i < W + pos, NEW i \in D \union {W + pos}
        PROVE  i < W + (pos + 1)
    <3>1. CASE i \in D
      <4>1. i \in Nat /\ i < W + pos
        BY <2>3, <3>1
      <4> QED
        BY ONLY <4>1, W \in Nat, pos \in 0..(len - 1), Sizes
    <3>2. CASE i = W + pos
      BY ONLY <3>2, W \in Nat, pos \in 0..(len - 1), Sizes
    <3> QED
      BY <2>3, <3>1, <3>2, Zenon
  <2> QED
    BY <1>3, <1>4, <2>1, <2>2, <2>3, Zenon DEF Below
<1> QED
  BY <1>11, <1>12, <1>13, <1>14, Zenon DEF ScreenInv, Cursor, t

\* scroll() makes room for a character and takes nothing from the paper.
LEMMA RoomKeeps ==
  ASSUME NEW s, ScreenInv(s)
  PROVE  \E Z \in Int :
           /\ Field(Room(s)) /\ Shows(Room(s)) /\ Cursor(Room(s), Z) /\ Z * width + Room(s).x < len
           /\ Room(s).x = s.x /\ Room(s).returned = s.returned /\ Room(s).paper = s.paper
           /\ MayReturn(s) => Room(s).y < height
           /\ Below(s) => Below(Room(s))
<1>1. PICK Y \in Int : Field(s) /\ Shows(s) /\ Cursor(s, Y)
  BY Zenon DEF ScreenInv
<1>2. PICK t : t = Room(s)
  BY Zenon
<1>3. CASE AtEnd(s)
  <2>1. /\ Field(t) /\ Shows(t) /\ Cursor(t, Y - 1) /\ (Y - 1) * width + t.x < len
        /\ s.y >= 1 => t.y = s.y - 1
    BY <1>1, <1>2, <1>3, ScrolledKeeps, Zenon DEF Room
  <2>2. t.x = s.x /\ t.returned = s.returned /\ t.paper = s.paper /\ t.scrolled = s.scrolled + 1
    BY <1>1, <1>2, <1>3, Zenon DEF Room, Scrolled, Field
  <2>3. MayReturn(s) => t.y < height
    BY <1>3, <2>1, Sizes DEF MayReturn
  <2>4. t.scrolled * width + U(t.y * width + t.x) = s.scrolled * width + U(s.y * width + s.x)
    <3>1. U(s.y * width + s.x) = Y * width + s.x /\ U(t.y * width + t.x) = (Y - 1) * width + t.x
      BY <1>1, <2>1, CursorCell, Zenon
    <3>2. PICK k \in Nat, x \in Nat : k = s.scrolled /\ x = s.x
      BY <1>1, Sizes DEF Field
    <3>3. (k + 1) * width + ((Y - 1) * width + x) = k * width + (Y * width + x)
      BY ONLY Sizes, k \in Nat, x \in Nat, Y \in Int
    <3> QED
      BY <2>2, <3>1, <3>2, <3>3, Zenon
  <2>5. Below(s) => Below(t)
    BY <2>2, <2>4, Zenon DEF Below
  <2>6. Y - 1 \in Int
    BY ONLY Y \in Int
  <2> QED
    BY <1>2, <2>1, <2>2, <2>3, <2>5, <2>6, Zenon
<1>4. CASE ~AtEnd(s)
  <2>1. Y * width + s.x < len
    <3>1. PICK a \in Int : a = Y * width + s.x /\ a \in 0..len
      BY <1>1, SMTT(30) DEF Cursor
    <3>2. a # len
      BY <1>1, <1>4, <3>1, EndOfScreen, Zenon
    <3> QED
      BY <3>1, <3>2, Sizes
  <2>2. MayReturn(s) => s.y < height
    BY <1>4, Zenon DEF MayReturn
  <2> QED
    BY <1>1, <1>4, <2>1, <2>2, Zenon DEF Room
<1> QED
  BY <1>3, <1>4, Zenon

\* A newline scrolls where it must, and then moves the cursor.
LEMMA DisplayNewLine ==
  ASSUME NEW s
  PROVE  VGA_display_char(s, NL) = NewLine(Room(s))
<1>1. NL # CR
  BY Zenon DEF NL, CR
<1>2. VGA_display_char(s, NL) = CASE NL = NL -> NewLine(Room(s))
                                  [] NL = CR -> [Room(s) EXCEPT !.x = 0, !.returned = TRUE]
                                  [] OTHER   -> Put(Room(s), NL)
  BY Zenon DEF VGA_display_char, Room
<1> QED
  BY <1>1, <1>2, Zenon

\* VGA_display_char keeps the invariant, and what is on the paper before the cursor.
LEMMA DisplayKeeps ==
  ASSUME NEW s, ScreenInv(s), NEW c \in Chars, c = CR => MayReturn(s), s.x + 1 < Word
  PROVE  ScreenInv(VGA_display_char(s, c)) /\ (Below(s) => Below(VGA_display_char(s, c)))
<1>2. PICK t : t = Room(s)
  BY Zenon
<1>3. PICK Z \in Int : /\ Field(t) /\ Shows(t) /\ Cursor(t, Z) /\ Z * width + t.x < len
                       /\ t.x = s.x /\ (MayReturn(s) => t.y < height) /\ (Below(s) => Below(t))
  BY <1>2, RoomKeeps, Zenon
<1>4. VGA_display_char(s, c) = CASE c = NL -> NewLine(t)
                                 [] c = CR -> [t EXCEPT !.x = 0, !.returned = TRUE]
                                 [] OTHER  -> Put(t, c)
  BY <1>2, Zenon DEF VGA_display_char, Room
<1>5. NL # CR
  BY Zenon DEF NL, CR
<1>6. CASE c = NL
  <2>1. VGA_display_char(s, c) = NewLine(t)
    BY <1>4, <1>5, <1>6, Zenon
  <2> QED
    BY <1>3, <2>1, NewLineKeeps, NewLineMoves, Zenon
<1>7. CASE c = CR
  <2>1. VGA_display_char(s, c) = [t EXCEPT !.x = 0, !.returned = TRUE]
    BY <1>4, <1>5, <1>7, Zenon
  <2>2. t.y < height
    BY <1>3, <1>7, Zenon
  <2>3. Below(VGA_display_char(s, c))
    BY <1>3, <2>1, Zenon DEF Below, Field
  <2> QED
    BY <1>3, <2>1, <2>2, <2>3, ReturnKeeps, Zenon
<1>8. CASE c # NL /\ c # CR
  <2>1. VGA_display_char(s, c) = Put(t, c)
    BY <1>4, <1>8, Zenon
  <2>2. c \in Cell /\ t.x + 1 < Word
    BY <1>3, Zenon DEF Cell
  <2> QED
    BY <1>3, <2>1, <2>2, PutKeeps, Zenon
<1> QED
  BY <1>6, <1>7, <1>8, Zenon

\* The loader's screen and the cleared one.
LEMMA FreshScreens == ScreenInv(Loader) /\ ScreenInv(Cleared)
<1>1. ASSUME NEW o \in {BLANK, <<"loader">>}, NEW s, NEW D \in {{}, 0..(len - 1)}, NEW p \in [D -> {o}],
             s = [x |-> 0, y |-> 0, buf |-> [i \in 0..(len - 1) |-> o], scrolled |-> 0,
                  paper |-> p, returned |-> FALSE],
             o = BLANK \/ D = 0..(len - 1)
      PROVE  ScreenInv(s)
  <2>1. Field(s)
    <3>1. [i \in 0..(len - 1) |-> o] \in [0..(len - 1) -> Cell]
      BY Zenon DEF Cell
    <3>2. p \in UNION {[E -> Cell] : E \in SUBSET Nat}
      <4>1. D \in SUBSET Nat
        BY Sizes
      <4>2. p \in [D -> Cell]
        BY Zenon DEF Cell
      <4> QED
        BY <4>1, <4>2, Zenon
    <3>3. 0 \in 0..(Word - 1)
      BY Sizes
    <3> QED
      BY ONLY <1>1, <3>1, <3>2, <3>3, Zenon DEF Field
  <2>2. Cursor(s, 0)
    BY <1>1, Sizes, SMTT(30) DEF Cursor
  <2>3. Shows(s)
    <3>1. s.scrolled * width = 0 /\ s.paper = p /\ \A i \in 0..(len - 1) : s.buf[i] = o
      BY <1>1, Sizes
    <3>2. DOMAIN p = D /\ \A i \in D : p[i] = o
      BY Zenon
    <3> QED
      BY <1>1, <3>1, <3>2, Sizes DEF Shows
  <2> QED
    BY <2>1, <2>2, <2>3 DEF ScreenInv
<1>2. ScreenInv(Cleared)
  <2>1. <<>> \in [{} -> {BLANK}]
    OBVIOUS
  <2> QED
    BY <1>1, <2>1, Zenon DEF Cleared
<1>3. ScreenInv(Loader)
  <2> PICK l : l = [i \in 0..(len - 1) |-> <<"loader">>]
    BY Zenon
  <2>1. l \in [0..(len - 1) -> {<<"loader">>}]
    BY Zenon
  <2>2. Loader = [x |-> 0, y |-> 0, buf |-> l, scrolled |-> 0, paper |-> l, returned |-> FALSE]
    <3>1. Loader = [Cleared EXCEPT !.buf = l, !.paper = l]
      BY Zenon DEF Loader
    <3> QED
      BY <3>1, Zenon DEF Cleared
  <2> QED
    BY <1>1, <2>1, <2>2, Zenon
<1> QED
  BY <1>2, <1>3, Zenon

\* What is displayed keeps the cursor, the buffer and the paper consistent.
LEMMA ScreenInvariant == VgaSpec => []ScreenInv(disp)
<1>1. disp = Loader => ScreenInv(disp)
  BY FreshScreens, Zenon
<1>2. ASSUME ScreenInv(disp),
             [ \/ VGA_clear
               \/ \E c \in Chars :
                    /\ disp # Loader
                    /\ c = CR => MayReturn(disp)
                    /\ disp.x + 1 < Word
                    /\ disp' = VGA_display_char(disp, c) ]_disp
      PROVE  ScreenInv(disp')
  <2>1. CASE VGA_clear
    BY <2>1, FreshScreens, Zenon DEF VGA_clear
  <2>2. ASSUME NEW c \in Chars, c = CR => MayReturn(disp), disp.x + 1 < Word, disp' = VGA_display_char(disp, c)
        PROVE  ScreenInv(disp')
    BY <1>2, <2>2, DisplayKeeps, Zenon
  <2> QED
    BY <1>2, <2>1, <2>2, Zenon
<1>3. ScreenInv(disp)' <=> ScreenInv(disp')
  BY Zenon
<1> QED
  BY <1>1, <1>2, <1>3, PTL DEF VgaSpec

\* VGA_display_char never writes outside the buffer, whatever the size of the
\* screen and whatever is displayed, also when y has wrapped below zero.
THEOREM CursorStaysOnScreen == VgaSpec => []CursorOnScreen
<1>1. ScreenInv(disp) => CursorOnScreen
  <2> SUFFICES ASSUME ScreenInv(disp) PROVE CursorOnScreen
    BY Zenon
  <2>1. PICK Y \in Int : Field(disp) /\ Cursor(disp, Y)
    BY Zenon DEF ScreenInv
  <2>2. U(disp.y * width + disp.x) \in 0..len
    BY <2>1, CursorCell, Zenon DEF Cursor
  <2> QED
    BY <2>1, <2>2, Zenon DEF CursorOnScreen, Field
<1> QED
  BY <1>1, ScreenInvariant, PTL

\* The screen shows the last rows of all that was displayed, whatever mixture of
\* newlines, carriage returns and long lines made it scroll.
THEOREM ScreenShowsLastRows == VgaSpec => []ScreenShowsPaper
<1>1. ScreenInv(disp) => ScreenShowsPaper
  BY Zenon DEF ScreenInv, Shows, ScreenShowsPaper
<1> QED
  BY <1>1, ScreenInvariant, PTL

\* A newline moves below everything displayed so far, whatever the size of the
\* screen and however many rows the lines have, also those whose first row has
\* left the screen.
THEOREM NewLinesMoveBelow == VgaSpec => NewLineBelow
<1> DEFINE I == ScreenInv(disp) /\ (disp = Loader \/ Below(disp))
           N == \/ VGA_clear
                \/ \E c \in Chars :
                     /\ disp # Loader
                     /\ c = CR => MayReturn(disp)
                     /\ disp.x + 1 < Word
                     /\ disp' = VGA_display_char(disp, c)
<1>1. disp = Loader => I
  BY FreshScreens, Zenon
<1>2. I /\ [N]_disp => I'
  <2> SUFFICES ASSUME I, [N]_disp PROVE ScreenInv(disp') /\ (disp' = Loader \/ Below(disp'))
    BY Zenon
  <2>1. CASE VGA_clear
    <3>1. DOMAIN Cleared.paper = {}
      BY DEF Cleared
    <3> QED
      BY <2>1, <3>1, FreshScreens, Zenon DEF VGA_clear, Below
  <2>2. ASSUME NEW c \in Chars, disp # Loader, c = CR => MayReturn(disp), disp.x + 1 < Word,
               disp' = VGA_display_char(disp, c)
        PROVE  ScreenInv(disp') /\ Below(disp')
    BY <2>2, DisplayKeeps, Zenon
  <2> QED
    BY <2>1, <2>2, Zenon
<1>3. I /\ [N]_disp => [disp' = VGA_display_char(disp, NL) /\ ~disp.returned =>
                          \A i \in DOMAIN disp.paper : i < (disp'.scrolled + disp'.y) * width]_disp
  <2> SUFFICES ASSUME I, N, disp' = VGA_display_char(disp, NL), ~disp.returned
               PROVE  \A i \in DOMAIN disp.paper : i < (disp'.scrolled + disp'.y) * width
    BY Zenon
  <2>1. PICK t, Z : /\ t = Room(disp) /\ Z \in Int
                    /\ Field(t) /\ Shows(t) /\ Cursor(t, Z) /\ Z * width + t.x < len
                    /\ t.returned = disp.returned /\ t.paper = disp.paper /\ (Below(disp) => Below(t))
    BY RoomKeeps, Zenon
  <2>2. disp' = NewLine(t)
    BY <2>1, DisplayNewLine, Zenon
  <2>3. disp # Loader
    <3> SUFFICES ASSUME VGA_clear PROVE FALSE
      BY Zenon
    <3>1. disp'.y = 0
      <4>1. Cleared.y = 0
        BY DEF Cleared
      <4> QED
        BY <4>1, Zenon DEF VGA_clear
    <3>2. PICK R \in Nat \ {0} : disp'.y = R
      BY <2>1, <2>2, NewLineKeeps, Zenon
    <3> QED
      BY ONLY <3>1, <3>2, R \in Nat \ {0}
  <2>4. Below(t)
    BY <2>1, <2>3, Zenon
  <2> QED
    BY <2>1, <2>2, <2>4, NewLineMoves, Zenon
<1> QED
  BY <1>1, <1>2, <1>3, PTL DEF VgaSpec, NewLineBelow
=============================================================================
