---------------------------- MODULE CommonLemmas ----------------------------
(***************************************************************************)
(* Facts that the proofs of several components use: sequences, the queue   *)
(* operations of linked_list.c as operations on sequences, and remainders. *)
(***************************************************************************)
EXTENDS Integers, Sequences, Functions, TLAPS

-----------------------------------------------------------------------------
(* Sequences                                                               *)

\* A sequence is a function on its positions.
LEMMA SeqLength ==
  ASSUME NEW T, NEW s \in Seq(T)
  PROVE  Len(s) \in Nat /\ s \in [1..Len(s) -> T] /\ DOMAIN s = 1..Len(s)
OBVIOUS

\* What is in a sequence.
LEMMA SeqElement ==
  ASSUME NEW T, NEW s \in Seq(T), NEW k \in 1..Len(s)
  PROVE  s[k] \in T
OBVIOUS

\* The empty sequence is the one without length.
LEMMA SeqEmpty ==
  ASSUME NEW T
  PROVE  <<>> \in Seq(T) /\ Len(<<>>) = 0 /\ \A s \in Seq(T) : s # <<>> => Len(s) \in Nat \ {0}
OBVIOUS

\* Sequences are the same if they agree at every position.
LEMMA SeqSame ==
  ASSUME NEW T, NEW s \in Seq(T), NEW t \in Seq(T),
         Len(s) = Len(t), \A k \in 1..Len(s) : s[k] = t[k]
  PROVE  s = t
OBVIOUS

\* Where the elements are after an element was appended.
LEMMA SeqAppend ==
  ASSUME NEW T, NEW s \in Seq(T), NEW e \in T
  PROVE  /\ Append(s, e) \in Seq(T) /\ Append(s, e) # <<>> /\ Len(Append(s, e)) = Len(s) + 1
         /\ Append(s, e)[Len(s) + 1] = e /\ \A k \in 1..Len(s) : Append(s, e)[k] = s[k]
OBVIOUS

\* Where the elements are after a sequence was appended.
LEMMA SeqConcat ==
  ASSUME NEW T, NEW s \in Seq(T), NEW t \in Seq(T)
  PROVE  /\ s \o t \in Seq(T) /\ Len(s \o t) = Len(s) + Len(t)
         /\ \A k \in 1..(Len(s) + Len(t)) : (s \o t)[k] = IF k <= Len(s) THEN s[k] ELSE t[k - Len(s)]
OBVIOUS

\* Nothing is appended.
LEMMA SeqConcatEmpty ==
  ASSUME NEW T, NEW s \in Seq(T)
  PROVE  s \o <<>> = s /\ <<>> \o s = s
OBVIOUS

\* Where the elements are after the first one was taken away.
LEMMA SeqHeadTail ==
  ASSUME NEW T, NEW s \in Seq(T), s # <<>>
  PROVE  /\ Head(s) \in T /\ Head(s) = s[1] /\ Tail(s) \in Seq(T)
         /\ Len(Tail(s)) = Len(s) - 1 /\ \A k \in 1..Len(Tail(s)) : Tail(s)[k] = s[k + 1]
OBVIOUS

-----------------------------------------------------------------------------
(* Queues: LL_enqueue (Append), LL_dequeue (Head, Tail) and the transfer   *)
(* of a whole queue (\o).                                                  *)

\* Enqueueing adds one element; it keeps the queue free of repetitions if the
\* element was not on it.
LEMMA EnqueueLemma ==
  ASSUME NEW S, NEW s \in Seq(S), NEW e \in S
  PROVE  /\ Append(s, e) \in Seq(S)
         /\ Append(s, e) # <<>>
         /\ Range(Append(s, e)) = Range(s) \union {e}
         /\ IsInjective(s) /\ e \notin Range(s) => IsInjective(Append(s, e))
         /\ s # <<>> => Head(Append(s, e)) = Head(s)
         /\ s = <<>> => Head(Append(s, e)) = e
<1>1. /\ Append(s, e) \in Seq(S)
      /\ Len(Append(s, e)) = Len(s) + 1
      /\ \A i \in 1..Len(s) : Append(s, e)[i] = s[i]
      /\ Append(s, e)[Len(s) + 1] = e
  BY SeqAppend
<1>2. /\ DOMAIN s = 1..Len(s) /\ Len(s) \in Nat
      /\ DOMAIN Append(s, e) = 1..(Len(s) + 1)
  BY <1>1, SeqLength
<1>3. Range(Append(s, e)) = Range(s) \union {e}
  BY <1>1, <1>2 DEF Range
<1>4. IsInjective(s) /\ e \notin Range(s) => IsInjective(Append(s, e))
  BY <1>1, <1>2 DEF Range, IsInjective
<1>5. Append(s, e) # <<>>
  BY <1>1, <1>2, SeqEmpty
<1>6. s # <<>> => Head(Append(s, e)) = Head(s)
  BY <1>1, <1>2, <1>5, SeqEmpty, SeqHeadTail
<1>7. s = <<>> => Head(Append(s, e)) = e
  BY <1>1, <1>2, <1>5, SeqEmpty, SeqHeadTail
<1> QED
  BY <1>1, <1>3, <1>4, <1>5, <1>6, <1>7

\* Dequeueing removes exactly the head from a queue without repetitions.
LEMMA DequeueLemma ==
  ASSUME NEW S, NEW s \in Seq(S), s # <<>>
  PROVE  /\ Head(s) \in S /\ Tail(s) \in Seq(S)
         /\ Head(s) \in Range(s)
         /\ Range(s) = Range(Tail(s)) \union {Head(s)}
         /\ IsInjective(s) => IsInjective(Tail(s)) /\ Head(s) \notin Range(Tail(s))
<1>1. /\ Head(s) \in S /\ Tail(s) \in Seq(S)
      /\ Head(s) = s[1]
      /\ Len(Tail(s)) = Len(s) - 1
      /\ \A i \in 1..Len(Tail(s)) : Tail(s)[i] = s[i + 1]
  BY SeqHeadTail
<1>2. /\ DOMAIN s = 1..Len(s) /\ Len(s) \in Nat /\ Len(s) >= 1
      /\ DOMAIN Tail(s) = 1..(Len(s) - 1)
  BY <1>1, SeqLength, SeqEmpty
<1>3. Head(s) \in Range(s)
  BY <1>1, <1>2 DEF Range
<1>4. Range(s) \subseteq Range(Tail(s)) \union {Head(s)}
  <2> SUFFICES ASSUME NEW i \in 1..Len(s), i # 1 PROVE s[i] \in Range(Tail(s))
    BY <1>1, <1>2 DEF Range
  <2>1. i - 1 \in 1..Len(Tail(s)) /\ Tail(s)[i - 1] = s[i]
    BY <1>1, <1>2
  <2> QED
    BY <1>1, <1>2, <2>1, ZenonT(60) DEF Range
<1>5. Range(Tail(s)) \subseteq Range(s)
  BY <1>1, <1>2 DEF Range
<1>6. IsInjective(s) => IsInjective(Tail(s)) /\ Head(s) \notin Range(Tail(s))
  BY <1>1, <1>2 DEF Range, IsInjective
<1> QED
  BY <1>1, <1>3, <1>4, <1>5, <1>6

\* Moving a whole queue behind another one.
LEMMA TransferLemma ==
  ASSUME NEW S, NEW s \in Seq(S), NEW t \in Seq(S)
  PROVE  /\ s \o t \in Seq(S)
         /\ Range(s \o t) = Range(s) \union Range(t)
         /\ IsInjective(s) /\ IsInjective(t) /\ Range(s) \intersect Range(t) = {}
              => IsInjective(s \o t)
<1>1. /\ s \o t \in Seq(S)
      /\ Len(s \o t) = Len(s) + Len(t)
      /\ \A i \in 1..(Len(s) + Len(t)) :
           (s \o t)[i] = IF i <= Len(s) THEN s[i] ELSE t[i - Len(s)]
  BY SeqConcat
<1>2. /\ DOMAIN s = 1..Len(s) /\ Len(s) \in Nat
      /\ DOMAIN t = 1..Len(t) /\ Len(t) \in Nat
      /\ DOMAIN (s \o t) = 1..(Len(s) + Len(t))
  BY <1>1, SeqLength
<1>3. Range(s \o t) \subseteq Range(s) \union Range(t)
  BY <1>1, <1>2 DEF Range
<1>4. Range(s) \subseteq Range(s \o t)
  BY <1>1, <1>2 DEF Range
<1>5. Range(t) \subseteq Range(s \o t)
  <2> SUFFICES ASSUME NEW i \in 1..Len(t) PROVE t[i] \in Range(s \o t)
    BY <1>2 DEF Range
  <2>1. i + Len(s) \in 1..(Len(s) + Len(t)) /\ (s \o t)[i + Len(s)] = t[i]
    BY <1>1, <1>2
  <2> QED
    BY <1>2, <2>1 DEF Range
<1>6. ASSUME IsInjective(s), IsInjective(t), Range(s) \intersect Range(t) = {}
      PROVE  IsInjective(s \o t)
  <2> SUFFICES ASSUME NEW i \in 1..(Len(s) + Len(t)), NEW j \in 1..(Len(s) + Len(t)),
                      (s \o t)[i] = (s \o t)[j]
               PROVE  i = j
    BY <1>2 DEF IsInjective
  <2>1. CASE i <= Len(s) /\ j <= Len(s)
    BY <1>1, <1>2, <1>6, <2>1 DEF IsInjective
  <2>2. CASE i > Len(s) /\ j > Len(s)
    <3>1. i - Len(s) \in 1..Len(t) /\ j - Len(s) \in 1..Len(t)
      BY <1>2, <2>2
    <3>2. t[i - Len(s)] = t[j - Len(s)]
      BY <1>1, <1>2, <2>2
    <3> QED
      BY <1>2, <1>6, <3>1, <3>2 DEF IsInjective
  <2>3. CASE i <= Len(s) /\ j > Len(s)
    <3>1. j - Len(s) \in 1..Len(t) /\ (s \o t)[j] = t[j - Len(s)] /\ (s \o t)[i] = s[i]
      BY <1>1, <1>2, <2>3
    <3>2. (s \o t)[i] \in Range(s) /\ (s \o t)[j] \in Range(t)
      BY <1>2, <2>3, <3>1 DEF Range
    <3> QED
      BY <1>6, <3>2
  <2>4. CASE i > Len(s) /\ j <= Len(s)
    <3>1. i - Len(s) \in 1..Len(t) /\ (s \o t)[i] = t[i - Len(s)] /\ (s \o t)[j] = s[j]
      BY <1>1, <1>2, <2>4
    <3>2. j \in DOMAIN s /\ i - Len(s) \in DOMAIN t
      BY <1>2, <2>4, <3>1
    <3>3. (s \o t)[j] \in Range(s) /\ (s \o t)[i] \in Range(t)
      BY <3>1, <3>2, ZenonT(60) DEF Range
    <3> QED
      BY <1>6, <3>3
  <2> QED
    BY <1>2, <2>1, <2>2, <2>3, <2>4
<1> QED
  BY <1>1, <1>3, <1>4, <1>5, <1>6

\* The empty queue holds nothing.
LEMMA EmptyQueueLemma ==
  /\ Range(<<>>) = {} /\ IsInjective(<<>>)
  /\ \A S : \A s \in Seq(S) : Range(s) \subseteq S
<1>1. Range(<<>>) = {} /\ IsInjective(<<>>)
  BY DEF Range, IsInjective
<1>2. \A S : \A s \in Seq(S) : Range(s) \subseteq S
  BY SeqLength, SeqElement DEF Range
<1> QED
  BY <1>1, <1>2

-----------------------------------------------------------------------------
(* Remainders, for a divisor that is a constant of the model               *)

\* Quotient and remainder of a division.
LEMMA DivMod ==
  ASSUME NEW n \in Nat \ {0}, NEW a \in Int
  PROVE  /\ a \div n \in Int /\ a % n \in 0..(n - 1)
         /\ a = n * (a \div n) + (a % n)
OBVIOUS

\* Only one multiple of n lies between -n and n.
LEMMA Multiples ==
  ASSUME NEW n \in Nat \ {0}, NEW k \in Int, -n < n * k, n * k < n
  PROVE  k = 0
<1>1. CASE k >= 1
  <2>1. n * k >= n
    BY <1>1
  <2> QED
    BY <2>1
<1>2. CASE k <= -1
  <2>1. n * k <= -n
    BY <1>2
  <2> QED
    BY <2>1
<1> QED
  BY <1>1, <1>2

\* Multiplication distributes.
LEMMA Distribute ==
  ASSUME NEW n \in Int, NEW k \in Int, NEW l \in Int
  PROVE  n * k \in Int /\ n * (k - l) = n * k - n * l /\ n * (k + l) = n * k + n * l
OBVIOUS

\* Quotient and remainder are unique.
LEMMA ModUnique ==
  ASSUME NEW n \in Nat \ {0}, NEW q \in Int, NEW r \in 0..(n - 1), NEW a \in Int,
         a = n * q + r
  PROVE  a % n = r
<1>1. PICK e \in Int, s \in 0..(n - 1) : a % n = s /\ a = n * e + s
  BY DivMod
<1>2. PICK d \in Int : d = e - q
  OBVIOUS
<1>3. n * d = n * e - n * q /\ n * e \in Int /\ n * q \in Int /\ n * d \in Int
  BY ONLY n \in Nat, <1>2, Distribute, e \in Int, q \in Int
<1>4. n * d = r - s
  BY ONLY <1>1, <1>3, a = n * q + r, r \in 0..(n - 1), s \in 0..(n - 1), n \in Nat
<1>5. -n < n * d /\ n * d < n
  BY ONLY <1>3, <1>4, r \in 0..(n - 1), s \in 0..(n - 1), n \in Nat
<1>6. d = 0
  BY ONLY <1>5, n \in Nat \ {0}, d \in Int, Multiples
<1>7. n * d = 0
  BY ONLY <1>6, n \in Nat
<1> QED
  BY ONLY <1>1, <1>4, <1>7, r \in 0..(n - 1), s \in 0..(n - 1), n \in Nat

\* A remainder may be taken before or after an addition.
LEMMA ModAdd ==
  ASSUME NEW n \in Nat \ {0}, NEW a \in Int, NEW b \in Int
  PROVE  ((a % n) + b) % n = (a + b) % n
<1>1. PICK q \in Int, r \in 0..(n - 1) : a % n = r /\ a = n * q + r
  BY DivMod
<1>2. PICK c \in Int : c = r + b
  OBVIOUS
<1>3. PICK p \in Int, s \in 0..(n - 1) : c % n = s /\ c = n * p + s
  BY DivMod
<1>4. PICK d \in Int, e \in Int : d = a + b /\ e = q + p
  OBVIOUS
<1>5. n * e = n * q + n * p /\ n * q \in Int /\ n * p \in Int
  BY ONLY <1>4, Distribute, n \in Nat, q \in Int, p \in Int
<1>6. d = n * e + s
  BY ONLY <1>1, <1>2, <1>3, <1>4, <1>5, r \in 0..(n - 1), s \in 0..(n - 1), n \in Nat, b \in Int
<1>7. d % n = s
  BY ONLY <1>6, ModUnique, n \in Nat \ {0}, e \in Int, s \in 0..(n - 1), d \in Int
<1> QED
  BY ONLY <1>1, <1>2, <1>3, <1>4, <1>7

\* Numbers less than n apart: their distance can be read off the remainders.
LEMMA ModDistance ==
  ASSUME NEW n \in Nat \ {0}, NEW a \in Int, NEW b \in Int, b - a \in 0..(n - 1)
  PROVE  ((b % n) - (a % n)) % n = b - a
<1>1. PICK q \in Int, r \in 0..(n - 1) : a % n = r /\ a = n * q + r
  BY DivMod
<1>2. PICK m \in Int, c \in Int, d \in 0..(n - 1) : m = -r /\ c = b - r /\ d = b - a
  OBVIOUS
<1>3. ((b % n) + m) % n = (b + m) % n
  BY ONLY ModAdd, n \in Nat \ {0}, b \in Int, m \in Int
<1>4. c = n * q + d /\ b + m = c
  BY ONLY <1>1, <1>2, Distribute, n \in Nat, q \in Int, r \in 0..(n - 1), b \in Int, a \in Int
<1>5. c % n = d
  BY ONLY <1>4, ModUnique, d \in 0..(n - 1), n \in Nat \ {0}, q \in Int, c \in Int
<1>6. b % n \in Int
  BY DivMod
<1>7. (b % n) + m = (b % n) - (a % n)
  BY ONLY <1>1, <1>2, <1>6, r \in 0..(n - 1), n \in Nat
<1> QED
  BY ONLY <1>2, <1>3, <1>4, <1>5, <1>7

\* They have different remainders.
LEMMA ModApart ==
  ASSUME NEW n \in Nat \ {0}, NEW a \in Int, NEW b \in Int, b - a \in 1..(n - 1)
  PROVE  a % n # b % n
<1>0. b - a \in 0..(n - 1)
  OBVIOUS
<1>1. ((b % n) - (a % n)) % n = b - a
  BY ONLY <1>0, ModDistance, n \in Nat \ {0}, a \in Int, b \in Int
<1>2. SUFFICES ASSUME a % n = b % n PROVE FALSE
  OBVIOUS
<1>3. (b % n) - (a % n) = 0
  BY <1>2, DivMod
<1>4. 0 % n = 0
  BY ModUnique
<1> QED
  BY ONLY <1>1, <1>3, <1>4, b - a \in 1..(n - 1), n \in Nat

=============================================================================
