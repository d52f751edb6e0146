---------------------------- MODULE DiskProofs -----------------------------
(***************************************************************************)
(* Proofs about the lists of list.c and the disk driver and file system    *)
(* that live on them.                                                      *)
(***************************************************************************)
EXTENDS Files, CommonLemmas

\* What a link may hold, and a memory of headers.
Link(H) == H \union {NULL}
Memory(H) == [H -> [next : Link(H), prev : Link(H)]]

\* h and s are the headers of one list, each there once.
Distinct(h, s) ==
  \A j, k \in 0..Len(s) : At(h, s, j) = At(h, s, k) => j = k

\* The elements without the j-th.
Without(s, j) == [k \in 1..(Len(s) - 1) |-> IF k < j THEN s[k] ELSE s[k + 1]]

\* N is the memory L after n has been linked in between p and q ...
Added(H, L, N, n, p, q) ==
  \A x \in H : /\ N[x].next = IF x = p THEN n ELSE IF x = n THEN q ELSE L[x].next
               /\ N[x].prev = IF x = q THEN n ELSE IF x = n THEN p ELSE L[x].prev

\* ... and after n, between p and q, has been taken out.
Deleted(H, L, N, n, p, q) ==
  \A x \in H : /\ N[x].next = IF x = n THEN NULL ELSE IF x = p THEN L[n].next ELSE L[x].next
               /\ N[x].prev = IF x = n THEN NULL ELSE IF x = q THEN L[n].prev ELSE L[x].prev
-----------------------------------------------------------------------------
\* What one store to a next link leaves in memory.
LEMMA SetNextLinks ==
  ASSUME NEW H, NEW L \in Memory(H), NEW a \in H, NEW t \in Link(H)
  PROVE  /\ SetNext(L, a, t) \in Memory(H)
         /\ \A x \in H : /\ SetNext(L, a, t)[x].next = IF x = a THEN t ELSE L[x].next
                         /\ SetNext(L, a, t)[x].prev = L[x].prev
BY Zenon DEF SetNext, Memory

\* What one store to a prev link leaves in memory.
LEMMA SetPrevLinks ==
  ASSUME NEW H, NEW L \in Memory(H), NEW a \in H, NEW t \in Link(H)
  PROVE  /\ SetPrev(L, a, t) \in Memory(H)
         /\ \A x \in H : /\ SetPrev(L, a, t)[x].prev = IF x = a THEN t ELSE L[x].prev
                         /\ SetPrev(L, a, t)[x].next = L[x].next
BY Zenon DEF SetPrev, Memory

\* What the four stores of ll_add leave in memory.
LEMMA AddLinks ==
  ASSUME NEW H, NEW L \in Memory(H), NEW n \in H, NEW p \in H, NEW q \in H, n # p, n # q
  PROVE  Added(H, L, ll_add(L, n, p, q), n, p, q)
<1> DEFINE L1 == SetNext(L, n, q)
           L2 == SetPrev(L1, n, p)
           L3 == SetNext(L2, p, n)
           L4 == SetPrev(L3, q, n)
<1>0. n \in Link(H) /\ p \in Link(H) /\ q \in Link(H)
  BY Zenon DEF Link
<1>1. L1 \in Memory(H) /\ \A x \in H : /\ L1[x].next = IF x = n THEN q ELSE L[x].next
                                       /\ L1[x].prev = L[x].prev
  BY <1>0, SetNextLinks
<1>2. L2 \in Memory(H) /\ \A x \in H : /\ L2[x].prev = IF x = n THEN p ELSE L1[x].prev
                                       /\ L2[x].next = L1[x].next
  <2> HIDE DEF L1
  <2> QED BY <1>0, <1>1, SetPrevLinks
<1>3. L3 \in Memory(H) /\ \A x \in H : /\ L3[x].next = IF x = p THEN n ELSE L2[x].next
                                       /\ L3[x].prev = L2[x].prev
  <2> HIDE DEF L2
  <2> QED BY <1>0, <1>2, SetNextLinks
<1>4. L4 \in Memory(H) /\ \A x \in H : /\ L4[x].prev = IF x = q THEN n ELSE L3[x].prev
                                       /\ L4[x].next = L3[x].next
  <2> HIDE DEF L3
  <2> QED BY <1>0, <1>3, SetPrevLinks
<1>5. ll_add(L, n, p, q) = L4
  BY Zenon DEF ll_add
<1> HIDE DEF L1, L2, L3, L4
<1> QED BY <1>1, <1>2, <1>3, <1>4, <1>5 DEF Added

\* What the four stores of ll_del leave in memory.
LEMMA DelLinks ==
  ASSUME NEW H, NEW L \in Memory(H), NEW n \in H, NEW p \in H, NEW q \in H, n # p, n # q
  PROVE  Deleted(H, L, ll_del(L, n, p, q), n, p, q)
<1> DEFINE L1 == SetNext(L, p, L[n].next)
           L2 == SetPrev(L1, q, L1[n].prev)
           L3 == SetNext(L2, n, NULL)
           L4 == SetPrev(L3, n, NULL)
<1>0. L[n].next \in Link(H) /\ L[n].prev \in Link(H) /\ NULL \in Link(H)
  BY Zenon DEF Memory, Link
<1>1. L1 \in Memory(H) /\ \A x \in H : /\ L1[x].next = IF x = p THEN L[n].next ELSE L[x].next
                                       /\ L1[x].prev = L[x].prev
  <2> DEFINE t == L[n].next
  <2>1. t \in Link(H)
    BY <1>0, Zenon
  <2> HIDE DEF t
  <2>2. /\ SetNext(L, p, t) \in Memory(H)
        /\ \A x \in H : /\ SetNext(L, p, t)[x].next = IF x = p THEN t ELSE L[x].next
                        /\ SetNext(L, p, t)[x].prev = L[x].prev
    BY <2>1, SetNextLinks
  <2> QED BY <2>2, Zenon DEF t
<1>2. L2 \in Memory(H) /\ \A x \in H : /\ L2[x].prev = IF x = q THEN L[n].prev ELSE L1[x].prev
                                       /\ L2[x].next = L1[x].next
  <2>1. L1[n].prev = L[n].prev
    BY <1>1, Zenon
  <2> HIDE DEF L1
  <2> QED BY <1>0, <1>1, <2>1, SetPrevLinks
<1>3. L3 \in Memory(H) /\ \A x \in H : /\ L3[x].next = IF x = n THEN NULL ELSE L2[x].next
                                       /\ L3[x].prev = L2[x].prev
  <2> HIDE DEF L2
  <2> QED BY <1>0, <1>2, SetNextLinks
<1>4. L4 \in Memory(H) /\ \A x \in H : /\ L4[x].prev = IF x = n THEN NULL ELSE L3[x].prev
                                       /\ L4[x].next = L3[x].next
  <2> HIDE DEF L3
  <2> QED BY <1>0, <1>3, SetPrevLinks
<1>5. ll_del(L, n, p, q) = L4
  BY Zenon DEF ll_del
<1> HIDE DEF L1, L2, L3, L4
<1> QED BY <1>1, <1>2, <1>3, <1>4, <1>5 DEF Deleted

\* The headers of a list are in memory.
LEMMA AtType ==
  ASSUME NEW H, NEW h \in H, NEW s \in Seq(H), NEW k \in Nat
  PROVE  At(h, s, k) \in H
BY DEF At
-----------------------------------------------------------------------------
\* LL_append makes list h, with the elements s, the list with n behind them.
THEOREM AppendKeepsRing ==
  ASSUME NEW H, NEW L \in Memory(H), NEW h \in H, NEW s \in Seq(H), NEW n \in H,
         Distinct(h, s), \A k \in 0..Len(s) : At(h, s, k) # n,
         Ring(L, h, s)
  PROVE  Ring(LL_append(L, h, n), h, Append(s, n))
<1> DEFINE m == Len(s)
           t == Append(s, n)
           last == L[h].prev
           N == ll_add(L, n, last, h)
<1>1. m \in Nat /\ Len(t) = m + 1
  OBVIOUS
<1>2. last = At(h, s, m) /\ last \in H /\ h = At(h, s, 0) /\ h = At(h, s, m + 1)
  BY <1>1, AtType DEF Ring, At
<1>3. n # last /\ n # h
  BY <1>1, <1>2
<1>4. \A x \in H : /\ N[x].next = IF x = last THEN n ELSE IF x = n THEN h ELSE L[x].next
                   /\ N[x].prev = IF x = h THEN n ELSE IF x = n THEN last ELSE L[x].prev
  <2>1. Added(H, L, N, n, last, h)
    BY <1>2, <1>3, AddLinks, Zenon
  <2> HIDE DEF N, last
  <2> QED BY <2>1, Zenon DEF Added
<1>5. \A k \in 0..m : At(h, t, k) = At(h, s, k) /\ At(h, s, k) \in H
  BY <1>1, AtType DEF At
<1>6. At(h, t, m + 1) = n /\ At(h, t, m + 2) = h
  BY <1>1 DEF At
<1>7. LL_append(L, h, n) = N
  BY Zenon DEF LL_append, LL_add_prev
<1> HIDE DEF N, t, last
<1>8. ASSUME NEW k \in 0..(m + 1)
      PROVE  N[At(h, t, k)].next = At(h, t, k + 1) /\ N[At(h, t, k + 1)].prev = At(h, t, k)
  <2>1. CASE k < m
    <3>1. k \in 0..m /\ k + 1 \in 0..m /\ k # m /\ k + 1 # 0 /\ m \in 0..m /\ 0 \in 0..m
      BY <1>1, <2>1
    <3>2. At(h, s, k) # last /\ At(h, s, k) # n /\ At(h, s, k + 1) # h /\ At(h, s, k + 1) # n
      BY <1>2, <3>1, Zenon DEF Distinct
    <3>3. L[At(h, s, k)].next = At(h, s, k + 1) /\ L[At(h, s, k + 1)].prev = At(h, s, k)
      BY <3>1, Zenon DEF Ring
    <3> QED BY <1>4, <1>5, <3>1, <3>2, <3>3, Zenon
  <2>2. CASE k = m
    BY <1>1, <1>2, <1>3, <1>4, <1>5, <1>6, <2>2
  <2>3. CASE k = m + 1
    BY <1>1, <1>2, <1>3, <1>4, <1>6, <2>3
  <2> QED BY <1>1, <2>1, <2>2, <2>3
<1> QED BY <1>1, <1>7, <1>8, Zenon DEF Ring, t

\* LL_del takes the j-th element out of list h and leaves the others.
THEOREM DelKeepsRing ==
  ASSUME NEW H, NEW L \in Memory(H), NEW h \in H, NEW s \in Seq(H), NEW j \in 1..Len(s),
         Distinct(h, s), Ring(L, h, s)
  PROVE  Ring(LL_del(L, s[j]), h, Without(s, j))
<1> DEFINE m == Len(s)
           u == Without(s, j)
           d == s[j]
           p == At(h, s, j - 1)
           q == At(h, s, j + 1)
           N == ll_del(L, d, p, q)
<1>1. m \in Nat /\ j \in Nat /\ j >= 1 /\ j <= m /\ Len(u) = m - 1
  BY DEF Without
<1>2. d = At(h, s, j) /\ d \in H /\ p \in H /\ q \in H
  BY <1>1, AtType DEF At
<1>3. L[d].next = q /\ L[d].prev = p
  BY <1>1, <1>2 DEF Ring
<1>4. d # p /\ d # q
  <2>1. d # p
    BY <1>1, <1>2 DEF Distinct
  <2>2. CASE j = m
    BY <1>1, <1>2, <2>2 DEF Distinct, At
  <2>3. CASE j < m
    BY <1>1, <1>2, <2>3 DEF Distinct
  <2> QED BY <1>1, <2>1, <2>2, <2>3
<1>5. \A x \in H : /\ N[x].next = IF x = d THEN NULL ELSE IF x = p THEN q ELSE L[x].next
                   /\ N[x].prev = IF x = d THEN NULL ELSE IF x = q THEN p ELSE L[x].prev
  <2> HIDE DEF p, q, d
  <2>1. Deleted(H, L, N, d, p, q)
    BY <1>2, <1>4, DelLinks, Zenon
  <2> HIDE DEF N
  <2> QED BY <1>3, <2>1, Zenon DEF Deleted
<1>6. \A k \in 0..m : At(h, u, k) = IF k < j THEN At(h, s, k) ELSE At(h, s, k + 1)
  BY <1>1 DEF At, Without
<1>7. LL_del(L, s[j]) = N
  BY <1>3, Zenon DEF LL_del
<1>8. p = At(h, s, j - 1) /\ q = At(h, s, j + 1)
  BY Zenon
<1> HIDE DEF N, u, p, q, d
<1>9. ASSUME NEW k \in 0..(m - 1)
      PROVE  N[At(h, u, k)].next = At(h, u, k + 1) /\ N[At(h, u, k + 1)].prev = At(h, u, k)
  <2>1. CASE k < j - 1
    <3>1. /\ k \in 0..m /\ k + 1 \in 0..m /\ j \in 0..m /\ j - 1 \in 0..m
          /\ k # j /\ k # j - 1 /\ k + 1 # j /\ k + 1 # 0 /\ k + 1 # j + 1 /\ k < j /\ k + 1 < j
      BY <1>1, <2>1
    <3>2. At(h, u, k) = At(h, s, k) /\ At(h, u, k + 1) = At(h, s, k + 1)
      BY <1>6, <3>1, Zenon
    <3>3. At(h, s, k) # d /\ At(h, s, k) # p /\ At(h, s, k + 1) # d
      BY <1>2, <1>8, <3>1, Zenon DEF Distinct
    <3>4. At(h, s, k + 1) # q
      BY <1>1, <1>8, <3>1 DEF Distinct, At
    <3>5. L[At(h, s, k)].next = At(h, s, k + 1) /\ L[At(h, s, k + 1)].prev = At(h, s, k)
      BY <3>1, Zenon DEF Ring
    <3>6. At(h, s, k) \in H /\ At(h, s, k + 1) \in H
      BY <3>1, AtType
    <3> QED BY <1>5, <3>2, <3>3, <3>4, <3>5, <3>6, Zenon
  <2>2. CASE k = j - 1
    <3>1. At(h, u, k) = p /\ At(h, u, k + 1) = q
      BY <1>1, <1>6, <1>8, <2>2
    <3> QED BY <1>2, <1>4, <1>5, <3>1, Zenon
  <2>3. CASE k >= j
    <3>1. /\ k + 1 \in 0..m /\ j \in 0..m /\ j - 1 \in 0..m /\ j + 1 \in 0..m
          /\ k + 1 # j /\ k + 1 # j - 1 /\ ~(k < j) /\ ~(k + 1 < j) /\ k \in 0..m
          /\ (k + 1) + 1 = k + 2 /\ k + 2 \in Nat
      BY <1>1, <2>3
    <3>2. At(h, u, k) = At(h, s, k + 1) /\ At(h, u, k + 1) = At(h, s, k + 2)
      BY <1>6, <3>1, Zenon
    <3>3. At(h, s, k + 1) # d /\ At(h, s, k + 1) # p
      BY <1>2, <1>8, <3>1, Zenon DEF Distinct
    <3>4. At(h, s, k + 2) # d /\ At(h, s, k + 2) # q
      <4>1. CASE k + 2 <= m
        <5>1. k + 2 \in 0..m /\ k + 2 # j /\ k + 2 # j + 1
          BY <1>1, <2>3, <4>1
        <5> QED BY <1>2, <1>8, <3>1, <5>1, Zenon DEF Distinct
      <4>2. CASE k + 2 = m + 1
        <5>1. At(h, s, k + 2) = At(h, s, 0) /\ 0 \in 0..m /\ 0 # j /\ 0 # j + 1
          BY <1>1, <4>2 DEF At
        <5> QED BY <1>2, <1>8, <3>1, <5>1, Zenon DEF Distinct
      <4> QED BY <1>1, <4>1, <4>2
    <3>5. L[At(h, s, k + 1)].next = At(h, s, k + 2) /\ L[At(h, s, k + 2)].prev = At(h, s, k + 1)
      BY <3>1, Zenon DEF Ring
    <3>6. At(h, s, k + 1) \in H /\ At(h, s, k + 2) \in H
      BY <3>1, AtType
    <3> QED BY <1>5, <3>2, <3>3, <3>4, <3>5, <3>6, Zenon
  <2> QED BY <1>1, <2>1, <2>2, <2>3
<1> QED BY <1>1, <1>7, <1>9, Zenon DEF Ring, u

\* LL_dequeue takes the first element off list h.
THEOREM DequeueKeepsRing ==
  ASSUME NEW H, NEW L \in Memory(H), NEW h \in H, NEW s \in Seq(H),
         Distinct(h, s), Ring(L, h, s), s # <<>>
  PROVE  LL_head(L, h) = Head(s) /\ Ring(LL_dequeue(L, h), h, Tail(s))
<1>1. Len(s) \in Nat /\ Len(s) >= 1 /\ 1 \in 1..Len(s) /\ Head(s) = s[1]
  OBVIOUS
<1>2. L[h].next = s[1]
  <2>1. At(h, s, 0) = h /\ At(h, s, 0 + 1) = s[1] /\ 0 \in 0..Len(s)
    BY <1>1 DEF At
  <2> QED BY <2>1, Zenon DEF Ring
<1>3. s[1] # h
  <2>1. At(h, s, 0) = h /\ At(h, s, 1) = s[1] /\ 0 \in 0..Len(s) /\ 1 \in 0..Len(s)
    BY <1>1 DEF At
  <2> QED BY <2>1 DEF Distinct
<1>4. Tail(s) = Without(s, 1)
  <2> DEFINE w == Without(s, 1)
  <2>1. Tail(s) \in Seq(H) /\ Len(Tail(s)) = Len(s) - 1
    OBVIOUS
  <2>2. w \in Seq(H) /\ Len(w) = Len(s) - 1
    BY <1>1 DEF Without
  <2>3. \A k \in 1..(Len(s) - 1) : Tail(s)[k] = w[k]
    BY <1>1 DEF Without
  <2> HIDE DEF w
  <2>4. Tail(s) = w
    BY <1>1, <2>1, <2>2, <2>3, SeqSame, Zenon
  <2> QED BY <2>4, Zenon DEF w
<1>5. Ring(LL_del(L, s[1]), h, Without(s, 1))
  BY <1>1, DelKeepsRing, Zenon
<1> QED BY <1>1, <1>2, <1>3, <1>4, <1>5, Zenon DEF LL_head, LL_dequeue, LL_empty

\* A list that shares no header with list h is left alone by LL_append and
\* LL_del on h.
THEOREM OtherListsKept ==
  ASSUME NEW H, NEW L \in Memory(H), NEW h \in H, NEW s \in Seq(H),
         Distinct(h, s), Ring(L, h, s),
         NEW g \in H, NEW r \in Seq(H), Ring(L, g, r),
         \A j \in 0..Len(s), k \in 0..Len(r) : At(h, s, j) # At(g, r, k)
  PROVE  /\ \A n \in H : (\A k \in 0..Len(s) : At(h, s, k) # n)
                            /\ (\A k \in 0..Len(r) : At(g, r, k) # n)
                          => Ring(LL_append(L, h, n), g, r)
         /\ \A j \in 1..Len(s) : Ring(LL_del(L, s[j]), g, r)
<1>1. Len(s) \in Nat /\ Len(r) \in Nat
  OBVIOUS
<1>2. \A k \in 0..Len(r) : At(g, r, k) \in H /\ At(g, r, k + 1) \in H
  BY <1>1, AtType
<1>3. \A k \in 0..Len(r) : \E i \in 0..Len(r) : At(g, r, k + 1) = At(g, r, i)
  <2> SUFFICES ASSUME NEW k \in 0..Len(r) PROVE \E i \in 0..Len(r) : At(g, r, k + 1) = At(g, r, i)
    BY Zenon
  <2>1. CASE k < Len(r)
    BY <1>1, <2>1
  <2>2. CASE k = Len(r)
    <3>1. At(g, r, k + 1) = At(g, r, 0) /\ 0 \in 0..Len(r)
      BY <1>1, <2>2 DEF At
    <3> QED BY <3>1, Zenon
  <2> QED BY <1>1, <2>1, <2>2
<1>4. \A k \in 0..Len(r) : \A j \in 0..Len(s) : At(h, s, j) # At(g, r, k + 1)
  BY <1>3, Zenon
<1>5. ASSUME NEW n \in H, \A k \in 0..Len(s) : At(h, s, k) # n,
             \A k \in 0..Len(r) : At(g, r, k) # n
      PROVE  Ring(LL_append(L, h, n), g, r)
  <2> DEFINE last == L[h].prev
             N == ll_add(L, n, last, h)
  <2>1. last = At(h, s, Len(s)) /\ last \in H /\ h = At(h, s, 0)
    BY <1>1, AtType, SMTT(30) DEF Ring, At
  <2>2. n # last /\ n # h
    BY <1>1, <1>5, <2>1
  <2>3. \A x \in H : /\ N[x].next = IF x = last THEN n ELSE IF x = n THEN h ELSE L[x].next
                     /\ N[x].prev = IF x = h THEN n ELSE IF x = n THEN last ELSE L[x].prev
    <3>1. Added(H, L, N, n, last, h)
      BY <2>1, <2>2, AddLinks, Zenon
    <3> HIDE DEF N, last
    <3> QED BY <3>1, Zenon DEF Added
  <2>4. LL_append(L, h, n) = N
    BY Zenon DEF LL_append, LL_add_prev
  <2> HIDE DEF N, last
  <2>5. ASSUME NEW k \in 0..Len(r)
        PROVE  N[At(g, r, k)].next = At(g, r, k + 1) /\ N[At(g, r, k + 1)].prev = At(g, r, k)
    <3>1. At(g, r, k) # last /\ At(g, r, k) # n
      BY <1>1, <1>5, <2>1
    <3>2. At(g, r, k + 1) # h /\ At(g, r, k + 1) # n
      BY <1>1, <1>3, <1>4, <1>5, <2>1
    <3>3. L[At(g, r, k)].next = At(g, r, k + 1) /\ L[At(g, r, k + 1)].prev = At(g, r, k)
      BY Zenon DEF Ring
    <3> QED BY <1>2, <2>3, <3>1, <3>2, <3>3, Zenon
  <2> QED BY <2>4, <2>5, Zenon DEF Ring
<1>6. ASSUME NEW j \in 1..Len(s)
      PROVE  Ring(LL_del(L, s[j]), g, r)
  <2> DEFINE d == s[j]
             p == L[d].prev
             q == L[d].next
             N == ll_del(L, d, p, q)
  <2>1. j \in Nat /\ j \in 0..Len(s) /\ j - 1 \in 0..Len(s) /\ d = At(h, s, j) /\ d \in H
    BY <1>1 DEF At
  <2>2. p = At(h, s, j - 1) /\ q = At(h, s, j + 1)
    BY <2>1 DEF Ring
  <2>3. \E i \in 0..Len(s) : i # j /\ q = At(h, s, i)
    <3>1. CASE j < Len(s)
      BY <1>1, <2>2, <3>1
    <3>2. CASE j = Len(s)
      <4>1. q = At(h, s, 0) /\ 0 \in 0..Len(s) /\ 0 # j
        BY <1>1, <2>2, <3>2 DEF At
      <4> QED BY <4>1, Zenon
    <3> QED BY <1>1, <3>1, <3>2
  <2>4. p \in H /\ q \in H /\ d # p /\ d # q
    <3>1. p \in H /\ q \in H
      BY <2>1, <2>2, AtType
    <3>2. d # p /\ d # q
      BY <2>1, <2>2, <2>3 DEF Distinct
    <3> QED BY <3>1, <3>2, Zenon
  <2>5. Deleted(H, L, N, d, p, q)
    <3> HIDE DEF d, p, q
    <3> QED BY <2>1, <2>4, DelLinks, Zenon
  <2>6. LL_del(L, s[j]) = N
    BY Zenon DEF LL_del
  <2> HIDE DEF N, d, p, q
  <2>7. ASSUME NEW k \in 0..Len(r)
        PROVE  N[At(g, r, k)].next = At(g, r, k + 1) /\ N[At(g, r, k + 1)].prev = At(g, r, k)
    <3>1. At(g, r, k) # d /\ At(g, r, k) # p
      BY <2>1, <2>2, Zenon
    <3>2. At(g, r, k + 1) # d /\ At(g, r, k + 1) # q
      BY <1>4, <2>1, <2>3, Zenon
    <3>3. L[At(g, r, k)].next = At(g, r, k + 1) /\ L[At(g, r, k + 1)].prev = At(g, r, k)
      BY Zenon DEF Ring
    <3> QED BY <1>2, <2>5, <3>1, <3>2, <3>3, Zenon DEF Deleted
  <2> QED BY <2>6, <2>7, Zenon DEF Ring
<1> QED BY <1>5, <1>6, Zenon
-----------------------------------------------------------------------------
\* The links forward lead from h through s and back.
Chain(L, h, s) == \A k \in 0..Len(s) : L[At(h, s, k)].next = At(h, s, k + 1)

-----------------------------------------------------------------------------
(* What an operation on a list leaves alone                                *)

\* Header x is not of the list h with the elements s.
Off(h, s, x) == \A k \in 0..Len(s) : At(h, s, k) # x

\* A list stays as it is if none of its headers is written to.
LEMMA RingSame ==
  ASSUME NEW H, NEW L, NEW N, NEW h, NEW s \in Seq(H), Ring(L, h, s),
         \A k \in 0..Len(s) : N[At(h, s, k)] = L[At(h, s, k)]
  PROVE  Ring(N, h, s)
<1>1. Len(s) \in Nat
  OBVIOUS
<1>2. ASSUME NEW k \in 0..Len(s)
      PROVE  N[At(h, s, k)].next = At(h, s, k + 1) /\ N[At(h, s, k + 1)].prev = At(h, s, k)
  <2>1. L[At(h, s, k)].next = At(h, s, k + 1) /\ L[At(h, s, k + 1)].prev = At(h, s, k)
    BY Zenon DEF Ring
  <2>2. CASE k < Len(s)
    BY <1>1, <2>1, <2>2
  <2>3. CASE k = Len(s)
    <3>1. At(h, s, k + 1) = At(h, s, 0) /\ 0 \in 0..Len(s)
      BY <1>1, <2>3 DEF At
    <3> QED
      BY <2>1, <3>1, Zenon
  <2> QED
    BY <1>1, <2>2, <2>3
<1> QED
  BY <1>2, Zenon DEF Ring

\* The links of a list are in memory.
LEMMA RingLinks ==
  ASSUME NEW H, NEW L, NEW h \in H, NEW s \in Seq(H), Ring(L, h, s)
  PROVE  /\ L[h].next = At(h, s, 1) /\ L[h].prev = At(h, s, Len(s))
         /\ L[h].next \in H /\ L[h].prev \in H
<1>1. Len(s) \in Nat /\ 0 \in 0..Len(s) /\ Len(s) \in 0..Len(s)
  OBVIOUS
<1>2. At(h, s, 0) = h /\ At(h, s, Len(s) + 1) = h /\ 0 + 1 = 1
  BY <1>1 DEF At
<1>3. At(h, s, 1) \in H /\ At(h, s, Len(s)) \in H
  BY <1>1, AtType, Zenon
<1> QED
  BY <1>1, <1>2, <1>3, Zenon DEF Ring

\* Records of links with equal links are equal.
LEMMA SameLinks ==
  ASSUME NEW H, NEW L \in Memory(H), NEW N \in Memory(H), NEW x \in H,
         N[x].next = L[x].next, N[x].prev = L[x].prev
  PROVE  N[x] = L[x]
BY DEF Memory

\* ll_add and ll_del keep memory a memory.
LEMMA AddMemory ==
  ASSUME NEW H, NEW L \in Memory(H), NEW n \in H, NEW p \in H, NEW q \in H
  PROVE  ll_add(L, n, p, q) \in Memory(H)
<1>0. n \in Link(H) /\ p \in Link(H) /\ q \in Link(H)
  BY Zenon DEF Link
<1>1. PICK L1 \in Memory(H) : L1 = SetNext(L, n, q)
  BY <1>0, SetNextLinks, Zenon
<1>2. PICK L2 \in Memory(H) : L2 = SetPrev(L1, n, p)
  BY <1>0, SetPrevLinks, Zenon
<1>3. PICK L3 \in Memory(H) : L3 = SetNext(L2, p, n)
  BY <1>0, SetNextLinks, Zenon
<1>4. SetPrev(L3, q, n) \in Memory(H)
  BY <1>0, SetPrevLinks, Zenon
<1> QED
  BY <1>1, <1>2, <1>3, <1>4, Zenon DEF ll_add

\* ll_del leaves every link pointing to a header or nowhere.
LEMMA DelMemory ==
  ASSUME NEW H, NEW L \in Memory(H), NEW n \in H, NEW p \in H, NEW q \in H
  PROVE  ll_del(L, n, p, q) \in Memory(H)
<1>1. PICK t \in Link(H) : t = L[n].next
  BY Zenon DEF Memory
<1>2. PICK L1 \in Memory(H) : L1 = SetNext(L, p, t)
  BY SetNextLinks, Zenon
<1>3. PICK u \in Link(H) : u = L1[n].prev
  BY Zenon DEF Memory
<1>4. PICK L2 \in Memory(H) : L2 = SetPrev(L1, q, u)
  BY SetPrevLinks, Zenon
<1>5. NULL \in Link(H)
  BY Zenon DEF Link
<1>6. PICK L3 \in Memory(H) : L3 = SetNext(L2, n, NULL)
  BY <1>5, SetNextLinks, Zenon
<1>7. SetPrev(L3, n, NULL) \in Memory(H)
  BY <1>5, SetPrevLinks, Zenon
<1> QED
  BY <1>1, <1>2, <1>3, <1>4, <1>6, <1>7, Zenon DEF ll_del

\* LL_append writes to headers of the list and to the new one only.
LEMMA AppendEffect ==
  ASSUME NEW H, NEW L \in Memory(H), NEW h \in H, NEW s \in Seq(H), NEW n \in H,
         Off(h, s, n), Ring(L, h, s)
  PROVE  /\ LL_append(L, h, n) \in Memory(H)
         /\ \A x \in H : x # n /\ Off(h, s, x) => LL_append(L, h, n)[x] = L[x]
<1>1. Len(s) \in Nat /\ 0 \in 0..Len(s) /\ Len(s) \in 0..Len(s) /\ At(h, s, 0) = h
  BY DEF At
<1>2. PICK last \in H : last = L[h].prev /\ last = At(h, s, Len(s))
  BY RingLinks, Zenon
<1>3. n # last /\ n # h
  BY <1>1, <1>2, Zenon DEF Off
<1>4. PICK N : N = ll_add(L, n, last, h)
  BY Zenon
<1>5. N \in Memory(H) /\ Added(H, L, N, n, last, h)
  BY <1>3, <1>4, AddMemory, AddLinks, Zenon
<1>6. LL_append(L, h, n) = N
  BY <1>2, <1>4, Zenon DEF LL_append, LL_add_prev
<1>7. ASSUME NEW x \in H, x # n, Off(h, s, x) PROVE N[x] = L[x]
  <2>1. x # last /\ x # h
    BY <1>1, <1>2, <1>7, Zenon DEF Off
  <2>2. N[x].next = L[x].next /\ N[x].prev = L[x].prev
    BY <1>5, <1>7, <2>1, Zenon DEF Added
  <2> QED
    BY <1>5, <2>2, SameLinks, Zenon
<1> QED
  BY <1>5, <1>6, <1>7, Zenon

\* LL_dequeue writes to headers of the list only.
LEMMA DequeueEffect ==
  ASSUME NEW H, NEW L \in Memory(H), NEW h \in H, NEW s \in Seq(H),
         Distinct(h, s), Ring(L, h, s), s # <<>>
  PROVE  /\ LL_dequeue(L, h) \in Memory(H)
         /\ \A x \in H : Off(h, s, x) => LL_dequeue(L, h)[x] = L[x]
<1>1. /\ Len(s) \in Nat /\ Len(s) >= 1 /\ 0 \in 0..Len(s) /\ 1 \in 0..Len(s)
      /\ At(h, s, 0) = h /\ At(h, s, 1) = s[1]
  BY DEF At
<1>2. PICK d \in H : d = s[1] /\ d = At(h, s, 1)
  BY <1>1
<1>3. d # h /\ L[h].next = d
  <2>1. d # h
    BY <1>1, <1>2 DEF Distinct
  <2>2. L[h].next = At(h, s, 1)
    BY RingLinks, Zenon
  <2> QED
    BY <1>2, <2>1, <2>2, Zenon
<1>4. PICK q \in H : q = At(h, s, 2) /\ q = L[d].next /\ h = L[d].prev
  <2>1. At(h, s, 2) \in H
    BY AtType, Zenon
  <2>2. L[At(h, s, 1)].next = At(h, s, 1 + 1) /\ L[At(h, s, 0 + 1)].prev = At(h, s, 0)
    BY <1>1, Zenon DEF Ring
  <2> QED
    BY <1>1, <1>2, <2>1, <2>2
<1>5. d # q /\ (\A x \in H : Off(h, s, x) => x # q)
  <2>1. CASE Len(s) = 1
    <3>1. q = h
      BY <1>4, <2>1 DEF At
    <3> QED
      BY <1>1, <1>3, <3>1, Zenon DEF Off
  <2>2. CASE Len(s) >= 2
    <3>1. 2 \in 0..Len(s) /\ 1 # 2
      BY <1>1, <2>2
    <3> QED
      BY <1>1, <1>2, <1>4, <3>1, Zenon DEF Off, Distinct
  <2> QED
    <3>1. Len(s) = 1 \/ Len(s) >= 2
      <4>1. PICK m \in Nat : m = Len(s) /\ m >= 1
        BY <1>1, Zenon
      <4> QED
        BY ONLY m \in Nat, <4>1
    <3> QED
      BY ONLY <2>1, <2>2, <3>1, Zenon
<1>6. PICK N : N = ll_del(L, d, h, q)
  BY Zenon
<1>7. N \in Memory(H) /\ Deleted(H, L, N, d, h, q)
  BY <1>3, <1>5, <1>6, DelMemory, DelLinks, Zenon
<1>8. LL_dequeue(L, h) = N
  BY <1>3, <1>4, <1>6, Zenon DEF LL_dequeue, LL_empty, LL_del
<1>9. ASSUME NEW x \in H, Off(h, s, x) PROVE N[x] = L[x]
  <2>1. x # d /\ x # h /\ x # q
    BY <1>1, <1>2, <1>5, <1>9, Zenon DEF Off
  <2>2. N[x].next = L[x].next /\ N[x].prev = L[x].prev
    BY <1>7, <1>9, <2>1, Zenon DEF Deleted
  <2> QED
    BY <1>7, <2>2, SameLinks, Zenon
<1> QED
  BY <1>7, <1>8, <1>9, Zenon
-----------------------------------------------------------------------------
(* The inductive invariant                                                 *)

\* Who runs is alive and sleeps on no queue of a disk.
Placed ==
  /\ waiting \in [Disks -> Seq(Procs)]
  /\ \A p \in Procs : p = running => p \in alive /\ \A d \in Disks : p \notin Range(waiting[d])

Status == {"idle", "busy", "data", "err"}
Lba == Nat \union {NULL} \union UNION {Reads[p] : p \in Procs \ {FSP}}
Booting == {"enum", "ps2", "ata"}

Types ==
  /\ links \in Memory(Headers)
  /\ device \in [Disks -> [status : Status, lba : Lba]]
  /\ irq \in BOOLEAN /\ isr_arg \in Disks \union {NULL}
  /\ asked \in [Procs -> [disk : Disks \union {NULL}, lba : Lba]]
  /\ result \in [Procs -> [asked : Lba, data : Lba]]
  /\ machine \in Machines
  /\ boot_pc \in Booting \union {"create", "up"}
  /\ slot \in Nat \ {0} /\ func \in 0..4
  /\ fs_pc \in {"open", "mbr", "part", "fat", "table", "idle", "gone"} /\ entry \in Nat

\* The requests of the processes rs.
Reqs(rs) == [k \in 1..Len(rs) |-> req(rs[k])]

\* The processes rs have a request on the list of disk d, in this order, and
\* no others; they sleep on its queue, except the first from the interrupt that
\* wakes it to its read; the device works on the first.
Serves(d, rs) ==
  /\ IsInjective(rs)
  /\ Ring(links, requests(d), Reqs(rs))
  /\ \A p \in Procs : p \in Range(rs) <=> asked[p].disk = d
  /\ \/ rs = waiting[d]
     \/ ~irq /\ device[d].status = "data" /\ rs # <<>> /\ waiting[d] = Tail(rs)
  /\ IF rs = <<>> THEN device[d].status = "idle"
     ELSE device[d].status # "idle" /\ device[d].lba = asked[Head(rs)].lba

\* Nothing uses disk d.
Unused(d) ==
  waiting[d] = <<>> /\ device[d].status = "idle" /\ \A p \in Procs : asked[p].disk # d

DiskOK(d) == IF d \in Probed THEN \E rs \in Seq(Procs) : Serves(d, rs) ELSE Unused(d)

DiskInv == \A d \in Disks : DiskOK(d)

\* The list of block devices, with the first character device linked into it or
\* not as long as it is empty.
BlockInv ==
  IF registered = <<>>
  THEN /\ links[blocks].prev = blocks
       /\ \/ links[blocks].next = blocks
          \/ /\ links[blocks].next = ps2_cdev
             /\ links[ps2_cdev].next = chars /\ links[chars].next = blocks
  ELSE Ring(links, blocks, registered)

Devices == {Disk(d) : d \in Disks} \union {Partition(k) : k \in 1..4}

\* What has been registered: disks that were probed, then partitions.
RegisteredInv ==
  /\ registered \in Seq(Devices) /\ IsInjective(registered)
  /\ registered # <<>> => \E d \in Disks : registered[1] = Disk(d)
  /\ \A d \in Disks : Disk(d) \in Range(registered) => d \in Probed
  /\ isr_arg # NULL => isr_arg \in Probed
  /\ \A k \in 1..4 : Partition(k) \in Range(registered) =>
       fs_pc # "open" /\ (fs_pc = "mbr" => k < entry)

\* Who reads reads from the disk that was registered first.
AskedInv ==
  \A p \in Procs : asked[p] # NoRead =>
    p \in alive /\ registered # <<>> /\ Disk(asked[p].disk) = registered[1]

\* PCI_enum has found the functions ps, and PCI_register has seen j of them.
Enumerated(ps, j) ==
  /\ Ring(links, pci_dev_list, ps)
  /\ \A i \in 1..Len(ps) :
       /\ \E s \in 1..Len(machine.slots) : \E f \in 0..(Len(machine.slots[s]) - 1) : ps[i] = PCIDevice(s, f)
       /\ ps[i][2] < 4 * slot + func
       /\ \A k \in 1..Len(ps) : i < k => ps[i][2] < ps[k][2]
  /\ pci_cur = At(pci_dev_list, ps, j)
  /\ \A d \in Disks : Disk(d) \in Range(registered) => \E i \in 1..j : FunctionAt(ps[i]) = d

\* While kmain initialises the modules, nothing else happens.
BootInv ==
  boot_pc \in Booting =>
    /\ alive = {} /\ fs_pc = "open" /\ \A p \in Procs : asked[p] = NoRead
    /\ \E ps \in Seq(Headers) : \E j \in 0..Len(ps) : Enumerated(ps, j)
    /\ boot_pc # "ata" =>
         /\ registered = <<>>
         /\ links[inodes] = [next |-> inodes, prev |-> inodes]
         /\ links[blocks] = [next |-> blocks, prev |-> blocks]
         /\ links[chars] = [next |-> blocks, prev |-> blocks]

\* Where filesystem_init is.
FsInv ==
  /\ fs_pc \notin {"open", "gone"} => registered # <<>> /\ blk = registered[1]
  /\ part # NULL => part = Partition(1) /\ fs_pc \in {"fat", "table", "idle"}
  /\ fs_pc \in {"fat", "table"} => part # NULL /\ PartOf(part).fat32
  /\ fs_pc = "mbr" => entry # 0
  /\ fs_pc = "table" => entry <= machine.fat.num_fats * machine.fat.sects_per_fat
  /\ asked[FSP] # NoRead => fs_pc \in {"mbr", "fat", "table"}

FilesInv ==
  /\ Placed /\ Types /\ DiskInv /\ BlockInv /\ RegisteredInv
  /\ AskedInv /\ BootInv /\ FsInv /\ ReadsOwnBlock
-----------------------------------------------------------------------------
(* The lists of requests                                                   *)

\* NULL is neither a disk nor a process.
LEMMA NoDisk == NULL \notin Disks /\ NULL \notin Procs
BY AtaAssumption, Zenon

\* A process that reads nothing asks no disk.
LEMMA AsksNone == ASSUME NEW d \in Disks PROVE NoRead.disk # d
BY NoDisk, Zenon DEF NoRead

\* What Serves says of the processes alone.
LEMMA ServedProcs ==
  ASSUME NEW d \in Disks, NEW rs \in Seq(Procs), Serves(d, rs)
  PROVE  /\ Range(rs) \subseteq Procs /\ IsInjective(rs) /\ Ring(links, requests(d), Reqs(rs))
         /\ \A q \in Procs : q \in Range(rs) <=> asked[q].disk = d
<1>1. Range(rs) \subseteq Procs
  BY EmptyQueueLemma, Zenon
<1>2. /\ IsInjective(rs) /\ Ring(links, requests(d), Reqs(rs))
      /\ \A q \in Procs : q \in Range(rs) <=> asked[q].disk = d
  BY Zenon DEF Serves
<1> QED
  BY ONLY <1>1, <1>2, Zenon

\* The list headers embedded in the structures of the drivers.
LEMMA HeaderTypes ==
  /\ {inodes, blocks, chars, pci_dev_list, ps2_inode, ps2_cdev} \subseteq Headers
  /\ \A d \in Disks : requests(d) \in Headers /\ Disk(d) \in Headers
  /\ \A p \in Procs : req(p) \in Headers
  /\ \A k \in 1..4 : Partition(k) \in Headers
  /\ \A s \in 1..MaxSlots, f \in 0..3 : PCIDevice(s, f) \in Headers
  /\ Devices \subseteq Headers
BY DEF Headers, Devices

\* The requests of a queue of processes, as a sequence of headers.
LEMMA ReqsFacts ==
  ASSUME NEW rs \in Seq(Procs)
  PROVE  /\ Reqs(rs) \in Seq(Headers) /\ Len(Reqs(rs)) = Len(rs) /\ Len(rs) \in Nat
         /\ \A k \in 1..Len(rs) : Reqs(rs)[k] = req(rs[k]) /\ rs[k] \in Procs /\ rs[k] \in Range(rs)
         /\ \A d \in Disks : IsInjective(rs) => Distinct(requests(d), Reqs(rs))
         /\ \A p \in Procs : Reqs(Append(rs, p)) = Append(Reqs(rs), req(p))
         /\ rs # <<>> => Reqs(rs) # <<>> /\ Reqs(Tail(rs)) = Tail(Reqs(rs)) /\ Head(Reqs(rs)) = req(Head(rs))
<1>1. Len(rs) \in Nat /\ DOMAIN rs = 1..Len(rs) /\ \A k \in 1..Len(rs) : rs[k] \in Procs
  BY SeqElement, SeqLength, Zenon
<1>2. Reqs(rs) \in Seq(Headers) /\ Len(Reqs(rs)) = Len(rs)
  BY <1>1, HeaderTypes DEF Reqs
<1>3. \A k \in 1..Len(rs) : Reqs(rs)[k] = req(rs[k]) /\ rs[k] \in Procs /\ rs[k] \in Range(rs)
  BY <1>1, Zenon DEF Reqs, Range
<1>4. ASSUME NEW d \in Disks, IsInjective(rs) PROVE Distinct(requests(d), Reqs(rs))
  <2> SUFFICES ASSUME NEW j \in 0..Len(rs), NEW k \in 0..Len(rs),
                      At(requests(d), Reqs(rs), j) = At(requests(d), Reqs(rs), k)
               PROVE  j = k
    BY <1>2, Zenon DEF Distinct
  <2>1. \A i \in 0..Len(rs) : At(requests(d), Reqs(rs), i) = IF i = 0 THEN requests(d) ELSE req(rs[i])
    BY <1>1, <1>2, <1>3 DEF At
  <2>2. CASE j = 0 \/ k = 0
    <3>1. \A i \in 0..Len(rs) : requests(d) # req(rs[i])
      BY Zenon DEF requests, req
    <3> QED
      BY <1>1, <2>1, <2>2, <3>1, Zenon
  <2>3. CASE j # 0 /\ k # 0
    <3>1. rs[j] = rs[k] /\ j \in 1..Len(rs) /\ k \in 1..Len(rs)
      BY <1>1, <2>1, <2>3 DEF req
    <3> QED
      BY <1>1, <1>4, <3>1, Zenon DEF IsInjective
  <2> QED
    BY <2>2, <2>3, Zenon
<1>5. ASSUME NEW p \in Procs PROVE Reqs(Append(rs, p)) = Append(Reqs(rs), req(p))
  BY <1>1, <1>2 DEF Reqs
<1>6. ASSUME rs # <<>>
      PROVE  Reqs(rs) # <<>> /\ Reqs(Tail(rs)) = Tail(Reqs(rs)) /\ Head(Reqs(rs)) = req(Head(rs))
  <2>1. Len(rs) >= 1
    BY <1>1, <1>6
  <2>2. Reqs(rs) # <<>> /\ Head(Reqs(rs)) = req(Head(rs))
    BY <1>2, <1>3, <2>1
  <2>3. Len(Tail(rs)) = Len(rs) - 1 /\ \A k \in 1..(Len(rs) - 1) : Tail(rs)[k] = rs[k + 1]
    BY <1>1, <1>6, <2>1
  <2>4. Reqs(Tail(rs)) = [k \in 1..(Len(rs) - 1) |-> req(rs[k + 1])]
    BY <2>3, Zenon DEF Reqs
  <2>5. Tail(Reqs(rs)) = [k \in 1..(Len(rs) - 1) |-> req(rs[k + 1])]
    BY <1>1, <2>1 DEF Reqs
  <2> QED
    BY <2>2, <2>4, <2>5, Zenon
<1> QED
  BY <1>1, <1>2, <1>3, <1>4, <1>5, <1>6, Zenon

\* A header that is neither the list's nor a request of rs is off the list.
LEMMA OffRequests ==
  ASSUME NEW rs \in Seq(Procs), NEW d, NEW x, x # requests(d), \A q \in Range(rs) : x # req(q)
  PROVE  Off(requests(d), Reqs(rs), x)
<1>1. \A k \in 0..Len(rs) : At(requests(d), Reqs(rs), k) = requests(d) \/ (k \in 1..Len(rs) /\ At(requests(d), Reqs(rs), k) = req(rs[k]))
  BY ReqsFacts, Zenon DEF At
<1> QED
  BY <1>1, ReqsFacts, Zenon DEF Off

\* N is memory L after p has put its request on the list of disk d, behind rs ...
Requested(L, N, d, rs, p) ==
  /\ N \in Memory(Headers)
  /\ Ring(N, requests(d), Reqs(Append(rs, p)))
  /\ \A x \in Headers : x # requests(d) /\ x # req(p) /\ (\A q \in Range(rs) : x # req(q))
       => N[x] = L[x]
  /\ LL_empty(L, requests(d)) <=> rs = <<>>

\* ... and after the first of rs has been taken off.
Taken(L, N, d, rs) ==
  /\ N \in Memory(Headers)
  /\ Ring(N, requests(d), Reqs(Tail(rs)))
  /\ \A x \in Headers : x # requests(d) /\ (\A q \in Range(rs) : x # req(q)) => N[x] = L[x]
  /\ LL_head(N, requests(d)) = IF Tail(rs) = <<>> THEN NULL ELSE req(Head(Tail(rs)))

\* A process puts its request on the list of a disk.
LEMMA Enqueued ==
  ASSUME NEW L \in Memory(Headers), NEW d \in Disks, NEW rs \in Seq(Procs), IsInjective(rs),
         Ring(L, requests(d), Reqs(rs)), NEW p \in Procs, p \notin Range(rs)
  PROVE  Requested(L, LL_enqueue(L, requests(d), req(p)), d, rs, p)
<1>0. PICK N : N = LL_enqueue(L, requests(d), req(p))
  BY Zenon
<1>1. requests(d) \in Headers /\ req(p) \in Headers /\ requests(d) # req(p)
  BY HeaderTypes, Zenon DEF requests, req
<1>2. Reqs(rs) \in Seq(Headers) /\ Distinct(requests(d), Reqs(rs))
  BY ReqsFacts, Zenon
<1>3. Off(requests(d), Reqs(rs), req(p))
  <2>1. \A q \in Range(rs) : req(p) # req(q)
    BY Zenon DEF req
  <2> QED
    BY <1>1, <2>1, OffRequests, Zenon
<1>4. N = LL_append(L, requests(d), req(p))
  BY <1>0, Zenon DEF LL_enqueue
<1>5. /\ N \in Memory(Headers)
      /\ \A x \in Headers : x # req(p) /\ Off(requests(d), Reqs(rs), x) => N[x] = L[x]
  BY <1>1, <1>2, <1>3, <1>4, AppendEffect
<1>6. Ring(N, requests(d), Append(Reqs(rs), req(p)))
  <2>1. \A k \in 0..Len(Reqs(rs)) : At(requests(d), Reqs(rs), k) # req(p)
    BY <1>3, Zenon DEF Off
  <2> QED
    BY <1>1, <1>2, <1>4, <2>1, AppendKeepsRing, Zenon
<1>7. LL_empty(L, requests(d)) <=> rs = <<>>
  <2>1. L[requests(d)].next = At(requests(d), Reqs(rs), 1)
    BY <1>1, <1>2, RingLinks, ZenonT(60)
  <2>2. At(requests(d), Reqs(rs), 1) = IF rs = <<>> THEN requests(d) ELSE req(rs[1])
    BY ReqsFacts DEF At
  <2> QED
    BY <2>1, <2>2 DEF LL_empty, requests, req
<1> QED
  BY <1>0, <1>5, <1>6, <1>7, ReqsFacts, OffRequests, Zenon DEF Requested

\* A process takes the first request off the list of a disk.
LEMMA Dequeued ==
  ASSUME NEW L \in Memory(Headers), NEW d \in Disks, NEW rs \in Seq(Procs), IsInjective(rs),
         Ring(L, requests(d), Reqs(rs)), rs # <<>>
  PROVE  Taken(L, LL_dequeue(L, requests(d)), d, rs)
<1>0. PICK N : N = LL_dequeue(L, requests(d))
  BY Zenon
<1>1. requests(d) \in Headers
  BY HeaderTypes, Zenon
<1>2. Reqs(rs) \in Seq(Headers) /\ Distinct(requests(d), Reqs(rs)) /\ Reqs(rs) # <<>>
  BY ReqsFacts, Zenon
<1>3. /\ N \in Memory(Headers)
      /\ \A x \in Headers : Off(requests(d), Reqs(rs), x) => N[x] = L[x]
  BY <1>0, <1>1, <1>2, DequeueEffect
<1>4. Ring(N, requests(d), Reqs(Tail(rs)))
  <2>1. Reqs(Tail(rs)) = Tail(Reqs(rs))
    BY ReqsFacts, Zenon
  <2> QED
    BY <1>0, <1>1, <1>2, <2>1, DequeueKeepsRing, Zenon
<1>5. LL_head(N, requests(d)) = IF Tail(rs) = <<>> THEN NULL ELSE req(Head(Tail(rs)))
  <2>1. PICK t \in Seq(Procs) : t = Tail(rs)
    BY DequeueLemma, Zenon
  <2>2. Reqs(t) \in Seq(Headers)
    BY ReqsFacts, Zenon
  <2>3. N[requests(d)].next = At(requests(d), Reqs(t), 1)
    BY <1>1, <1>4, <2>1, <2>2, RingLinks, Zenon
  <2>4. At(requests(d), Reqs(t), 1) = IF t = <<>> THEN requests(d) ELSE req(Head(t))
    BY ReqsFacts DEF At
  <2>5. requests(d) # req(Head(t))
    BY Zenon DEF requests, req
  <2> QED
    BY <2>1, <2>3, <2>4, <2>5, Zenon DEF LL_head, LL_empty
<1> QED
  BY <1>0, <1>3, <1>4, <1>5, OffRequests, Zenon DEF Taken
-----------------------------------------------------------------------------
(* Boot                                                                    *)

\* An empty list.
LEMMA EmptyRing ==
  ASSUME NEW L, NEW h, L[h].next = h, L[h].prev = h
  PROVE  Ring(L, h, <<>>) /\ Chain(L, h, <<>>) /\ Distinct(h, <<>>)
BY DEF Ring, Chain, Distinct, At

\* The invariant holds before PCI_enum is called.
LEMMA FilesInit == Init => FilesInv
<1>1. SUFFICES ASSUME Init PROVE FilesInv
  BY Zenon
<1>2. Placed
  <2>1. running = Main /\ waiting = [d \in Disks |-> <<>>]
    BY <1>1, Zenon DEF Init, AtaInit, S!Init, S!Queues
  <2> QED
    <3>1. Main \notin Procs
      BY AtaAssumption, Zenon
    <3>2. waiting \in [Disks -> Seq(Procs)] /\ \A d \in Disks : waiting[d] = <<>>
      BY <2>1
    <3>3. \A d \in Disks : running \notin Range(waiting[d])
      BY ONLY <3>2, EmptyQueueLemma, Zenon
    <3> QED
      BY <2>1, <3>1, <3>2, <3>3, Zenon DEF Placed
<1>3. /\ links = [n \in Headers |-> FilesLists(n)]
      /\ \A n \in Headers : links[n] = FilesLists(n)
  BY <1>1, Zenon DEF Init
<1>4. \A n \in Headers : FilesLists(n) \in [next : Link(Headers), prev : Link(Headers)]
  BY HeaderTypes, Zenon DEF FilesLists, Link
<1>5. /\ links[inodes] = [next |-> inodes, prev |-> inodes]
      /\ links[blocks] = [next |-> blocks, prev |-> blocks]
      /\ links[chars] = [next |-> blocks, prev |-> blocks]
      /\ links[pci_dev_list] = [next |-> pci_dev_list, prev |-> pci_dev_list]
  BY <1>3, HeaderTypes, Zenon DEF FilesLists, inodes, blocks, chars, pci_dev_list
<1>6. Probed = {}
  <2>1. \A d \in Disks : links[requests(d)].next = NULL
    BY <1>3, HeaderTypes, Zenon DEF FilesLists, inodes, blocks, chars, pci_dev_list, requests
  <2> QED
    BY <2>1, Zenon DEF Probed
<1>7. Types
  <2>1. links \in Memory(Headers)
    BY <1>3, <1>4, Zenon DEF Memory
  <2> QED
    <3>1. /\ device = [d \in Disks |-> [status |-> "idle", lba |-> NULL]]
          /\ irq = FALSE /\ isr_arg = NULL
          /\ asked = [p \in Procs |-> [disk |-> NULL, lba |-> NULL]]
          /\ result = [p \in Procs |-> [asked |-> NULL, data |-> NULL]]
      BY <1>1, Zenon DEF Init, AtaInit, NoRead
    <3>2. NULL \in Lba /\ "idle" \in Status
      BY Zenon DEF Lba, Status
    <3>3. /\ device \in [Disks -> [status : Status, lba : Lba]]
          /\ asked \in [Procs -> [disk : Disks \union {NULL}, lba : Lba]]
          /\ result \in [Procs -> [asked : Lba, data : Lba]]
      BY <3>1, <3>2, Zenon
    <3>4. machine \in Machines /\ boot_pc = "enum" /\ slot = 1 /\ func = 0 /\ fs_pc = "open" /\ entry = 0
      BY <1>1, Zenon DEF Init
    <3>5. slot \in Nat \ {0} /\ func \in 0..4 /\ entry \in Nat
      BY ONLY <3>4
    <3>6. irq \in BOOLEAN
      BY ONLY <3>1, Zenon
    <3> QED
      BY ONLY <2>1, <3>1, <3>3, <3>4, <3>5, <3>6, Zenon DEF Types, Booting
<1>8. DiskInv
  <2>1. \A d \in Disks : waiting[d] = <<>>
    BY <1>1, Zenon DEF Init, AtaInit, S!Init, S!Queues
  <2>2. \A d \in Disks : Unused(d)
    BY <1>1, <2>1, NoDisk, Zenon DEF Init, AtaInit, NoRead, Unused
  <2> QED
    BY <1>6, <2>2, Zenon DEF DiskInv, DiskOK
<1>9. registered = <<>> /\ Range(registered) = {} /\ IsInjective(registered)
  BY <1>1, EmptyQueueLemma, Zenon DEF Init
<1>10. BlockInv
  BY <1>5, <1>9 DEF BlockInv
<1>11. RegisteredInv
  BY <1>1, <1>9 DEF RegisteredInv, Init, AtaInit
<1>12. AskedInv /\ \A p \in Procs : asked[p] = NoRead
  BY <1>1, Zenon DEF AskedInv, Init, AtaInit
<1>13. Enumerated(<<>>, 0)
  BY <1>1, <1>5, <1>9, EmptyRing DEF Enumerated, Init, At
<1>14. BootInv
  <2>1. alive = {} /\ fs_pc = "open"
    BY <1>1, Zenon DEF Init, AtaInit, S!Init
  <2>2. <<>> \in Seq(Headers) /\ 0 \in 0..Len(<<>>)
    OBVIOUS
  <2> QED
    BY <1>5, <1>9, <1>12, <1>13, <2>1, <2>2, Zenon DEF BootInv
<1>15. FsInv
  BY <1>1, <1>12, FilesAssumption, Zenon DEF FsInv, Init
<1>16. ReadsOwnBlock
  BY <1>1, Zenon DEF ReadsOwnBlock, Init, AtaInit
<1> QED
  BY <1>2, <1>7, <1>8, <1>10, <1>11, <1>12, <1>14, <1>15, <1>16, Zenon DEF FilesInv
-----------------------------------------------------------------------------
(* Who runs, and what it opens                                             *)

-----------------------------------------------------------------------------
(* The scheduler                                                           *)

\* A process that runs is alive, sleeps nowhere, and boot is over.
LEMMA Running ==
  ASSUME FilesInv, NEW p \in Procs, running = p
  PROVE  p \in alive /\ boot_pc \notin Booting /\ \A d \in Disks : p \notin Range(waiting[d])
<1>1. p \in alive /\ \A d \in Disks : p \notin Range(waiting[d])
  BY Zenon DEF FilesInv, Placed
<1> QED
  BY <1>1, Zenon DEF FilesInv, BootInv

\* BLK_open finds the first disk that was registered, and the first partition
\* or nothing.
Opens ==
  /\ BLK_open(0) = IF registered = <<>> THEN NULL ELSE registered[1]
  /\ BLK_open(1) # NULL => BLK_open(1) = Partition(1)

\* The disk that BLK_open finds.
LEMMA FirstDisk ==
  ASSUME FilesInv, registered # <<>>
  PROVE  \E d \in Disks : registered[1] = Disk(d) /\ registered[1][2] = d /\ d \in Probed
<1>1. PICK d \in Disks : registered[1] = Disk(d)
  BY Zenon DEF FilesInv, RegisteredInv
<1>2. registered[1] \in Range(registered)
  <2>1. registered \in Seq(Devices)
    BY Zenon DEF FilesInv, RegisteredInv
  <2>2. 1 \in DOMAIN registered
    BY <2>1
  <2> QED
    BY <2>2, Zenon DEF Range
<1> QED
  BY <1>1, <1>2 DEF FilesInv, RegisteredInv, Disk

\* Whoever reads, reads from that disk.
LEMMA ReadsFirst ==
  ASSUME FilesInv, Opens
  PROVE  /\ \A p \in Procs \ {FSP} : \A lba \in Reads[p] : OtherRead(p, lba) =>
              registered # <<>> /\ ata_read_block(p, registered[1][2], lba) /\ UNCHANGED fileVars
         /\ ReadMbr => registered # <<>> /\ ata_read_block(FSP, registered[1][2], 0) /\ blk' = registered[1]
         /\ \A n : fs_pc \in {"part", "fat", "table"} /\ part_read_block(Partition(1), n) =>
              registered # <<>> /\ ata_read_block(FSP, registered[1][2], n + machine.mbr.parts[1].start)
<1>1. Types /\ BlockInv /\ RegisteredInv /\ FsInv
  BY Zenon DEF FilesInv
<1>2. BLK_open(0) # NULL => registered # <<>> /\ BLK_open(0) = registered[1]
  BY Zenon DEF Opens
<1>3. ASSUME NEW p \in Procs \ {FSP}, NEW lba \in Reads[p], OtherRead(p, lba)
      PROVE  registered # <<>> /\ ata_read_block(p, registered[1][2], lba) /\ UNCHANGED fileVars
  <2>1. BLK_open(0) # NULL /\ ata_read_block(p, BLK_open(0)[2], lba) /\ UNCHANGED fileVars
    BY <1>3, Zenon DEF OtherRead
  <2>2. registered # <<>> /\ BLK_open(0) = registered[1]
    BY <1>2, <2>1, Zenon
  <2> QED
    BY ONLY <2>1, <2>2, Zenon
<1>4. ASSUME ReadMbr
      PROVE  registered # <<>> /\ ata_read_block(FSP, registered[1][2], 0) /\ blk' = registered[1]
  <2>1. BLK_open(0) # NULL /\ blk' = BLK_open(0) /\ ata_read_block(FSP, blk'[2], 0)
    BY <1>4, Zenon DEF ReadMbr
  <2>2. registered # <<>> /\ BLK_open(0) = registered[1]
    BY <1>2, <2>1, Zenon
  <2> QED
    BY ONLY <2>1, <2>2, Zenon
<1>5. ASSUME NEW n, fs_pc \in {"part", "fat", "table"}, part_read_block(Partition(1), n)
      PROVE  registered # <<>> /\ ata_read_block(FSP, registered[1][2], n + machine.mbr.parts[1].start)
  <2>1. registered # <<>> /\ blk = registered[1]
    BY <1>1, <1>5, Zenon DEF FsInv
  <2>2. PartOf(Partition(1)).start = machine.mbr.parts[1].start
    BY Zenon DEF PartOf, Partition
  <2>3. ata_read_block(FSP, blk[2], n + PartOf(Partition(1)).start)
    BY <1>5, Zenon DEF part_read_block
  <2> QED
    BY ONLY <2>1, <2>2, <2>3, Zenon
<1> QED
  BY <1>3, <1>4, <1>5

\* FSP reads while it mounts the partition ...
LEMMA PartitionReads ==
  ASSUME FilesInv, Opens
  PROVE  /\ FS_register_fs => /\ FsAt("part") /\ part' = Partition(1)
                              /\ UNCHANGED <<machine, boot_pc, slot, func, pci_cur, blk, entry, registered>>
                              /\ \/ /\ machine.mbr.parts[1].fat32 /\ fs_pc' = "fat" /\ registered # <<>>
                                    /\ ata_read_block(FSP, registered[1][2], 0 + machine.mbr.parts[1].start)
                                 \/ fs_pc' = "idle" /\ UNCHANGED <<schedVars, diskVars>>
         /\ ReadTable => /\ FsAt("table") /\ registered # <<>>
                         /\ entry < machine.fat.num_fats * machine.fat.sects_per_fat
                         /\ ata_read_block(FSP, registered[1][2],
                              (entry + (1 + machine.fat.rsvd_sects)) + machine.mbr.parts[1].start)
                         /\ entry' = entry + 1
                         /\ UNCHANGED <<machine, boot_pc, slot, func, pci_cur, fs_pc, blk, part, registered>>
<1>1. Types /\ BlockInv /\ RegisteredInv /\ FsInv
  BY DEF FilesInv
<1>2. ASSUME FS_register_fs
      PROVE  /\ FsAt("part") /\ part' = Partition(1)
             /\ UNCHANGED <<machine, boot_pc, slot, func, pci_cur, blk, entry, registered>>
             /\ \/ /\ machine.mbr.parts[1].fat32 /\ fs_pc' = "fat" /\ registered # <<>>
                   /\ ata_read_block(FSP, registered[1][2], 0 + machine.mbr.parts[1].start)
                \/ fs_pc' = "idle" /\ UNCHANGED <<schedVars, diskVars>>
  <2>1. /\ FsAt("part") /\ BLK_open(1) # NULL /\ part' = BLK_open(1)
        /\ IF PartOf(part').fat32
           THEN part_read_block(part', 0) /\ fs_pc' = "fat"
           ELSE fs_pc' = "idle" /\ UNCHANGED <<schedVars, diskVars>>
        /\ UNCHANGED <<machine, boot_pc, slot, func, pci_cur, blk, entry, registered>>
    BY <1>2, Zenon DEF FS_register_fs
  <2>2. part' = Partition(1)
    BY <2>1, Zenon DEF Opens
  <2>3. PartOf(Partition(1)) = machine.mbr.parts[1]
    BY Zenon DEF PartOf, Partition
  <2>4. fs_pc \in {"part", "fat", "table"}
    BY <2>1, Zenon DEF FsAt
  <2>5. /\ IF machine.mbr.parts[1].fat32
           THEN part_read_block(Partition(1), 0) /\ fs_pc' = "fat"
           ELSE fs_pc' = "idle" /\ UNCHANGED <<schedVars, diskVars>>
    BY ONLY <2>1, <2>2, <2>3, Zenon
  <2>6. part_read_block(Partition(1), 0) =>
          registered # <<>> /\ ata_read_block(FSP, registered[1][2], 0 + machine.mbr.parts[1].start)
    BY <2>4, ReadsFirst, Zenon
  <2> QED
    BY ONLY <2>1, <2>2, <2>5, <2>6, Zenon
<1>3. ASSUME ReadTable
      PROVE  /\ FsAt("table") /\ registered # <<>>
             /\ entry < machine.fat.num_fats * machine.fat.sects_per_fat
             /\ ata_read_block(FSP, registered[1][2],
                  (entry + (1 + machine.fat.rsvd_sects)) + machine.mbr.parts[1].start)
             /\ entry' = entry + 1
             /\ UNCHANGED <<machine, boot_pc, slot, func, pci_cur, fs_pc, blk, part, registered>>
  <2>1. /\ FsAt("table") /\ entry < machine.fat.num_fats * machine.fat.sects_per_fat
        /\ part_read_block(part, entry + (1 + machine.fat.rsvd_sects))
        /\ entry' = entry + 1
        /\ UNCHANGED <<machine, boot_pc, slot, func, pci_cur, fs_pc, blk, part, registered>>
    BY <1>3, Zenon DEF ReadTable
  <2>2. fs_pc = "table" /\ fs_pc \in {"part", "fat", "table"}
    BY <2>1, Zenon DEF FsAt
  <2>3. part = Partition(1)
    BY <1>1, <2>2, Zenon DEF FsInv
  <2>4. part_read_block(Partition(1), entry + (1 + machine.fat.rsvd_sects))
    BY ONLY <2>1, <2>3, Zenon
  <2>5. registered # <<>> /\ ata_read_block(FSP, registered[1][2],
                                (entry + (1 + machine.fat.rsvd_sects)) + machine.mbr.parts[1].start)
    BY <2>2, <2>4, ReadsFirst, Zenon
  <2> QED
    BY ONLY <2>1, <2>5, Zenon
<1> QED
  BY <1>2, <1>3, Zenon

-----------------------------------------------------------------------------
(* Reading                                                                 *)

\* The list of requests of a probed disk is not NULL.
LEMMA RingProbed ==
  ASSUME NEW d \in Disks, NEW rs \in Seq(Procs), NEW L, Ring(L, requests(d), Reqs(rs))
  PROVE  L[requests(d)].next # NULL
<1>1. L[requests(d)].next \in Headers
  BY HeaderTypes, ReqsFacts, RingLinks, Zenon
<1> QED
  BY <1>1, FilesAssumption, Zenon

\* What process p does with the requests rs of disk d leaves disk e alone.
LEMMA OtherDisk ==
  ASSUME NEW d \in Disks, NEW e \in Disks, e # d, NEW rs \in Seq(Procs), NEW p \in Procs,
         asked[p].disk # e, \A q \in Range(rs) : asked[q].disk # e, DiskOK(e),
         \A x \in Headers : x # requests(d) /\ x # req(p) /\ (\A q \in Range(rs) : x # req(q))
           => links'[x] = links[x],
         waiting'[e] = waiting[e], device'[e] = device[e], irq' = irq,
         \A q \in Procs : q # p => asked'[q] = asked[q], asked'[p].disk # e
  PROVE  (e \in Probed' <=> e \in Probed) /\ DiskOK(e)'
<1>1. requests(e) # requests(d) /\ \A q : requests(e) # req(q)
  BY Zenon DEF requests, req
<1>2. links'[requests(e)] = links[requests(e)]
  BY <1>1, HeaderTypes, Zenon
<1>3. e \in Probed' <=> e \in Probed
  BY <1>2, Zenon DEF Probed
<1>4. CASE e \notin Probed
  BY <1>3, <1>4, Zenon DEF DiskOK, Unused
<1>5. CASE e \in Probed
  <2>1. PICK es \in Seq(Procs) : Serves(e, es)
    BY <1>5, Zenon DEF DiskOK
  <2>2. Range(es) \subseteq Procs /\ p \notin Range(es)
    BY <2>1, EmptyQueueLemma, Zenon DEF Serves
  <2>3. \A q \in Range(es) : req(q) # requests(d) /\ req(q) # req(p) /\ \A r \in Range(rs) : req(q) # req(r)
    <3>1. \A q \in Range(es) : asked[q].disk = e
      BY <2>1, <2>2, Zenon DEF Serves
    <3> QED
      BY <2>2, <3>1, Zenon DEF req, requests
  <2>4. Ring(links', requests(e), Reqs(es))
    <3>1. \A k \in 0..Len(es) : \/ At(requests(e), Reqs(es), k) = requests(e)
                                \/ \E q \in Range(es) : At(requests(e), Reqs(es), k) = req(q)
      BY ReqsFacts, Zenon DEF At
    <3>2. \A q \in Range(es) : links'[req(q)] = links[req(q)]
      BY <2>2, <2>3, HeaderTypes, Zenon
    <3>3. \A k \in 0..Len(Reqs(es)) : links'[At(requests(e), Reqs(es), k)] = links[At(requests(e), Reqs(es), k)]
      <4>1. Len(Reqs(es)) = Len(es)
        BY ReqsFacts, Zenon
      <4> QED
        BY ONLY <1>2, <3>1, <3>2, <4>1, Zenon
    <3>4. Ring(links, requests(e), Reqs(es)) /\ Reqs(es) \in Seq(Headers)
      BY <2>1, ReqsFacts, Zenon DEF Serves
    <3> QED
      BY <3>3, <3>4, RingSame, Zenon
  <2>5. \A q \in Procs : q \in Range(es) <=> asked'[q].disk = e
    BY <2>1, <2>2, Zenon DEF Serves
  <2>6. es # <<>> => asked'[Head(es)] = asked[Head(es)]
    <3>1. es # <<>> => Head(es) \in Range(es)
      BY DequeueLemma, Zenon
    <3> QED
      BY <2>2, <3>1, Zenon
  <2>7. Serves(e, es)'
    BY <2>1, <2>4, <2>5, <2>6, Zenon DEF Serves
  <2> QED
    BY <1>3, <1>5, <2>7, Zenon DEF DiskOK
<1> QED
  BY <1>4, <1>5, <1>3, Zenon

\* Appending to and taking from a list of requests leaves the list of block
\* devices alone.
LEMMA BlocksKept ==
  ASSUME FilesInv, registered # <<>>, registered' = registered,
         \A x \in Headers : (\A e \in Disks : x # requests(e)) /\ (\A q \in Procs : x # req(q))
           => links'[x] = links[x]
  PROVE  BlockInv'
<1>1. registered \in Seq(Devices) /\ Ring(links, blocks, registered)
  BY Zenon DEF FilesInv, RegisteredInv, BlockInv
<1>2. registered \in Seq(Headers) /\ \A k \in 1..Len(registered) : registered[k] \in Devices
  BY <1>1, HeaderTypes
<1>3. \A x \in Devices \union {blocks} : links'[x] = links[x]
  <2> SUFFICES ASSUME NEW x \in Devices \union {blocks} PROVE links'[x] = links[x]
    BY Zenon
  <2>1. x \in Headers
    BY HeaderTypes, Zenon
  <2>2. (\A e \in Disks : x # requests(e)) /\ (\A q \in Procs : x # req(q))
    BY DEF Devices, Disk, Partition, blocks, requests, req
  <2> QED
    BY <2>1, <2>2, Zenon
<1>4. \A k \in 0..Len(registered) : At(blocks, registered, k) \in Devices \union {blocks}
  BY <1>2, Zenon DEF At
<1>5. Ring(links', blocks, registered)
  BY <1>1, <1>2, <1>3, <1>4, RingSame, Zenon
<1> QED
  BY <1>5, Zenon DEF BlockInv

\* ata_read_block puts the process to sleep behind those that wait already.
LEMMA ReadKeeps ==
  ASSUME FilesInv, NEW p \in Procs, NEW lba \in Lba, registered # <<>>,
         ata_read_block(p, registered[1][2], lba), UNCHANGED <<boot_pc, registered>>
  PROVE  /\ DiskInv' /\ BlockInv' /\ AskedInv' /\ BootInv' /\ ReadsOwnBlock' /\ Probed' = Probed
         /\ links' \in Memory(Headers)
         /\ device' \in [Disks -> [status : Status, lba : Lba]]
         /\ asked' \in [Procs -> [disk : Disks \union {NULL}, lba : Lba]]
         /\ asked'[p].lba = lba /\ \A q \in Procs : q # p => asked'[q] = asked[q]
         /\ UNCHANGED <<irq, isr_arg, result>>
<1>1. PICK d \in Disks : registered[1] = Disk(d) /\ registered[1][2] = d /\ d \in Probed
  BY FirstDisk, Zenon
<1>2. /\ running = p /\ asked[p] = NoRead
      /\ device' = [device EXCEPT ![d] = Issue(d, lba)]
      /\ links' = LL_enqueue(links, requests(d), req(p))
      /\ asked' = [asked EXCEPT ![p] = [disk |-> d, lba |-> lba]]
      /\ S!Block(d)
      /\ UNCHANGED <<irq, isr_arg, result>>
  BY <1>1, Zenon DEF ata_read_block
<1>3. /\ waiting' = [waiting EXCEPT ![d] = Append(@, p)] /\ UNCHANGED <<runq, alive>>
  BY <1>2, Zenon DEF S!Block
<1>4. /\ links \in Memory(Headers) /\ device \in [Disks -> [status : Status, lba : Lba]]
      /\ asked \in [Procs -> [disk : Disks \union {NULL}, lba : Lba]]
      /\ waiting \in [Disks -> Seq(Procs)]
  BY Zenon DEF FilesInv, Types, Placed
<1>5. PICK rs \in Seq(Procs) : Serves(d, rs)
  BY <1>1, Zenon DEF FilesInv, DiskInv, DiskOK
<1>6. Range(rs) \subseteq Procs /\ p \notin Range(rs) /\ IsInjective(rs) /\ Ring(links, requests(d), Reqs(rs))
  <2>1. asked[p].disk # d
    BY ONLY <1>2, AsksNone, d \in Disks, Zenon
  <2> QED
    BY <1>5, <2>1, ServedProcs, Zenon
<1>7. /\ links' \in Memory(Headers)
      /\ Ring(links', requests(d), Reqs(Append(rs, p)))
      /\ \A x \in Headers : x # requests(d) /\ x # req(p) /\ (\A q \in Range(rs) : x # req(q))
           => links'[x] = links[x]
      /\ LL_empty(links, requests(d)) <=> rs = <<>>
  <2>1. Requested(links, LL_enqueue(links, requests(d), req(p)), d, rs, p)
    BY <1>4, <1>6, Enqueued, Zenon
  <2>2. Requested(links, links', d, rs, p)
    BY ONLY <1>2, <2>1, Zenon
  <2> QED
    BY ONLY <2>2, Zenon DEF Requested
<1>8. /\ asked' \in [Procs -> [disk : Disks \union {NULL}, lba : Lba]]
      /\ asked'[p] = [disk |-> d, lba |-> lba]
      /\ \A q \in Procs : q # p => asked'[q] = asked[q]
  BY <1>2, <1>4, Zenon
<1>9. /\ device'[d] = IF rs = <<>> THEN Command(lba) ELSE device[d]
      /\ \A e \in Disks : e # d => device'[e] = device[e]
      /\ device' \in [Disks -> [status : Status, lba : Lba]]
  <2>1. Issue(d, lba) = IF rs = <<>> THEN Command(lba) ELSE device[d]
    BY <1>7, Zenon DEF Issue
  <2>2. Issue(d, lba) \in [status : Status, lba : Lba]
    BY <1>4, <2>1 DEF Command, Status
  <2> QED
    BY ONLY <1>2, <1>4, <2>1, <2>2, d \in Disks, Zenon
<1>10. /\ waiting'[d] = Append(waiting[d], p)
       /\ \A e \in Disks : e # d => waiting'[e] = waiting[e]
  BY <1>3, <1>4, Zenon
<1>11. Serves(d, Append(rs, p))'
  <2> DEFINE t == Append(rs, p)
  <2>1. /\ t \in Seq(Procs) /\ t # <<>> /\ IsInjective(t) /\ Range(t) = Range(rs) \union {p}
        /\ Head(t) = IF rs = <<>> THEN p ELSE Head(rs)
    BY <1>6, EnqueueLemma
  <2>2. rs # <<>> => Tail(t) = Append(Tail(rs), p)
    OBVIOUS
  <2>3. rs # <<>> => Head(rs) \in Range(rs) /\ Head(rs) \in Procs /\ Head(rs) # p
    BY <1>6, DequeueLemma
  <2>4. Ring(links', requests(d), Reqs(t))
    BY <1>7, Zenon
  <2> HIDE DEF t
  <2>5. \A q \in Procs : q \in Range(t) <=> asked'[q].disk = d
    <3>1. Range(t) = Range(rs) \union {p} /\ \A q \in Procs : q \in Range(rs) <=> asked[q].disk = d
      BY <1>5, <2>1, ServedProcs, Zenon
    <3> QED
      BY ONLY <1>8, <3>1, p \in Procs
  <2>6. CASE rs = <<>>
    <3>1. waiting[d] = rs
      BY <1>5, <2>6, Zenon DEF Serves
    <3>2. waiting'[d] = t
      BY <1>10, <3>1, Zenon DEF t
    <3>3. device'[d].status # "idle" /\ device'[d].lba = asked'[Head(t)].lba
      <4>1. device'[d] = Command(lba)
        BY ONLY <1>9, <2>6, Zenon
      <4>2. Head(t) = p
        BY ONLY <2>1, <2>6, Zenon
      <4>3. asked'[Head(t)].lba = lba
        BY ONLY <1>8, <4>2
      <4> QED
        BY ONLY <4>1, <4>3 DEF Command
    <3> QED
      BY <2>1, <2>4, <2>5, <3>2, <3>3, Zenon DEF Serves, t
  <2>7. CASE rs # <<>>
    <3>1. device'[d] = device[d] /\ device[d].status # "idle" /\ device[d].lba = asked[Head(rs)].lba
      BY <1>5, <1>9, <2>7, Zenon DEF Serves
    <3>2. asked'[Head(t)] = asked[Head(rs)]
      BY <1>8, <2>1, <2>3, <2>7, Zenon
    <3>3. \/ t = waiting'[d]
          \/ ~irq' /\ device'[d].status = "data" /\ t # <<>> /\ waiting'[d] = Tail(t)
      BY <1>2, <1>5, <1>10, <2>1, <2>2, <2>7, <3>1, Zenon DEF Serves, t
    <3> QED
      <4>1. device'[d].status # "idle" /\ device'[d].lba = asked'[Head(t)].lba
        BY ONLY <3>1, <3>2, Zenon
      <4>2. Serves(d, t)'
        BY ONLY <2>1, <2>4, <2>5, <3>3, <4>1, Zenon DEF Serves
      <4> QED
        BY ONLY <4>2, Zenon DEF t
  <2> QED
    BY <2>6, <2>7, Zenon
<1>12. d \in Probed'
  <2>1. Append(rs, p) \in Seq(Procs)
    BY EnqueueLemma, Zenon
  <2> QED
    BY <1>7, <2>1, RingProbed, Zenon DEF Probed
<1>13. ASSUME NEW e \in Disks, e # d PROVE (e \in Probed' <=> e \in Probed) /\ DiskOK(e)'
  <2>1. asked[p].disk # e /\ \A q \in Range(rs) : asked[q].disk # e
    <3>1. asked[p].disk # e
      BY ONLY <1>2, AsksNone, e \in Disks, Zenon
    <3>2. \A q \in Range(rs) : asked[q].disk = d
      BY <1>5, ServedProcs, Zenon
    <3> QED
      BY ONLY <1>13, <3>1, <3>2, Zenon
  <2>2. asked'[p].disk # e /\ waiting'[e] = waiting[e] /\ device'[e] = device[e] /\ irq' = irq
    BY <1>2, <1>8, <1>9, <1>10, <1>13, Zenon
  <2>3. DiskOK(e)
    BY Zenon DEF FilesInv, DiskInv
  <2> QED
    BY <1>7, <1>8, <1>13, <2>1, <2>2, <2>3, OtherDisk, Zenon
<1>14. DiskInv' /\ Probed' = Probed
  <2>1. DiskOK(d)'
    BY <1>11, <1>12, EnqueueLemma, Zenon DEF DiskOK
  <2>2. Probed \subseteq Disks /\ Probed' \subseteq Disks
    BY Zenon DEF Probed
  <2>3. \A e \in Disks : DiskOK(e)'
    BY <1>13, <2>1, Zenon
  <2>4. Probed' = Probed
    <3>1. \A e \in Disks : e \in Probed' <=> e \in Probed
      BY <1>1, <1>12, <1>13, Zenon
    <3> QED
      BY ONLY <2>2, <3>1, Zenon
  <2> QED
    BY <2>3, <2>4, Zenon DEF DiskInv
<1>15. BlockInv'
  <2>1. \A x \in Headers : (\A e \in Disks : x # requests(e)) /\ (\A q \in Procs : x # req(q))
          => links'[x] = links[x]
    BY <1>6, <1>7, Zenon
  <2> QED
    BY <2>1, BlocksKept, Zenon
<1>16. AskedInv'
  BY <1>1, <1>3, <1>8, <1>2, Running, Zenon DEF AskedInv, FilesInv
<1>17. BootInv'
  BY <1>2, Running, Zenon DEF BootInv
<1>18. ReadsOwnBlock'
  BY <1>2, Zenon DEF ReadsOwnBlock, FilesInv
<1> QED
  BY <1>2, <1>7, <1>8, <1>9, <1>14, <1>15, <1>16, <1>17, <1>18, Zenon

\* The process that was woken finds the data of its own block, takes its own
\* request off the list and starts the next.
LEMMA ResumeKeeps ==
  ASSUME FilesInv, NEW p \in Procs, ata_read_blockResume(p), UNCHANGED fileVars
  PROVE  /\ DiskInv' /\ BlockInv' /\ AskedInv' /\ BootInv' /\ ReadsOwnBlock' /\ Probed' = Probed
         /\ Types' /\ asked'[p] = NoRead /\ \A q \in Procs : q # p => asked'[q] = asked[q]
         /\ UNCHANGED <<irq, isr_arg>>
<1>1. /\ running = p /\ asked[p] # NoRead /\ asked' = [asked EXCEPT ![p] = NoRead]
      /\ UNCHANGED <<schedVars, irq, isr_arg>>
  BY Zenon DEF ata_read_blockResume
<1>2. /\ links \in Memory(Headers) /\ device \in [Disks -> [status : Status, lba : Lba]]
      /\ asked \in [Procs -> [disk : Disks \union {NULL}, lba : Lba]]
      /\ result \in [Procs -> [asked : Lba, data : Lba]]
      /\ waiting \in [Disks -> Seq(Procs)]
  BY Zenon DEF FilesInv, Types, Placed
<1>3. p \in alive /\ registered # <<>> /\ Disk(asked[p].disk) = registered[1]
  BY <1>1, Zenon DEF FilesInv, AskedInv
<1>4. PICK d \in Disks : registered[1] = Disk(d) /\ d \in Probed /\ asked[p].disk = d
  BY <1>3, FirstDisk DEF Disk
<1>5. PICK rs \in Seq(Procs) : Serves(d, rs)
  BY <1>4, Zenon DEF FilesInv, DiskInv, DiskOK
<1>6. /\ Range(rs) \subseteq Procs /\ IsInjective(rs) /\ Ring(links, requests(d), Reqs(rs))
      /\ p \in Range(rs)
  BY <1>4, <1>5, EmptyQueueLemma, Zenon DEF Serves
<1>7. p \notin Range(waiting[d])
  BY <1>1, Running, Zenon
<1>8. /\ ~irq /\ device[d].status = "data" /\ rs # <<>> /\ waiting[d] = Tail(rs) /\ p = Head(rs)
      /\ device[d].lba = asked[p].lba
  <2>1. rs # waiting[d]
    BY <1>6, <1>7, Zenon
  <2>2. ~irq /\ device[d].status = "data" /\ rs # <<>> /\ waiting[d] = Tail(rs)
    BY <1>5, <2>1, Zenon DEF Serves
  <2>3. p = Head(rs)
    BY <1>6, <1>7, <2>2, DequeueLemma
  <2>4. device[d].lba = asked[Head(rs)].lba
    BY <1>5, <2>2, Zenon DEF Serves
  <2> QED
    BY <2>2, <2>3, <2>4, Zenon
<1>9. /\ links' = LL_dequeue(links, requests(d))
      /\ result' = [result EXCEPT ![p] = [asked |-> asked[p].lba, data |-> device[d].lba]]
      /\ device' = [device EXCEPT ![d] = StartNext(d, links')]
  BY <1>4, <1>8, Zenon DEF ata_read_blockResume, ata_check_data, ata_read
<1>10. /\ links' \in Memory(Headers)
       /\ Ring(links', requests(d), Reqs(Tail(rs)))
       /\ \A x \in Headers : x # requests(d) /\ (\A q \in Range(rs) : x # req(q)) => links'[x] = links[x]
       /\ LL_head(links', requests(d)) = IF Tail(rs) = <<>> THEN NULL ELSE req(Head(Tail(rs)))
  <2>1. Taken(links, LL_dequeue(links, requests(d)), d, rs)
    BY <1>2, <1>6, <1>8, Dequeued, Zenon
  <2>2. Taken(links, links', d, rs)
    BY ONLY <1>9, <2>1, Zenon
  <2> QED
    BY ONLY <2>2, Zenon DEF Taken
<1>11. PICK t \in Seq(Procs) : /\ t = Tail(rs) /\ IsInjective(t) /\ Range(rs) = Range(t) \union {p}
                               /\ p \notin Range(t)
  BY <1>6, <1>8, DequeueLemma, Zenon
<1>12. /\ asked'[p] = NoRead /\ \A q \in Procs : q # p => asked'[q] = asked[q]
       /\ asked' \in [Procs -> [disk : Disks \union {NULL}, lba : Lba]]
  BY <1>1, <1>2, Zenon DEF NoRead, Lba
<1>13. t # <<>> => Head(t) \in Range(t) /\ Head(t) \in Procs /\ Head(t) # p
  <2>1. t # <<>> => Head(t) \in Range(t) /\ Head(t) \in Procs
    BY DequeueLemma, Zenon
  <2> QED
    BY <1>11, <2>1, Zenon
<1>14. /\ device'[d] = IF t = <<>> THEN [status |-> "idle", lba |-> NULL] ELSE Command(asked[Head(t)].lba)
       /\ \A e \in Disks : e # d => device'[e] = device[e]
       /\ device' \in [Disks -> [status : Status, lba : Lba]]
  <2>1. StartNext(d, links') = IF t = <<>> THEN [status |-> "idle", lba |-> NULL] ELSE Command(asked[Head(t)].lba)
    <3>1. (t # <<>> => req(Head(t)) # NULL) /\ ProcOf(req(Head(t))) = Head(t)
      <4>1. t # <<>> => req(Head(t)) \in Headers
        BY <1>13, HeaderTypes, Zenon
      <4>2. ProcOf(req(Head(t))) = Head(t)
        BY Zenon DEF ProcOf, req
      <4> QED
        BY <4>1, <4>2, FilesAssumption, Zenon
    <3>2. LL_head(links', requests(d)) = IF t = <<>> THEN NULL ELSE req(Head(t))
      BY <1>10, <1>11, Zenon
    <3> QED
      BY <3>1, <3>2, Zenon DEF StartNext
  <2>2. StartNext(d, links') \in [status : Status, lba : Lba]
    <3>1. t # <<>> => asked[Head(t)].lba \in Lba
      BY <1>2, <1>13, Zenon
    <3> QED
      BY <2>1, <3>1 DEF Command, Status, Lba
  <2> QED
    BY <1>2, <1>9, <2>1, <2>2, Zenon
<1>15. Serves(d, t)'
  <2>1. Ring(links', requests(d), Reqs(t))
    BY <1>10, <1>11, Zenon
  <2>2. \A q \in Procs : q \in Range(t) <=> asked'[q].disk = d
    <3>1. \A q \in Procs : q \in Range(rs) <=> asked[q].disk = d
      BY <1>5, ServedProcs, Zenon
    <3>2. asked'[p].disk # d
      BY ONLY <1>12, AsksNone, d \in Disks, Zenon
    <3>3. Range(rs) = Range(t) \union {p} /\ p \notin Range(t)
      BY <1>11, Zenon
    <3> QED
      BY ONLY <1>12, <3>1, <3>2, <3>3, Zenon
  <2>3. t = waiting'[d]
    BY <1>1, <1>8, <1>11, Zenon DEF schedVars
  <2>4. IF t = <<>> THEN device'[d].status = "idle"
        ELSE device'[d].status # "idle" /\ device'[d].lba = asked'[Head(t)].lba
    <3>1. t # <<>> => asked'[Head(t)] = asked[Head(t)]
      BY ONLY <1>12, <1>13, Zenon
    <3>2. Command(asked[Head(t)].lba).status # "idle" /\ Command(asked[Head(t)].lba).lba = asked[Head(t)].lba
      BY ONLY TRUE, Zenon DEF Command
    <3>3. [status |-> "idle", lba |-> NULL].status = "idle"
      BY ONLY TRUE, Zenon
    <3> QED
      BY ONLY <1>14, <3>1, <3>2, <3>3, Zenon
  <2> QED
    BY <1>11, <2>1, <2>2, <2>3, <2>4, Zenon DEF Serves
<1>16. d \in Probed'
  BY <1>10, <1>11, RingProbed, Zenon DEF Probed
<1>17. ASSUME NEW e \in Disks, e # d PROVE (e \in Probed' <=> e \in Probed) /\ DiskOK(e)'
  <2>1. asked[p].disk # e /\ \A q \in Range(rs) : asked[q].disk # e
    BY <1>4, <1>5, <1>6, <1>17, Zenon DEF Serves
  <2>2. asked'[p].disk # e /\ waiting'[e] = waiting[e] /\ device'[e] = device[e] /\ irq' = irq
    BY <1>1, <1>12, <1>14, <1>17, NoDisk, Zenon DEF NoRead, schedVars
  <2>3. DiskOK(e)
    BY Zenon DEF FilesInv, DiskInv
  <2>4. \A x \in Headers : x # requests(d) /\ x # req(p) /\ (\A q \in Range(rs) : x # req(q))
          => links'[x] = links[x]
    BY <1>10, Zenon
  <2> QED
    BY <1>12, <1>17, <2>1, <2>2, <2>3, <2>4, OtherDisk, Zenon
<1>18. DiskInv' /\ Probed' = Probed
  <2>1. DiskOK(d)'
    BY <1>15, <1>16, Zenon DEF DiskOK
  <2>2. Probed \subseteq Disks /\ Probed' \subseteq Disks
    BY Zenon DEF Probed
  <2>3. \A e \in Disks : DiskOK(e)'
    BY <1>17, <2>1, Zenon
  <2>4. Probed' = Probed
    <3>1. \A e \in Disks : e \in Probed' <=> e \in Probed
      BY <1>4, <1>16, <1>17, Zenon
    <3> QED
      BY ONLY <2>2, <3>1, Zenon
  <2> QED
    BY <2>3, <2>4, Zenon DEF DiskInv
<1>19. BlockInv'
  <2>1. \A x \in Headers : (\A e \in Disks : x # requests(e)) /\ (\A q \in Procs : x # req(q))
          => links'[x] = links[x]
    BY <1>6, <1>10, Zenon
  <2> QED
    BY <1>3, <2>1, BlocksKept, Zenon DEF fileVars
<1>20. AskedInv'
  BY <1>1, <1>12, Zenon DEF AskedInv, FilesInv, schedVars, fileVars
<1>21. BootInv'
  BY <1>1, Running, Zenon DEF BootInv, fileVars
<1>22. ReadsOwnBlock' /\ result' \in [Procs -> [asked : Lba, data : Lba]]
  <2>1. ReadsOwnBlock
    BY Zenon DEF FilesInv
  <2>2. asked[p].lba \in Lba /\ device[d].lba = asked[p].lba
    BY <1>2, <1>8, Zenon
  <2> QED
    BY <1>2, <1>9, <2>1, <2>2, Zenon DEF ReadsOwnBlock
<1>23. Types'
  BY <1>1, <1>10, <1>12, <1>14, <1>22, Zenon DEF FilesInv, Types, fileVars
<1> QED
  BY <1>1, <1>12, <1>18, <1>19, <1>20, <1>21, <1>22, <1>23, Zenon
-----------------------------------------------------------------------------
(* The device and the scheduler                                            *)

\* Only the first disk is ever at work.
LEMMA OnlyFirst ==
  ASSUME FilesInv, NEW d \in Disks, NEW e \in Disks,
         device[d].status # "idle", device[e].status # "idle"
  PROVE  d = e
<1>1. ASSUME NEW c \in Disks, device[c].status # "idle" PROVE registered[1] = Disk(c)
  <2>1. DiskOK(c)
    BY Zenon DEF FilesInv, DiskInv
  <2>2. PICK rs \in Seq(Procs) : Serves(c, rs)
    BY <1>1, <2>1, Zenon DEF DiskOK, Unused
  <2>3. rs # <<>>
    BY <1>1, <2>2, Zenon DEF Serves
  <2>4. Head(rs) \in Range(rs) /\ Head(rs) \in Procs
    BY <2>3, DequeueLemma, Zenon
  <2>5. asked[Head(rs)].disk = c
    BY <2>2, <2>4, Zenon DEF Serves
  <2> QED
    BY <2>4, <2>5, NoDisk DEF FilesInv, AskedInv, NoRead
<1> QED
  BY <1>1 DEF Disk

\* Steps that leave the lists and the file system alone.
LEMMA RestKept ==
  ASSUME FilesInv, Placed', DiskInv',
         device' \in [Disks -> [status : Status, lba : Lba]], irq' \in BOOLEAN,
         UNCHANGED <<links, isr_arg, asked, result, machine, slot, func, pci_cur,
                     fs_pc, blk, part, entry, registered>>,
         alive \subseteq alive', boot_pc' \in Booting => UNCHANGED <<boot_pc, alive>>,
         boot_pc' \in Booting \union {"create", "up"}
  PROVE  FilesInv'
<1>1. Types'
  BY Zenon DEF FilesInv, Types
<1>2. BlockInv' /\ Probed' = Probed
  BY Zenon DEF FilesInv, BlockInv, Probed
<1>3. RegisteredInv'
  BY <1>2, Zenon DEF FilesInv, RegisteredInv
<1>4. AskedInv'
  BY Zenon DEF FilesInv, AskedInv
<1>5. BootInv'
  <2> SUFFICES ASSUME boot_pc' \in Booting PROVE BootInv'
    BY Zenon DEF BootInv
  <2>1. boot_pc \in Booting /\ UNCHANGED <<boot_pc, alive>>
    BY Zenon
  <2>2. PICK ps \in Seq(Headers) : \E j \in 0..Len(ps) : Enumerated(ps, j)
    BY <2>1, Zenon DEF FilesInv, BootInv
  <2>3. PICK j \in 0..Len(ps) : Enumerated(ps, j)
    BY <2>2, Zenon
  <2>4. Enumerated(ps, j)'
    BY <2>3, Zenon DEF Enumerated, FunctionAt
  <2>5. \E xs \in Seq(Headers) : \E i \in 0..Len(xs) : Enumerated(xs, i)'
    BY <2>4, Zenon
  <2> QED
    BY <2>1, <2>5, Zenon DEF FilesInv, BootInv
<1>6. FsInv'
  BY Zenon DEF FilesInv, FsInv, PartOf
<1>7. ReadsOwnBlock'
  BY Zenon DEF FilesInv, ReadsOwnBlock
<1> QED
  BY <1>1, <1>2, <1>3, <1>4, <1>5, <1>6, <1>7, Zenon DEF FilesInv

\* The processes of a disk sleep on as long as nothing happens to their queue.
LEMMA QueuesKept ==
  ASSUME FilesInv, UNCHANGED <<links, device, asked, waiting, irq>>
  PROVE  DiskInv'
<1>1. \A d \in Disks : DiskOK(d)'
  <2> TAKE d \in Disks
  <2>1. DiskOK(d) /\ Probed' = Probed
    BY Zenon DEF FilesInv, DiskInv, Probed
  <2> QED
    BY <2>1, Zenon DEF DiskOK, Serves, Unused
<1> QED
  BY <1>1, Zenon DEF DiskInv

\* A disk answers: nobody has been woken for this command yet.
LEMMA DoneKeeps ==
  ASSUME FilesInv, Placed', NEW d \in Disks, NEW status \in {"data", "err"},
         DeviceDone(d, status), UNCHANGED fileVars
  PROVE  FilesInv'
<1>1. /\ device[d].status = "busy" /\ device' = [device EXCEPT ![d].status = status]
      /\ irq' = TRUE /\ UNCHANGED <<schedVars, links, isr_arg, asked, result>>
  BY Zenon DEF DeviceDone
<1>2. device \in [Disks -> [status : Status, lba : Lba]]
  BY Zenon DEF FilesInv, Types
<1>3. /\ device' \in [Disks -> [status : Status, lba : Lba]]
      /\ device'[d].status = status /\ device'[d].lba = device[d].lba
      /\ \A e \in Disks : e # d => device'[e] = device[e]
  BY <1>1, <1>2, Zenon DEF Status
<1>4. Probed' = Probed /\ waiting' = waiting
  BY <1>1, Zenon DEF Probed, schedVars
<1>5. ASSUME NEW e \in Disks PROVE DiskOK(e)'
  <2>1. DiskOK(e)
    BY Zenon DEF FilesInv, DiskInv
  <2>2. CASE e \notin Probed
    <3>1. e # d /\ Unused(e)
      BY <1>1, <2>1, <2>2, Zenon DEF DiskOK, Unused
    <3> QED
      BY <1>1, <1>3, <1>4, <2>2, <3>1, Zenon DEF DiskOK, Unused
  <2>3. CASE e \in Probed
    <3>1. PICK rs \in Seq(Procs) : Serves(e, rs)
      BY <2>1, <2>3, Zenon DEF DiskOK
    <3>2. rs = waiting[e]
      <4> SUFFICES ASSUME device[e].status = "data" PROVE FALSE
        BY <3>1, Zenon DEF Serves
      <4>1. d = e
        BY <1>1, OnlyFirst, Zenon
      <4> QED
        BY <1>1, <4>1, Zenon
    <3>3. IF rs = <<>> THEN device'[e].status = "idle"
          ELSE device'[e].status # "idle" /\ device'[e].lba = asked[Head(rs)].lba
      BY <1>1, <1>3, <3>1, Zenon DEF Serves
    <3>4. Serves(e, rs)'
      BY <1>1, <1>4, <3>1, <3>2, <3>3, Zenon DEF Serves
    <3> QED
      BY <1>4, <2>3, <3>4, Zenon DEF DiskOK
  <2> QED
    BY <2>2, <2>3, Zenon
<1>6. DiskInv'
  BY <1>5, Zenon DEF DiskInv
<1>7. irq' \in BOOLEAN
  BY ONLY <1>1, Zenon
<1>8. /\ UNCHANGED <<machine, slot, func, pci_cur, fs_pc, blk, part, entry, registered, boot_pc>>
      /\ boot_pc \in Booting \union {"create", "up"} /\ UNCHANGED alive
  BY <1>1, Zenon DEF fileVars, FilesInv, Types, schedVars
<1> QED
  BY <1>1, <1>3, <1>6, <1>7, <1>8, RestKept, Zenon

\* ata_isr wakes the process whose request is first, and wakes one only.
LEMMA IsrKeeps ==
  ASSUME FilesInv, Placed', ata_isr, UNCHANGED fileVars
  PROVE  FilesInv'
<1>1. /\ isr_arg # NULL /\ irq' = FALSE
      /\ irq \/ device[isr_arg].status \in {"idle", "busy"}
      /\ UNCHANGED <<links, device, isr_arg, asked, result>>
  BY Zenon DEF ata_isr
<1>2. PICK d \in Disks : d = isr_arg
  BY <1>1, Zenon DEF FilesInv, Types
<1>3. waiting \in [Disks -> Seq(Procs)]
  BY Zenon DEF FilesInv, Placed
<1>4. Probed' = Probed
  BY <1>1, Zenon DEF Probed
<1>5. alive' = alive /\ \A e \in Disks : e # d => waiting'[e] = waiting[e]
  BY <1>2, <1>3, Zenon DEF ata_isr, S!WakeHead, schedVars
<1>6. ASSUME NEW e \in Disks, UNCHANGED waiting[e] PROVE DiskOK(e)'
  <2>1. DiskOK(e)
    BY Zenon DEF FilesInv, DiskInv
  <2> QED
    BY <1>1, <1>4, <1>6, <2>1, Zenon DEF DiskOK, Serves, Unused
<1>7. DiskOK(d)'
  <2>1. CASE UNCHANGED waiting
    BY <1>6, <2>1, Zenon
  <2>2. CASE device[d].status = "data" /\ waiting[d] # <<>> /\ S!WakeHead(d)
    <3>1. irq
      BY <1>1, <1>2, <2>2, Zenon
    <3>2. DiskOK(d)
      BY Zenon DEF FilesInv, DiskInv
    <3>3. d \in Probed
      BY <2>2, <3>2, Zenon DEF DiskOK, Unused
    <3>4. PICK rs \in Seq(Procs) : Serves(d, rs)
      BY <3>2, <3>3, Zenon DEF DiskOK
    <3>5. rs = waiting[d]
      BY <3>1, <3>4, Zenon DEF Serves
    <3>6. waiting'[d] = Tail(rs)
      BY <1>3, <2>2, <3>5, Zenon DEF S!WakeHead
    <3>7. Serves(d, rs)'
      BY <1>1, <2>2, <3>4, <3>5, <3>6, Zenon DEF Serves
    <3> QED
      BY <1>4, <3>3, <3>7, Zenon DEF DiskOK
  <2> QED
    BY <1>2, <2>1, <2>2, Zenon DEF ata_isr, ata_check_data, schedVars
<1>8. DiskInv'
  BY <1>5, <1>6, <1>7, Zenon DEF DiskInv
<1>9. irq' \in BOOLEAN /\ device' \in [Disks -> [status : Status, lba : Lba]]
  <2>1. device' \in [Disks -> [status : Status, lba : Lba]]
    BY <1>1, Zenon DEF FilesInv, Types
  <2> QED
    BY ONLY <1>1, <2>1, Zenon
<1>10. /\ UNCHANGED <<machine, slot, func, pci_cur, fs_pc, blk, part, entry, registered, boot_pc>>
       /\ boot_pc \in Booting \union {"create", "up"}
  BY Zenon DEF fileVars, FilesInv, Types
<1> QED
  BY <1>1, <1>5, <1>8, <1>9, <1>10, RestKept, Zenon

\* Creating and scheduling processes.
LEMMA SchedulingKeeps ==
  ASSUME FilesInv, Placed', Creating \/ Scheduling \/ \E p \in Procs : yield(p)
  PROVE  FilesInv'
<1>1. /\ UNCHANGED <<links, device, irq, isr_arg, asked, result, waiting>>
      /\ UNCHANGED <<machine, slot, func, pci_cur, fs_pc, blk, part, entry, registered>>
      /\ alive \subseteq alive'
      /\ boot_pc' \in Booting => UNCHANGED <<boot_pc, alive>>
      /\ boot_pc' \in Booting \union {"create", "up"}
  <2>0. boot_pc \in Booting \union {"create", "up"}
    BY Zenon DEF FilesInv, Types
  <2>1. CASE Creating
    BY <2>0, <2>1, Zenon DEF Creating, S!Create, diskVars, Booting
  <2>2. CASE Scheduling
    BY <2>0, <2>2, Zenon DEF Scheduling, S!Dispatch, S!Idle, diskVars, fileVars
  <2>3. CASE \E p \in Procs : yield(p)
    BY <2>0, <2>3, Zenon DEF yield, S!Yield, diskVars, fileVars
  <2> QED
    BY <2>1, <2>2, <2>3, Zenon
<1>2. DiskInv'
  BY <1>1, QueuesKept, Zenon
<1>3. device' \in [Disks -> [status : Status, lba : Lba]] /\ irq' \in BOOLEAN
  BY <1>1, Zenon DEF FilesInv, Types
<1> QED
  BY <1>1, <1>2, <1>3, RestKept, Zenon

-----------------------------------------------------------------------------
(* Boot                                                                    *)

\* While kmain initialises the modules nobody reads.
LEMMA NobodyReads ==
  ASSUME FilesInv, boot_pc \in Booting,
         UNCHANGED <<schedVars, device, irq, asked, result, machine, fs_pc, blk, part, entry>>
  PROVE  /\ Placed' /\ AskedInv' /\ FsInv' /\ ReadsOwnBlock'
         /\ alive' = {} /\ fs_pc' = "open" /\ \A p \in Procs : asked'[p] = NoRead
         /\ \A d \in Disks : waiting[d] = <<>> /\ device[d].status = "idle"
         /\ \A d \in Probed : links[requests(d)] = [next |-> requests(d), prev |-> requests(d)]
         /\ \A k \in 1..4 : Partition(k) \notin Range(registered)
<1>1. alive = {} /\ fs_pc = "open" /\ \A p \in Procs : asked[p] = NoRead
  BY Zenon DEF FilesInv, BootInv
<1>2. Placed' /\ ReadsOwnBlock'
  BY Zenon DEF FilesInv, Placed, ReadsOwnBlock, schedVars
<1>3. AskedInv'
  BY <1>1, Zenon DEF AskedInv
<1>4. FsInv'
  BY <1>1, FilesAssumption, Zenon DEF FilesInv, FsInv
<1>5. ASSUME NEW d \in Disks
      PROVE  /\ waiting[d] = <<>> /\ device[d].status = "idle"
             /\ d \in Probed => links[requests(d)] = [next |-> requests(d), prev |-> requests(d)]
  <2>1. \A p \in Procs : asked[p].disk # d
    BY <1>1, NoDisk DEF NoRead
  <2>2. CASE d \notin Probed
    BY <2>2, Zenon DEF FilesInv, DiskInv, DiskOK, Unused
  <2>3. CASE d \in Probed
    <3>1. PICK rs \in Seq(Procs) : Serves(d, rs)
      BY <2>3, Zenon DEF FilesInv, DiskInv, DiskOK
    <3>2. rs = <<>>
      <4> SUFFICES ASSUME rs # <<>> PROVE FALSE
        BY Zenon
      <4>1. Head(rs) \in Range(rs) /\ Head(rs) \in Procs
        BY DequeueLemma, Zenon
      <4> QED
        BY <2>1, <3>1, <4>1, Zenon DEF Serves
    <3>3. waiting[d] = <<>> /\ device[d].status = "idle"
      BY <3>1, <3>2, Zenon DEF Serves
    <3>4. Ring(links, requests(d), <<>>) /\ requests(d) \in Headers /\ <<>> \in Seq(Headers)
      BY <3>1, <3>2, HeaderTypes, SMTT(30) DEF Serves, Reqs
    <3>5. links[requests(d)].next = requests(d) /\ links[requests(d)].prev = requests(d)
      <4>0. <<>> \in Seq(Headers)
        OBVIOUS
      <4>1. PICK e \in Seq(Headers) : e = <<>>
        BY ONLY <4>0, Zenon
      <4>2. Ring(links, requests(d), e)
        BY <3>4, <4>1, Zenon
      <4>3. links[requests(d)].next = At(requests(d), e, 1) /\ links[requests(d)].prev = At(requests(d), e, Len(e))
        BY <3>4, <4>2, RingLinks, ZenonT(60)
      <4> QED
        BY <4>1, <4>3 DEF At
    <3>6. links[requests(d)] \in [next : Link(Headers), prev : Link(Headers)]
      BY HeaderTypes, Zenon DEF FilesInv, Types, Memory
    <3> QED
      BY <3>3, <3>5, <3>6, Zenon
  <2> QED
    BY <2>2, <2>3, Zenon
<1>6. \A k \in 1..4 : Partition(k) \notin Range(registered)
  BY <1>1, Zenon DEF FilesInv, RegisteredInv
<1>7. \A d \in Probed : links[requests(d)] = [next |-> requests(d), prev |-> requests(d)]
  BY <1>5, Zenon DEF Probed
<1>8. alive' = {} /\ fs_pc' = "open" /\ \A p \in Procs : asked'[p] = NoRead
  BY <1>1, Zenon DEF schedVars
<1>9. \A d \in Disks : waiting[d] = <<>> /\ device[d].status = "idle"
  BY <1>5, Zenon
<1> QED
  BY ONLY <1>2, <1>3, <1>4, <1>6, <1>7, <1>8, <1>9, Zenon

\* Their lists of requests stay empty.
LEMMA BootDisks ==
  ASSUME FilesInv, boot_pc \in Booting,
         UNCHANGED <<schedVars, device, irq, asked, result, machine, fs_pc, blk, part, entry>>,
         \A d \in Disks : \/ links'[requests(d)] = links[requests(d)]
                          \/ links'[requests(d)] = [next |-> requests(d), prev |-> requests(d)]
  PROVE  DiskInv' /\ Probed \subseteq Probed'
<1>0. \A d \in Disks : requests(d) # NULL
  BY HeaderTypes, FilesAssumption, Zenon
<1>1. ASSUME NEW d \in Disks PROVE DiskOK(d)' /\ (d \in Probed => d \in Probed')
  <2>1. waiting' = waiting /\ waiting[d] = <<>> /\ device[d].status = "idle"
    BY NobodyReads, Zenon DEF schedVars
  <2>2. \A p \in Procs : asked'[p].disk # d
    BY NobodyReads, AsksNone, Zenon
  <2>3. d \in Probed => d \in Probed'
    <3>1. d \in Probed <=> links[requests(d)].next # NULL
      BY Zenon DEF Probed
    <3>2. d \in Probed' <=> links'[requests(d)].next # NULL
      BY Zenon DEF Probed
    <3>3. requests(d) # NULL
      BY <1>0, Zenon
    <3>4. links[requests(d)].next # NULL => links'[requests(d)].next # NULL
      <4>1. \/ links'[requests(d)] = links[requests(d)]
            \/ links'[requests(d)] = [next |-> requests(d), prev |-> requests(d)]
        BY Zenon
      <4> QED
        BY ONLY <3>3, <4>1
    <3> QED
      BY ONLY <3>1, <3>2, <3>4, Zenon
  <2>4. CASE d \notin Probed'
    <3>1. Unused(d)'
      BY <2>1, <2>2, Zenon DEF Unused
    <3> QED
      BY <2>3, <2>4, <3>1, Zenon DEF DiskOK
  <2>5. CASE d \in Probed'
    <3>1. links'[requests(d)] = [next |-> requests(d), prev |-> requests(d)]
      <4>1. d \in Probed => links[requests(d)] = [next |-> requests(d), prev |-> requests(d)]
        BY NobodyReads, Zenon
      <4> QED
        BY <2>5, <4>1, Zenon DEF Probed
    <3>2. Reqs(<<>>) = <<>>
      BY DEF Reqs
    <3>3. Ring(links', requests(d), Reqs(<<>>))
      BY <3>1, <3>2, EmptyRing, SMTT(30)
    <3>4. Range(<<>>) = {} /\ IsInjective(<<>>) /\ <<>> \in Seq(Procs)
      BY EmptyQueueLemma
    <3>5. Serves(d, <<>>)'
      BY <2>1, <2>2, <3>3, <3>4, Zenon DEF Serves
    <3>6. \E rs \in Seq(Procs) : Serves(d, rs)'
      BY ONLY <3>4, <3>5, Zenon
    <3> QED
      BY ONLY <2>3, <2>5, <3>6, Zenon DEF DiskOK
  <2> QED
    BY <2>3, <2>4, <2>5, Zenon
<1> QED
  BY <1>1, Zenon DEF DiskInv, Probed

\* The functions that PCI_enum has found are on the list once each.
LEMMA FunctionsListed ==
  ASSUME FilesInv, NEW ps \in Seq(Headers), NEW j \in 0..Len(ps), Enumerated(ps, j)
  PROVE  /\ Len(ps) \in Nat
         /\ \A i \in 1..Len(ps) : \E n \in Nat : ps[i] = <<"pci", n>> /\ n # 0 /\ n < 4 * slot + func
         /\ Distinct(pci_dev_list, ps)
<1>1. Len(ps) \in Nat
  OBVIOUS
<1>2. ASSUME NEW i \in 1..Len(ps)
      PROVE  \E n \in Nat : ps[i] = <<"pci", n>> /\ n # 0 /\ n < 4 * slot + func
  <2>1. PICK s \in 1..Len(machine.slots) : \E f \in 0..(Len(machine.slots[s]) - 1) : ps[i] = PCIDevice(s, f)
    BY Zenon DEF Enumerated
  <2>2. PICK f \in 0..(Len(machine.slots[s]) - 1) : ps[i] = PCIDevice(s, f)
    BY <2>1, Zenon
  <2>3. Len(machine.slots) \in Nat /\ Len(machine.slots[s]) \in Nat
    BY MachineAssumption DEF FilesInv, Types
  <2>4. s \in Nat /\ s # 0 /\ f \in Nat
    BY <2>3
  <2>5. ps[i] = <<"pci", 4 * s + f>> /\ ps[i][2] < 4 * slot + func
    BY <2>2, Zenon DEF PCIDevice, Enumerated
  <2>6. 4 * s + f \in Nat /\ 4 * s + f # 0
    BY <2>4
  <2> QED
    BY <2>5, <2>6
<1>3. \A i, k \in 1..Len(ps) : i < k => ps[i][2] < ps[k][2]
  BY Zenon DEF Enumerated
<1>4. \A i, k \in 1..Len(ps) : i # k => ps[i] # ps[k]
  <2> SUFFICES ASSUME NEW i \in 1..Len(ps), NEW k \in 1..Len(ps), i # k, ps[i] = ps[k] PROVE FALSE
    BY Zenon
  <2>1. PICK n \in Nat : ps[i] = <<"pci", n>>
    BY <1>2, Zenon
  <2>2. ps[i][2] = n /\ ps[k][2] = n
    BY <2>1
  <2>3. ~(n < n)
    OBVIOUS
  <2>4. i < k \/ k < i
    BY <1>1
  <2> QED
    BY <1>3, <2>2, <2>3, <2>4, Zenon
<1>5. \A i \in 1..Len(ps) : ps[i] # pci_dev_list
  BY <1>2 DEF pci_dev_list
<1>6. \A i \in 0..Len(ps) : At(pci_dev_list, ps, i) = IF i = 0 THEN pci_dev_list ELSE ps[i]
  BY <1>1 DEF At
<1>7. Distinct(pci_dev_list, ps)
  BY <1>1, <1>4, <1>5, <1>6 DEF Distinct
<1> QED
  BY <1>1, <1>2, <1>7, Zenon

\* What a step of kmain has to keep.
LEMMA BootStep ==
  ASSUME FilesInv, boot_pc \in Booting, boot_pc' \in Booting,
         UNCHANGED <<schedVars, device, irq, asked, result, machine, fs_pc, blk, part, entry>>,
         links' \in Memory(Headers), slot' \in Nat \ {0}, func' \in 0..4,
         isr_arg' \in Disks \union {NULL}, DiskInv', BlockInv', RegisteredInv',
         NEW xs \in Seq(Headers), NEW i \in 0..Len(xs), Enumerated(xs, i)',
         boot_pc' # "ata" =>
           /\ registered' = <<>>
           /\ links'[inodes] = [next |-> inodes, prev |-> inodes]
           /\ links'[blocks] = [next |-> blocks, prev |-> blocks]
           /\ links'[chars] = [next |-> blocks, prev |-> blocks]
  PROVE  FilesInv'
<1>1. /\ Placed' /\ AskedInv' /\ FsInv' /\ ReadsOwnBlock'
      /\ alive' = {} /\ fs_pc' = "open" /\ \A p \in Procs : asked'[p] = NoRead
  BY NobodyReads, Zenon
<1>2. Types'
  BY Zenon DEF FilesInv, Types
<1>3. \E ps \in Seq(Headers) : \E j \in 0..Len(ps) : Enumerated(ps, j)'
  BY Zenon
<1>4. BootInv'
  BY <1>1, <1>3, Zenon DEF BootInv
<1> QED
  BY <1>1, <1>2, <1>4, Zenon DEF FilesInv

\* Steps of kmain that register no block device.
LEMMA NothingRegistered ==
  ASSUME FilesInv, boot_pc \in Booting,
         UNCHANGED <<schedVars, device, irq, asked, result, machine, fs_pc, blk, part, entry>>,
         UNCHANGED <<isr_arg, registered>>,
         \A d \in Disks : \/ links'[requests(d)] = links[requests(d)]
                          \/ links'[requests(d)] = [next |-> requests(d), prev |-> requests(d)]
  PROVE  DiskInv' /\ RegisteredInv' /\ isr_arg' \in Disks \union {NULL}
<1>1. DiskInv' /\ Probed \subseteq Probed'
  BY BootDisks, Zenon
<1>2. RegisteredInv'
  BY <1>1, Zenon DEF FilesInv, RegisteredInv
<1> QED
  BY <1>1, <1>2, Zenon DEF FilesInv, Types

\* PCI_enum appends the function it has found to its list.
LEMMA EnumKeeps ==
  ASSUME FilesInv, PCI_enum
  PROVE  FilesInv'
<1>1. /\ boot_pc = "enum" /\ boot_pc \in Booting
      /\ UNCHANGED <<schedVars, device, irq, asked, result, machine, fs_pc, blk, part, entry>>
      /\ UNCHANGED <<isr_arg, pci_cur, registered>>
  BY Zenon DEF PCI_enum, Booting
<1>2. /\ links[inodes] = [next |-> inodes, prev |-> inodes]
      /\ links[blocks] = [next |-> blocks, prev |-> blocks]
      /\ links[chars] = [next |-> blocks, prev |-> blocks]
      /\ registered = <<>> /\ \A d \in Disks : Disk(d) \notin Range(registered)
  BY <1>1, EmptyQueueLemma, Zenon DEF FilesInv, BootInv
<1>3. PICK ps \in Seq(Headers) : \E j \in 0..Len(ps) : Enumerated(ps, j)
  BY <1>1, Zenon DEF FilesInv, BootInv
<1>4. PICK j \in 0..Len(ps) : Enumerated(ps, j)
  BY <1>3, Zenon
<1>5. /\ links \in Memory(Headers) /\ slot \in Nat \ {0} /\ func \in 0..4 /\ machine \in Machines
      /\ Len(ps) \in Nat
  BY DEF FilesInv, Types
<1>6. CASE /\ UNCHANGED links /\ boot_pc' \in Booting /\ boot_pc' # "ata"
           /\ \/ UNCHANGED <<slot, func>>
              \/ slot' = slot + 1 /\ func' = 0
  <2>1. /\ slot' \in Nat \ {0} /\ func' \in 0..4
        /\ 4 * slot + func \in Nat /\ 4 * slot' + func' \in Nat /\ 4 * slot + func <= 4 * slot' + func'
    <3>1. slot \in Nat \ {0} /\ func \in 0..4
      BY <1>5, Zenon
    <3>2. \/ slot' = slot /\ func' = func
          \/ slot' = slot + 1 /\ func' = 0
      BY <1>6, Zenon
    <3> QED
      BY ONLY <3>1, <3>2, SMTT(30)
  <2>0. PICK a \in Nat, b \in Nat : a = 4 * slot + func /\ b = 4 * slot' + func' /\ a <= b
    BY ONLY <2>1, Zenon
  <2>2. \A i \in 1..Len(ps) : ps[i][2] < 4 * slot' + func'
    <3> SUFFICES ASSUME NEW i \in 1..Len(ps) PROVE ps[i][2] < 4 * slot' + func'
      BY Zenon
    <3>1. PICK n \in Nat : ps[i] = <<"pci", n>> /\ n < 4 * slot + func
      BY <1>4, FunctionsListed, Zenon
    <3>2. ps[i][2] = n
      BY <3>1
    <3>3. n < a /\ a <= b
      BY ONLY <2>0, <3>1, Zenon
    <3>4. n < b
      BY ONLY <3>3, n \in Nat, a \in Nat, b \in Nat
    <3> QED
      BY ONLY <2>0, <3>2, <3>4, Zenon
  <2>3. Enumerated(ps, j)'
    BY <1>1, <1>2, <1>4, <1>6, <2>2, Zenon DEF Enumerated
  <2>4. DiskInv' /\ RegisteredInv' /\ isr_arg' \in Disks \union {NULL}
    BY <1>1, <1>6, NothingRegistered, Zenon
  <2>5. BlockInv'
    BY <1>1, <1>6, Zenon DEF FilesInv, BlockInv
  <2>6. /\ registered' = <<>> /\ links' \in Memory(Headers)
        /\ links'[inodes] = [next |-> inodes, prev |-> inodes]
        /\ links'[blocks] = [next |-> blocks, prev |-> blocks]
        /\ links'[chars] = [next |-> blocks, prev |-> blocks]
    BY <1>1, <1>2, <1>5, <1>6, Zenon
  <2> QED
    BY <1>1, <1>6, <2>1, <2>3, <2>4, <2>5, <2>6, BootStep, Zenon
<1>7. CASE /\ slot <= Len(machine.slots) /\ func < Len(machine.slots[slot])
           /\ links' = LL_enqueue(links, pci_dev_list, PCIDevice(slot, func))
           /\ func' = func + 1 /\ UNCHANGED <<slot, boot_pc>>
  <2>1. /\ Len(machine.slots) \in 0..MaxSlots /\ slot \in 1..Len(machine.slots)
        /\ Len(machine.slots[slot]) \in 0..4 /\ func \in 0..3 /\ slot \in 1..MaxSlots
        /\ func \in 0..(Len(machine.slots[slot]) - 1)
    <3>1. Len(machine.slots) \in 0..MaxSlots
      BY <1>5, MachineAssumption, Zenon
    <3>2. slot \in 1..Len(machine.slots) /\ slot \in 1..MaxSlots
      BY <1>5, <1>7, <3>1, FilesAssumption
    <3>3. Len(machine.slots[slot]) \in 0..4
      BY <1>5, <3>2, MachineAssumption, Zenon
    <3>4. PICK l \in 0..4 : l = Len(machine.slots[slot])
      BY <3>3, Zenon
    <3>5. func < l
      BY <1>7, <3>4, Zenon
    <3>6. func \in 0..3 /\ func \in 0..(l - 1)
      BY ONLY <1>5, <3>5, l \in 0..4
    <3> QED
      BY ONLY <3>1, <3>2, <3>3, <3>4, <3>6, Zenon
  <2>2. PICK n \in Headers : n = PCIDevice(slot, func)
    BY <2>1, HeaderTypes, Zenon
  <2>3. PICK m \in Nat : m = 4 * slot + func /\ n = <<"pci", m>> /\ m # 0 /\ m < 4 * slot' + func'
    BY <1>5, <1>7, <2>2 DEF PCIDevice
  <2>4. \A i \in 1..Len(ps) : \E k \in Nat : ps[i] = <<"pci", k>> /\ k # 0 /\ k < m
    BY <1>4, <2>3, FunctionsListed, Zenon
  <2>5. Distinct(pci_dev_list, ps)
    BY <1>4, FunctionsListed, Zenon
  <2>6. Off(pci_dev_list, ps, n)
    <3>1. n # pci_dev_list
      BY <2>3, Zenon DEF pci_dev_list
    <3>2. \A i \in 1..Len(ps) : ps[i] # n
      BY <2>3, <2>4
    <3> QED
      BY <1>5, <3>1, <3>2, Zenon DEF Off, At
  <2>7. \A x \in Headers : (\A k \in Nat : x # <<"pci", k>>) => x # n /\ Off(pci_dev_list, ps, x)
    <3> SUFFICES ASSUME NEW x \in Headers, \A k \in Nat : x # <<"pci", k>>
                 PROVE  x # n /\ Off(pci_dev_list, ps, x)
      BY Zenon
    <3>1. x # n /\ x # pci_dev_list
      BY <2>3, Zenon DEF pci_dev_list
    <3>2. \A i \in 1..Len(ps) : ps[i] # x
      <4> SUFFICES ASSUME NEW i \in 1..Len(ps) PROVE ps[i] # x
        BY Zenon
      <4>1. PICK k \in Nat : ps[i] = <<"pci", k>>
        BY <2>4, Zenon
      <4> QED
        BY <4>1, Zenon
    <3> QED
      BY <1>5, <3>1, <3>2, Zenon DEF Off, At
  <2>8. Ring(links, pci_dev_list, ps) /\ pci_dev_list \in Headers /\ links' = LL_append(links, pci_dev_list, n)
    BY <1>4, <1>7, <2>2, HeaderTypes, Zenon DEF Enumerated, LL_enqueue
  <2>9. /\ links' \in Memory(Headers)
        /\ \A x \in Headers : (\A k \in Nat : x # <<"pci", k>>) => links'[x] = links[x]
    BY <1>5, <2>6, <2>7, <2>8, AppendEffect, SMTT(30)
  <2>10. Ring(links', pci_dev_list, Append(ps, n))
    <3>1. \A k \in 0..Len(ps) : At(pci_dev_list, ps, k) # n
      BY <2>6, Zenon DEF Off
    <3> QED
      BY <1>5, <2>5, <2>8, <3>1, AppendKeepsRing, Zenon
  <2>11. /\ links'[inodes] = links[inodes] /\ links'[blocks] = links[blocks] /\ links'[chars] = links[chars]
         /\ \A d \in Disks : links'[requests(d)] = links[requests(d)]
    BY <2>9, HeaderTypes, Zenon DEF inodes, blocks, chars, requests
  <2>12. PICK xs \in Seq(Headers) : xs = Append(ps, n)
    <3>1. Append(ps, n) \in Seq(Headers)
      OBVIOUS
    <3> QED
      BY ONLY <3>1, Zenon
  <2>13. /\ Len(xs) = Len(ps) + 1 /\ xs[Len(ps) + 1] = n /\ \A i \in 1..Len(ps) : xs[i] = ps[i]
         /\ j \in 0..Len(xs)
    BY <1>5, <2>12
  <2>14. pci_cur' = At(pci_dev_list, xs, j)
    <3>1. pci_cur' = At(pci_dev_list, ps, j)
      BY <1>1, <1>4, Zenon DEF Enumerated
    <3>2. At(pci_dev_list, xs, j) = At(pci_dev_list, ps, j)
      BY ONLY <1>5, <2>13, j \in 0..Len(ps) DEF At
    <3> QED
      BY ONLY <3>1, <3>2, Zenon
  <2>15. ASSUME NEW i \in 1..Len(xs)
         PROVE  /\ \E s \in 1..Len(machine.slots) : \E f \in 0..(Len(machine.slots[s]) - 1) : xs[i] = PCIDevice(s, f)
                /\ xs[i][2] < 4 * slot' + func'
                /\ \A k \in 1..Len(xs) : i < k => xs[i][2] < xs[k][2]
    <3>1. CASE i = Len(ps) + 1
      <4>1. xs[i] = PCIDevice(slot, func) /\ xs[i][2] = m
        BY <2>2, <2>3, <2>13, <3>1, SMTT(30)
      <4>2. \A k \in 1..Len(xs) : ~(i < k)
        BY <1>5, <2>13, <3>1
      <4> QED
        BY <2>1, <2>3, <4>1, <4>2, Zenon
    <3>2. CASE i # Len(ps) + 1
      <4>1. i \in 1..Len(ps) /\ xs[i] = ps[i]
        BY <1>5, <2>13, <3>2
      <4>2. PICK k \in Nat : ps[i] = <<"pci", k>> /\ k < m
        BY <2>4, <4>1, Zenon
      <4>3. xs[i][2] = k
        BY <4>1, <4>2
      <4>4. k < 4 * slot' + func'
        <5>1. 4 * slot' + func' \in Nat
          BY <1>5, <1>7
        <5> QED
          BY ONLY <2>3, <4>2, <5>1, k \in Nat, m \in Nat, SMTT(30)
      <4>5. ASSUME NEW l \in 1..Len(xs), i < l PROVE xs[i][2] < xs[l][2]
        <5>1. CASE l = Len(ps) + 1
          BY <2>3, <2>13, <4>2, <4>3, <5>1, SMTT(30)
        <5>2. CASE l # Len(ps) + 1
          <6>1. l \in 1..Len(ps) /\ xs[l] = ps[l]
            BY <1>5, <2>13, <5>2
          <6> QED
            BY <1>4, <4>1, <4>5, <6>1, Zenon DEF Enumerated
        <5> QED
          BY <5>1, <5>2, Zenon
      <4>6. \E s \in 1..Len(machine.slots) : \E f \in 0..(Len(machine.slots[s]) - 1) : xs[i] = PCIDevice(s, f)
        <5>1. \E s \in 1..Len(machine.slots) : \E f \in 0..(Len(machine.slots[s]) - 1) : ps[i] = PCIDevice(s, f)
          BY <1>4, <4>1, Zenon DEF Enumerated
        <5> QED
          BY ONLY <4>1, <5>1, Zenon
      <4> QED
        BY <4>3, <4>4, <4>5, <4>6, Zenon
    <3> QED
      BY <3>1, <3>2, Zenon
  <2>16. Enumerated(xs, j)'
    <3>1. machine' = machine /\ \A d \in Disks : Disk(d) \notin Range(registered')
      BY <1>1, <1>2, Zenon
    <3>2. Ring(links', pci_dev_list, xs)
      BY <2>10, <2>12, Zenon
    <3> QED
      BY <2>14, <2>15, <3>1, <3>2, Zenon DEF Enumerated
  <2>17. DiskInv' /\ RegisteredInv' /\ isr_arg' \in Disks \union {NULL}
    BY <1>1, <2>11, NothingRegistered, ZenonT(60)
  <2>18. BlockInv'
    BY <1>1, <1>2, <2>11, SMTT(30) DEF BlockInv
  <2>19. slot' \in Nat \ {0} /\ func' \in 0..4 /\ boot_pc' \in Booting
    BY <1>1, <1>5, <1>7, <2>1
  <2> QED
    BY <1>1, <1>2, <2>9, <2>11, <2>13, <2>16, <2>17, <2>18, <2>19, BootStep, Zenon
<1> QED
  <2>1. CASE slot > Len(machine.slots)
    <3>1. UNCHANGED <<links, slot, func>> /\ boot_pc' = "ps2"
      BY <1>1, <2>1, Zenon DEF PCI_enum, FS_temp_dev_init
    <3> QED
      BY <1>6, <3>1, Zenon DEF Booting
  <2>2. CASE ~(slot > Len(machine.slots))
    <3>1. pci_enum_device /\ UNCHANGED boot_pc
      BY <2>2, Zenon DEF PCI_enum
    <3>2. slot <= Len(machine.slots)
      BY <1>5, <2>2, MachineAssumption
    <3> QED
      BY <1>1, <1>6, <1>7, <3>1, <3>2, Zenon DEF pci_enum_device
  <2> QED
    BY <2>1, <2>2, Zenon

\* N is memory L after n has become the only element of list h.
FirstIn(H, L, N, h, n) ==
  /\ N \in Memory(H) /\ Ring(N, h, <<n>>)
  /\ \A x \in H : x # h /\ x # n => N[x] = L[x]

\* One element in an empty list, of which only the link back need be right.
LEMMA AppendFirst ==
  ASSUME NEW H, NEW L \in Memory(H), NEW h \in H, NEW n \in H, n # h, L[h].prev = h
  PROVE  FirstIn(H, L, LL_append(L, h, n), h, n)
<1>1. PICK N : N = ll_add(L, n, h, h)
  BY Zenon
<1>2. N = LL_append(L, h, n)
  BY <1>1, Zenon DEF LL_append, LL_add_prev
<1>3. N \in Memory(H) /\ Added(H, L, N, n, h, h)
  BY <1>1, AddMemory, AddLinks, Zenon
<1>4. N[h].next = n /\ N[n].next = h /\ N[h].prev = n /\ N[n].prev = h
  BY <1>3, Zenon DEF Added
<1>5. Ring(N, h, <<n>>)
  BY <1>4 DEF Ring, At
<1>6. ASSUME NEW x \in H, x # h, x # n PROVE N[x] = L[x]
  <2>1. N[x].next = L[x].next /\ N[x].prev = L[x].prev
    BY <1>3, <1>6, Zenon DEF Added
  <2> QED
    BY <1>3, <2>1, SameLinks, Zenon
<1> QED
  BY <1>2, <1>3, <1>5, <1>6, Zenon DEF FirstIn

\* FS_register_cdev: the list of character devices starts at the head of the
\* block devices, so that the first of them is linked in there.
LEMMA CdevKeeps ==
  ASSUME FilesInv, FS_register_cdev
  PROVE  FilesInv'
<1>1. /\ boot_pc = "ps2" /\ boot_pc \in Booting /\ boot_pc' = "ata" /\ boot_pc' \in Booting
      /\ UNCHANGED <<schedVars, device, irq, asked, result, machine, fs_pc, blk, part, entry>>
      /\ UNCHANGED <<isr_arg, pci_cur, registered, slot, func>>
  BY Zenon DEF FS_register_cdev, FS_temp_dev_init, Booting
<1>2. /\ links[inodes] = [next |-> inodes, prev |-> inodes]
      /\ links[blocks] = [next |-> blocks, prev |-> blocks]
      /\ links[chars] = [next |-> blocks, prev |-> blocks]
      /\ registered = <<>>
  BY <1>1, Zenon DEF FilesInv, BootInv
<1>3. PICK ps \in Seq(Headers) : \E j \in 0..Len(ps) : Enumerated(ps, j)
  BY <1>1, Zenon DEF FilesInv, BootInv
<1>4. PICK j \in 0..Len(ps) : Enumerated(ps, j)
  BY <1>3
<1>5. links \in Memory(Headers) /\ slot \in Nat \ {0} /\ func \in 0..4 /\ Len(ps) \in Nat
  BY DEF FilesInv, Types
<1>6. /\ links' \in Memory(Headers) /\ BlockInv'
      /\ \A x \in Headers : x \notin {inodes, ps2_inode, blocks, chars, ps2_cdev} => links'[x] = links[x]
  <2>1. CASE UNCHANGED links
    BY <1>1, <1>5, <2>1, Zenon DEF FilesInv, BlockInv
  <2>2. CASE links' = LL_enqueue(LL_enqueue(links, inodes, ps2_inode), chars, ps2_cdev)
    <3>1. /\ inodes \in Headers /\ ps2_inode \in Headers /\ blocks \in Headers /\ chars \in Headers
          /\ ps2_cdev \in Headers
      BY HeaderTypes, Zenon
    <3>2. /\ ps2_inode # inodes /\ ps2_cdev # chars /\ ps2_cdev # blocks /\ blocks # chars
          /\ chars # inodes /\ chars # ps2_inode /\ blocks # inodes /\ blocks # ps2_inode
      BY Zenon DEF inodes, ps2_inode, blocks, chars, ps2_cdev
    <3>3. PICK M : M = LL_append(links, inodes, ps2_inode)
      BY Zenon
    <3>4. /\ M \in Memory(Headers)
          /\ \A x \in Headers : x # inodes /\ x # ps2_inode => M[x] = links[x]
      <4>1. links[inodes].prev = inodes
        BY <1>2
      <4>2. FirstIn(Headers, links, LL_append(links, inodes, ps2_inode), inodes, ps2_inode)
        BY <1>5, <3>1, <3>2, <4>1, AppendFirst, Zenon
      <4> QED
        BY <3>3, <4>2, Zenon DEF FirstIn
    <3>5. M[chars].prev = blocks /\ M[chars].next = blocks /\ M[blocks].prev = blocks
      BY <1>2, <3>1, <3>2, <3>4
    <3>6. links' = ll_add(M, ps2_cdev, blocks, chars)
      BY <2>2, <3>3, <3>5, Zenon DEF LL_enqueue, LL_append, LL_add_prev
    <3>7. links' \in Memory(Headers) /\ Added(Headers, M, links', ps2_cdev, blocks, chars)
      BY <3>1, <3>2, <3>4, <3>6, AddMemory, AddLinks, Zenon
    <3>8. /\ links'[blocks].next = ps2_cdev /\ links'[ps2_cdev].next = chars
          /\ links'[chars].next = blocks /\ links'[blocks].prev = blocks
      BY <3>1, <3>2, <3>5, <3>7, Zenon DEF Added
    <3>9. ASSUME NEW x \in Headers, x \notin {inodes, ps2_inode, blocks, chars, ps2_cdev}
          PROVE  links'[x] = links[x]
      <4>1. links'[x].next = M[x].next /\ links'[x].prev = M[x].prev
        BY <3>7, <3>9, Zenon DEF Added
      <4>2. links'[x] = M[x]
        BY <3>4, <3>7, <4>1, SameLinks, Zenon
      <4> QED
        BY <3>4, <3>9, <4>2, Zenon
    <3>10. BlockInv'
      BY <1>1, <1>2, <3>8, Zenon DEF BlockInv
    <3> QED
      BY <3>7, <3>9, <3>10, Zenon
  <2> QED
    BY <2>1, <2>2, Zenon DEF FS_register_cdev
<1>7. \A d \in Disks : links'[requests(d)] = links[requests(d)]
  <2>1. \A d \in Disks : requests(d) \in Headers /\ requests(d) \notin {inodes, ps2_inode, blocks, chars, ps2_cdev}
    <3>1. \A d \in Disks : requests(d) \in Headers
      BY HeaderTypes, Zenon
    <3>2. \A d \in Disks : requests(d) \notin {inodes, ps2_inode, blocks, chars, ps2_cdev}
      BY Zenon DEF requests, inodes, ps2_inode, blocks, chars, ps2_cdev
    <3> QED
      BY ONLY <3>1, <3>2, Zenon
  <2> QED
    BY <1>6, <2>1, Zenon
<1>8. DiskInv' /\ RegisteredInv' /\ isr_arg' \in Disks \union {NULL}
  BY <1>1, <1>7, NothingRegistered, Zenon
<1>9. Enumerated(ps, j)'
  <2>1. \A k \in 0..Len(ps) : links'[At(pci_dev_list, ps, k)] = links[At(pci_dev_list, ps, k)]
    <3> SUFFICES ASSUME NEW k \in 0..Len(ps)
                 PROVE  links'[At(pci_dev_list, ps, k)] = links[At(pci_dev_list, ps, k)]
      BY Zenon
    <3>1. At(pci_dev_list, ps, k) = pci_dev_list \/ \E n \in Nat : At(pci_dev_list, ps, k) = <<"pci", n>>
      <4>1. k = 0 \/ k \in 1..Len(ps)
        BY <1>5
      <4> QED
        BY <1>4, <4>1, FunctionsListed, Zenon DEF At
    <3>2. At(pci_dev_list, ps, k) \notin {inodes, ps2_inode, blocks, chars, ps2_cdev}
      BY <3>1 DEF inodes, ps2_inode, blocks, chars, ps2_cdev, pci_dev_list
    <3>3. At(pci_dev_list, ps, k) \in Headers
      BY <1>5, HeaderTypes DEF At
    <3> QED
      BY <1>6, <3>2, <3>3, Zenon
  <2>2. Ring(links', pci_dev_list, ps)
    BY <1>4, <2>1, RingSame, Zenon DEF Enumerated
  <2> QED
    BY <1>1, <1>4, <2>2, Zenon DEF Enumerated, FunctionAt
<1> QED
  BY <1>1, <1>5, <1>6, <1>8, <1>9, BootStep, Zenon
=============================================================================
