---------------------------- MODULE AllocProofs ----------------------------
(***************************************************************************)
(* Memory is given out right.  The heap, for any pools, any page size and  *)
(* any requests: blocks stay apart, no block is given out twice, and users *)
(* do not reach into the blocks of others, but for the header that large   *)
(* blocks are short of.  Virtual memory, for any layout: a frame backs one *)
(* page or one table, and a page keeps its memory as long as it is in use. *)
(***************************************************************************)
EXTENDS Kmalloc, Paging, CommonLemmas

-----------------------------------------------------------------------------
(* The heap                                                                *)

-----------------------------------------------------------------------------
(* The inductive invariant, of any values of the variables                 *)

\* Headers h lie in the first np pages, one block behind the other.
Placed(h, np) ==
  /\ np \in 0..HeapPages
  /\ h \in [DOMAIN h -> [pool : Pools \union {LARGE}, pages : Nat]]
  /\ \A b \in DOMAIN h :
       /\ b \in Nat /\ RoomOf(h[b]) \in Nat \ {0}
       /\ b + RoomOf(h[b]) <= np * PAGE_SIZE
       /\ \A c \in DOMAIN h : b < c => b + RoomOf(h[b]) <= c

\* The lists f hold the blocks of each pool that are not in use.
OnLists(f, h, l) ==
  /\ f \in [Pools -> Seq(Nat)]
  /\ \A p \in Pools : IsInjective(f[p]) /\ Range(f[p]) \subseteq DOMAIN h
  /\ \A b \in DOMAIN h, p \in Pools : b \in Range(f[p]) <=> p = h[b].pool /\ b \notin DOMAIN l

\* The blocks in use have room for the request: those of a pool with the header,
\* those of whole pages without it.
Fit(h, l) ==
  /\ DOMAIN l \subseteq DOMAIN h
  /\ \A b \in DOMAIN l :
       /\ l[b] \in Nat
       /\ l[b] + (IF h[b].pool = LARGE THEN 0 ELSE Header) <= RoomOf(h[b])

Heap(f, h, l, np) == Placed(h, np) /\ OnLists(f, h, l) /\ Fit(h, l)

KmallocInv == Heap(free, header, live, next_page)

-----------------------------------------------------------------------------
(* The steps on values                                                     *)

\* What is known of the constants of kmalloc.c.
LEMMA Constant ==
  /\ PAGE_SIZE \in Nat \ {0} /\ Header \in Nat /\ POOL_PAGE_INCREASE \in Nat \ {0}
  /\ HeapPages \in Nat /\ LARGE \notin Pools
  /\ \A p \in Pools : BlockSizes[p] \in 1..(POOL_PAGE_INCREASE * PAGE_SIZE) /\ BlockSizes[p] \in Nat \ {0}
<1>1. PAGE_SIZE \in Nat \ {0} /\ Header \in Nat /\ POOL_PAGE_INCREASE \in Nat \ {0} /\ HeapPages \in Nat
  BY KmallocAssumption, Zenon
<1>2. LARGE \notin Pools
  BY DEF LARGE, Pools
<1>3. \A p \in Pools : BlockSizes[p] \in 1..(POOL_PAGE_INCREASE * PAGE_SIZE)
  BY KmallocAssumption, SeqElement, Zenon DEF Pools
<1>4. \A p \in Pools : BlockSizes[p] \in Nat \ {0}
  BY <1>3
<1> QED
  BY <1>1, <1>2, <1>3, <1>4, Zenon

\* Addresses of pages.
LEMMA PageBytes ==
  ASSUME NEW m \in Nat, NEW n \in Nat
  PROVE  /\ m * PAGE_SIZE \in Nat
         /\ (m + n) * PAGE_SIZE = m * PAGE_SIZE + n * PAGE_SIZE
BY Constant

\* Headers g are headers h and the ones of New, which lie in the n pages behind np.
Beyond(h, np, n, New, g) ==
  /\ n \in Nat /\ np + n <= HeapPages /\ New \subseteq Nat
  /\ g \in [DOMAIN h \union New -> [pool : Pools \union {LARGE}, pages : Nat]]
  /\ \A b \in DOMAIN h : b \notin New => g[b] = h[b]
  /\ \A b \in New :
       /\ RoomOf(g[b]) \in Nat \ {0}
       /\ np * PAGE_SIZE <= b /\ b + RoomOf(g[b]) <= np * PAGE_SIZE + n * PAGE_SIZE
       /\ \A c \in New : b < c => b + RoomOf(g[b]) <= c

\* Blocks in new pages are clear of the ones there are.
LEMMA PlaceMore ==
  ASSUME NEW h, NEW np, NEW n, NEW New, NEW g, Placed(h, np), Beyond(h, np, n, New, g)
  PROVE  Placed(g, np + n) /\ \A b \in New : b \notin DOMAIN h
<1>0. /\ n \in Nat /\ np + n <= HeapPages /\ New \subseteq Nat
      /\ g \in [DOMAIN h \union New -> [pool : Pools \union {LARGE}, pages : Nat]]
      /\ \A b \in DOMAIN h : b \notin New => g[b] = h[b]
  BY Zenon DEF Beyond
<1>1. np \in Nat /\ np + n \in 0..HeapPages
  BY <1>0, Constant DEF Placed
<1> PICK N, D : N = np * PAGE_SIZE /\ D = n * PAGE_SIZE
  BY Zenon
<1>2. N \in Nat /\ D \in Nat /\ (np + n) * PAGE_SIZE = N + D
  BY <1>0, <1>1, PageBytes, Constant, Zenon
<1>3. \A b \in DOMAIN h : b \in Nat /\ RoomOf(h[b]) \in Nat \ {0} /\ b + RoomOf(h[b]) <= N
                          /\ \A c \in DOMAIN h : b < c => b + RoomOf(h[b]) <= c
  BY Zenon DEF Placed
<1>4. \A b \in New :
           /\ b \in Nat /\ RoomOf(g[b]) \in Nat \ {0}
           /\ N <= b /\ b + RoomOf(g[b]) <= N + D
           /\ \A c \in New : b < c => b + RoomOf(g[b]) <= c
  BY Zenon DEF Beyond
<1>5. \A b \in New : b \notin DOMAIN h
  BY ONLY <1>2, <1>3, <1>4
<1>6. ASSUME NEW b \in DOMAIN g
      PROVE  /\ b \in Nat /\ RoomOf(g[b]) \in Nat \ {0} /\ b + RoomOf(g[b]) <= N + D
             /\ \A c \in DOMAIN g : b < c => b + RoomOf(g[b]) <= c
  <2>1. DOMAIN g = DOMAIN h \union New
    BY <1>0, Zenon
  <2>2. CASE b \in New
    <3>1. \A c \in DOMAIN h : ~(b < c)
      BY ONLY <1>2, <1>3, <1>4, <2>2
    <3> QED
      BY <1>4, <2>1, <2>2, <3>1, Zenon
  <2>3. CASE b \in DOMAIN h /\ b \notin New
    <3>1. g[b] = h[b]
      BY <1>0, <2>3, Zenon
    <3>2. \A c \in New : b + RoomOf(h[b]) <= c
      BY ONLY <1>2, <1>3, <1>4, <2>3
    <3>3. b + RoomOf(h[b]) <= N + D
      BY ONLY <1>2, <1>3, <2>3
    <3> QED
      BY <1>3, <2>1, <2>3, <3>1, <3>2, <3>3, Zenon
  <2> QED
    BY <2>1, <2>2, <2>3, Zenon
<1>7. g \in [DOMAIN g -> [pool : Pools \union {LARGE}, pages : Nat]]
  BY <1>0, Zenon
<1> QED
  BY ONLY <1>1, <1>2, <1>5, <1>6, <1>7, Zenon DEF Placed

\* kmalloc_alloc's last part: the head of a list gets into use.
LEMMA TakeHead ==
  ASSUME NEW f, NEW h, NEW l, NEW np, Heap(f, h, l, np),
         NEW p \in Pools, NEW list, f[p] = list, list # <<>>,
         NEW size \in Nat, size + Header <= BlockSizes[p]
  PROVE  Heap([f EXCEPT ![p] = Tail(list)], h, Put(l, Head(list), size), np)
<1> PICK e, t : e = Head(list) /\ t = Tail(list)
  BY Zenon
<1> DEFINE F == [f EXCEPT ![p] = t]
           L == Put(l, e, size)
<1>1. list \in Seq(Nat) /\ IsInjective(list) /\ Range(list) \subseteq DOMAIN h
  BY Zenon DEF Heap, OnLists
<1>2. /\ t \in Seq(Nat) /\ IsInjective(t) /\ Range(list) = Range(t) \union {e} /\ e \notin Range(t)
      /\ e \in Range(list) /\ e \in DOMAIN h
  BY <1>1, DequeueLemma, Zenon
<1>3. h[e].pool = p /\ e \notin DOMAIN l
  BY <1>2, Zenon DEF Heap, OnLists
<1>4. DOMAIN L = DOMAIN l \union {e} /\ L[e] = size /\ \A b \in DOMAIN l : b # e => L[b] = l[b]
  BY Zenon DEF Put
<1> HIDE DEF L
<1>5. OnLists(F, h, L)
  <2>1. F \in [Pools -> Seq(Nat)] /\ F[p] = t /\ \A q \in Pools : q # p => F[q] = f[q]
    BY <1>2, Zenon DEF Heap, OnLists
  <2> HIDE DEF F
  <2>2. \A q \in Pools : IsInjective(F[q]) /\ Range(F[q]) \subseteq DOMAIN h
    BY <1>1, <1>2, <2>1, Zenon DEF Heap, OnLists
  <2>3. ASSUME NEW b \in DOMAIN h, NEW q \in Pools
        PROVE  b \in Range(F[q]) <=> q = h[b].pool /\ b \notin DOMAIN L
    <3>1. b \in Range(f[q]) <=> q = h[b].pool /\ b \notin DOMAIN l
      BY Zenon DEF Heap, OnLists
    <3>2. CASE q = p
      BY <1>2, <1>3, <1>4, <2>1, <3>1, <3>2, Zenon
    <3>3. CASE q # p
      BY <1>3, <1>4, <2>1, <3>1, <3>3, Zenon
    <3> QED
      BY <3>2, <3>3, Zenon
  <2> QED
    BY <2>1, <2>2, <2>3, Zenon DEF OnLists
<1>6. Fit(h, L)
  <2>1. DOMAIN L \subseteq DOMAIN h
    BY <1>2, <1>4, Zenon DEF Heap, Fit
  <2>2. RoomOf(h[e]) = BlockSizes[p] /\ h[e].pool # LARGE
    BY <1>3, Constant, Zenon DEF RoomOf
  <2>3. ASSUME NEW b \in DOMAIN L
        PROVE  L[b] \in Nat /\ L[b] + (IF h[b].pool = LARGE THEN 0 ELSE Header) <= RoomOf(h[b])
    <3>1. CASE b = e
      BY <1>4, <2>2, <3>1, Zenon
    <3>2. CASE b # e
      BY <1>4, <3>2, Zenon DEF Heap, Fit
    <3> QED
      BY <3>1, <3>2, Zenon
  <2> QED
    BY <2>1, <2>3, Zenon DEF Fit
<1> QED
  BY <1>5, <1>6, Zenon DEF Heap, L, F

\* The blocks of kmalloc_increase_pool lie in its new pages, one behind the other.
LEMMA NewBlocksApart ==
  ASSUME NEW p \in Pools, next_page \in Nat
  PROVE  LET list == NewBlocks(p)
             s == BlockSizes[p]
             N == next_page * PAGE_SIZE
         IN /\ list \in Seq(Nat) /\ list # <<>> /\ IsInjective(list)
            /\ \A b \in Range(list) :
                 /\ b \in Nat /\ N <= b
                 /\ b + s <= N + POOL_PAGE_INCREASE * PAGE_SIZE
                 /\ \A c \in Range(list) : b < c => b + s <= c
<1> PICK s, N, M, k : /\ s = BlockSizes[p] /\ N = next_page * PAGE_SIZE
                      /\ M = POOL_PAGE_INCREASE * PAGE_SIZE /\ k = num_blocks(p)
  BY Zenon
<1>1. /\ s \in Nat \ {0} /\ s \in 1..M /\ N \in Nat /\ M \in Nat
  BY Constant, PageBytes, Zenon
<1>2. k \in Nat \ {0} /\ s * k <= M
  <2>1. k \in Int /\ M = s * k + (M % s) /\ M % s \in 0..(s - 1)
    <3>1. k = M \div s
      BY Zenon DEF num_blocks
    <3>2. s \in Nat \ {0} /\ M \in Int
      BY ONLY <1>1
    <3> QED
      BY ONLY <3>1, <3>2, DivMod, Zenon
  <2>2. PICK r \in 0..(s - 1) : M = s * k + r
    BY <2>1, Zenon
  <2>3. ~(k <= 0)
    <3> SUFFICES ASSUME k <= 0 PROVE FALSE
      BY Zenon
    <3>1. s * k <= 0
      BY ONLY <1>1, <2>1, k <= 0
    <3>2. s * k \in Int
      BY ONLY <1>1, <2>1
    <3> QED
      BY ONLY <1>1, <2>2, <3>1, <3>2
  <2>4. s * k \in Int
    BY ONLY <1>1, <2>1
  <2> QED
    BY ONLY <1>1, <2>1, <2>2, <2>3, <2>4
<1> DEFINE at(i) == N + (i - 1) * s
           list == NewBlocks(p)
<1>3. list = [i \in 1..k |-> at(i)]
  BY Zenon DEF NewBlocks
<1>4. \A i \in 1..k : at(i) \in Nat /\ N <= at(i) /\ at(i) + s <= N + M
  <2> TAKE i \in 1..k
  <2>1. (i - 1) * s \in Nat
    BY ONLY <1>1, <1>2, i \in 1..k
  <2>2. (i - 1) * s + s = s * i
    BY ONLY <1>1, <1>2, i \in 1..k
  <2>3. s * i <= s * k /\ s * i \in Int /\ s * k \in Int
    BY ONLY <1>1, <1>2, i \in 1..k
  <2> QED
    BY ONLY <1>1, <1>2, <2>1, <2>2, <2>3
<1>5. \A i, j \in 1..k : i < j => at(i) + s <= at(j)
  <2> SUFFICES ASSUME NEW i \in 1..k, NEW j \in 1..k, i < j PROVE at(i) + s <= at(j)
    BY Zenon
  <2>1. (i - 1) * s + s = s * i /\ (j - 1) * s = s * (j - 1)
    BY ONLY <1>1, <1>2, i \in 1..k, j \in 1..k
  <2>2. s * i <= s * (j - 1) /\ s * i \in Int /\ s * (j - 1) \in Int /\ (i - 1) * s \in Int
    BY ONLY <1>1, <1>2, i \in 1..k, j \in 1..k, i < j
  <2> QED
    BY ONLY <1>1, <2>1, <2>2
<1> HIDE DEF at, list
<1>6. /\ list \in Seq(Nat) /\ Len(list) = k /\ \A i \in 1..k : list[i] = at(i)
      /\ DOMAIN list = 1..k /\ list # <<>>
  <2>1. list \in Seq(Nat) /\ Len(list) = k
    BY ONLY <1>2, <1>3, <1>4
  <2>2. DOMAIN list = 1..k /\ \A i \in 1..k : list[i] = at(i)
    BY ONLY <1>3, Zenon
  <2> QED
    BY <1>2, <2>1, <2>2, Zenon
<1>7. IsInjective(list)
  <2>1. \A i, j \in 1..k : list[i] = list[j] => i = j
    <3> SUFFICES ASSUME NEW i \in 1..k, NEW j \in 1..k, i # j PROVE at(i) # at(j)
      BY <1>6, Zenon
    <3> QED
      BY ONLY <1>1, <1>2, <1>4, <1>5, i \in 1..k, j \in 1..k, i # j
  <2> QED
    BY ONLY <1>6, <2>1, Zenon DEF IsInjective
<1>8. \A b \in Range(list) : \E i \in 1..k : b = at(i)
  BY ONLY <1>6, Zenon DEF Range
<1>9. ASSUME NEW b \in Range(list)
      PROVE  /\ b \in Nat /\ N <= b /\ b + s <= N + M
             /\ \A c \in Range(list) : b < c => b + s <= c
  <2>1. PICK i \in 1..k : b = at(i)
    BY <1>8, Zenon
  <2>2. ASSUME NEW c \in Range(list), b < c PROVE b + s <= c
    <3>1. PICK j \in 1..k : c = at(j)
      BY <1>8, Zenon
    <3>2. i < j
      <4>1. i = j \/ j < i \/ i < j
        BY ONLY <1>2, i \in 1..k, j \in 1..k
      <4>2. ~(j < i)
        BY ONLY <1>1, <1>4, <1>5, <2>1, <2>2, <3>1, j \in 1..k, i \in 1..k
      <4>3. i # j
        BY ONLY <1>4, <2>1, <2>2, <3>1
      <4> QED
        BY <4>1, <4>2, <4>3, Zenon
    <3> QED
      BY <1>5, <2>1, <3>1, <3>2, Zenon
  <2> QED
    BY <1>4, <2>1, <2>2, Zenon
<1> QED
  BY <1>6, <1>7, <1>9, Zenon DEF list

\* kmalloc_increase_pool: new blocks on the empty list of a pool.
LEMMA Refill ==
  ASSUME KmallocInv, NEW p \in Pools, free[p] = <<>>, ~Exhausted(POOL_PAGE_INCREASE)
  PROVE  /\ NewBlocks(p) # <<>>
         /\ Heap([free EXCEPT ![p] = NewBlocks(p)], WithBlocks(header, p, NewBlocks(p)), live,
                 next_page + POOL_PAGE_INCREASE)
<1> DEFINE list == NewBlocks(p)
           g == WithBlocks(header, p, list)
           n == POOL_PAGE_INCREASE
           F == [free EXCEPT ![p] = list]
<1>1. Placed(header, next_page) /\ OnLists(free, header, live) /\ Fit(header, live)
  BY Zenon DEF KmallocInv, Heap
<1>2. next_page \in Nat /\ n \in Nat /\ next_page + n <= HeapPages
  BY <1>1, Constant DEF Placed, Exhausted
<1>3. /\ list \in Seq(Nat) /\ list # <<>> /\ IsInjective(list)
      /\ \A b \in Range(list) :
           /\ b \in Nat /\ next_page * PAGE_SIZE <= b
           /\ b + BlockSizes[p] <= next_page * PAGE_SIZE + n * PAGE_SIZE
           /\ \A c \in Range(list) : b < c => b + BlockSizes[p] <= c
  BY <1>2, NewBlocksApart, Zenon
<1> HIDE DEF list
<1>4. /\ DOMAIN g = DOMAIN header \union Range(list)
      /\ \A b \in Range(list) : g[b] = [pool |-> p, pages |-> 0]
      /\ \A b \in DOMAIN header : b \notin Range(list) => g[b] = header[b]
  BY Zenon DEF WithBlocks
<1>5. g \in [DOMAIN header \union Range(list) -> [pool : Pools \union {LARGE}, pages : Nat]]
  BY <1>1, Zenon DEF WithBlocks, Placed
<1> HIDE DEF g
<1>6. \A b \in Range(list) : RoomOf(g[b]) = BlockSizes[p] /\ RoomOf(g[b]) \in Nat \ {0} /\ g[b].pool = p
  BY <1>4, Constant DEF RoomOf
<1>7. Range(list) \in SUBSET Nat
  BY <1>3, Zenon
<1>8. Placed(g, next_page + n) /\ \A b \in Range(list) : b \notin DOMAIN header
  <2> HIDE DEF n
  <2>1. \A b \in Range(list) :
           /\ RoomOf(g[b]) \in Nat \ {0}
           /\ next_page * PAGE_SIZE <= b
           /\ b + RoomOf(g[b]) <= next_page * PAGE_SIZE + n * PAGE_SIZE
           /\ \A c \in Range(list) : b < c => b + RoomOf(g[b]) <= c
    BY ONLY <1>3, <1>6, Zenon
  <2>2. Beyond(header, next_page, n, Range(list), g)
    BY ONLY <1>2, <1>4, <1>5, <1>7, <2>1, Zenon DEF Beyond
  <2> QED
    BY ONLY <1>1, <2>2, PlaceMore, Zenon
<1>9. OnLists(F, g, live)
  <2>1. F \in [Pools -> Seq(Nat)] /\ F[p] = list /\ \A q \in Pools : q # p => F[q] = free[q]
    BY <1>1, <1>3, Zenon DEF OnLists
  <2> HIDE DEF F
  <2>2. \A q \in Pools : IsInjective(F[q]) /\ Range(F[q]) \subseteq DOMAIN g
    BY <1>1, <1>3, <1>4, <2>1, Zenon DEF OnLists
  <2>3. Range(free[p]) = {}
    BY EmptyQueueLemma, Zenon
  <2>4. ASSUME NEW b \in DOMAIN g, NEW q \in Pools
        PROVE  b \in Range(F[q]) <=> q = g[b].pool /\ b \notin DOMAIN live
    <3>1. CASE b \in Range(list)
      <4>1. b \notin DOMAIN header /\ g[b].pool = p
        BY <1>6, <1>8, <3>1, Zenon
      <4>2. b \notin DOMAIN live /\ \A r \in Pools : b \notin Range(free[r])
        BY <1>1, <4>1, Zenon DEF OnLists, Fit
      <4> QED
        BY <2>1, <3>1, <4>1, <4>2, Zenon
    <3>2. CASE b \notin Range(list)
      <4>1. b \in DOMAIN header /\ g[b] = header[b]
        BY <1>4, <3>2, Zenon
      <4>2. b \in Range(free[q]) <=> q = header[b].pool /\ b \notin DOMAIN live
        BY <1>1, <4>1, Zenon DEF OnLists
      <4>3. b \in Range(free[p]) <=> p = header[b].pool /\ b \notin DOMAIN live
        BY <1>1, <4>1, Zenon DEF OnLists
      <4> QED
        BY <2>1, <2>3, <3>2, <4>1, <4>2, <4>3, Zenon
    <3> QED
      BY <3>1, <3>2, Zenon
  <2> QED
    BY <2>1, <2>2, <2>4, Zenon DEF OnLists
<1>10. Fit(g, live)
  <2>1. \A b \in DOMAIN live : b \in DOMAIN g /\ g[b] = header[b]
    BY <1>1, <1>4, <1>8, Zenon DEF Fit
  <2> QED
    BY <1>1, <2>1, Zenon DEF Fit
<1> QED
  BY <1>3, <1>8, <1>9, <1>10, Zenon DEF Heap, list, g

\* kmalloc's block of whole pages.
LEMMA Large ==
  ASSUME KmallocInv, NEW size \in Nat \ {0}, ~Exhausted(num_pages(size))
  PROVE  Heap(free, Put(header, next_page * PAGE_SIZE, [pool |-> LARGE, pages |-> num_pages(size)]),
              Put(live, next_page * PAGE_SIZE, size), next_page + num_pages(size))
<1> PICK n, e : n = num_pages(size) /\ e = next_page * PAGE_SIZE
  BY Zenon
<1> DEFINE new == [pool |-> LARGE, pages |-> n]
           g == Put(header, e, new)
           L == Put(live, e, size)
<1>1. Placed(header, next_page) /\ OnLists(free, header, live) /\ Fit(header, live)
  BY Zenon DEF KmallocInv, Heap
<1>2. n \in Nat \ {0} /\ size <= n * PAGE_SIZE
  <2> PICK ps, q, r : ps = PAGE_SIZE /\ q = size \div PAGE_SIZE /\ r = size % PAGE_SIZE
    BY Zenon
  <2>1. ps \in Nat \ {0} /\ q \in Int /\ r \in 0..(ps - 1) /\ size = ps * q + r
    BY Constant, DivMod
  <2>2. n = q + (IF r # 0 THEN 1 ELSE 0)
    BY Zenon DEF num_pages
  <2>3. ps * q \in Int /\ (q + 1) * ps = ps * q + ps /\ q * ps = ps * q
    BY ONLY <2>1
  <2>4. q >= 0
    <3> SUFFICES ASSUME q <= -1 PROVE FALSE
      BY ONLY <2>1
    <3>1. ps * q <= -ps
      BY ONLY <2>1, q <= -1
    <3> QED
      BY ONLY <2>1, <2>3, <3>1, size \in Nat \ {0}
  <2>5. r = 0 => q # 0
    BY ONLY <2>1, size \in Nat \ {0}
  <2>6. size <= n * ps
    <3>1. CASE r = 0
      BY ONLY <2>1, <2>2, <2>3, <3>1
    <3>2. CASE r # 0
      BY ONLY <2>1, <2>2, <2>3, <3>2, size \in Nat \ {0}
    <3> QED
      BY <3>1, <3>2, Zenon
  <2>7. n \in Nat \ {0}
    BY ONLY <2>1, <2>2, <2>4, <2>5
  <2> QED
    BY <2>6, <2>7, Zenon
<1>3. next_page \in Nat /\ next_page + n <= HeapPages /\ e \in Nat /\ n * PAGE_SIZE \in Nat \ {0}
  <2>1. next_page \in Nat /\ next_page + n <= HeapPages
    BY <1>1, <1>2, Constant DEF Placed, Exhausted
  <2> QED
    BY <1>2, <2>1, PageBytes
<1>4. RoomOf(new) = n * PAGE_SIZE
  BY Zenon DEF RoomOf
<1>5. /\ DOMAIN g = DOMAIN header \union {e} /\ g[e] = new
      /\ \A b \in DOMAIN header : b # e => g[b] = header[b]
      /\ g \in [DOMAIN header \union {e} -> [pool : Pools \union {LARGE}, pages : Nat]]
  BY <1>1, <1>2, Zenon DEF Put, Placed
<1>6. /\ DOMAIN L = DOMAIN live \union {e} /\ L[e] = size
      /\ \A b \in DOMAIN live : b # e => L[b] = live[b]
  BY Zenon DEF Put
<1>7. new.pool = LARGE
  BY Zenon
<1> HIDE DEF new, g, L
<1>8. Placed(g, next_page + n) /\ e \notin DOMAIN header
  <2>1. Beyond(header, next_page, n, {e}, g)
    <3>1. /\ RoomOf(g[e]) \in Nat \ {0} /\ next_page * PAGE_SIZE <= e
          /\ e + RoomOf(g[e]) <= next_page * PAGE_SIZE + n * PAGE_SIZE
      BY <1>3, <1>4, <1>5
    <3>2. ~(e < e)
      BY ONLY <1>3
    <3> QED
      BY <1>2, <1>3, <1>5, <3>1, <3>2, Zenon DEF Beyond
  <2> QED
    BY ONLY <1>1, <2>1, PlaceMore, Zenon
<1>9. e \notin DOMAIN live /\ \A p \in Pools : e \notin Range(free[p])
  BY <1>1, <1>8, Zenon DEF OnLists, Fit
<1>10. OnLists(free, g, L)
  <2>1. ASSUME NEW b \in DOMAIN g, NEW p \in Pools
        PROVE  b \in Range(free[p]) <=> p = g[b].pool /\ b \notin DOMAIN L
    <3>1. CASE b = e
      BY <1>6, <1>9, <3>1, Zenon
    <3>2. CASE b # e
      BY <1>1, <1>5, <1>6, <3>2, Zenon DEF OnLists
    <3> QED
      BY <3>1, <3>2, Zenon
  <2> QED
    BY <1>1, <1>5, <2>1, Zenon DEF OnLists
<1>11. Fit(g, L)
  <2>1. DOMAIN L \subseteq DOMAIN g
    BY <1>1, <1>5, <1>6, Zenon DEF Fit
  <2>2. ASSUME NEW b \in DOMAIN L
        PROVE  L[b] \in Nat /\ L[b] + (IF g[b].pool = LARGE THEN 0 ELSE Header) <= RoomOf(g[b])
    <3>1. CASE b = e
      <4>1. L[b] + 0 <= RoomOf(g[b]) /\ L[b] \in Nat /\ g[b].pool = LARGE
        BY <1>2, <1>4, <1>5, <1>6, <1>7, <3>1
      <4> QED
        BY <4>1, Zenon
    <3>2. CASE b # e
      BY <1>1, <1>5, <1>6, <3>2, Zenon DEF Fit
    <3> QED
      BY <3>1, <3>2, Zenon
  <2> QED
    BY <2>1, <2>2, Zenon DEF Fit
<1> QED
  BY <1>8, <1>10, <1>11, Zenon DEF Heap, g, L, new

\* kfree of a block of whole pages.
LEMMA FreeLarge ==
  ASSUME KmallocInv, NEW e \in DOMAIN live, header[e].pool = LARGE
  PROVE  Heap(free, Drop(header, e), Drop(live, e), next_page)
<1> DEFINE g == Drop(header, e)
           L == Drop(live, e)
<1>1. Placed(header, next_page) /\ OnLists(free, header, live) /\ Fit(header, live)
  BY Zenon DEF KmallocInv, Heap
<1>2. /\ DOMAIN g = DOMAIN header \ {e} /\ \A b \in DOMAIN g : g[b] = header[b]
      /\ DOMAIN L = DOMAIN live \ {e} /\ \A b \in DOMAIN L : L[b] = live[b]
  BY Zenon DEF Drop
<1>3. Placed(g, next_page)
  <2>1. g \in [DOMAIN g -> [pool : Pools \union {LARGE}, pages : Nat]]
    BY <1>1, Zenon DEF Placed, Drop
  <2> HIDE DEF g
  <2> QED
    BY <1>1, <1>2, <2>1, Zenon DEF Placed
<1> HIDE DEF g, L
<1>4. \A p \in Pools : e \notin Range(free[p])
  BY <1>1, Zenon DEF OnLists, Fit
<1>5. OnLists(free, g, L)
  BY <1>1, <1>2, <1>4, Zenon DEF OnLists
<1>6. Fit(g, L)
  BY <1>1, <1>2, Zenon DEF Fit
<1> QED
  BY <1>3, <1>5, <1>6, Zenon DEF Heap, g, L

\* kfree of a block of a pool.
LEMMA FreeBlock ==
  ASSUME KmallocInv, NEW e \in DOMAIN live, header[e].pool # LARGE
  PROVE  Heap([free EXCEPT ![header[e].pool] = <<e>> \o @], header, Drop(live, e), next_page)
<1> PICK p : p = header[e].pool
  BY Zenon
<1> DEFINE F == [free EXCEPT ![p] = <<e>> \o @]
           L == Drop(live, e)
<1>1. Placed(header, next_page) /\ OnLists(free, header, live) /\ Fit(header, live)
  BY Zenon DEF KmallocInv, Heap
<1>2. e \in DOMAIN header /\ e \in Nat /\ p \in Pools
  BY <1>1, Zenon DEF Placed, Fit
<1>3. /\ free[p] \in Seq(Nat) /\ IsInjective(free[p]) /\ Range(free[p]) \subseteq DOMAIN header
      /\ \A q \in Pools : e \notin Range(free[q])
  BY <1>1, <1>2, Zenon DEF OnLists
<1>4. <<e>> \in Seq(Nat) /\ Range(<<e>>) = {e} /\ IsInjective(<<e>>)
  BY <1>2 DEF Range, IsInjective
<1>5. PICK t : t = <<e>> \o free[p]
  BY Zenon
<1>6. t \in Seq(Nat) /\ IsInjective(t) /\ Range(t) = Range(free[p]) \union {e}
  <2>1. PICK u, v : u = <<e>> /\ v = free[p]
    BY Zenon
  <2>2. u \in Seq(Nat) /\ v \in Seq(Nat) /\ IsInjective(u) /\ IsInjective(v) /\ Range(u) \intersect Range(v) = {}
    BY <1>2, <1>3, <1>4, <2>1, Zenon
  <2>3. u \o v \in Seq(Nat) /\ IsInjective(u \o v) /\ Range(u \o v) = Range(u) \union Range(v)
    BY ONLY <2>2, TransferLemma
  <2> QED
    BY <1>4, <1>5, <2>1, <2>3, Zenon
<1>7. F \in [Pools -> Seq(Nat)] /\ F[p] = t /\ \A q \in Pools : q # p => F[q] = free[q]
  BY <1>1, <1>2, <1>5, <1>6, Zenon DEF OnLists
<1>8. DOMAIN L = DOMAIN live \ {e} /\ \A b \in DOMAIN L : L[b] = live[b]
  BY Zenon DEF Drop
<1> HIDE DEF F, L
<1>9. OnLists(F, header, L)
  <2>1. \A q \in Pools : IsInjective(F[q]) /\ Range(F[q]) \subseteq DOMAIN header
    BY <1>1, <1>2, <1>6, <1>7, Zenon DEF OnLists
  <2>2. ASSUME NEW b \in DOMAIN header, NEW q \in Pools
        PROVE  b \in Range(F[q]) <=> q = header[b].pool /\ b \notin DOMAIN L
    <3>1. b \in Range(free[q]) <=> q = header[b].pool /\ b \notin DOMAIN live
      BY <1>1, Zenon DEF OnLists
    <3>2. CASE b = e
      BY <1>2, <1>3, <1>6, <1>7, <1>8, <3>2, Zenon
    <3>3. CASE b # e
      BY <1>2, <1>6, <1>7, <1>8, <3>1, <3>3, Zenon
    <3> QED
      BY <3>2, <3>3, Zenon
  <2> QED
    BY <1>7, <2>1, <2>2, Zenon DEF OnLists
<1>10. Fit(header, L)
  BY <1>1, <1>8, Zenon DEF Fit
<1> QED
  BY <1>1, <1>9, <1>10, Zenon DEF Heap, F, L

-----------------------------------------------------------------------------
(* The invariant                                                           *)
INSTANCE WellFoundedInduction

\* Every set of naturals that has an element has a least one.
LEMMA LeastElement ==
  ASSUME NEW T \in SUBSET Nat, T # {}
  PROVE  \E n \in T : \A m \in T : n <= m
<1>1. PICK R : R = {ss \in Nat \X Nat : ss[1] < ss[2]}
  BY Zenon
<1>2. OpToRel(<, Nat) = R
  BY <1>1, Zenon DEF OpToRel
<1>3. IsWellFoundedOn(R, Nat)
  BY <1>2, NatLessThanWellFounded, Zenon
<1>4. PICK n \in T : \A m \in T : ~(<<m, n>> \in R)
  BY <1>3, WFMin, Zenon
<1>5. \A m \in Nat : m < n => <<m, n>> \in R
  BY <1>1, Zenon
<1>6. \A m \in T : ~(m < n)
  BY <1>4, <1>5, Zenon
<1> QED
  BY <1>6

\* kmalloc takes a pool only if the block has room for the header too.
LEMMA PoolFits ==
  ASSUME NEW size \in Nat, PoolFor(size) # LARGE
  PROVE  PoolFor(size) \in Pools /\ size + Header <= BlockSizes[PoolFor(size)]
<1> DEFINE T == {p \in Pools : Fits(size, p)}
<1>1. \E p \in Pools : Fits(size, p)
  BY Zenon DEF PoolFor
<1>2. T \in SUBSET Nat /\ T # {}
  BY <1>1 DEF Pools
<1>3. PICK p \in T : \A q \in T : p <= q
  BY <1>2, LeastElement, Zenon
<1>4. \A q \in 1..(p - 1) : ~Fits(size, q)
  <2> SUFFICES ASSUME NEW q \in 1..(p - 1), Fits(size, q) PROVE FALSE
    BY Zenon
  <2>1. p \in Nat /\ q \in Pools
    BY KmallocAssumption, SeqLength DEF Pools
  <2> QED
    BY <1>3, <2>1
<1>5. p \in Pools /\ Fits(size, p)
  BY <1>3, Zenon
<1>6. PoolFor(size) \in Pools /\ Fits(size, PoolFor(size))
  BY ONLY <1>1, <1>4, <1>5, Zenon DEF PoolFor
<1> QED
  BY <1>6, Zenon DEF Fits

\* The empty heap of kmalloc.c's static pools is sound.
LEMMA KmallocInit == Init => KmallocInv
<1> SUFFICES ASSUME Init PROVE KmallocInv
  OBVIOUS
<1>1. DOMAIN header = {} /\ DOMAIN live = {} /\ next_page = 0 /\ header = <<>>
  BY DEF Init
<1>2. Placed(header, next_page)
  BY <1>1, Constant DEF Placed
<1>3. OnLists(free, header, live)
  BY <1>1, EmptyQueueLemma DEF OnLists, Init
<1>4. Fit(header, live)
  BY <1>1, Zenon DEF Fit
<1> QED
  BY <1>2, <1>3, <1>4, Zenon DEF KmallocInv, Heap

\* MMU_alloc_pages uses up the addresses before it fails.
LEMMA FailsKeeps == ASSUME KmallocInv, Fails PROVE KmallocInv'
<1>1. Placed(header, next_page)
  BY Zenon DEF KmallocInv, Heap
<1>2. PICK n \in Nat : HeapPages = next_page + n /\ next_page \in Nat
  <2>1. next_page \in 0..HeapPages
    BY <1>1, Zenon DEF Placed
  <2>2. HeapPages - next_page \in Nat /\ HeapPages = next_page + (HeapPages - next_page) /\ next_page \in Nat
    BY ONLY <2>1, Constant
  <2> QED
    BY <2>2, Zenon
<1>3. Beyond(header, next_page, n, {}, header)
  BY <1>1, <1>2, Constant DEF Placed, Beyond
<1>4. Placed(header, HeapPages)
  BY <1>1, <1>2, <1>3, PlaceMore, Zenon
<1> QED
  BY <1>4, Zenon DEF KmallocInv, Heap, Fails

\* kmalloc and kfree keep the heap sound.
LEMMA KmallocNext == KmallocInv /\ [Next]_vars => KmallocInv'
<1> SUFFICES ASSUME KmallocInv, [Next]_vars PROVE KmallocInv'
  BY Zenon
<1>1. ASSUME NEW size \in Requests, kmalloc_alloc(size) PROVE KmallocInv'
  <2> PICK p : p = PoolFor(size)
    BY Zenon
  <2>1. size \in Nat /\ size > 0 /\ p # LARGE
    BY <1>1, KmallocAssumption, Zenon DEF kmalloc_alloc
  <2>2. p \in Pools /\ size + Header <= BlockSizes[p]
    BY <2>1, PoolFits, Zenon
  <2>3. CASE free[p] = <<>> /\ Exhausted(POOL_PAGE_INCREASE)
    <3>1. Fails
      BY <1>1, <2>3, Zenon DEF kmalloc_alloc
    <3> QED
      BY <3>1, FailsKeeps, Zenon
  <2>4. CASE free[p] = <<>> /\ ~Exhausted(POOL_PAGE_INCREASE)
    <3> PICK list, f, h, np : /\ list = NewBlocks(p) /\ f = [free EXCEPT ![p] = list]
                              /\ h = WithBlocks(header, p, list)
                              /\ np = next_page + POOL_PAGE_INCREASE
      BY Zenon
    <3>1. list # <<>> /\ Heap(f, h, live, np)
      BY <2>2, <2>4, Refill, Zenon
    <3>2. f[p] = list /\ [f EXCEPT ![p] = Tail(list)] = [free EXCEPT ![p] = Tail(list)]
      BY <2>2, Zenon DEF KmallocInv, Heap, OnLists
    <3>3. Heap([f EXCEPT ![p] = Tail(list)], h, Put(live, Head(list), size), np)
      BY ONLY <2>1, <2>2, <3>1, <3>2, TakeHead, Zenon
    <3>4. /\ free' = [free EXCEPT ![p] = Tail(list)] /\ header' = h
          /\ live' = Put(live, Head(list), size) /\ next_page' = np
      BY <1>1, <2>4, Zenon DEF kmalloc_alloc, Taken
    <3> QED
      BY ONLY <3>2, <3>3, <3>4, Zenon DEF KmallocInv
  <2>5. CASE free[p] # <<>>
    <3> PICK list : list = free[p]
      BY Zenon
    <3>1. Heap(free, header, live, next_page)
      BY Zenon DEF KmallocInv
    <3>2. Heap([free EXCEPT ![p] = Tail(list)], header, Put(live, Head(list), size), next_page)
      BY <2>1, <2>2, <2>5, <3>1, TakeHead, Zenon
    <3>3. /\ free' = [free EXCEPT ![p] = Tail(list)] /\ header' = header
          /\ live' = Put(live, Head(list), size) /\ next_page' = next_page
      BY <1>1, <2>5, Zenon DEF kmalloc_alloc, Taken
    <3> QED
      BY ONLY <3>2, <3>3, Zenon DEF KmallocInv
  <2> QED
    BY <2>3, <2>4, <2>5, Zenon
<1>2. ASSUME NEW size \in Requests, kmalloc_large(size) PROVE KmallocInv'
  <2>1. size \in Nat \ {0}
    BY <1>2, KmallocAssumption DEF kmalloc_large
  <2>2. CASE Exhausted(num_pages(size))
    <3>1. Fails
      BY <1>2, <2>2, Zenon DEF kmalloc_large
    <3> QED
      BY <3>1, FailsKeeps, Zenon
  <2>3. CASE ~Exhausted(num_pages(size))
    <3>1. /\ header' = Put(header, next_page * PAGE_SIZE, [pool |-> LARGE, pages |-> num_pages(size)])
          /\ live' = Put(live, next_page * PAGE_SIZE, size)
          /\ next_page' = next_page + num_pages(size) /\ free' = free
      BY <1>2, <2>3, Zenon DEF kmalloc_large
    <3>2. Heap(free, Put(header, next_page * PAGE_SIZE, [pool |-> LARGE, pages |-> num_pages(size)]),
               Put(live, next_page * PAGE_SIZE, size), next_page + num_pages(size))
      BY <2>1, <2>3, Large, Zenon
    <3> QED
      BY ONLY <3>1, <3>2, Zenon DEF KmallocInv
  <2> QED
    BY <2>2, <2>3, Zenon
<1>3. ASSUME NEW e \in DOMAIN live, kfree(e) PROVE KmallocInv'
  <2>1. CASE header[e].pool = LARGE
    <3>1. free' = free /\ header' = Drop(header, e) /\ live' = Drop(live, e) /\ next_page' = next_page
      BY <1>3, <2>1, Zenon DEF kfree, PoolOf
    <3> QED
      BY <2>1, <3>1, FreeLarge, Zenon DEF KmallocInv
  <2>2. CASE header[e].pool # LARGE
    <3>1. /\ free' = [free EXCEPT ![header[e].pool] = <<e>> \o @] /\ header' = header
          /\ live' = Drop(live, e) /\ next_page' = next_page
      BY <1>3, <2>2, Zenon DEF kfree, PoolOf
    <3> QED
      BY <2>2, <3>1, FreeBlock, Zenon DEF KmallocInv
  <2> QED
    BY <2>1, <2>2, Zenon
<1>4. CASE UNCHANGED vars
  BY <1>4, Zenon DEF vars, KmallocInv
<1> QED
  BY <1>1, <1>2, <1>3, <1>4, Zenon DEF Next

-----------------------------------------------------------------------------
\* The blocks that kmalloc_increase_pool cuts pages into and the whole pages of
\* kmalloc never overlap, for any block sizes and any sequence of calls.
THEOREM BlocksStayApart == Spec => []BlocksApart
<1>1. KmallocInv => BlocksApart
  <2> SUFFICES ASSUME KmallocInv, NEW b \in DOMAIN header
               PROVE  /\ Memory(b) \subseteq 0..(next_page * PAGE_SIZE - 1)
                      /\ \A c \in DOMAIN header : b # c => Memory(b) \intersect Memory(c) = {}
    BY Zenon DEF BlocksApart
  <2> PICK N : N = next_page * PAGE_SIZE
    BY Zenon
  <2>1. \A d \in DOMAIN header :
          /\ d \in Nat /\ Room(d) \in Nat \ {0} /\ d + Room(d) <= N
          /\ \A c \in DOMAIN header : d < c => d + Room(d) <= c
    BY Zenon DEF KmallocInv, Heap, Placed, Room
  <2>2. N \in Nat
    BY PageBytes, Constant DEF KmallocInv, Heap, Placed
  <2>3. Memory(b) \subseteq 0..(N - 1)
    BY ONLY <2>1, <2>2, b \in DOMAIN header DEF Memory
  <2>4. ASSUME NEW c \in DOMAIN header, b # c PROVE Memory(b) \intersect Memory(c) = {}
    <3>1. b + Room(b) <= c \/ c + Room(c) <= b
      BY ONLY <2>1, <2>4, b \in DOMAIN header, c \in DOMAIN header
    <3> QED
      BY ONLY <2>1, <3>1, b \in DOMAIN header, c \in DOMAIN header DEF Memory
  <2> QED
    BY <2>3, <2>4, Zenon
<1> QED
  BY <1>1, KmallocInit, KmallocNext, PTL DEF Spec

\* kmalloc_alloc and kfree keep every block of a pool in use or once on the list
\* of its own pool.
THEOREM BlocksGivenOnce == Spec => []BlockOnce
<1>1. KmallocInv => BlockOnce
  BY Zenon DEF KmallocInv, Heap, OnLists, BlockOnce
<1> QED
  BY <1>1, KmallocInit, KmallocNext, PTL DEF Spec

\* A user that keeps to the size it passed to kmalloc reaches no byte of another
\* block, in use or free, from a pool or not, but for the header's length behind
\* the pages of a large block, which kmalloc counts without the header.
THEOREM UsersStayApart == Spec => []UsersApart
<1>1. KmallocInv => UsersApart
  <2> SUFFICES ASSUME KmallocInv, NEW b \in DOMAIN live, NEW c \in DOMAIN header, b # c,
                      NEW x \in Touched(b) \intersect Memory(c)
               PROVE  x \in Overrun(b)
    BY Zenon DEF UsersApart
  <2>1. \A d \in DOMAIN header :
          /\ d \in Nat /\ Room(d) \in Nat \ {0}
          /\ \A e \in DOMAIN header : d < e => d + Room(d) <= e
    BY Zenon DEF KmallocInv, Heap, Placed, Room
  <2>2. /\ b \in DOMAIN header /\ live[b] \in Nat
        /\ live[b] + (IF header[b].pool = LARGE THEN 0 ELSE Header) <= Room(b)
    BY Zenon DEF KmallocInv, Heap, Fit, Room
  <2>3. Header \in Nat
    BY Constant, Zenon
  <2>4. x \in Int /\ b <= x /\ x < b + Header + live[b] /\ b + Room(b) <= x
    <3>1. x \in Int /\ b <= x /\ x < b + Header + live[b] /\ c <= x /\ x < c + Room(c)
      BY ONLY <2>1, <2>2, <2>3, c \in DOMAIN header, x \in Touched(b) \intersect Memory(c) DEF Touched, Memory
    <3>2. b + Room(b) <= c \/ c + Room(c) <= b
      BY ONLY <2>1, <2>2, b # c, c \in DOMAIN header
    <3> QED
      BY ONLY <2>1, <2>2, <3>1, <3>2, c \in DOMAIN header
  <2>5. header[b].pool = LARGE
    BY ONLY <2>1, <2>2, <2>3, <2>4
  <2>6. x \in (b + Room(b)) .. (b + Room(b) + Header - 1)
    BY ONLY <2>1, <2>2, <2>3, <2>4, <2>5
  <2> QED
    BY <2>5, <2>6, Zenon DEF Overrun
<1> QED
  BY <1>1, KmallocInit, KmallocNext, PTL DEF Spec

-----------------------------------------------------------------------------
(* Virtual memory                                                          *)

\* The entries of a page table above the last level, the identity map's first.
Entries == {<<d, 0>> : d \in 0..(Depth - 1)} \union {Entry(v, d) : v \in Int, d \in 0..(Depth - 1)}

\* The page tables and the free frames.
VM ==
  [tables : UNION {[X -> FrameSet \union {STATIC}] : X \in SUBSET Entries},
   demand : SUBSET Int,
   mapped : UNION {[X -> FrameSet] : X \in SUBSET Int},
   pool : Seq(FrameSet)]

\* OneRole without counting.
Roles(m) ==
  /\ IsInjective(m.pool)
  /\ \A e, f \in DOMAIN m.tables : m.tables[e] = m.tables[f] /\ m.tables[e] # STATIC => e = f
  /\ \A v, w \in DOMAIN m.mapped : m.mapped[v] = m.mapped[w] => v = w
  /\ \A e \in DOMAIN m.tables : m.tables[e] \notin Range(m.pool)
  /\ \A v \in DOMAIN m.mapped : m.mapped[v] \notin Range(m.pool)
  /\ \A e \in DOMAIN m.tables : \A v \in DOMAIN m.mapped : m.tables[e] # m.mapped[v]
  /\ \A f \in FrameSet :
       \/ f \in Range(m.pool)
       \/ \E e \in DOMAIN m.tables : f = m.tables[e]
       \/ \E v \in DOMAIN m.mapped : f = m.mapped[v]

\* A page has its bit or its frame, not both, and only below tables.
Sound(m) ==
  /\ m \in VM /\ Roles(m)
  /\ m.demand \intersect DOMAIN m.mapped = {}
  /\ \A v \in m.demand \union DOMAIN m.mapped : Missing(m, v) = {}

\* What PT_demand_allocate may do for pages vs.
Grown(a, m, vs) ==
  /\ Sound(m)
  /\ DOMAIN a.tables \subseteq DOMAIN m.tables
  /\ m.mapped = a.mapped
  /\ a.demand \subseteq m.demand /\ m.demand \subseteq a.demand \union vs

\* What PT_free may do for pages vs.
Shrunk(a, m, vs) ==
  /\ Sound(m)
  /\ m.demand = a.demand
  /\ DOMAIN m.mapped \subseteq DOMAIN a.mapped
  /\ \A v \in DOMAIN m.mapped : m.mapped[v] = a.mapped[v]
  /\ DOMAIN a.mapped \ vs \subseteq DOMAIN m.mapped

\* The parts of a page table.
LEMMA Parts ==
  ASSUME NEW m \in VM
  PROVE  /\ \A e \in DOMAIN m.tables : e \in Entries /\ m.tables[e] \in FrameSet \union {STATIC}
         /\ m.tables = [e \in DOMAIN m.tables |-> m.tables[e]]
         /\ \A v \in DOMAIN m.mapped : v \in Int /\ m.mapped[v] \in FrameSet
         /\ m.mapped = [v \in DOMAIN m.mapped |-> m.mapped[v]]
         /\ m.demand \subseteq Int /\ m.pool \in Seq(FrameSet)
         /\ m = [tables |-> m.tables, demand |-> m.demand, mapped |-> m.mapped, pool |-> m.pool]
<1>1. /\ m.tables \in UNION {[X -> FrameSet \union {STATIC}] : X \in SUBSET Entries}
      /\ m.mapped \in UNION {[X -> FrameSet] : X \in SUBSET Int}
      /\ m.demand \in SUBSET Int /\ m.pool \in Seq(FrameSet)
      /\ m = [tables |-> m.tables, demand |-> m.demand, mapped |-> m.mapped, pool |-> m.pool]
  BY Zenon DEF VM
<1>2. PICK X \in SUBSET Entries : m.tables \in [X -> FrameSet \union {STATIC}]
  BY <1>1, Zenon
<1>3. PICK Y \in SUBSET Int : m.mapped \in [Y -> FrameSet]
  BY <1>1, Zenon
<1> QED
  BY <1>1, <1>2, <1>3, Zenon

\* Page tables are put together of parts.
LEMMA Whole ==
  ASSUME NEW X \in SUBSET Entries, NEW Y \in SUBSET Int,
         NEW ts \in [X -> FrameSet \union {STATIC}], NEW ms \in [Y -> FrameSet],
         NEW ds \in SUBSET Int, NEW ps \in Seq(FrameSet)
  PROVE  [tables |-> ts, demand |-> ds, mapped |-> ms, pool |-> ps] \in VM
<1>1. ts \in UNION {[Z -> FrameSet \union {STATIC}] : Z \in SUBSET Entries}
  BY Zenon
<1>2. ms \in UNION {[Z -> FrameSet] : Z \in SUBSET Int}
  BY Zenon
<1> QED
  BY <1>1, <1>2, Zenon DEF VM

\* Tables are only added.
LEMMA StillThere ==
  ASSUME NEW m, NEW n, NEW v, DOMAIN m.tables \subseteq DOMAIN n.tables, Missing(m, v) = {}
  PROVE  Missing(n, v) = {}
BY Zenon DEF Missing

\* A frame from the pool becomes a table.
LEMMA TableKeeps ==
  ASSUME NEW m, Sound(m), NEW e \in Entries
  PROVE  Grown(m, WithTable(m, e), {})
<1>1. CASE e \in DOMAIN m.tables \/ m.pool = <<>>
  BY <1>1, Zenon DEF WithTable, Grown
<1>2. CASE e \notin DOMAIN m.tables /\ m.pool # <<>>
  <2>1. /\ m \in VM /\ Roles(m) /\ m.demand \intersect DOMAIN m.mapped = {}
        /\ \A v \in m.demand \union DOMAIN m.mapped : Missing(m, v) = {}
    BY Zenon DEF Sound
  <2>2. /\ \A x \in DOMAIN m.tables : x \in Entries /\ m.tables[x] \in FrameSet \union {STATIC}
        /\ m.mapped \in [DOMAIN m.mapped -> FrameSet] /\ DOMAIN m.mapped \in SUBSET Int
        /\ m.demand \in SUBSET Int /\ m.pool \in Seq(FrameSet)
        /\ m = [tables |-> m.tables, demand |-> m.demand, mapped |-> m.mapped, pool |-> m.pool]
    BY <2>1, Parts, Zenon
  <2> DEFINE X == DOMAIN m.tables \union {e}
             ts == [x \in X |-> IF x = e THEN Head(m.pool) ELSE m.tables[x]]
             t == [tables |-> ts, demand |-> m.demand, mapped |-> m.mapped, pool |-> Tail(m.pool)]
  <2>3. WithTable(m, e) = t
    BY <1>2, <2>2, Zenon DEF WithTable
  <2>4. /\ Head(m.pool) \in FrameSet /\ Tail(m.pool) \in Seq(FrameSet)
        /\ Head(m.pool) \in Range(m.pool)
        /\ Range(m.pool) = Range(Tail(m.pool)) \union {Head(m.pool)}
        /\ IsInjective(m.pool) => IsInjective(Tail(m.pool)) /\ Head(m.pool) \notin Range(Tail(m.pool))
    BY <1>2, <2>2, DequeueLemma, Zenon
  <2>5. X \in SUBSET Entries /\ ts \in [X -> FrameSet \union {STATIC}]
    BY <2>2, <2>4, Zenon
  <2>6. /\ t.tables = ts /\ t.demand = m.demand /\ t.mapped = m.mapped /\ t.pool = Tail(m.pool)
        /\ DOMAIN ts = X /\ ts[e] = Head(m.pool) /\ \A x \in DOMAIN m.tables : ts[x] = m.tables[x]
    BY <1>2, Zenon
  <2>7. t \in VM
    BY <2>2, <2>4, <2>5, Whole, Zenon
  <2> HIDE DEF ts, t
  <2>8. Roles(t)
    <3>1. IsInjective(t.pool) /\ \A x, y \in DOMAIN m.mapped : m.mapped[x] = m.mapped[y] => x = y
      BY <2>1, <2>4, <2>6, Zenon DEF Roles
    <3>2. \A x \in DOMAIN m.tables : m.tables[x] \notin Range(m.pool)
      BY <2>1, Zenon DEF Roles
    <3>3. \A x, y \in X : ts[x] = ts[y] /\ ts[x] # STATIC => x = y
      BY <2>1, <2>4, <2>6, <3>2 DEF Roles
    <3>4. \A x \in X : ts[x] \notin Range(t.pool)
      BY <2>1, <2>4, <2>6, <3>2 DEF Roles
    <3>5. \A v \in DOMAIN m.mapped : m.mapped[v] \notin Range(m.pool)
      BY <2>1, Zenon DEF Roles
    <3>6. \A x \in X : \A v \in DOMAIN m.mapped : ts[x] # m.mapped[v]
      BY <2>1, <2>4, <2>6, <3>5 DEF Roles
    <3>7. ASSUME NEW f \in FrameSet
          PROVE  \/ f \in Range(t.pool) \/ \E x \in X : f = ts[x]
                 \/ \E v \in DOMAIN m.mapped : f = m.mapped[v]
      BY <2>1, <2>4, <2>6 DEF Roles
    <3> QED
      BY <2>4, <2>6, <3>1, <3>3, <3>4, <3>5, <3>6, <3>7 DEF Roles
  <2>9. DOMAIN m.tables \subseteq DOMAIN t.tables
    BY <2>6, Zenon
  <2>10. \A v \in m.demand \union DOMAIN m.mapped : Missing(t, v) = {}
    BY <2>1, <2>9, StillThere, Zenon
  <2>11. Sound(t)
    BY <2>1, <2>6, <2>7, <2>8, <2>10, Zenon DEF Sound
  <2> QED
    BY <2>3, <2>6, <2>9, <2>11, Zenon DEF Grown
<1> QED
  BY <1>1, <1>2, Zenon

\* The bit of a page whose tables are there is set.
LEMMA MarkKeeps ==
  ASSUME NEW m, Sound(m), NEW v \in Int, v \notin DOMAIN m.mapped
  PROVE  Grown(m, [m EXCEPT !.demand = IF Missing(m, v) = {} THEN @ \union {v} ELSE @], {v})
<1>1. /\ m \in VM /\ Roles(m) /\ m.demand \intersect DOMAIN m.mapped = {}
      /\ \A w \in m.demand \union DOMAIN m.mapped : Missing(m, w) = {}
  BY Zenon DEF Sound
<1> DEFINE ds == IF Missing(m, v) = {} THEN m.demand \union {v} ELSE m.demand
           t == [m EXCEPT !.demand = IF Missing(m, v) = {} THEN @ \union {v} ELSE @]
<1>2. /\ t = [tables |-> m.tables, demand |-> ds, mapped |-> m.mapped, pool |-> m.pool]
      /\ m.demand \subseteq Int
  <2>1. /\ m = [tables |-> m.tables, demand |-> m.demand, mapped |-> m.mapped, pool |-> m.pool]
        /\ m.demand \subseteq Int
    BY <1>1, Parts, Zenon
  <2> QED
    BY <2>1
<1>3. /\ t.tables = m.tables /\ t.demand = ds /\ t.mapped = m.mapped /\ t.pool = m.pool
      /\ t \in VM
  BY <1>1, <1>2, Zenon DEF VM
<1> HIDE DEF t
<1>4. Roles(t)
  BY <1>1, <1>3 DEF Roles
<1>5. \A w : Missing(t, w) = Missing(m, w)
  BY <1>3, Zenon DEF Missing
<1>6. ds \intersect DOMAIN m.mapped = {} /\ \A w \in ds \union DOMAIN m.mapped : Missing(t, w) = {}
  BY <1>1, <1>5, Zenon
<1>7. Sound(t)
  BY <1>3, <1>4, <1>6, Zenon DEF Sound
<1>8. Grown(m, t, {v})
  BY <1>3, <1>7, Zenon DEF Grown
<1> QED
  BY <1>8, Zenon DEF t

\* A page loses its frame.
LEMMA FreeKeeps ==
  ASSUME NEW m, Sound(m), NEW v \in Int
  PROVE  Shrunk(m, PT_free(m, v), {v})
<1>1. CASE v \notin DOMAIN m.mapped
  BY <1>1, Zenon DEF PT_free, Shrunk
<1>2. CASE v \in DOMAIN m.mapped
  <2>1. /\ m \in VM /\ Roles(m) /\ m.demand \intersect DOMAIN m.mapped = {}
        /\ \A w \in m.demand \union DOMAIN m.mapped : Missing(m, w) = {}
    BY Zenon DEF Sound
  <2>2. /\ \A w \in DOMAIN m.mapped : w \in Int /\ m.mapped[w] \in FrameSet
        /\ m.demand \in SUBSET Int /\ m.pool \in Seq(FrameSet)
        /\ m = [tables |-> m.tables, demand |-> m.demand, mapped |-> m.mapped, pool |-> m.pool]
        /\ m.tables \in [DOMAIN m.tables -> FrameSet \union {STATIC}] /\ DOMAIN m.tables \in SUBSET Entries
    BY <2>1, Parts, Zenon
  <2> DEFINE Y == DOMAIN m.mapped \ {v}
             ms == [w \in Y |-> m.mapped[w]]
             ps == Append(m.pool, m.mapped[v])
             t == [tables |-> m.tables, demand |-> m.demand \ {v}, mapped |-> ms, pool |-> ps]
  <2>3. PT_free(m, v) = t
    BY <1>2, <2>2, Zenon DEF PT_free
  <2>4. /\ ps \in Seq(FrameSet) /\ Range(ps) = Range(m.pool) \union {m.mapped[v]}
        /\ IsInjective(m.pool) /\ m.mapped[v] \notin Range(m.pool) => IsInjective(ps)
    BY <1>2, <2>2, EnqueueLemma
  <2>5. Y \in SUBSET Int /\ ms \in [Y -> FrameSet] /\ m.demand \ {v} = m.demand
    BY <1>2, <2>1, <2>2, Zenon
  <2>6. /\ t.tables = m.tables /\ t.demand = m.demand /\ t.mapped = ms /\ t.pool = ps
        /\ DOMAIN ms = Y /\ \A w \in Y : ms[w] = m.mapped[w]
    BY <2>5, Zenon
  <2>7. t \in VM
    BY <2>2, <2>4, <2>5, Whole, Zenon
  <2> HIDE DEF ms, ps, t
  <2>8. Roles(t)
    <3>1. /\ IsInjective(ps) /\ \A w \in DOMAIN m.mapped : m.mapped[w] \notin Range(m.pool)
          /\ \A x \in DOMAIN m.tables : m.tables[x] \notin Range(m.pool) /\ m.tables[x] # m.mapped[v]
      BY <1>2, <2>1, <2>4, Zenon DEF Roles
    <3>2. \A x, w \in DOMAIN m.mapped : m.mapped[x] = m.mapped[w] => x = w
      BY <2>1, Zenon DEF Roles
    <3>3. \A w \in Y : ms[w] \notin Range(ps)
      BY <1>2, <2>4, <2>6, <3>1, <3>2, Zenon
    <3>4. \A x \in DOMAIN m.tables : m.tables[x] \notin Range(ps)
      BY <2>4, <3>1, Zenon
    <3>5. \A f \in FrameSet :
             f \in Range(ps) \/ (\E x \in DOMAIN m.tables : f = m.tables[x]) \/ \E w \in Y : f = ms[w]
      BY <1>2, <2>1, <2>4, <2>6 DEF Roles
    <3>6. /\ \A x, y \in DOMAIN m.tables : m.tables[x] = m.tables[y] /\ m.tables[x] # STATIC => x = y
          /\ \A x \in DOMAIN m.tables : \A w \in Y : m.tables[x] # ms[w]
      BY <2>1, <2>6 DEF Roles
    <3> QED
      BY <2>6, <3>1, <3>2, <3>3, <3>4, <3>5, <3>6 DEF Roles
  <2>9. Sound(t)
    <3>1. \A w : Missing(t, w) = Missing(m, w)
      BY <2>6, Zenon DEF Missing
    <3> QED
      BY <2>1, <2>6, <2>7, <2>8, <3>1, Zenon DEF Sound
  <2> QED
    BY <2>3, <2>6, <2>9, Zenon DEF Shrunk
<1> QED
  BY <1>1, <1>2, Zenon

\* A page gets a frame from the pool.
Faulted(m, v) ==
  [m EXCEPT !.mapped = [w \in DOMAIN @ \union {v} |-> IF w = v THEN Head(m.pool) ELSE @[w]],
            !.demand = @ \ {v},
            !.pool = Tail(@)]

\* What page_fault_handler does to the page table.
LEMMA FaultKeeps ==
  ASSUME NEW m, Sound(m), NEW v \in m.demand, m.pool # <<>>, NEW t, t = Faulted(m, v)
  PROVE  /\ Sound(t) /\ t.demand = m.demand \ {v} /\ DOMAIN t.mapped = DOMAIN m.mapped \union {v}
         /\ \A w \in DOMAIN m.mapped : t.mapped[w] = m.mapped[w]
<1>1. /\ m \in VM /\ Roles(m) /\ m.demand \intersect DOMAIN m.mapped = {}
      /\ \A w \in m.demand \union DOMAIN m.mapped : Missing(m, w) = {}
  BY Zenon DEF Sound
<1>2. /\ \A w \in DOMAIN m.mapped : w \in Int /\ m.mapped[w] \in FrameSet
      /\ m.demand \in SUBSET Int /\ m.pool \in Seq(FrameSet)
      /\ m = [tables |-> m.tables, demand |-> m.demand, mapped |-> m.mapped, pool |-> m.pool]
      /\ m.tables \in [DOMAIN m.tables -> FrameSet \union {STATIC}] /\ DOMAIN m.tables \in SUBSET Entries
  BY <1>1, Parts, Zenon
<1> DEFINE Y == DOMAIN m.mapped \union {v}
           ms == [w \in Y |-> IF w = v THEN Head(m.pool) ELSE m.mapped[w]]
<1>3. t = [tables |-> m.tables, demand |-> m.demand \ {v}, mapped |-> ms, pool |-> Tail(m.pool)]
  BY <1>2, Zenon DEF Faulted
<1>4. /\ Head(m.pool) \in FrameSet /\ Tail(m.pool) \in Seq(FrameSet)
      /\ Head(m.pool) \in Range(m.pool)
      /\ Range(m.pool) = Range(Tail(m.pool)) \union {Head(m.pool)}
      /\ IsInjective(m.pool) => IsInjective(Tail(m.pool)) /\ Head(m.pool) \notin Range(Tail(m.pool))
  BY <1>2, DequeueLemma, Zenon
<1>5. Y \in SUBSET Int /\ ms \in [Y -> FrameSet] /\ v \notin DOMAIN m.mapped /\ m.demand \ {v} \in SUBSET Int
  BY <1>1, <1>2, <1>4, Zenon
<1>6. /\ t.tables = m.tables /\ t.demand = m.demand \ {v} /\ t.mapped = ms /\ t.pool = Tail(m.pool)
      /\ DOMAIN ms = Y /\ ms[v] = Head(m.pool) /\ \A w \in DOMAIN m.mapped : ms[w] = m.mapped[w]
  BY <1>3, <1>5
<1>7. t \in VM
  <2>1. [tables |-> m.tables, demand |-> m.demand \ {v}, mapped |-> ms, pool |-> Tail(m.pool)] \in VM
    BY <1>2, <1>4, <1>5, Whole, Zenon
  <2> QED
    BY ONLY <1>3, <2>1, Zenon
<1> HIDE DEF ms
<1>8. Roles(t)
  <2>1. /\ IsInjective(t.pool) /\ \A w \in DOMAIN m.mapped : m.mapped[w] \notin Range(m.pool)
        /\ \A x \in DOMAIN m.tables : m.tables[x] \notin Range(m.pool)
    BY <1>1, <1>4, <1>6, Zenon DEF Roles
  <2>2. \A x, w \in Y : ms[x] = ms[w] => x = w
    BY <1>1, <1>4, <1>6, <2>1, SMTT(30) DEF Roles
  <2>3. \A w \in Y : ms[w] \notin Range(t.pool)
    BY <1>1, <1>4, <1>6, <2>1, SMTT(30) DEF Roles
  <2>4. \A x \in DOMAIN m.tables : m.tables[x] \notin Range(t.pool) /\ \A w \in Y : m.tables[x] # ms[w]
    BY <1>1, <1>4, <1>6, <2>1, SMTT(30) DEF Roles
  <2>5. \A f \in FrameSet :
          f \in Range(t.pool) \/ (\E x \in DOMAIN m.tables : f = m.tables[x]) \/ \E w \in Y : f = ms[w]
    BY <1>1, <1>4, <1>6 DEF Roles
  <2>6. \A x, y \in DOMAIN m.tables : m.tables[x] = m.tables[y] /\ m.tables[x] # STATIC => x = y
    BY <1>1, Zenon DEF Roles
  <2> QED
    BY <1>6, <2>1, <2>2, <2>3, <2>4, <2>5, <2>6 DEF Roles
<1>9. \A w : Missing(t, w) = Missing(m, w)
  BY <1>6, Zenon DEF Missing
<1>10. Sound(t)
  <2>1. t.demand \intersect DOMAIN t.mapped = {}
    BY ONLY <1>1, <1>6, Zenon
  <2>2. \A w \in t.demand \union DOMAIN t.mapped : Missing(t, w) = {}
    BY ONLY <1>1, <1>6, <1>9, v \in m.demand, Zenon
  <2> QED
    BY <1>7, <1>8, <2>1, <2>2, Zenon DEF Sound
<1> QED
  BY <1>6, <1>10, Zenon

\* Induction with the property given as a set.
LEMMA Induction ==
  ASSUME NEW T \in SUBSET Nat, 0 \in T, \A n \in T : n + 1 \in T
  PROVE  T = Nat
<1> SUFFICES ASSUME Nat \ T # {} PROVE FALSE
  BY Zenon
<1>1. PICK n \in Nat \ T : \A m \in Nat \ T : n <= m
  BY LeastElement, Zenon
<1>2. n # 0 /\ n - 1 \in Nat /\ n - 1 \in T
  BY <1>1
<1> QED
  BY <1>1, <1>2

\* g goes from a through n rounds, of which round k does F[k].
Rounds(F, a, n, g) == g[0] = a /\ \A k \in 1..n : g[k] = F[k][g[k - 1]]

\* A loop that runs n times over states in D can be made.
LEMMA LoopExists ==
  ASSUME NEW D, NEW n \in Nat, NEW F \in [1..n -> [D -> D]], NEW a \in D
  PROVE  \E g \in [0..n -> D] : Rounds(F, a, n, g)
<1> DEFINE Runs(i, g) == g[0] = a /\ \A k \in 1..i : g[k] = F[k][g[k - 1]]
           Can(i) == \E g \in [0..i -> D] : Runs(i, g)
           T == {i \in Nat : i <= n => Can(i)}
<1>1. Can(0)
  <2>1. [k \in 0..0 |-> a] \in [0..0 -> D] /\ Runs(0, [k \in 0..0 |-> a])
    OBVIOUS
  <2> QED
    BY <2>1, Zenon
<1>2. ASSUME NEW i \in Nat, i + 1 <= n, Can(i) PROVE Can(i + 1)
  <2>1. i + 1 \in 1..n
    BY <1>2
  <2>2. PICK g \in [0..i -> D] : Runs(i, g)
    BY <1>2, Zenon
  <2> DEFINE h == [k \in 0..(i + 1) |-> IF k <= i THEN g[k] ELSE F[i + 1][g[i]]]
  <2>3. h \in [0..(i + 1) -> D]
    BY <2>1
  <2>4. Runs(i + 1, h)
    BY <2>1, <2>2
  <2> HIDE DEF h, Runs
  <2> QED
    BY <2>3, <2>4, Zenon
<1> HIDE DEF Can
<1>3. 0 \in T /\ \A i \in T : i + 1 \in T
  BY <1>1, <1>2
<1>4. T = Nat
  <2> HIDE DEF T
  <2> QED BY <1>3, Induction, Zenon DEF T
<1>5. Can(n)
  BY <1>4
<1> QED
  BY <1>5, Zenon DEF Can, Rounds

\* What each round of a loop keeps holds after the last one.
LEMMA LoopKeeps ==
  ASSUME NEW n \in Nat, NEW g, NEW R, g[0] \in R, \A k \in 1..n : g[k - 1] \in R => g[k] \in R
  PROVE  g[n] \in R
<1> DEFINE T == {i \in Nat : i <= n => g[i] \in R}
<1>1. 0 \in T
  BY Zenon
<1>2. ASSUME NEW i \in T PROVE i + 1 \in T
  <2> SUFFICES ASSUME i + 1 <= n PROVE g[i + 1] \in R
    OBVIOUS
  <2>1. i + 1 \in 1..n /\ (i + 1) - 1 = i /\ g[i] \in R
    OBVIOUS
  <2> QED
    BY <2>1, Zenon
<1>3. T = Nat
  <2> HIDE DEF T
  <2> QED BY <1>1, <1>2, Induction, Zenon DEF T
<1> QED
  BY <1>3

\* Loops that each add, or each free, do so together.
LEMMA Together ==
  /\ \A a, m, n, vs, ws : Grown(a, m, vs) /\ Grown(m, n, ws) => Grown(a, n, vs \union ws)
  /\ \A a, m, n, vs, ws : Shrunk(a, m, vs) /\ Shrunk(m, n, ws) => Shrunk(a, n, vs \union ws)
  /\ \A a : Sound(a) => Grown(a, a, {}) /\ Shrunk(a, a, {})
<1>1. ASSUME NEW a, NEW m, NEW n, NEW vs, NEW ws, Grown(a, m, vs), Grown(m, n, ws)
      PROVE  Grown(a, n, vs \union ws)
  BY <1>1, Zenon DEF Grown
<1>2. ASSUME NEW a, NEW m, NEW n, NEW vs, NEW ws, Shrunk(a, m, vs), Shrunk(m, n, ws)
      PROVE  Shrunk(a, n, vs \union ws)
  BY <1>2, Zenon DEF Shrunk
<1>3. ASSUME NEW a, Sound(a) PROVE Grown(a, a, {}) /\ Shrunk(a, a, {})
  BY <1>3, Zenon DEF Grown, Shrunk
<1> QED
  BY <1>1, <1>2, <1>3, Zenon

\* The loop of PT_demand_allocate allocates tables only.
LEMMA TablesKeep ==
  ASSUME NEW m, Sound(m), NEW v \in Int
  PROVE  Grown(m, WithTables(m, v), {})
<1> DEFINE D == {t \in VM : Grown(m, t, {})}
           F == [d \in 1..Depth |-> [t \in D |-> WithTable(t, Entry(v, d - 1))]]
           Loop(f) == f = [d \in 0..Depth |-> IF d = 0 THEN m ELSE WithTable(f[d - 1], Entry(v, d - 1))]
           up == CHOOSE f : Loop(f)
<1>1. Depth \in Nat /\ m \in D
  BY PagingAssumption, Together, Zenon DEF Sound
<1>2. \A t \in D, d \in 1..Depth : WithTable(t, Entry(v, d - 1)) \in D
  <2> SUFFICES ASSUME NEW t \in D, NEW d \in 1..Depth PROVE WithTable(t, Entry(v, d - 1)) \in D
    BY Zenon
  <2>1. d - 1 \in 0..(Depth - 1) /\ Entry(v, d - 1) \in Entries
    BY <1>1 DEF Entries
  <2>2. Grown(m, t, {}) /\ Sound(t)
    BY Zenon DEF Grown
  <2>3. Grown(t, WithTable(t, Entry(v, d - 1)), {})
    BY <2>1, <2>2, TableKeeps, Zenon
  <2>4. Grown(m, WithTable(t, Entry(v, d - 1)), {} \union {})
    BY <2>2, <2>3, Together, Zenon
  <2> QED
    BY <2>4, Zenon DEF Grown, Sound
<1> HIDE DEF D
<1>3. PICK g \in [0..Depth -> D] : g[0] = m /\ \A d \in 1..Depth : g[d] = F[d][g[d - 1]]
  <2>1. F \in [1..Depth -> [D -> D]]
    BY <1>2, Zenon
  <2> HIDE DEF F
  <2>2. \E g \in [0..Depth -> D] : Rounds(F, m, Depth, g)
    BY <1>1, <2>1, LoopExists, Zenon
  <2> QED
    BY <2>2, Zenon DEF Rounds
<1>4. \A d \in 1..Depth : g[d] = WithTable(g[d - 1], Entry(v, d - 1))
  <2> SUFFICES ASSUME NEW d \in 1..Depth PROVE g[d] = WithTable(g[d - 1], Entry(v, d - 1))
    BY Zenon
  <2>1. g[d - 1] \in D
    BY <1>1, <1>3
  <2> QED
    BY <1>3, <2>1, Zenon
<1>5. Loop(g)
  BY <1>1, <1>3, <1>4
<1>6. Loop(up)
  BY <1>5, Zenon
<1>7. WithTables(m, v) = up[Depth]
  BY Zenon DEF WithTables
<1> HIDE DEF up
<1>8. up[0] \in D /\ \A d \in 1..Depth : up[d - 1] \in D => up[d] \in D
  <2>1. up[0] = m /\ \A d \in 1..Depth : up[d] = WithTable(up[d - 1], Entry(v, d - 1))
    BY <1>1, <1>6
  <2> QED
    BY <1>1, <1>2, <2>1, Zenon
<1>9. up[Depth] \in D
  BY <1>1, <1>8, LoopKeeps, Zenon
<1> QED
  BY <1>7, <1>9, Zenon DEF D

\* PT_demand_allocate as a whole.
LEMMA DemandKeeps ==
  ASSUME NEW m, Sound(m), NEW v \in Int
  PROVE  Grown(m, PT_demand_allocate(m, v), {v})
<1>1. CASE v \in DOMAIN m.mapped
  BY <1>1, Zenon DEF PT_demand_allocate, Grown
<1>2. CASE v \notin DOMAIN m.mapped
  <2>1. PICK t : t = WithTables(m, v) /\ Grown(m, t, {}) /\ Sound(t) /\ v \notin DOMAIN t.mapped
    BY <1>2, TablesKeep, Zenon DEF Grown
  <2>2. Grown(t, PT_demand_allocate(m, v), {v})
    BY <1>2, <2>1, MarkKeeps, Zenon DEF PT_demand_allocate
  <2>3. Grown(m, PT_demand_allocate(m, v), {} \union {v})
    BY <2>1, <2>2, Together, Zenon
  <2>4. {} \union {v} = {v}
    BY Zenon
  <2> QED
    BY <2>3, <2>4, Zenon
<1> QED
  BY <1>1, <1>2, Zenon

\* Several pages are marked, one after the other.
LEMMA DemandAllKeeps ==
  ASSUME NEW m, Sound(m), NEW pages \in Seq(Int)
  PROVE  Grown(m, DemandAll(m, pages), Range(pages))
<1> DEFINE n == Len(pages)
           D == {t \in VM : Grown(m, t, Range(pages))}
           F == [i \in 1..n |-> [t \in D |-> PT_demand_allocate(t, pages[i])]]
           Loop(f) == f = [i \in 0..n |-> IF i = 0 THEN m ELSE PT_demand_allocate(f[i - 1], pages[i])]
           all == CHOOSE f : Loop(f)
<1>1. n \in Nat /\ m \in D /\ \A i \in 1..n : pages[i] \in Int /\ pages[i] \in Range(pages)
  BY DEF Sound, Grown, Range
<1>2. \A t \in D, i \in 1..n : PT_demand_allocate(t, pages[i]) \in D
  <2> SUFFICES ASSUME NEW t \in D, NEW i \in 1..n PROVE PT_demand_allocate(t, pages[i]) \in D
    BY Zenon
  <2>1. Grown(m, t, Range(pages)) /\ Sound(t)
    BY Zenon DEF Grown
  <2>2. Grown(t, PT_demand_allocate(t, pages[i]), {pages[i]})
    BY <1>1, <2>1, DemandKeeps, Zenon
  <2>3. Grown(m, PT_demand_allocate(t, pages[i]), Range(pages) \union {pages[i]})
    BY <2>1, <2>2, Together, Zenon
  <2>4. Range(pages) \union {pages[i]} = Range(pages)
    BY <1>1, Zenon
  <2> QED
    BY <2>3, <2>4, Zenon DEF Grown, Sound
<1> HIDE DEF D, n
<1>3. PICK g \in [0..n -> D] : g[0] = m /\ \A i \in 1..n : g[i] = F[i][g[i - 1]]
  <2>1. F \in [1..n -> [D -> D]]
    BY <1>2, Zenon
  <2> HIDE DEF F
  <2>2. \E g \in [0..n -> D] : Rounds(F, m, n, g)
    BY <1>1, <2>1, LoopExists, Zenon
  <2> QED
    BY <2>2, Zenon DEF Rounds
<1>4. \A i \in 1..n : g[i] = PT_demand_allocate(g[i - 1], pages[i])
  <2> SUFFICES ASSUME NEW i \in 1..n PROVE g[i] = PT_demand_allocate(g[i - 1], pages[i])
    BY Zenon
  <2>1. g[i - 1] \in D
    BY <1>1, <1>3
  <2> QED
    BY <1>3, <2>1, Zenon
<1>5. Loop(g)
  BY <1>1, <1>3, <1>4
<1>6. Loop(all)
  BY <1>5, Zenon
<1>7. DemandAll(m, pages) = all[n]
  BY Zenon DEF DemandAll, n
<1> HIDE DEF all
<1>8. all[0] \in D /\ \A i \in 1..n : all[i - 1] \in D => all[i] \in D
  <2>1. all[0] = m /\ \A i \in 1..n : all[i] = PT_demand_allocate(all[i - 1], pages[i])
    BY <1>1, <1>6
  <2> QED
    BY <1>1, <1>2, <2>1, Zenon
<1>9. all[n] \in D
  BY <1>1, <1>8, LoopKeeps, Zenon
<1> QED
  BY <1>7, <1>9, Zenon DEF D

\* Several pages are freed, one after the other.
LEMMA FreeAllKeeps ==
  ASSUME NEW m, Sound(m), NEW pages \in Seq(Int)
  PROVE  Shrunk(m, FreeAll(m, pages), Range(pages))
<1> DEFINE n == Len(pages)
           D == {t \in VM : Shrunk(m, t, Range(pages))}
           F == [i \in 1..n |-> [t \in D |-> PT_free(t, pages[i])]]
           Loop(f) == f = [i \in 0..n |-> IF i = 0 THEN m ELSE PT_free(f[i - 1], pages[i])]
           all == CHOOSE f : Loop(f)
<1>1. n \in Nat /\ m \in D /\ \A i \in 1..n : pages[i] \in Int /\ pages[i] \in Range(pages)
  BY DEF Sound, Shrunk, Range
<1>2. \A t \in D, i \in 1..n : PT_free(t, pages[i]) \in D
  <2> SUFFICES ASSUME NEW t \in D, NEW i \in 1..n PROVE PT_free(t, pages[i]) \in D
    OBVIOUS
  <2>1. Shrunk(m, t, Range(pages)) /\ Sound(t)
    BY Zenon DEF Shrunk
  <2>2. Shrunk(t, PT_free(t, pages[i]), {pages[i]})
    BY <1>1, <2>1, FreeKeeps
  <2>3. Shrunk(m, PT_free(t, pages[i]), Range(pages) \union {pages[i]})
    BY <2>1, <2>2, Together, Zenon
  <2>4. Range(pages) \union {pages[i]} = Range(pages)
    BY <1>1
  <2> QED
    BY <2>3, <2>4, Zenon DEF Shrunk, Sound
<1> HIDE DEF D, n
<1>3. PICK g \in [0..n -> D] : g[0] = m /\ \A i \in 1..n : g[i] = F[i][g[i - 1]]
  <2>1. F \in [1..n -> [D -> D]]
    BY <1>2, SMTT(30)
  <2> HIDE DEF F
  <2>2. \E g \in [0..n -> D] : Rounds(F, m, n, g)
    BY <1>1, <2>1, LoopExists, Zenon
  <2> QED
    BY <2>2, Zenon DEF Rounds
<1>4. \A i \in 1..n : g[i] = PT_free(g[i - 1], pages[i])
  <2> SUFFICES ASSUME NEW i \in 1..n PROVE g[i] = PT_free(g[i - 1], pages[i])
    OBVIOUS
  <2>1. g[i - 1] \in D
    BY <1>1, <1>3
  <2> QED
    BY <1>3, <2>1, Zenon
<1>5. Loop(g)
  BY <1>1, <1>3, <1>4
<1>6. Loop(all)
  BY <1>5, Zenon
<1>7. FreeAll(m, pages) = all[n]
  BY DEF FreeAll, n
<1> HIDE DEF all
<1>8. all[0] \in D /\ \A i \in 1..n : all[i - 1] \in D => all[i] \in D
  <2>1. all[0] = m /\ \A i \in 1..n : all[i] = PT_free(all[i - 1], pages[i])
    BY <1>1, <1>6
  <2> QED
    BY <1>1, <1>2, <2>1
<1>9. all[n] \in D
  BY <1>1, <1>8, LoopKeeps
<1> QED
  BY <1>7, <1>9 DEF D

\* The quotient is unique.
LEMMA DivUnique ==
  ASSUME NEW n \in Nat \ {0}, NEW q \in Int, NEW r \in 0..(n - 1), NEW a \in Int, a = n * q + r
  PROVE  a \div n = q
<1>1. PICK e \in Int, s \in 0..(n - 1) : a \div n = e /\ a = n * e + s
  BY DivMod, Zenon
<1>2. PICK d \in Int : d = e - q
  OBVIOUS
<1>3. n * d = n * e - n * q /\ n * e \in Int /\ n * q \in Int /\ n * d \in Int
  BY <1>2, Distribute
<1>4. n * d = r - s
  BY ONLY <1>1, <1>3, a = n * q + r, r \in 0..(n - 1), s \in 0..(n - 1), n \in Nat
<1>5. -n < n * d /\ n * d < n
  BY ONLY <1>3, <1>4, r \in 0..(n - 1), s \in 0..(n - 1), n \in Nat
<1>6. d = 0
  BY <1>5, Multiples, Zenon
<1> QED
  BY ONLY <1>1, <1>2, <1>6, e \in Int, q \in Int

\* The address of stack j, counted from the first one allocated.
StackAt(j) == (StacksEnd - StackPages * j) * PageWords - 1

\* The page of stack j, where MMU_free_stack starts.
StackPage(j) == StacksEnd - StackPages * j - 1

\* The pages of addresses.
LEMMA PageOf ==
  /\ \A k \in Int : Page(k * PageWords) = k
  /\ \A j \in Int : /\ StackAt(j) \in Int /\ StackPage(j) \in Int
                    /\ Page(StackAt(j)) = StackPage(j)
                    /\ Page(StackAt(j) - (PageWords - 1)) = StackPage(j)
                    /\ StackAt(j) - StackPages * PageWords = StackAt(j + 1)
                    /\ StackPage(j + 1) = StackPage(j) - StackPages
  /\ StackTop = StackAt(0)
<1>1. PageWords \in Nat \ {0} /\ PageWords >= 2 /\ StacksEnd \in Int /\ StackPages \in Int
  BY PagingAssumption
<1>2. ASSUME NEW k \in Int PROVE Page(k * PageWords) = k
  <2>1. PICK a \in Int : a = k * PageWords /\ a = PageWords * k + 0
    BY <1>1
  <2>2. 0 \in 0..(PageWords - 1)
    BY <1>1
  <2> QED
    BY ONLY <1>1, <2>1, <2>2, k \in Int, DivUnique DEF Page
<1>3. ASSUME NEW j \in Int
      PROVE  /\ StackAt(j) \in Int /\ StackPage(j) \in Int
             /\ Page(StackAt(j)) = StackPage(j)
             /\ Page(StackAt(j) - (PageWords - 1)) = StackPage(j)
             /\ StackAt(j) - StackPages * PageWords = StackAt(j + 1)
             /\ StackPage(j + 1) = StackPage(j) - StackPages
  <2>1. PICK p \in Int : p = StackPages * j /\ StackPages * (j + 1) = p + StackPages
    BY <1>1
  <2>2. PICK k \in Int : k = StacksEnd - p - 1
    BY <1>1
  <2>3. StackPage(j) = k /\ StackPage(j + 1) = k - StackPages
    BY ONLY <1>1, <2>1, <2>2, p \in Int, k \in Int DEF StackPage
  <2>4. StackAt(j) = (k + 1) * PageWords - 1 /\ StackAt(j + 1) = (k + 1 - StackPages) * PageWords - 1
    <3>1. StacksEnd - StackPages * j = k + 1 /\ StacksEnd - StackPages * (j + 1) = k + 1 - StackPages
      BY ONLY <1>1, <2>1, <2>2, p \in Int, k \in Int
    <3> QED
      BY ONLY <3>1, Zenon DEF StackAt
  <2>5. PICK a \in Int : a = PageWords * k
    BY <1>1
  <2>6. (k + 1) * PageWords = a + PageWords
    BY ONLY <1>1, <2>5, k \in Int, a \in Int
  <2>7. (k + 1 - StackPages) * PageWords = a + PageWords - StackPages * PageWords
    BY ONLY <1>1, <2>5, k \in Int, a \in Int
  <2>8. StackPages * PageWords \in Int
    BY ONLY <1>1
  <2>9. PICK b \in Int : b = StackAt(j) /\ b = a + (PageWords - 1)
    BY ONLY <1>1, <2>4, <2>6, a \in Int
  <2>10. PageWords - 1 \in 0..(PageWords - 1) /\ 0 \in 0..(PageWords - 1) /\ b = PageWords * k + (PageWords - 1)
    BY ONLY <1>1, <2>5, <2>9
  <2>11. b \div PageWords = k
    BY ONLY <1>1, <2>10, k \in Int, b \in Int, DivUnique
  <2>12. b - (PageWords - 1) = a /\ a = PageWords * k + 0
    BY ONLY <1>1, <2>5, <2>9, a \in Int, b \in Int
  <2>13. a \div PageWords = k
    BY ONLY <1>1, <2>10, <2>12, k \in Int, a \in Int, DivUnique
  <2>14. StackAt(j) - StackPages * PageWords = StackAt(j + 1)
    BY ONLY <1>1, <2>4, <2>6, <2>7, <2>8, a \in Int
  <2> QED
    BY ONLY <2>3, <2>9, <2>11, <2>12, <2>13, <2>14, k \in Int, b \in Int, Zenon DEF Page
<1>4. StackTop = StackAt(0)
  BY <1>1 DEF StackTop, StackAt
<1> QED
  BY <1>2, <1>3, <1>4, Zenon

\* Later stacks are whole stacks below.
LEMMA StackOrder ==
  ASSUME NEW i \in Nat, NEW j \in Nat, i < j
  PROVE  StackPage(j) + StackPages <= StackPage(i) /\ StackPage(i) <= StacksEnd - 1
<1>1. StacksEnd \in Int /\ StackPages \in Nat \ {0}
  BY PagingAssumption
<1>2. PICK d \in Nat : j = i + 1 + d
  <2>1. j - i - 1 \in Nat /\ j = i + 1 + (j - i - 1)
    OBVIOUS
  <2> QED
    BY <2>1, Zenon
<1>3. PICK a \in Nat, b \in Nat : a = StackPages * i /\ b = StackPages * d
  BY <1>1
<1>4. StackPages * j = a + StackPages + b
  BY ONLY <1>1, <1>2, <1>3, i \in Nat, d \in Nat
<1> QED
  BY ONLY <1>1, <1>3, <1>4, a \in Nat, b \in Nat DEF StackPage

\* The heap's pages up to k and the stacks up to number j have been given out:
\* blocks lie apart, and no other page ever had a frame.
Handed(k, j) ==
  /\ k \in HeapStart..HeapEnd /\ j \in Nat
  /\ next_kernel_heap_vaddr = k * PageWords /\ next_kernel_thread_stack_vaddr = StackAt(j)
  /\ \A b \in blocks : /\ b.first \in HeapStart..k /\ b.num \in Nat /\ b.first + b.num <= k
                       /\ \A c \in blocks : b # c => BlockPages(b) \intersect BlockPages(c) = {}
  /\ \A s \in stacks : \E i \in 0..(j - 1) : s = StackAt(i)
  /\ \A v \in seen : v \in HeapStart..(k - 1) \/ v \in (StackPage(j) + 1)..(StacksEnd - 1)

\* The inductive invariant.
PagingInv == Sound(vm) /\ (\E k, j \in Int : Handed(k, j)) /\ NeverRemapped /\ Usable

\* What a step may not do to the memory behind a heap block.
Stable ==
  \A b \in blocks : \A v \in BlockPages(b) \intersect DOMAIN vm.mapped :
    b \in blocks' => v \in DOMAIN vm'.mapped /\ vm'.mapped[v] = vm.mapped[v]

\* The constants, without products.
LEMMA PagingConstants ==
  /\ StackPages \in Nat \ {0} /\ PageWords \in Nat \ {0}
  /\ {StacksStart, StacksEnd, HeapStart, HeapEnd} \subseteq Nat
  /\ StacksEnd + StackPages <= HeapStart /\ HeapStart <= HeapEnd
BY PagingAssumption

\* The pages in use: those of blocks lie in the heap, those of stacks below.
LEMMA Used ==
  ASSUME NEW k, NEW j, Handed(k, j)
  PROVE  /\ \A b \in blocks : BlockPages(b) \subseteq HeapStart..(k - 1)
         /\ \A s \in stacks : /\ Page(s) \in Int /\ Page(s) <= StacksEnd - 1 /\ Page(s) < HeapStart
                              /\ Page(s - (PageWords - 1)) = Page(s)
                              /\ StackPagesOf(s) \subseteq (StackPage(j) + 1)..(StacksEnd - 1)
         /\ \A s, t \in stacks : s # t => Page(s) + StackPages <= Page(t) \/ Page(t) + StackPages <= Page(s)
<1> USE PagingConstants
<1>1. ASSUME NEW b \in blocks PROVE BlockPages(b) \subseteq HeapStart..(k - 1)
  BY DEF Handed, BlockPages
<1>2. ASSUME NEW s \in stacks
      PROVE  \E i \in 0..(j - 1) : s = StackAt(i)
  BY Zenon DEF Handed
<1>3. ASSUME NEW s \in stacks
      PROVE  /\ Page(s) \in Int /\ Page(s) <= StacksEnd - 1 /\ Page(s) < HeapStart
             /\ Page(s - (PageWords - 1)) = Page(s)
             /\ StackPagesOf(s) \subseteq (StackPage(j) + 1)..(StacksEnd - 1)
  <2>1. j \in Nat
    BY Zenon DEF Handed
  <2>2. PICK i \in 0..(j - 1) : s = StackAt(i)
    BY <1>2, Zenon
  <2>3. i \in Nat /\ i < j
    BY <2>1
  <2>4. PICK p \in Int : p = Page(s) /\ p = StackPage(i) /\ Page(s - (PageWords - 1)) = p
    BY <2>2, <2>3, PageOf
  <2>5. PICK q \in Int : q = StackPage(j)
    BY <2>1, PageOf
  <2>6. q + StackPages <= p /\ p <= StacksEnd - 1
    BY <2>1, <2>3, <2>4, <2>5, StackOrder, Zenon
  <2>7. (p - StackPages + 1)..p \subseteq (q + 1)..(StacksEnd - 1) /\ p < HeapStart
    BY ONLY <2>6, p \in Int, q \in Int, PagingConstants
  <2> QED
    BY <2>4, <2>5, <2>6, <2>7, Zenon DEF StackPagesOf
<1>4. ASSUME NEW s \in stacks, NEW t \in stacks, s # t
      PROVE  Page(s) + StackPages <= Page(t) \/ Page(t) + StackPages <= Page(s)
  <2>1. j \in Nat
    BY Zenon DEF Handed
  <2>2. PICK i \in 0..(j - 1), l \in 0..(j - 1) : s = StackAt(i) /\ t = StackAt(l)
    BY <1>2, Zenon
  <2>3. i \in Nat /\ l \in Nat /\ (i < l \/ l < i)
    BY <1>4, <2>1, <2>2
  <2>4. Page(s) = StackPage(i) /\ Page(t) = StackPage(l)
    BY <2>2, <2>3, PageOf
  <2> QED
    BY <2>3, <2>4, StackOrder, Zenon
<1> QED
  BY <1>1, <1>3, <1>4, Zenon

\* page_fault_handler keeps the invariant.
LEMMA FaultStep ==
  ASSUME PagingInv, NEW v, page_fault_handler(v)
  PROVE  PagingInv' /\ Stable
<1> USE PagingConstants
<1>1. PICK k, j \in Int : Handed(k, j)
  BY Zenon DEF PagingInv
<1>2. /\ Sound(vm) /\ v \in vm.demand /\ vm.pool # <<>> /\ v \in InUse
      /\ seen' = seen \union {v}
      /\ UNCHANGED <<next_kernel_heap_vaddr, next_kernel_thread_stack_vaddr, blocks, stacks, masked, oom>>
  BY Zenon DEF PagingInv, page_fault_handler
<1>3. /\ Sound(vm') /\ vm'.demand = vm.demand \ {v} /\ DOMAIN vm'.mapped = DOMAIN vm.mapped \union {v}
      /\ \A w \in DOMAIN vm.mapped : vm'.mapped[w] = vm.mapped[w]
  <2>1. vm' = Faulted(vm, v)
    BY Zenon DEF page_fault_handler, Faulted
  <2> QED
    BY <1>2, <2>1, FaultKeeps
<1>4. v \in HeapStart..(k - 1) \/ v \in (StackPage(j) + 1)..(StacksEnd - 1)
  BY <1>1, <1>2, Used, Zenon DEF InUse
<1>5. Handed(k, j)'
  BY <1>1, <1>2, <1>4, Zenon DEF Handed, BlockPages
<1>6. NeverRemapped'
  BY <1>2, <1>3, Zenon DEF PagingInv, NeverRemapped
<1>7. Usable'
  BY <1>2, <1>3, Zenon DEF PagingInv, Usable, BlockPages
<1>8. Stable
  BY <1>3, Zenon DEF Stable
<1> QED
  BY <1>3, <1>5, <1>6, <1>7, <1>8, Zenon DEF PagingInv

\* Pages are marked that never had a frame.
LEMMA MarkStep ==
  ASSUME PagingInv, NEW pages \in Seq(Int), vm' = DemandAll(vm, pages),
         Range(pages) \intersect seen = {}, UNCHANGED seen
  PROVE  /\ Sound(vm') /\ NeverRemapped' /\ Stable
         /\ vm.demand \union DOMAIN vm.mapped \subseteq vm'.demand \union DOMAIN vm'.mapped
<1>1. Grown(vm, vm', Range(pages))
  BY DemandAllKeeps, Zenon DEF PagingInv
<1>2. /\ Sound(vm') /\ vm'.mapped = vm.mapped
      /\ vm.demand \subseteq vm'.demand /\ vm'.demand \subseteq vm.demand \union Range(pages)
  BY <1>1, Zenon DEF Grown
<1>3. NeverRemapped'
  BY <1>2, Zenon DEF PagingInv, NeverRemapped
<1>4. Stable
  BY <1>2, Zenon DEF Stable
<1> QED
  BY <1>2, <1>3, <1>4, Zenon

\* MMU_alloc_pages keeps the invariant.
LEMMA HeapStep ==
  ASSUME PagingInv, NEW num \in 1..MaxAlloc, MMU_alloc_pages(num)
  PROVE  PagingInv' /\ Stable
<1> USE PagingConstants
<1>1. PICK k, j \in Int : Handed(k, j)
  BY Zenon DEF PagingInv
<1>2. k \in HeapStart..HeapEnd /\ Page(next_kernel_heap_vaddr) = k /\ next_kernel_heap_vaddr = k * PageWords
  BY <1>1, PageOf, Zenon DEF Handed
<1>3. PICK n \in Nat : n = IF num <= HeapEnd - k THEN num ELSE HeapEnd - k
  BY <1>2
<1>4. /\ vm' = DemandAll(vm, [i \in 1..n |-> k + i - 1])
      /\ next_kernel_heap_vaddr' = next_kernel_heap_vaddr + n * PageWords
      /\ IF n = num THEN blocks' = blocks \union {[first |-> k, num |-> num]} ELSE UNCHANGED blocks
      /\ oom' = (oom \/ Failed(vm', k .. (k + n - 1)))
      /\ UNCHANGED <<next_kernel_thread_stack_vaddr, stacks, seen>>
  BY <1>2, <1>3, Zenon DEF MMU_alloc_pages
<1> DEFINE pages == [i \in 1..n |-> k + i - 1]
<1>5. pages \in Seq(Int) /\ Range(pages) \subseteq k..(k + n - 1)
  BY DEF Range
<1>0. PICK q \in Int : /\ q = StackPage(j)
                       /\ \A v \in seen : v \in HeapStart..(k - 1) \/ v \in (q + 1)..(StacksEnd - 1)
  BY <1>1, PageOf, Zenon DEF Handed
<1>6. Range(pages) \intersect seen = {}
  <2>1. \A v \in k..(k + n - 1) : v \notin seen
    BY <1>0, <1>2
  <2> HIDE DEF pages
  <2> QED
    BY <1>5, <2>1, Zenon
<1> HIDE DEF pages
<1>7. /\ Sound(vm') /\ NeverRemapped' /\ Stable
      /\ vm.demand \union DOMAIN vm.mapped \subseteq vm'.demand \union DOMAIN vm'.mapped
  <2>1. vm' = DemandAll(vm, pages) /\ UNCHANGED seen
    BY <1>4, Zenon DEF pages
  <2> QED
    BY <1>5, <1>6, <2>1, MarkStep, Zenon
<1>8. k + n \in HeapStart..HeapEnd
  BY <1>2, <1>3
<1>9. next_kernel_heap_vaddr' = (k + n) * PageWords
  <2>1. (k + n) * PageWords = k * PageWords + n * PageWords
    BY <1>2
  <2> QED
    BY <1>2, <1>4, <2>1, Zenon
<1>10. ASSUME NEW b \in blocks'
       PROVE  \/ b \in blocks /\ BlockPages(b) \subseteq HeapStart..(k - 1)
              \/ n = num /\ b = [first |-> k, num |-> n] /\ BlockPages(b) = k..(k + n - 1)
  BY <1>1, <1>4, Used, SMTT(30) DEF BlockPages
<1>11. Handed(k + n, j)'
  <2>1. ASSUME NEW b \in blocks'
        PROVE  b.first \in HeapStart..(k + n) /\ b.num \in Nat /\ b.first + b.num <= k + n
    <3>1. CASE b \in blocks
      BY <1>1, <1>2, <3>1 DEF Handed
    <3>2. CASE b = [first |-> k, num |-> n]
      BY <1>2, <3>2
    <3> QED
      BY <1>10, <3>1, <3>2, Zenon
  <2>2. ASSUME NEW b \in blocks', NEW c \in blocks', b # c
        PROVE  BlockPages(b) \intersect BlockPages(c) = {}
    <3>1. CASE b \in blocks /\ c \in blocks
      BY <1>1, <2>2, <3>1, Zenon DEF Handed
    <3>2. CASE b \notin blocks \/ c \notin blocks
      BY <1>2, <1>10, <2>2, <3>2
    <3> QED
      BY <3>1, <3>2, Zenon
  <2>3. \A v \in seen' : v \in HeapStart..(k + n - 1) \/ v \in (StackPage(j) + 1)..(StacksEnd - 1)
    <3>1. \A v \in seen' : v \in HeapStart..(k + n - 1) \/ v \in (q + 1)..(StacksEnd - 1)
      <4>1. seen' = seen /\ HeapStart \in Nat /\ k \in Int /\ n \in Nat /\ q \in Int
        BY <1>4, Zenon
      <4>2. ASSUME NEW v \in seen
            PROVE  v \in HeapStart..(k + n - 1) \/ v \in (q + 1)..(StacksEnd - 1)
        BY ONLY <1>0, <4>1, v \in seen
      <4> QED
        BY ONLY <4>1, <4>2, Zenon
    <3> QED
      BY ONLY <1>0, <3>1, Zenon
  <2>4. j \in Nat /\ next_kernel_thread_stack_vaddr' = StackAt(j) /\ \A s \in stacks' : \E i \in 0..(j - 1) : s = StackAt(i)
    BY <1>1, <1>4, Zenon DEF Handed
  <2>5. \A b, c \in blocks' : BlockPages(b)' = BlockPages(b)
    BY Zenon DEF BlockPages
  <2> QED
    BY <1>8, <1>9, <2>1, <2>2, <2>3, <2>4, <2>5 DEF Handed, BlockPages
<1>12. Usable'
  <2> SUFFICES ASSUME ~oom'
               PROVE  /\ \A b \in blocks' : BlockPages(b) \subseteq vm'.demand \union DOMAIN vm'.mapped
                      /\ \A s \in stacks' : Page(s) \in vm'.demand \union DOMAIN vm'.mapped
    BY Zenon DEF Usable, BlockPages
  <2>1. ~oom /\ \A w \in k..(k + n - 1) : w \in vm'.demand \union DOMAIN vm'.mapped
    BY <1>4, Zenon DEF Failed
  <2>2. /\ \A b \in blocks : BlockPages(b) \subseteq vm.demand \union DOMAIN vm.mapped
        /\ \A s \in stacks : Page(s) \in vm.demand \union DOMAIN vm.mapped
    BY <2>1, Zenon DEF PagingInv, Usable
  <2>3. \A s \in stacks' : Page(s) \in vm'.demand \union DOMAIN vm'.mapped
    BY <1>4, <1>7, <2>2, Zenon
  <2>4. ASSUME NEW b \in blocks' PROVE BlockPages(b) \subseteq vm'.demand \union DOMAIN vm'.mapped
    <3>1. CASE b \in blocks
      BY <1>7, <2>2, <3>1, Zenon
    <3>2. CASE BlockPages(b) = k..(k + n - 1)
      BY <2>1, <3>2, Zenon
    <3> QED
      BY <1>10, <3>1, <3>2, Zenon
  <2> QED
    BY <2>3, <2>4, Zenon
<1> QED
  BY <1>1, <1>2, <1>7, <1>8, <1>11, <1>12 DEF PagingInv

\* MMU_alloc_stack keeps the invariant.
LEMMA StackStep ==
  ASSUME PagingInv, MMU_alloc_stack
  PROVE  PagingInv' /\ Stable
<1> USE PagingConstants
<1>1. PICK k, j \in Int : Handed(k, j)
  BY Zenon DEF PagingInv
<1>2. PICK s \in Int, q \in Int : /\ s = next_kernel_thread_stack_vaddr /\ s = StackAt(j) /\ j \in Nat
                                  /\ q = StackPage(j) /\ Page(s) = q
                                  /\ s - StackPages * PageWords = StackAt(j + 1)
                                  /\ StackPage(j + 1) = q - StackPages
  BY <1>1, PageOf DEF Handed
<1>3. \A v \in seen : v \in HeapStart..(k - 1) \/ v \in (q + 1)..(StacksEnd - 1)
  BY <1>1, <1>2, Zenon DEF Handed
<1>4. q <= StacksEnd - 1
  <2>1. j < j + 1 /\ j + 1 \in Nat
    BY <1>2
  <2> QED
    BY <1>2, <2>1, StackOrder, Zenon
<1> DEFINE pages == [i \in 1..StackPages |-> q - i + 1]
<1>5. /\ vm' = DemandAll(vm, pages)
      /\ next_kernel_thread_stack_vaddr' = s - StackPages * PageWords
      /\ stacks' = stacks \union {s}
      /\ oom' = (oom \/ Failed(vm', StackPagesOf(s)))
      /\ UNCHANGED <<next_kernel_heap_vaddr, blocks, seen>>
  BY <1>2, Zenon DEF MMU_alloc_stack
<1>6. pages \in Seq(Int) /\ Range(pages) \subseteq (q - StackPages + 1)..q
  BY DEF Range
<1>7. Range(pages) \intersect seen = {}
  BY <1>3, <1>4, <1>6
<1> HIDE DEF pages
<1>8. /\ Sound(vm') /\ NeverRemapped' /\ Stable
      /\ vm.demand \union DOMAIN vm.mapped \subseteq vm'.demand \union DOMAIN vm'.mapped
  BY <1>5, <1>6, <1>7, MarkStep, Zenon
<1>9. Handed(k, j + 1)'
  <2>1. \A t \in stacks' : \E i \in 0..((j + 1) - 1) : t = StackAt(i)
    <3>1. \A t \in stacks : \E i \in 0..(j - 1) : t = StackAt(i)
      BY <1>1, Zenon DEF Handed
    <3>2. 0..(j - 1) \subseteq 0..((j + 1) - 1) /\ j \in 0..((j + 1) - 1)
      BY <1>2
    <3> QED
      BY <1>2, <1>5, <3>1, <3>2, Zenon
  <2>2. \A v \in seen' : v \in HeapStart..(k - 1) \/ v \in (StackPage(j + 1) + 1)..(StacksEnd - 1)
    <3>1. \A v \in seen' : v \in HeapStart..(k - 1) \/ v \in (q - StackPages + 1)..(StacksEnd - 1)
      BY <1>3, <1>5
    <3> QED
      BY ONLY <1>2, <3>1, Zenon
  <2>3. /\ k \in HeapStart..HeapEnd /\ next_kernel_heap_vaddr' = k * PageWords
        /\ \A b \in blocks' : /\ b.first \in HeapStart..k /\ b.num \in Nat /\ b.first + b.num <= k
                              /\ \A c \in blocks' : b # c => BlockPages(b)' \intersect BlockPages(c)' = {}
    BY <1>1, <1>5, Zenon DEF Handed, BlockPages
  <2>4. j + 1 \in Nat /\ next_kernel_thread_stack_vaddr' = StackAt(j + 1)
    BY <1>2, <1>5
  <2> QED
    BY <2>1, <2>2, <2>3, <2>4, Zenon DEF Handed
<1>10. Usable'
  <2> SUFFICES ASSUME ~oom'
               PROVE  /\ \A b \in blocks' : BlockPages(b) \subseteq vm'.demand \union DOMAIN vm'.mapped
                      /\ \A t \in stacks' : Page(t) \in vm'.demand \union DOMAIN vm'.mapped
    BY Zenon DEF Usable, BlockPages
  <2>1. ~oom /\ \A w \in StackPagesOf(s) : w \in vm'.demand \union DOMAIN vm'.mapped
    BY <1>5, Zenon DEF Failed
  <2>2. /\ \A b \in blocks : BlockPages(b) \subseteq vm.demand \union DOMAIN vm.mapped
        /\ \A t \in stacks : Page(t) \in vm.demand \union DOMAIN vm.mapped
    BY <2>1, Zenon DEF PagingInv, Usable
  <2>3. Page(s) \in StackPagesOf(s)
    BY <1>2 DEF StackPagesOf
  <2> QED
    BY <1>5, <1>8, <2>1, <2>2, <2>3, Zenon
<1> QED
  BY <1>2, <1>8, <1>9, <1>10 DEF PagingInv

\* Pages are freed that are not in use any more, but for lower pages of stacks.
LEMMA ReleaseStep ==
  ASSUME PagingInv, NEW pages \in Seq(Int), vm' = FreeAll(vm, pages),
         blocks' \subseteq blocks, stacks' \subseteq stacks,
         \A b \in blocks' : BlockPages(b) \intersect Range(pages) = {},
         \A s \in stacks' : Page(s) \notin Range(pages),
         UNCHANGED <<next_kernel_heap_vaddr, next_kernel_thread_stack_vaddr, oom, seen>>
  PROVE  PagingInv' /\ Stable
<1>1. PICK k, j \in Int : Handed(k, j)
  BY Zenon DEF PagingInv
<1>2. Shrunk(vm, vm', Range(pages))
  BY FreeAllKeeps, Zenon DEF PagingInv
<1>3. /\ Sound(vm') /\ vm'.demand = vm.demand
      /\ \A v \in DOMAIN vm'.mapped : vm'.mapped[v] = vm.mapped[v]
      /\ DOMAIN vm.mapped \ Range(pages) \subseteq DOMAIN vm'.mapped
  BY <1>2, Zenon DEF Shrunk
<1>4. Handed(k, j)'
  BY <1>1, Zenon DEF Handed, BlockPages
<1>5. NeverRemapped'
  BY <1>3, Zenon DEF PagingInv, NeverRemapped
<1>6. Usable'
  <2> SUFFICES ASSUME ~oom
               PROVE  /\ \A b \in blocks' : BlockPages(b) \subseteq vm'.demand \union DOMAIN vm'.mapped
                      /\ \A t \in stacks' : Page(t) \in vm'.demand \union DOMAIN vm'.mapped
    BY Zenon DEF Usable, BlockPages
  <2>1. /\ \A b \in blocks : BlockPages(b) \subseteq vm.demand \union DOMAIN vm.mapped
        /\ \A t \in stacks : Page(t) \in vm.demand \union DOMAIN vm.mapped
    BY Zenon DEF PagingInv, Usable
  <2>2. \A v \in vm.demand \union DOMAIN vm.mapped :
          v \notin Range(pages) => v \in vm'.demand \union DOMAIN vm'.mapped
    BY <1>3, Zenon
  <2> QED
    BY <2>1, <2>2, Zenon
<1>7. Stable
  BY <1>3, Zenon DEF Stable
<1> QED
  BY <1>3, <1>4, <1>5, <1>6, <1>7, Zenon DEF PagingInv

\* MMU_free_pages keeps the invariant.
LEMMA FreePagesStep ==
  ASSUME PagingInv, NEW b \in blocks, MMU_free_pages(b)
  PROVE  PagingInv' /\ Stable
<1> USE PagingConstants
<1>1. PICK k, j \in Int : Handed(k, j)
  BY Zenon DEF PagingInv
<1>2. /\ vm' = FreeAll(vm, FreedPages(b)) /\ blocks' = blocks \ {b}
      /\ UNCHANGED <<next_kernel_heap_vaddr, next_kernel_thread_stack_vaddr, stacks, oom, seen>>
  BY Zenon DEF MMU_free_pages
<1>3. b.first \in Int /\ b.num \in Nat /\ \A c \in blocks : b # c => BlockPages(b) \intersect BlockPages(c) = {}
  BY <1>1 DEF Handed
<1>4. FreedPages(b) \in Seq(Int) /\ Range(FreedPages(b)) \subseteq BlockPages(b)
  <2>1. PICK f \in Int, n \in Nat : f = b.first /\ n = b.num
    BY <1>3, Zenon
  <2> DEFINE g == [i \in 1..n |-> f + i - 1]
  <2>2. FreedPages(b) = g /\ BlockPages(b) = f..(f + n - 1)
    BY <2>1, Zenon DEF FreedPages, BlockPages
  <2>3. \A i \in 1..n : f + i - 1 \in f..(f + n - 1) /\ f + i - 1 \in Int
    BY ONLY f \in Int, n \in Nat
  <2>4. g \in [1..n -> Int] /\ DOMAIN g = 1..n /\ \A i \in DOMAIN g : g[i] \in f..(f + n - 1)
    BY ONLY <2>3, Zenon
  <2> HIDE DEF g
  <2>5. g \in Seq(Int)
    BY ONLY <2>4, n \in Nat
  <2>6. Range(g) \subseteq f..(f + n - 1)
    BY ONLY <2>4, Zenon DEF Range
  <2> QED
    BY ONLY <2>2, <2>5, <2>6, Zenon
<1>5. \A c \in blocks' : BlockPages(c) \intersect Range(FreedPages(b)) = {}
  BY <1>2, <1>3, <1>4, Zenon
<1>6. \A s \in stacks' : Page(s) \notin Range(FreedPages(b))
  <2>1. \A s \in stacks : Page(s) \in Int /\ Page(s) < HeapStart
    BY <1>1, Used, Zenon
  <2>2. BlockPages(b) \subseteq HeapStart..(k - 1)
    BY <1>1, Used, Zenon
  <2> QED
    BY <1>2, <1>4, <2>1, <2>2
<1> QED
  BY <1>2, <1>4, <1>5, <1>6, ReleaseStep, Zenon

\* MMU_free_stack keeps the invariant, although it frees pages of other stacks.
LEMMA FreeStackStep ==
  ASSUME PagingInv, NEW s \in stacks, MMU_free_stack(s)
  PROVE  PagingInv' /\ Stable
<1> USE PagingConstants
<1>1. PICK k, j \in Int : Handed(k, j)
  BY DEF PagingInv
<1>2. /\ vm' = FreeAll(vm, FreedStack(s)) /\ stacks' = stacks \ {s}
      /\ UNCHANGED <<next_kernel_heap_vaddr, next_kernel_thread_stack_vaddr, blocks, oom, seen>>
  BY DEF MMU_free_stack
<1>3. PICK p \in Int : p = Page(s) /\ p = Page(s - (PageWords - 1)) /\ p <= StacksEnd - 1
  BY <1>1, Used, Zenon
<1>4. FreedStack(s) \in Seq(Int) /\ Range(FreedStack(s)) \subseteq p..(p + StackPages - 1)
  <2>1. /\ FreedStack(s) = [i \in 1..StackPages |-> p + i - 1]
        /\ \A i \in 1..StackPages : p + i - 1 \in p..(p + StackPages - 1)
    BY <1>3 DEF FreedStack
  <2>2. StackPages \in Nat /\ p \in Int
    BY Zenon
  <2>3. FreedStack(s) \in Seq(Int)
    BY ONLY <2>1, <2>2
  <2>4. Range(FreedStack(s)) \subseteq p..(p + StackPages - 1)
    BY ONLY <2>1, <2>2, Zenon DEF Range
  <2> QED
    BY <2>3, <2>4, Zenon
<1>5. \A b \in blocks' : BlockPages(b) \intersect Range(FreedStack(s)) = {}
  <2>1. \A b \in blocks : BlockPages(b) \subseteq HeapStart..(k - 1)
    BY <1>1, Used, Zenon
  <2> QED
    BY <1>2, <1>3, <1>4, <2>1, SMTT(30)
<1>6. \A t \in stacks' : Page(t) \notin Range(FreedStack(s))
  <2> SUFFICES ASSUME NEW t \in stacks, t # s PROVE Page(t) \notin Range(FreedStack(s))
    BY <1>2, Zenon
  <2>1. PICK q \in Int : q = Page(t) /\ (p + StackPages <= q \/ q + StackPages <= p)
    BY <1>1, <1>3, Used, Zenon
  <2> QED
    BY <1>4, <2>1
<1> QED
  BY <1>2, <1>4, <1>5, <1>6, ReleaseStep, Zenon

\* When paging starts there are the static tables and free frames.
LEMMA PagingStarts == PagingInit => PagingInv
<1> SUFFICES ASSUME PagingInit PROVE PagingInv
  OBVIOUS
<1> USE PagingConstants
<1> DEFINE X == {<<d, 0>> : d \in 0..(Depth - 1)}
           ts == [e \in X |-> STATIC]
<1>1. /\ vm = [tables |-> ts, demand |-> {}, mapped |-> <<>>, pool |-> Pool0]
      /\ next_kernel_heap_vaddr = HeapStart * PageWords /\ next_kernel_thread_stack_vaddr = StackTop
      /\ blocks = {} /\ stacks = {} /\ seen = {}
  BY Zenon DEF PagingInit
<1>2. Pool0 \in Seq(Nat) /\ IsInjective(Pool0) /\ 0 \notin Range(Pool0)
  BY PagingAssumption, Zenon
<1>3. Pool0 \in Seq(FrameSet)
  BY <1>2 DEF FrameSet, Range
<1>4. X \in SUBSET Entries
  BY DEF Entries
<1>5. <<>> \in [{} -> FrameSet] /\ DOMAIN <<>> = {}
  OBVIOUS
<1>6. /\ vm.tables = ts /\ vm.demand = {} /\ vm.mapped = <<>> /\ vm.pool = Pool0
      /\ DOMAIN ts = X /\ \A e \in X : ts[e] = STATIC
  BY <1>1, Zenon
<1>7. vm \in VM
  <2>1. ts \in [X -> FrameSet \union {STATIC}]
    BY Zenon
  <2> HIDE DEF ts, X
  <2>2. [tables |-> ts, demand |-> {}, mapped |-> <<>>, pool |-> Pool0] \in VM
    BY <1>3, <1>4, <1>5, <2>1, Whole, Zenon
  <2> QED
    BY ONLY <1>1, <2>2, Zenon
<1> HIDE DEF ts
<1>8. Roles(vm)
  BY <1>2, <1>5, <1>6, Zenon DEF Roles, FrameSet, STATIC
<1>9. Sound(vm)
  BY <1>5, <1>6, <1>7, <1>8, Zenon DEF Sound
<1>10. Handed(HeapStart, 0)
  BY <1>1, PageOf DEF Handed
<1> QED
  BY <1>1, <1>6, <1>9, <1>10 DEF PagingInv, NeverRemapped, Usable

\* Every step keeps the invariant, and the memory behind heap blocks.
LEMMA PagingSteps == PagingInv /\ [PagingNext]_pvars => PagingInv' /\ (Stable \/ UNCHANGED pvars)
<1> SUFFICES ASSUME PagingInv, [PagingNext]_pvars PROVE PagingInv' /\ (Stable \/ UNCHANGED pvars)
  BY Zenon
<1>1. ASSUME NEW v \in InUse, page_fault_handler(v) PROVE PagingInv' /\ Stable
  BY <1>1, FaultStep, Zenon
<1>2. ASSUME NEW num \in 1..MaxAlloc, MMU_alloc_pages(num) PROVE PagingInv' /\ Stable
  BY <1>2, HeapStep, Zenon
<1>3. ASSUME NEW b \in blocks, MMU_free_pages(b) PROVE PagingInv' /\ Stable
  BY <1>3, FreePagesStep, Zenon
<1>4. CASE MMU_alloc_stack
  BY <1>4, StackStep, Zenon
<1>5. ASSUME NEW s \in stacks, MMU_free_stack(s) PROVE PagingInv' /\ Stable
  BY <1>5, FreeStackStep
<1>6. CASE UNCHANGED pvars
  <2>1. PICK k, j \in Int : Handed(k, j)
    BY Zenon DEF PagingInv
  <2>2. Handed(k, j)'
    BY <1>6, <2>1, Zenon DEF pvars, Handed, BlockPages
  <2>3. Sound(vm')
    BY <1>6, Zenon DEF pvars, PagingInv
  <2>4. NeverRemapped' /\ Usable'
    BY <1>6, Zenon DEF pvars, PagingInv, NeverRemapped, Usable, BlockPages
  <2> QED
    BY <1>6, <2>2, <2>3, <2>4, Zenon DEF PagingInv
<1> QED
  BY <1>1, <1>2, <1>3, <1>4, <1>5, <1>6, Zenon DEF PagingNext

\* What the page table and the frames satisfy, and who has which page.
THEOREM PagingInvariant == PagingSpec => []PagingInv
<1>1. PagingInit => PagingInv
  BY PagingStarts, Zenon
<1>2. PagingInv /\ [PagingNext]_pvars => PagingInv'
  BY PagingSteps, Zenon
<1> QED
  BY <1>1, <1>2, PTL DEF PagingSpec

\* A page is in the table only below tables that exist, also when a table could
\* not be allocated half-way down.
THEOREM PagesReachable == PagingSpec => []Reachable
<1>1. PagingInv => Reachable
  BY Zenon DEF PagingInv, Sound, Reachable
<1> QED
  BY <1>1, PagingInvariant, PTL

\* A page that was accessed and has lost its frame never gets another one, so an
\* entry of the TLB that PT_free left there is never one of a page mapped again.
THEOREM PagesNeverRemapped == PagingSpec => []NeverRemapped
<1>1. PagingInv => NeverRemapped
  BY Zenon DEF PagingInv
<1> QED
  BY <1>1, PagingInvariant, PTL

\* Heap blocks and the top pages of stacks keep their memory or get it at the
\* first access, although MMU_free_stack frees pages of other stacks.
THEOREM MemoryUsable == PagingSpec => []Usable
<1>1. PagingInv => Usable
  BY Zenon DEF PagingInv
<1> QED
  BY <1>1, PagingInvariant, PTL

\* The memory behind a heap block does not change while it is in use.
THEOREM HeapMemoryStable == PagingSpec => HeapStable
<1>1. PagingInv /\ [PagingNext]_pvars =>
        [\A b \in blocks : \A v \in BlockPages(b) \intersect DOMAIN vm.mapped :
           b \in blocks' => v \in DOMAIN vm'.mapped /\ vm'.mapped[v] = vm.mapped[v]]_pvars
  BY PagingSteps, Zenon DEF Stable
<1> QED
  BY <1>1, PagingInvariant, PTL DEF PagingSpec, HeapStable
-----------------------------------------------------------------------------
(* The roles of frames, counted                                            *)
INSTANCE FiniteSetTheorems

\* The frames of a sequence without repetitions are counted by its length.
LEMMA PoolCount ==
  ASSUME NEW T, NEW s \in Seq(T), IsInjective(s)
  PROVE  Len(s) = Cardinality(Range(s))
<1>1. Len(s) \in Nat /\ DOMAIN s = 1..Len(s) /\ s \in [1..Len(s) -> Range(s)]
  BY DEF Range
<1>2. s \in Bijection(1..Len(s), Range(s))
  <2>1. s \in Injection(1..Len(s), Range(s))
    BY <1>1, Zenon DEF Injection, IsInjective
  <2>2. s \in Surjection(1..Len(s), Range(s))
    BY <1>1, Zenon DEF Surjection, Range
  <2> QED
    BY <2>1, <2>2, Zenon DEF Bijection
<1>3. ExistsBijection(1..Len(s), Range(s))
  BY <1>2, Zenon DEF ExistsBijection
<1> QED
  BY <1>1, <1>3, FS_CountingElements, Zenon

\* How often a frame occurs that occurs at most once.
LEMMA FewCount ==
  ASSUME NEW T, \A x, y \in T : x = y
  PROVE  Cardinality(T) = IF T = {} THEN 0 ELSE 1
<1>1. CASE T = {}
  BY <1>1, FS_EmptySet, Zenon
<1>2. CASE T # {}
  <2>1. PICK x \in T : T = {x}
    BY <1>2, Zenon
  <2>2. Cardinality({x}) = 1
    BY FS_Singleton, Zenon
  <2> QED
    BY <1>2, <2>1, <2>2, Zenon
<1> QED
  BY <1>1, <1>2, Zenon

\* Every frame has one role: it is free, or a page table, or the memory of one
\* page, whatever is freed in which order and whenever the frames run out.
THEOREM FramesHaveOneRole == PagingSpec => []OneRole
<1>1. ASSUME PagingInv PROVE OneRole
  <2>1. vm \in VM /\ Roles(vm)
    BY <1>1, Zenon DEF PagingInv, Sound
  <2>2. Len(vm.pool) = Cardinality(Range(vm.pool))
    <3>1. vm.pool \in Seq(FrameSet) /\ IsInjective(vm.pool)
      BY <2>1, Parts, Zenon DEF Roles
    <3> QED
      BY <3>1, PoolCount, Zenon
  <2>3. ASSUME NEW f \in FrameSet
        PROVE  Cardinality({e \in DOMAIN vm.tables : vm.tables[e] = f})
                 + Cardinality({v \in DOMAIN vm.mapped : vm.mapped[v] = f})
                 + (IF f \in Range(vm.pool) THEN 1 ELSE 0) = 1
    <3> DEFINE E == {e \in DOMAIN vm.tables : vm.tables[e] = f}
               V == {v \in DOMAIN vm.mapped : vm.mapped[v] = f}
    <3>1. f # STATIC
      BY PagingAssumption, Zenon DEF FrameSet, STATIC
    <3>2. (\A x, y \in E : x = y) /\ \A x, y \in V : x = y
      BY <2>1, <3>1 DEF Roles
    <3>3. /\ Cardinality(E) = (IF E = {} THEN 0 ELSE 1)
          /\ Cardinality(V) = (IF V = {} THEN 0 ELSE 1)
      <4> HIDE DEF E, V
      <4> QED
        BY <3>2, FewCount, Zenon
    <3>4. /\ E # {} \/ V # {} \/ f \in Range(vm.pool)
          /\ E = {} \/ V = {}
          /\ f \in Range(vm.pool) => E = {} /\ V = {}
      BY <2>1 DEF Roles
    <3> HIDE DEF E, V
    <3>5. Cardinality(E) + Cardinality(V) + (IF f \in Range(vm.pool) THEN 1 ELSE 0) = 1
      BY <3>3, <3>4
    <3> QED
      BY <3>5, Zenon DEF E, V
  <2> QED
    BY <2>2, <2>3, Zenon DEF OneRole
<1> QED
  BY <1>1, PagingInvariant, PTL
=============================================================================
