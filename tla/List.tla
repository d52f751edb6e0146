-------------------------------- MODULE List --------------------------------
(***************************************************************************)
(* The doubly linked lists of src/src/list.c.  L gives every header in     *)
(* memory its two links; a list is named by its own header, an element by  *)
(* the header inside it (LL_nhead and LL_ndata convert between the two).   *)
(***************************************************************************)
EXTENDS Naturals, Sequences, FiniteSets

CONSTANT NULL

\* A store to one link of a header.
SetNext(L, a, to) == [L EXCEPT ![a].next = to]
SetPrev(L, a, to) == [L EXCEPT ![a].prev = to]

\* The four stores, in their order.
ll_add(L, new, prev, next) ==
  LET L1 == SetNext(L, new, next)
      L2 == SetPrev(L1, new, prev)
      L3 == SetNext(L2, prev, new)
  IN SetPrev(L3, next, new)

\* Variant: the element behind keeps its link back.
ll_delForward(L, del, prev, next) ==
  SetPrev(SetNext(SetNext(L, prev, L[del].next), del, NULL), del, NULL)

ll_del(L, del, prev, next) ==
  LET L1 == SetNext(L, prev, L[del].next)
      L2 == SetPrev(L1, next, L1[del].prev)
      L3 == SetNext(L2, del, NULL)
  IN SetPrev(L3, del, NULL)

LL_empty(L, list) == L[list].next = list

LL_head(L, list) == IF LL_empty(L, list) THEN NULL ELSE L[list].next

LL_del(L, del) == ll_del(L, del, L[del].prev, L[del].next)

LL_add_prev(L, new, cur) == ll_add(L, new, L[cur].prev, cur)

LL_append(L, list, data) == LL_add_prev(L, data, list)

LL_enqueue(L, list, data) == LL_append(L, list, data)

LL_dequeue(L, list) == IF LL_empty(L, list) THEN L ELSE LL_del(L, L[list].next)

LL_init(L, list) == [L EXCEPT ![list] = [next |-> list, prev |-> list]]

\* The headers that LL_for_each visits: those met before it is back at the
\* list.  If it does not come back it goes round for ever; the walk is then cut
\* off after as many steps as there are headers.
Visited(L, list) ==
  LET max == Cardinality(DOMAIN L)
      at[k \in 0..max] == IF k = 0 THEN list ELSE L[at[k - 1]].next
      before == {k \in 1..max : \A j \in 1..k : at[j] # list}
  IN [k \in 1..Cardinality(before) |-> at[k]]

\* The k-th header of list h with the elements s, going round.
At(h, s, k) == IF k \in 1..Len(s) THEN s[k] ELSE h

\* List h holds exactly the elements s, in this order, in both directions.
Ring(L, h, s) ==
  \A k \in 0..Len(s) : /\ L[At(h, s, k)].next = At(h, s, k + 1)
                       /\ L[At(h, s, k + 1)].prev = At(h, s, k)
=============================================================================
