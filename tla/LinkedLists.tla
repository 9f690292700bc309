------------------------------ MODULE LinkedLists ------------------------------
(***************************************************************************)
(* The Smalltalk linked lists through which the VM schedules processes:     *)
(* LinkWrapper and LinkedListWrapper of spyvm/wrapper.py.  A list object    *)
(* holds two pointers (firstLink, lastLink), a link holds one (nextLink);   *)
(* a heap is the record of these three pointer fields.  The operators below *)
(* are the methods of LinkedListWrapper, as functions from heap to heap.    *)
(***************************************************************************)
EXTENDS Naturals, Sequences, FiniteSets, Functions

CONSTANT Nil      \* the object nil

\* The heaps whose links are L and whose lists are K.
Heap(L, K) == [first : [K -> L \cup {Nil}],
               last  : [K -> L \cup {Nil}],
               next  : [L -> L \cup {Nil}]]

EmptyHeap(L, K) == [first |-> [l \in K |-> Nil],
                    last  |-> [l \in K |-> Nil],
                    next  |-> [p \in L |-> Nil]]

IsEmptyList(h, l) == h.first[l] = Nil

\* Mutant: the link before the new one is not told of it.
AddLastLinkUnlinked(h, l, p) ==
    [first |-> [h.first EXCEPT ![l] = IF IsEmptyList(h, l) THEN p ELSE @],
     last  |-> [h.last EXCEPT ![l] = p],
     next  |-> h.next]

\* The new link's own next_link is left as it is.
AddLastLink(h, l, p) ==
    IF IsEmptyList(h, l)
    THEN [first |-> [h.first EXCEPT ![l] = p],
          last  |-> [h.last EXCEPT ![l] = p],
          next  |-> h.next]
    ELSE [first |-> h.first,
          last  |-> [h.last EXCEPT ![l] = p],
          next  |-> [h.next EXCEPT ![h.last[l]] = p]]

\* Mutant: the removed link still points into the list.
RemoveFirstLinkKeepsNext(h, l) ==
    LET only == h.first[l] = h.last[l]
    IN  [first |-> [h.first EXCEPT ![l] = IF only THEN Nil ELSE h.next[@]],
         last  |-> [h.last EXCEPT ![l] = IF only THEN Nil ELSE @],
         next  |-> h.next]

\* Mutant: every removal empties the list.
RemoveFirstLinkEmpties(h, l) ==
    [first |-> [h.first EXCEPT ![l] = Nil],
     last  |-> [h.last EXCEPT ![l] = Nil],
     next  |-> [h.next EXCEPT ![h.first[l]] = Nil]]

RemoveFirstLink(h, l) ==
    LET p == h.first[l]
        only == p = h.last[l]
    IN  [first |-> [h.first EXCEPT ![l] = IF only THEN Nil ELSE h.next[p]],
         last  |-> [h.last EXCEPT ![l] = IF only THEN Nil ELSE @],
         next  |-> [h.next EXCEPT ![p] = Nil]]

\* The links a walk from first_link along next_link visits: the least set
\* that holds the first link and is closed under next_link.
Links(h, l) ==
    {p \in DOMAIN h.next : \A S \in SUBSET DOMAIN h.next :
        /\ h.first[l] \in S \cup {Nil}
        /\ \A x \in S : h.next[x] \in S \cup {Nil}
        => p \in S}

\* The visited link whose successor is p: where the walk of remove stops.
IsBefore(h, l, c, p) == c \in Links(h, l) /\ h.next[c] = p

CanRemoveLink(h, l, p) ==
    h.first[l] = p \/ \E c \in DOMAIN h.next : IsBefore(h, l, c, p)

\* The walk clears p's next_link before it reads p's tail, so the tail it
\* splices behind the predecessor is always nil.
RemoveInnerLink(h, l, p) ==
    LET current == CHOOSE c \in DOMAIN h.next : IsBefore(h, l, c, p)
        cleared == [h.next EXCEPT ![p] = Nil]
        tail    == cleared[p]
    IN  [first |-> h.first,
         last  |-> [h.last EXCEPT ![l] = IF tail = Nil THEN current ELSE @],
         next  |-> [cleared EXCEPT ![current] = tail]]

RemoveLink(h, l, p) ==
    IF h.first[l] = p THEN RemoveFirstLink(h, l) ELSE RemoveInnerLink(h, l, p)

-----------------------------------------------------------------------------
\* What the pointers of a list mean: the sequence q of its links.
Represents(h, l, q) ==
    /\ q \in Seq(DOMAIN h.next)
    /\ IsInjective(q)
    /\ q = <<>> => h.first[l] = Nil /\ h.last[l] = Nil
    /\ q # <<>> => /\ h.first[l] = q[1]
                   /\ h.last[l] = q[Len(q)]
                   /\ h.next[q[Len(q)]] = Nil
    /\ \A i \in 1 .. Len(q) - 1 : h.next[q[i]] = q[i + 1]

\* The pointers of heap h hold the sequences Q[l] of the lists l, no link is in
\* two of them, and the next_link of a link in none of them is nil.
Stores(h, Q) ==
    /\ DOMAIN Q = DOMAIN h.first
    /\ \A l \in DOMAIN Q : Represents(h, l, Q[l])
    /\ \A l, m \in DOMAIN Q : l # m => Range(Q[l]) \cap Range(Q[m]) = {}
    /\ \A p \in DOMAIN h.next :
          (\A l \in DOMAIN Q : p \notin Range(Q[l])) => h.next[p] = Nil

\* The pointers of list l form a chain that ends in its last_link.
WellFormedList(h, l) ==
    \/ h.first[l] = Nil /\ h.last[l] = Nil
    \/ /\ h.last[l] \in Links(h, l)
       /\ h.next[h.last[l]] = Nil

\* The links of l in the order of the walk.
LinkSeq(h, l) ==
    LET S == Links(h, l)
    IN  CHOOSE q \in [1 .. Cardinality(S) -> S] : Represents(h, l, q)
=============================================================================
