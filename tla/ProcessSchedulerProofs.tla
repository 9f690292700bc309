------------------------ MODULE ProcessSchedulerProofs ------------------------
(***************************************************************************)
(* Theorems about the process scheduler, for any number of processes,       *)
(* semaphores and priorities: first about the linked lists, what each       *)
(* operation does to the sequence that a list holds, then about the         *)
(* scheduler that uses them.                                                *)
(*                                                                          *)
(* Types and contexts hold whatever the image does.  The queues need two    *)
(* restrictions on the image, without which they are violated: it suspends  *)
(* no process from the middle of a list, and it resumes                     *)
(* no process that is in a list (SuspendScope with "blocked").              *)
(***************************************************************************)
EXTENDS ProcessScheduler, SequenceTheorems, FiniteSetTheorems, WellFoundedInduction, TLAPS

-----------------------------------------------------------------------------
(* Linked lists *)

\* A nonempty set of positive integers has a least element (the least-number
\* principle, from the well-foundedness of < on the naturals).
LEMMA LeastIndex ==
    ASSUME NEW T \in SUBSET Nat, T # {}
    PROVE  \E i \in T : \A j \in T : i <= j
<1>1. PICK i \in T : \A j \in T : ~ (<<j, i>> \in OpToRel(<, Nat))
  BY NatLessThanWellFounded, WFMin
<1>2. \A j \in T : ~ (j < i)
  BY <1>1 DEF OpToRel
<1> QED  BY <1>2

\* The elements of a sequence that a list holds are links, at distinct places.
LEMMA SequenceFacts ==
    ASSUME NEW L, NEW q \in Seq(L), IsInjective(q)
    PROVE  /\ Len(q) \in Nat
           /\ \A i \in 1 .. Len(q) : q[i] \in L
           /\ \A i, j \in 1 .. Len(q) : q[i] = q[j] => i = j
           /\ Range(q) = {q[i] : i \in 1 .. Len(q)}
BY DEF IsInjective, Range

\* Only the empty sequence has length 0.
LEMMA EmptyIffLengthZero ==
    ASSUME NEW L, NEW s \in Seq(L)
    PROVE  s = <<>> <=> Len(s) = 0
OBVIOUS

\* The walk from first_link visits exactly the links of the sequence the list
\* holds: none is unreachable, and no other link is reached.
THEOREM WalkVisitsSequence ==
    ASSUME NEW L, NEW K, Nil \notin L, NEW h \in Heap(L, K), NEW l \in K,
           NEW q, Represents(h, l, q)
    PROVE  Links(h, l) = Range(q)
<1>1. DOMAIN h.next = L /\ h.next \in [L -> L \cup {Nil}]
  BY DEF Heap
<1>2. q \in Seq(L) /\ IsInjective(q)
  BY <1>1 DEF Represents
<1>3. /\ Len(q) \in Nat
      /\ \A i \in 1 .. Len(q) : q[i] \in L
      /\ Range(q) = {q[i] : i \in 1 .. Len(q)}
  BY <1>2, SequenceFacts
<1>4. q = <<>> => h.first[l] = Nil
  BY DEF Represents
<1>5. q # <<>> => h.first[l] = q[1] /\ h.next[q[Len(q)]] = Nil
  BY DEF Represents
<1>6. \A i \in 1 .. Len(q) - 1 : h.next[q[i]] = q[i + 1]
  BY DEF Represents
<1>7. q = <<>> <=> Len(q) = 0
  BY <1>2
<1>8. ASSUME NEW p \in Links(h, l)
      PROVE  p \in Range(q)
  <2>1. Range(q) \in SUBSET L
    BY <1>3
  <2>2. h.first[l] \in Range(q) \cup {Nil}
    BY <1>3, <1>4, <1>5, <1>7
  <2>3. ASSUME NEW x \in Range(q)
        PROVE  h.next[x] \in Range(q) \cup {Nil}
    <3>1. PICK i \in 1 .. Len(q) : x = q[i]
      BY <1>3
    <3>2. CASE i = Len(q)
      BY <3>1, <3>2, <1>5, <1>7, <1>3
    <3>3. CASE i # Len(q)
      BY <3>1, <3>3, <1>3, <1>6
    <3> QED  BY <3>2, <3>3
  <2> QED  BY <1>1, <2>1, <2>2, <2>3 DEF Links
<1>9. ASSUME NEW p \in Range(q)
      PROVE  p \in Links(h, l)
  <2>1. p \in DOMAIN h.next
    BY <1>1, <1>3
  <2>2. SUFFICES ASSUME NEW S \in SUBSET L,
                        h.first[l] \in S \cup {Nil},
                        \A x \in S : h.next[x] \in S \cup {Nil},
                        p \notin S
                 PROVE  FALSE
    BY <1>1, <2>1 DEF Links
  <2> DEFINE Missing == {i \in 1 .. Len(q) : q[i] \notin S}
  <2>3. Missing # {} /\ Missing \in SUBSET Nat
    BY <1>3, <2>2
  <2>4. PICK i \in Missing : \A j \in Missing : i <= j
    BY <2>3, LeastIndex
  <2>5. i \in 1 .. Len(q) /\ q[i] \notin S /\ q[i] \in L
    BY <2>4, <1>3
  <2>6. CASE i = 1
    BY <2>2, <2>5, <2>6, <1>3, <1>5, <1>7
  <2>7. CASE i # 1
    <3>1. i - 1 \in 1 .. Len(q) - 1 /\ i - 1 \in 1 .. Len(q)
      BY <2>5, <2>7, <1>3
    <3>2. i - 1 \notin Missing
      BY <2>4, <2>5, <3>1, <1>3
    <3>3. q[i - 1] \in S
      BY <3>1, <3>2
    <3>4. h.next[q[i - 1]] = q[i]
      BY <3>1, <1>6, <2>5
    <3> QED  BY <3>3, <3>4, <2>2, <2>5
  <2> QED  BY <2>6, <2>7
<1> QED  BY <1>8, <1>9

-----------------------------------------------------------------------------
\* add_last_link appends: a list that holds q holds q and then the new link,
\* if that link is not in q and its own next_link is nil.
THEOREM AddLastLinkAppends ==
    ASSUME NEW L, NEW K, Nil \notin L, NEW h \in Heap(L, K), NEW l \in K,
           NEW q, Represents(h, l, q),
           NEW p \in L, p \notin Range(q), h.next[p] = Nil
    PROVE  /\ AddLastLink(h, l, p) \in Heap(L, K)
           /\ Represents(AddLastLink(h, l, p), l, Append(q, p))
           /\ \A m \in K \ {l} : /\ AddLastLink(h, l, p).first[m] = h.first[m]
                                 /\ AddLastLink(h, l, p).last[m] = h.last[m]
           /\ \A x \in L : x \notin Range(q) => AddLastLink(h, l, p).next[x] = h.next[x]
<1> DEFINE g == AddLastLink(h, l, p)
           r == Append(q, p)
<1>1. /\ DOMAIN h.next = L
      /\ h.first \in [K -> L \cup {Nil}]
      /\ h.last \in [K -> L \cup {Nil}]
      /\ h.next \in [L -> L \cup {Nil}]
      /\ h = [first |-> h.first, last |-> h.last, next |-> h.next]
  BY DEF Heap
<1>2. q \in Seq(L) /\ IsInjective(q)
  BY <1>1 DEF Represents
<1>3. /\ Len(q) \in Nat
      /\ \A i \in 1 .. Len(q) : q[i] \in L
      /\ \A i, j \in 1 .. Len(q) : q[i] = q[j] => i = j
      /\ Range(q) = {q[i] : i \in 1 .. Len(q)}
  BY <1>2, SequenceFacts
<1>4. q = <<>> <=> Len(q) = 0
  BY <1>2
<1>5. IsEmptyList(h, l) <=> q = <<>>
  BY <1>1, <1>3, <1>4 DEF Represents, IsEmptyList
<1>6. /\ r \in Seq(L) /\ Len(r) = Len(q) + 1 /\ r # <<>>
      /\ \A i \in 1 .. Len(q) : r[i] = q[i]
      /\ r[Len(q) + 1] = p
  <2>1. r \in Seq(L) /\ Len(r) = Len(q) + 1
    BY <1>2
  <2>2. r # <<>>
    BY <2>1, <1>3
  <2>3. \A i \in 1 .. Len(q) : r[i] = q[i]
    BY <1>2
  <2>4. r[Len(q) + 1] = p
    BY <1>2
  <2> QED  BY <2>1, <2>2, <2>3, <2>4
<1>7. IsInjective(r)
  <2>1. DOMAIN r = 1 .. Len(q) + 1
    BY <1>6, <1>3
  <2>2. ASSUME NEW i \in 1 .. Len(q) + 1, NEW j \in 1 .. Len(q) + 1, r[i] = r[j]
        PROVE  i = j
    <3>1. CASE i \in 1 .. Len(q) /\ j \in 1 .. Len(q)
      BY <3>1, <2>2, <1>3, <1>6
    <3>2. CASE i = Len(q) + 1 /\ j \in 1 .. Len(q)
      BY <3>2, <2>2, <1>3, <1>6
    <3>3. CASE i \in 1 .. Len(q) /\ j = Len(q) + 1
      BY <3>3, <2>2, <1>3, <1>6
    <3> QED  BY <3>1, <3>2, <3>3, <1>3
  <2> QED  BY <2>1, <2>2 DEF IsInjective
<1>8. CASE q = <<>>
  <2>1. /\ g = [first |-> [h.first EXCEPT ![l] = p],
               last  |-> [h.last EXCEPT ![l] = p],
               next  |-> h.next]
    BY <1>1, <1>5, <1>8 DEF AddLastLink
  <2>2. g \in Heap(L, K)
    BY <1>1, <2>1 DEF Heap
  <2>3. g.first[l] = p /\ g.last[l] = p /\ g.next = h.next /\ DOMAIN g.next = L
    BY <1>1, <2>1
  <2>4. \A m \in K \ {l} : g.first[m] = h.first[m] /\ g.last[m] = h.last[m]
    BY <1>1, <2>1
  <2>5. Len(r) = 1 /\ r[1] = p
    BY <1>4, <1>6, <1>8
  <2>6. Represents(g, l, r)
    BY <1>6, <1>7, <2>3, <2>5 DEF Represents
  <2> QED  BY <2>2, <2>3, <2>4, <2>6
<1>9. CASE q # <<>>
  <2> DEFINE t == q[Len(q)]
  <2>0. h.first[l] = q[1] /\ h.last[l] = t /\ t \in L /\ Len(q) \in 1 .. Len(q)
    BY <1>3, <1>4, <1>9 DEF Represents
  <2>1. g = [first |-> h.first,
             last  |-> [h.last EXCEPT ![l] = p],
             next  |-> [h.next EXCEPT ![t] = p]]
    BY <1>1, <1>5, <1>9, <2>0 DEF AddLastLink
  <2>2. g \in Heap(L, K)
    <3>1. [h.last EXCEPT ![l] = p] \in [K -> L \cup {Nil}]
      BY <1>1
    <3>2. [h.next EXCEPT ![t] = p] \in [L -> L \cup {Nil}]
      BY <1>1
    <3> QED  BY <1>1, <2>1, <3>1, <3>2 DEF Heap
  <2>3. /\ g.first = h.first /\ g.last[l] = p /\ DOMAIN g.next = L
        /\ g.next[t] = p /\ \A x \in L \ {t} : g.next[x] = h.next[x]
    BY <1>1, <2>0, <2>1
  <2>4. \A m \in K \ {l} : g.first[m] = h.first[m] /\ g.last[m] = h.last[m]
    BY <1>1, <2>1
  <2>5. p # t /\ t \in Range(q)
    BY <1>3, <2>0
  <2>6. g.first[l] = r[1] /\ g.last[l] = r[Len(r)] /\ g.next[r[Len(r)]] = Nil
    BY <1>3, <1>6, <2>0, <2>3, <2>5
  <2>7. ASSUME NEW i \in 1 .. Len(r) - 1
        PROVE  g.next[r[i]] = r[i + 1]
    <3>1. i \in 1 .. Len(q) /\ r[i] = q[i]
      BY <1>3, <1>6
    <3>2. CASE i = Len(q)
      BY <3>1, <3>2, <1>6, <2>3
    <3>3. CASE i # Len(q)
      <4>1. i \in 1 .. Len(q) - 1 /\ i + 1 \in 1 .. Len(q)
        BY <3>1, <3>3, <1>3
      <4>2. h.next[q[i]] = q[i + 1]
        BY <4>1 DEF Represents
      <4>3. q[i] # t
        BY <3>1, <3>3, <1>3, <2>0
      <4> QED  BY <4>1, <4>2, <4>3, <3>1, <2>3, <1>3, <1>6
    <3> QED  BY <3>2, <3>3
  <2>8. Represents(g, l, r)
    BY <1>6, <1>7, <2>3, <2>6, <2>7 DEF Represents
  <2> QED  BY <2>2, <2>3, <2>4, <2>5, <2>8
<1> QED  BY <1>8, <1>9

\* remove_first_link_of_list takes the head off the sequence and leaves it
\* with a nil next_link; no other link and no other list is written.
THEOREM RemoveFirstLinkTakesHead ==
    ASSUME NEW L, NEW K, Nil \notin L, NEW h \in Heap(L, K), NEW l \in K,
           NEW q, Represents(h, l, q), q # <<>>
    PROVE  /\ RemoveFirstLink(h, l) \in Heap(L, K)
           /\ Represents(RemoveFirstLink(h, l), l, Tail(q))
           /\ h.first[l] = Head(q) /\ Head(q) \in L
           /\ RemoveFirstLink(h, l).next[Head(q)] = Nil
           /\ \A m \in K \ {l} : /\ RemoveFirstLink(h, l).first[m] = h.first[m]
                                 /\ RemoveFirstLink(h, l).last[m] = h.last[m]
           /\ \A x \in L \ {Head(q)} : RemoveFirstLink(h, l).next[x] = h.next[x]
<1> DEFINE g == RemoveFirstLink(h, l)
           r == Tail(q)
           p == Head(q)
<1>1. /\ DOMAIN h.next = L
      /\ h.first \in [K -> L \cup {Nil}]
      /\ h.last \in [K -> L \cup {Nil}]
      /\ h.next \in [L -> L \cup {Nil}]
      /\ h = [first |-> h.first, last |-> h.last, next |-> h.next]
  BY DEF Heap
<1>2. q \in Seq(L) /\ IsInjective(q)
  BY <1>1 DEF Represents
<1>3. /\ Len(q) \in Nat
      /\ \A i \in 1 .. Len(q) : q[i] \in L
      /\ \A i, j \in 1 .. Len(q) : q[i] = q[j] => i = j
  BY <1>2, SequenceFacts
<1>4. Len(q) # 0 /\ 1 \in 1 .. Len(q) /\ Len(q) \in 1 .. Len(q)
  BY <1>2, <1>3
<1>5. p = q[1] /\ p \in L
  BY <1>2, <1>3, <1>4
<1>6. h.first[l] = p /\ h.last[l] = q[Len(q)] /\ h.next[q[Len(q)]] = Nil
  BY <1>5 DEF Represents
<1>7. /\ r \in Seq(L) /\ Len(r) = Len(q) - 1
      /\ \A i \in 1 .. Len(q) - 1 : r[i] = q[i + 1]
  BY <1>2, <1>3, <1>4
<1>8. IsInjective(r)
  <2>1. DOMAIN r = 1 .. Len(q) - 1
    BY <1>7, <1>3, <1>4
  <2>2. ASSUME NEW i \in 1 .. Len(q) - 1, NEW j \in 1 .. Len(q) - 1, r[i] = r[j]
        PROVE  i = j
    <3>1. i + 1 \in 1 .. Len(q) /\ j + 1 \in 1 .. Len(q) /\ q[i + 1] = q[j + 1]
      BY <2>2, <1>3, <1>7
    <3> QED  BY <3>1, <1>3
  <2> QED  BY <2>1, <2>2 DEF IsInjective
<1>9. p = h.last[l] <=> Len(q) = 1
  BY <1>3, <1>4, <1>5, <1>6
<1>10. CASE Len(q) = 1
  <2>1. g = [first |-> [h.first EXCEPT ![l] = Nil],
             last  |-> [h.last EXCEPT ![l] = Nil],
             next  |-> [h.next EXCEPT ![p] = Nil]]
    BY <1>1, <1>6, <1>9, <1>10 DEF RemoveFirstLink
  <2>2. g \in Heap(L, K)
    <3>1. /\ [h.first EXCEPT ![l] = Nil] \in [K -> L \cup {Nil}]
          /\ [h.last EXCEPT ![l] = Nil] \in [K -> L \cup {Nil}]
      BY <1>1
    <3>2. [h.next EXCEPT ![p] = Nil] \in [L -> L \cup {Nil}]
      BY <1>1
    <3> QED  BY <2>1, <3>1, <3>2 DEF Heap
  <2>3. /\ g.first[l] = Nil /\ g.last[l] = Nil /\ DOMAIN g.next = L
        /\ g.next[p] = Nil /\ \A x \in L \ {p} : g.next[x] = h.next[x]
        /\ \A m \in K \ {l} : g.first[m] = h.first[m] /\ g.last[m] = h.last[m]
    BY <1>1, <1>5, <2>1
  <2>4. r = <<>> /\ Len(r) = 0
    <3>1. r \in Seq(L) /\ Len(r) = 0
      BY <1>7, <1>10
    <3> HIDE DEF r
    <3> QED  BY <3>1, EmptyIffLengthZero
  <2>5. Represents(g, l, r)
    <3> HIDE DEF g, r
    <3>1. \A i \in 1 .. Len(r) - 1 : g.next[r[i]] = r[i + 1]
      BY <2>4
    <3> QED  BY <3>1, <1>7, <1>8, <2>3, <2>4 DEF Represents
  <2> QED  BY <2>2, <2>3, <2>5, <1>5, <1>6
<1>11. CASE Len(q) # 1
  <2>0. h.next[p] = q[2] /\ 2 \in 1 .. Len(q) /\ q[2] \in L
    <3>0. Len(q) \in Nat /\ Len(q) # 0
      BY <1>3, <1>4
    <3>1. \A n \in Nat : n # 0 /\ n # 1 => 1 \in 1 .. n - 1 /\ 2 \in 1 .. n
      OBVIOUS
    <3>2. 1 \in 1 .. Len(q) - 1 /\ 2 \in 1 .. Len(q)
      BY <3>0, <3>1, <1>11
    <3>3. h.next[q[1]] = q[1 + 1]
      BY <3>2 DEF Represents
    <3> QED  BY <3>2, <3>3, <1>3, <1>5
  <2>1. g = [first |-> [h.first EXCEPT ![l] = q[2]],
             last  |-> h.last,
             next  |-> [h.next EXCEPT ![p] = Nil]]
    BY <1>1, <1>6, <1>9, <1>11, <2>0 DEF RemoveFirstLink
  <2>2. g \in Heap(L, K)
    <3>1. [h.first EXCEPT ![l] = q[2]] \in [K -> L \cup {Nil}]
      BY <1>1, <2>0
    <3>2. [h.next EXCEPT ![p] = Nil] \in [L -> L \cup {Nil}]
      BY <1>1
    <3> QED  BY <1>1, <2>1, <3>1, <3>2 DEF Heap
  <2>3. /\ g.first[l] = q[2] /\ g.last = h.last /\ DOMAIN g.next = L
        /\ g.next[p] = Nil /\ \A x \in L \ {p} : g.next[x] = h.next[x]
        /\ \A m \in K \ {l} : g.first[m] = h.first[m] /\ g.last[m] = h.last[m]
    BY <1>1, <1>5, <2>1
  <2>4. r # <<>> /\ r[1] = q[2] /\ r[Len(r)] = q[Len(q)]
    <3>1. Len(r) \in 1 .. Len(q) - 1 /\ 1 \in 1 .. Len(q) - 1
      BY <1>3, <1>4, <1>7, <1>11
    <3>2. r[1] = q[1 + 1] /\ r[Len(r)] = q[Len(r) + 1]
      BY <1>7, <3>1
    <3>3. r # <<>>
      <4> HIDE DEF r
      <4> QED  BY <3>1, <1>7, EmptyIffLengthZero
    <3> QED  BY <3>1, <3>2, <3>3, <1>7, <1>3
  <2>5. q[Len(q)] # p
    BY <1>3, <1>4, <1>5, <1>11
  <2>6. g.first[l] = r[1] /\ g.last[l] = r[Len(r)] /\ g.next[r[Len(r)]] = Nil
    BY <1>3, <1>4, <1>6, <2>3, <2>4, <2>5
  <2>7. ASSUME NEW i \in 1 .. Len(r) - 1
        PROVE  g.next[r[i]] = r[i + 1]
    <3>1. /\ i + 1 \in 1 .. Len(q) /\ i + 1 \in 1 .. Len(q) - 1
          /\ r[i] = q[i + 1] /\ r[i + 1] = q[i + 2]
      BY <1>3, <1>4, <1>7
    <3>2. h.next[q[i + 1]] = q[i + 1 + 1]
      BY <3>1 DEF Represents
    <3>3. q[i + 1] # p /\ q[i + 1] \in L
      BY <3>1, <1>3, <1>4, <1>5
    <3> QED  BY <3>1, <3>2, <3>3, <2>3, <1>3
  <2>8. Represents(g, l, r)
    BY <1>7, <1>8, <2>3, <2>4, <2>6, <2>7 DEF Represents
  <2> QED  BY <2>2, <2>3, <2>8, <1>5, <1>6
<1> QED  BY <1>10, <1>11

\* remove of a link that is not the first truncates the list in front of it:
\* the links behind it are in the list no more, though nobody removed them.
THEOREM RemoveInnerLinkTruncates ==
    ASSUME NEW L, NEW K, Nil \notin L, NEW h \in Heap(L, K), NEW l \in K,
           NEW q, Represents(h, l, q), NEW i \in 2 .. Len(q)
    PROVE  /\ CanRemoveLink(h, l, q[i])
           /\ RemoveLink(h, l, q[i]) \in Heap(L, K)
           /\ Represents(RemoveLink(h, l, q[i]), l, SubSeq(q, 1, i - 1))
           /\ RemoveLink(h, l, q[i]).next[q[i]] = Nil
           /\ \A m \in K \ {l} :
                 /\ RemoveLink(h, l, q[i]).first[m] = h.first[m]
                 /\ RemoveLink(h, l, q[i]).last[m] = h.last[m]
           /\ \A x \in L \ {q[i - 1], q[i]} :
                 RemoveLink(h, l, q[i]).next[x] = h.next[x]
<1> DEFINE p == q[i]
           c == q[i - 1]
           g == RemoveLink(h, l, p)
           r == SubSeq(q, 1, i - 1)
<1>1. /\ DOMAIN h.next = L
      /\ h.first \in [K -> L \cup {Nil}]
      /\ h.last \in [K -> L \cup {Nil}]
      /\ h.next \in [L -> L \cup {Nil}]
  BY DEF Heap
<1>2. q \in Seq(L) /\ IsInjective(q)
  BY <1>1 DEF Represents
<1>3. /\ Len(q) \in Nat
      /\ \A j \in 1 .. Len(q) : q[j] \in L
      /\ \A j, k \in 1 .. Len(q) : q[j] = q[k] => j = k
      /\ Range(q) = {q[j] : j \in 1 .. Len(q)}
  BY <1>2, SequenceFacts
<1>4. /\ i \in Nat /\ i - 1 \in Nat
      /\ i \in 1 .. Len(q) /\ i - 1 \in 1 .. Len(q) /\ i - 1 \in 1 .. Len(q) - 1
      /\ 1 \in 1 .. Len(q) /\ Len(q) \in 1 .. Len(q) /\ i # 1 /\ i - 1 # i
  <2>1. Len(q) \in Nat
    BY <1>3
  <2> QED  BY <2>1
<1>5. p \in L /\ c \in L /\ p # c
  BY <1>3, <1>4
<1>6. q # <<>>
  BY <1>2, <1>4, EmptyIffLengthZero
<1>7. h.first[l] = q[1] /\ h.next[q[Len(q)]] = Nil
  BY <1>6 DEF Represents
<1>8. h.first[l] # p
  BY <1>3, <1>4, <1>7
<1>9. \A j \in 1 .. Len(q) - 1 : h.next[q[j]] = q[j + 1]
  BY DEF Represents
<1>10. h.next[c] = p
  BY <1>4, <1>9
<1>11. Links(h, l) = Range(q)
  BY WalkVisitsSequence
<1>12. ASSUME NEW d \in L
       PROVE  IsBefore(h, l, d, p) <=> d = c
  <2>1. IsBefore(h, l, c, p)
    BY <1>3, <1>4, <1>10, <1>11 DEF IsBefore
  <2>2. ASSUME IsBefore(h, l, d, p)
        PROVE  d = c
    <3>1. PICK j \in 1 .. Len(q) : d = q[j]
      BY <2>2, <1>3, <1>11 DEF IsBefore
    <3>2. h.next[q[j]] = p
      BY <2>2, <3>1 DEF IsBefore
    <3>3. j # Len(q)
      BY <3>2, <1>5, <1>7
    <3>4. j \in 1 .. Len(q) - 1 /\ j + 1 \in 1 .. Len(q)
      <4>1. Len(q) \in Nat
        BY <1>3
      <4> QED  BY <4>1, <3>1, <3>3
    <3>5. q[j + 1] = q[i]
      BY <3>2, <3>4, <1>9
    <3>6. j + 1 = i
      BY <3>4, <3>5, <1>3, <1>4
    <3> QED  BY <3>1, <3>6
  <2> QED  BY <2>1, <2>2
<1>13. (CHOOSE d \in DOMAIN h.next : IsBefore(h, l, d, p)) = c
  BY <1>1, <1>5, <1>12
<1>14. CanRemoveLink(h, l, p)
  BY <1>1, <1>5, <1>12 DEF CanRemoveLink
<1>15. g = [first |-> h.first,
            last  |-> [h.last EXCEPT ![l] = c],
            next  |-> [[h.next EXCEPT ![p] = Nil] EXCEPT ![c] = Nil]]
  <2>1. [h.next EXCEPT ![p] = Nil][p] = Nil
    BY <1>1, <1>5
  <2>2. g = RemoveInnerLink(h, l, p)
    BY <1>8 DEF RemoveLink
  <2> HIDE DEF g, p, c
  <2> QED  BY <2>1, <2>2, <1>13 DEF RemoveInnerLink
<1>16. g \in Heap(L, K)
  <2>1. [h.last EXCEPT ![l] = c] \in [K -> L \cup {Nil}]
    BY <1>1, <1>5
  <2>2. [[h.next EXCEPT ![p] = Nil] EXCEPT ![c] = Nil] \in [L -> L \cup {Nil}]
    BY <1>1
  <2> QED  BY <1>1, <1>15, <2>1, <2>2 DEF Heap
<1>17. /\ g.first = h.first /\ g.last[l] = c /\ DOMAIN g.next = L
       /\ g.next[p] = Nil /\ g.next[c] = Nil
       /\ \A x \in L \ {c, p} : g.next[x] = h.next[x]
       /\ \A m \in K \ {l} : g.last[m] = h.last[m]
  BY <1>1, <1>5, <1>15
<1>18. /\ r \in Seq(L) /\ Len(r) = i - 1
       /\ \A j \in 1 .. i - 1 : r[j] = q[j]
  BY <1>2, <1>3, <1>4
<1>19. IsInjective(r)
  <2>1. DOMAIN r = 1 .. i - 1
    BY <1>18, <1>4
  <2>2. \A j \in 1 .. i - 1 : j \in 1 .. Len(q)
    BY <1>3, <1>4
  <2> HIDE DEF r
  <2> QED  BY <2>1, <2>2, <1>18, <1>3 DEF IsInjective
<1>20. r # <<>> /\ i - 1 \in 1 .. i - 1 /\ 1 \in 1 .. i - 1
  <2>1. i - 1 \in 1 .. i - 1 /\ 1 \in 1 .. i - 1 /\ i - 1 # 0
    BY <1>4
  <2> HIDE DEF r
  <2> QED  BY <2>1, <1>18, EmptyIffLengthZero
<1>21. g.first[l] = r[1] /\ g.last[l] = r[Len(r)] /\ g.next[r[Len(r)]] = Nil
  <2>1. r[1] = q[1] /\ r[i - 1] = c
    BY <1>18, <1>20
  <2> HIDE DEF g, r, p, c
  <2> QED  BY <2>1, <1>7, <1>17, <1>18
<1>22. ASSUME NEW j \in 1 .. Len(r) - 1
       PROVE  g.next[r[j]] = r[j + 1]
  <2>1. /\ j \in 1 .. i - 1 /\ j + 1 \in 1 .. i - 1 /\ j \in 1 .. Len(q) - 1
        /\ j \in 1 .. Len(q) /\ j # i /\ j # i - 1
    <3>1. j \in 1 .. (i - 1) - 1
      BY <1>18
    <3>2. Len(q) \in Nat
      BY <1>3
    <3> QED  BY <3>1, <3>2, <1>4
  <2>2. r[j] = q[j] /\ r[j + 1] = q[j + 1]
    BY <2>1, <1>18
  <2>3. q[j] \in L \ {c, p}
    BY <2>1, <1>3, <1>4
  <2>4. h.next[q[j]] = q[j + 1]
    BY <2>1, <1>9
  <2> HIDE DEF g, r, p, c
  <2> QED  BY <2>2, <2>3, <2>4, <1>17
<1>23. Represents(g, l, r)
  <2> HIDE DEF g, r
  <2> QED  BY <1>17, <1>18, <1>19, <1>20, <1>21, <1>22 DEF Represents
<1> QED  BY <1>14, <1>16, <1>17, <1>23

-----------------------------------------------------------------------------
\* A list none of whose pointers an operation writes holds what it held.
LEMMA UntouchedList ==
    ASSUME NEW h, NEW g, NEW m, NEW r, Represents(h, m, r),
           DOMAIN g.next = DOMAIN h.next,
           g.first[m] = h.first[m], g.last[m] = h.last[m],
           \A x \in Range(r) : g.next[x] = h.next[x]
    PROVE  Represents(g, m, r)
<1>1. /\ r \in Seq(DOMAIN h.next) /\ IsInjective(r)
      /\ r = <<>> => h.first[m] = Nil /\ h.last[m] = Nil
      /\ r # <<>> => /\ h.first[m] = r[1] /\ h.last[m] = r[Len(r)]
                     /\ h.next[r[Len(r)]] = Nil
      /\ \A i \in 1 .. Len(r) - 1 : h.next[r[i]] = r[i + 1]
  BY DEF Represents
<1>2. /\ Len(r) \in Nat /\ Range(r) = {r[i] : i \in 1 .. Len(r)}
      /\ r = <<>> <=> Len(r) = 0
  BY <1>1, SequenceFacts, EmptyIffLengthZero
<1>3. r # <<>> => r[Len(r)] \in Range(r)
  <2>1. r # <<>> => Len(r) \in 1 .. Len(r)
    BY <1>2
  <2> QED  BY <2>1, <1>2
<1>4. \A i \in 1 .. Len(r) - 1 : r[i] \in Range(r)
  BY <1>2
<1> QED  BY <1>1, <1>3, <1>4 DEF Represents

\* What the heap of some stored sequences looks like.
LEMMA StoresFacts ==
    ASSUME NEW L, NEW K, NEW h \in Heap(L, K), NEW Q, Stores(h, Q)
    PROVE  /\ DOMAIN h.next = L /\ DOMAIN h.first = K /\ DOMAIN Q = K
           /\ \A l \in K : /\ Represents(h, l, Q[l])
                           /\ Q[l] \in Seq(L) /\ IsInjective(Q[l])
                           /\ Range(Q[l]) \subseteq L
           /\ \A l, m \in K : l # m => Range(Q[l]) \cap Range(Q[m]) = {}
           /\ \A p \in L : (\A l \in K : p \notin Range(Q[l])) => h.next[p] = Nil
<1>1. DOMAIN h.next = L /\ DOMAIN h.first = K
  BY DEF Heap
<1>2. /\ DOMAIN Q = K
      /\ \A l \in K : Represents(h, l, Q[l])
      /\ \A l, m \in K : l # m => Range(Q[l]) \cap Range(Q[m]) = {}
      /\ \A p \in L : (\A l \in K : p \notin Range(Q[l])) => h.next[p] = Nil
  BY <1>1 DEF Stores
<1>3. \A l \in K : Q[l] \in Seq(L) /\ IsInjective(Q[l])
  BY <1>1, <1>2 DEF Represents
<1>4. \A l \in K : Range(Q[l]) \subseteq L
  BY <1>3, SequenceFacts
<1> QED  BY <1>1, <1>2, <1>3, <1>4

\* The heap of a freshly made set of lists stores empty sequences.
LEMMA EmptyHeapStores ==
    ASSUME NEW L, NEW K
    PROVE  /\ EmptyHeap(L, K) \in Heap(L, K)
           /\ Stores(EmptyHeap(L, K), [l \in K |-> <<>>])
<1> DEFINE h == EmptyHeap(L, K)
<1>1. /\ h.first = [l \in K |-> Nil] /\ h.last = [l \in K |-> Nil]
      /\ h.next = [p \in L |-> Nil]
  BY DEF EmptyHeap
<1>2. h \in Heap(L, K)
  BY DEF EmptyHeap, Heap
<1>3. /\ <<>> \in Seq(L) /\ IsInjective(<<>>) /\ Len(<<>>) = 0
      /\ Range(<<>>) = {}
  BY DEF IsInjective, Range
<1>4. \A l \in K : Represents(h, l, <<>>)
  <2> HIDE DEF h
  <2> QED  BY <1>1, <1>3 DEF Represents
<1>5. Stores(h, [l \in K |-> <<>>])
  <2> HIDE DEF h
  <2> QED  BY <1>1, <1>3, <1>4 DEF Stores
<1> QED  BY <1>2, <1>5

\* add_last_link, for all lists at once.
THEOREM AddLastLinkStores ==
    ASSUME NEW L, NEW K, Nil \notin L, NEW h \in Heap(L, K), NEW Q, Stores(h, Q),
           NEW l \in K, NEW p \in L, \A m \in K : p \notin Range(Q[m])
    PROVE  /\ AddLastLink(h, l, p) \in Heap(L, K)
           /\ Stores(AddLastLink(h, l, p), [Q EXCEPT ![l] = Append(@, p)])
           /\ Range(Append(Q[l], p)) = Range(Q[l]) \cup {p}
<1>1. /\ DOMAIN h.next = L /\ DOMAIN h.first = K /\ DOMAIN Q = K
      /\ \A m \in K : /\ Represents(h, m, Q[m])
                      /\ Q[m] \in Seq(L) /\ IsInjective(Q[m])
                      /\ Range(Q[m]) \subseteq L
      /\ \A m, n \in K : m # n => Range(Q[m]) \cap Range(Q[n]) = {}
      /\ \A x \in L : (\A m \in K : x \notin Range(Q[m])) => h.next[x] = Nil
  <2>1. DOMAIN h.next = L /\ DOMAIN h.first = K /\ DOMAIN Q = K
    BY StoresFacts
  <2>2. \A m \in K : /\ Represents(h, m, Q[m])
                    /\ Q[m] \in Seq(L) /\ IsInjective(Q[m])
                    /\ Range(Q[m]) \subseteq L
    BY StoresFacts
  <2>3. \A m, n \in K : m # n => Range(Q[m]) \cap Range(Q[n]) = {}
    BY StoresFacts
  <2>4. \A x \in L : (\A m \in K : x \notin Range(Q[m])) => h.next[x] = Nil
    BY StoresFacts
  <2> QED  BY <2>1, <2>2, <2>3, <2>4
<1> DEFINE g == AddLastLink(h, l, p)
           R == [Q EXCEPT ![l] = Append(@, p)]
<1>2. h.next[p] = Nil
  BY <1>1
<1>3. /\ g \in Heap(L, K)
      /\ Represents(g, l, Append(Q[l], p))
      /\ \A m \in K \ {l} : g.first[m] = h.first[m] /\ g.last[m] = h.last[m]
      /\ \A x \in L : x \notin Range(Q[l]) => g.next[x] = h.next[x]
  BY <1>1, <1>2, AddLastLinkAppends
<1>4. DOMAIN g.next = L /\ DOMAIN g.first = K
  BY <1>3 DEF Heap
<1>5. Range(Append(Q[l], p)) = Range(Q[l]) \cup {p}
  <2>1. Q[l] \in Seq(L)
    BY <1>1
  <2>2. /\ Len(Q[l]) \in Nat
        /\ DOMAIN Append(Q[l], p) = 1 .. Len(Q[l]) + 1
        /\ DOMAIN Q[l] = 1 .. Len(Q[l])
        /\ \A i \in 1 .. Len(Q[l]) : Append(Q[l], p)[i] = Q[l][i]
        /\ Append(Q[l], p)[Len(Q[l]) + 1] = p
    BY <2>1
  <2> QED  BY <2>2 DEF Range
<1>6. /\ DOMAIN R = K /\ R[l] = Append(Q[l], p)
      /\ \A m \in K \ {l} : R[m] = Q[m]
  BY <1>1
<1> HIDE DEF g, R
<1>7. ASSUME NEW m \in K
      PROVE  Represents(g, m, R[m])
  <2>1. CASE m = l
    BY <2>1, <1>3, <1>6
  <2>2. CASE m # l
    <3>1. \A x \in Range(Q[m]) : g.next[x] = h.next[x]
      BY <2>2, <1>1, <1>3
    <3> QED  BY <3>1, <2>2, <1>1, <1>3, <1>4, <1>6, UntouchedList
  <2> QED  BY <2>1, <2>2
<1>8. ASSUME NEW m \in K, NEW n \in K, m # n
      PROVE  Range(R[m]) \cap Range(R[n]) = {}
  <2>1. Range(Q[m]) \cap Range(Q[n]) = {} /\ p \notin Range(Q[m]) /\ p \notin Range(Q[n])
    BY <1>1, <1>8
  <2>2. CASE m = l
    BY <2>1, <2>2, <1>5, <1>6, <1>8
  <2>3. CASE n = l
    BY <2>1, <2>3, <1>5, <1>6, <1>8
  <2>4. CASE m # l /\ n # l
    BY <2>1, <2>4, <1>6
  <2> QED  BY <2>2, <2>3, <2>4
<1>9. ASSUME NEW x \in L, \A m \in K : x \notin Range(R[m])
      PROVE  g.next[x] = Nil
  <2>1. x \notin Range(Q[l])
    BY <1>5, <1>6, <1>9
  <2>2. \A m \in K : x \notin Range(Q[m])
    BY <2>1, <1>6, <1>9
  <2> QED  BY <2>1, <2>2, <1>1, <1>3
<1>10. Stores(g, R)
  BY <1>4, <1>6, <1>7, <1>8, <1>9 DEF Stores
<1> QED  BY <1>3, <1>5, <1>10 DEF g, R

\* A heap that differs from h in list l only, from which the operation has
\* removed the one link p, stores Q with the new sequence of l.
LEMMA RemovalStores ==
    ASSUME NEW L, NEW K, NEW h \in Heap(L, K), NEW Q, Stores(h, Q),
           NEW l \in K, NEW p \in Range(Q[l]), NEW g \in Heap(L, K), NEW r,
           Represents(g, l, r), Range(r) = Range(Q[l]) \ {p},
           g.next[p] = Nil,
           \A m \in K \ {l} : g.first[m] = h.first[m] /\ g.last[m] = h.last[m],
           \A x \in L : x \notin Range(Q[l]) => g.next[x] = h.next[x]
    PROVE  Stores(g, [Q EXCEPT ![l] = r])
<1>1. /\ DOMAIN h.next = L /\ DOMAIN h.first = K /\ DOMAIN Q = K
      /\ \A m \in K : /\ Represents(h, m, Q[m])
                      /\ Q[m] \in Seq(L) /\ IsInjective(Q[m])
                      /\ Range(Q[m]) \subseteq L
      /\ \A m, n \in K : m # n => Range(Q[m]) \cap Range(Q[n]) = {}
      /\ \A x \in L : (\A m \in K : x \notin Range(Q[m])) => h.next[x] = Nil
  <2>1. DOMAIN h.next = L /\ DOMAIN h.first = K /\ DOMAIN Q = K
    BY StoresFacts
  <2>2. \A m \in K : /\ Represents(h, m, Q[m])
                    /\ Q[m] \in Seq(L) /\ IsInjective(Q[m])
                    /\ Range(Q[m]) \subseteq L
    BY StoresFacts
  <2>3. \A m, n \in K : m # n => Range(Q[m]) \cap Range(Q[n]) = {}
    BY StoresFacts
  <2>4. \A x \in L : (\A m \in K : x \notin Range(Q[m])) => h.next[x] = Nil
    BY StoresFacts
  <2> QED  BY <2>1, <2>2, <2>3, <2>4
<1> DEFINE R == [Q EXCEPT ![l] = r]
<1>2. DOMAIN g.next = L /\ DOMAIN g.first = K
  BY DEF Heap
<1>3. DOMAIN R = K /\ R[l] = r /\ \A m \in K \ {l} : R[m] = Q[m]
  BY <1>1
<1> HIDE DEF R
<1>4. ASSUME NEW m \in K
      PROVE  Represents(g, m, R[m])
  <2>1. CASE m = l
    BY <2>1, <1>3
  <2>2. CASE m # l
    <3>1. \A x \in Range(Q[m]) : g.next[x] = h.next[x]
      BY <2>2, <1>1
    <3> QED  BY <3>1, <2>2, <1>1, <1>2, <1>3, UntouchedList
  <2> QED  BY <2>1, <2>2
<1>5. ASSUME NEW m \in K, NEW n \in K, m # n
      PROVE  Range(R[m]) \cap Range(R[n]) = {}
  <2>1. Range(R[m]) \subseteq Range(Q[m]) /\ Range(R[n]) \subseteq Range(Q[n])
    BY <1>3
  <2>2. Range(Q[m]) \cap Range(Q[n]) = {}
    BY <1>1, <1>5
  <2> QED  BY <2>1, <2>2
<1>6. ASSUME NEW x \in L, \A m \in K : x \notin Range(R[m])
      PROVE  g.next[x] = Nil
  <2>1. CASE x = p
    BY <2>1
  <2>2. CASE x # p
    <3>1. x \notin Range(Q[l])
      BY <2>2, <1>3, <1>6
    <3>2. \A m \in K : x \notin Range(Q[m])
      BY <3>1, <1>3, <1>6
    <3> QED  BY <3>1, <3>2, <1>1
  <2> QED  BY <2>1, <2>2
<1> QED
  <2>1. Stores(g, R)
    BY <1>2, <1>3, <1>4, <1>5, <1>6 DEF Stores
  <2> QED  BY <2>1 DEF R

\* remove_first_link_of_list, for all lists at once.
THEOREM RemoveFirstLinkStores ==
    ASSUME NEW L, NEW K, Nil \notin L, NEW h \in Heap(L, K), NEW Q, Stores(h, Q),
           NEW l \in K, Q[l] # <<>>
    PROVE  /\ RemoveFirstLink(h, l) \in Heap(L, K)
           /\ Stores(RemoveFirstLink(h, l), [Q EXCEPT ![l] = Tail(@)])
           /\ h.first[l] = Head(Q[l]) /\ Head(Q[l]) \in Range(Q[l])
           /\ Range(Tail(Q[l])) = Range(Q[l]) \ {Head(Q[l])}
<1>1. /\ DOMAIN h.next = L /\ DOMAIN h.first = K /\ DOMAIN Q = K
      /\ \A m \in K : /\ Represents(h, m, Q[m])
                      /\ Q[m] \in Seq(L) /\ IsInjective(Q[m])
                      /\ Range(Q[m]) \subseteq L
      /\ \A m, n \in K : m # n => Range(Q[m]) \cap Range(Q[n]) = {}
      /\ \A x \in L : (\A m \in K : x \notin Range(Q[m])) => h.next[x] = Nil
  <2>1. DOMAIN h.next = L /\ DOMAIN h.first = K /\ DOMAIN Q = K
    BY StoresFacts
  <2>2. \A m \in K : /\ Represents(h, m, Q[m])
                    /\ Q[m] \in Seq(L) /\ IsInjective(Q[m])
                    /\ Range(Q[m]) \subseteq L
    BY StoresFacts
  <2>3. \A m, n \in K : m # n => Range(Q[m]) \cap Range(Q[n]) = {}
    BY StoresFacts
  <2>4. \A x \in L : (\A m \in K : x \notin Range(Q[m])) => h.next[x] = Nil
    BY StoresFacts
  <2> QED  BY <2>1, <2>2, <2>3, <2>4
<1> DEFINE g == RemoveFirstLink(h, l)
           q == Q[l]
<1>2. /\ g \in Heap(L, K)
      /\ Represents(g, l, Tail(q))
      /\ h.first[l] = Head(q) /\ Head(q) \in L
      /\ g.next[Head(q)] = Nil
      /\ \A m \in K \ {l} : g.first[m] = h.first[m] /\ g.last[m] = h.last[m]
      /\ \A x \in L \ {Head(q)} : g.next[x] = h.next[x]
  <2>1. Represents(h, l, q) /\ q # <<>>
    BY <1>1
  <2> QED  BY <2>1, RemoveFirstLinkTakesHead
<1> HIDE DEF g, q
<1>3. q \in Seq(L) /\ IsInjective(q) /\ q # <<>>
  BY <1>1 DEF q
<1>4. /\ Len(q) \in Nat /\ Len(q) # 0
      /\ \A i, j \in 1 .. Len(q) : q[i] = q[j] => i = j
      /\ Range(q) = {q[i] : i \in 1 .. Len(q)}
  BY <1>3, SequenceFacts, EmptyIffLengthZero
<1>5. Head(q) = q[1] /\ Head(q) \in Range(q)
  <2>1. 1 \in 1 .. Len(q)
    BY <1>4
  <2> QED  BY <2>1, <1>3, <1>4
<1>6. Range(Tail(q)) = Range(q) \ {Head(q)}
  <2>1. /\ DOMAIN Tail(q) = 1 .. Len(q) - 1
        /\ \A i \in 1 .. Len(q) - 1 : Tail(q)[i] = q[i + 1]
    BY <1>3, <1>4
  <2>2. Range(Tail(q)) = {q[i + 1] : i \in 1 .. Len(q) - 1}
    BY <2>1 DEF Range
  <2>3. ASSUME NEW x \in Range(Tail(q))
        PROVE  x \in Range(q) \ {Head(q)}
    <3>1. PICK i \in 1 .. Len(q) - 1 : x = q[i + 1]
      BY <2>2
    <3>2. i + 1 \in 1 .. Len(q) /\ 1 \in 1 .. Len(q) /\ i + 1 # 1
      BY <1>4
    <3> QED  BY <3>1, <3>2, <1>4, <1>5
  <2>4. ASSUME NEW x \in Range(q) \ {Head(q)}
        PROVE  x \in Range(Tail(q))
    <3>1. PICK i \in 1 .. Len(q) : x = q[i]
      BY <1>4
    <3>2. i # 1
      BY <3>1, <1>5
    <3>3. i - 1 \in 1 .. Len(q) - 1 /\ (i - 1) + 1 = i
      BY <3>2, <1>4
    <3> QED  BY <3>1, <3>3, <2>2
  <2> QED  BY <2>3, <2>4
<1>7. \A x \in L : x \notin Range(q) => g.next[x] = h.next[x]
  BY <1>2, <1>5
<1>8. Stores(g, [Q EXCEPT ![l] = Tail(q)])
  BY <1>2, <1>5, <1>6, <1>7, RemovalStores DEF q
<1> QED  BY <1>2, <1>5, <1>6, <1>8 DEF g, q

\* p has left the queue of list l, and no other queue of K has changed.
Taken(R, Q, K, l, p) ==
    /\ Range(R[l]) = Range(Q[l]) \ {p}
    /\ \A m \in K : m # l => R[m] = Q[m]

\* remove of the last link of a list, for all lists at once.
THEOREM RemoveLastLinkStores ==
    ASSUME NEW L, NEW K, Nil \notin L, NEW h \in Heap(L, K), NEW Q, Stores(h, Q),
           NEW l \in K, Q[l] # <<>>, NEW p, p = Q[l][Len(Q[l])]
    PROVE  /\ CanRemoveLink(h, l, p)
           /\ RemoveLink(h, l, p) \in Heap(L, K)
           /\ \E R : Stores(RemoveLink(h, l, p), R) /\ Taken(R, Q, K, l, p)
<1>1. /\ DOMAIN h.next = L /\ DOMAIN h.first = K /\ DOMAIN Q = K
      /\ \A m \in K : /\ Represents(h, m, Q[m])
                      /\ Q[m] \in Seq(L) /\ IsInjective(Q[m])
                      /\ Range(Q[m]) \subseteq L
      /\ \A m, n \in K : m # n => Range(Q[m]) \cap Range(Q[n]) = {}
      /\ \A x \in L : (\A m \in K : x \notin Range(Q[m])) => h.next[x] = Nil
  <2>1. DOMAIN h.next = L /\ DOMAIN h.first = K /\ DOMAIN Q = K
    BY StoresFacts
  <2>2. \A m \in K : /\ Represents(h, m, Q[m])
                    /\ Q[m] \in Seq(L) /\ IsInjective(Q[m])
                    /\ Range(Q[m]) \subseteq L
    BY StoresFacts
  <2>3. \A m, n \in K : m # n => Range(Q[m]) \cap Range(Q[n]) = {}
    BY StoresFacts
  <2>4. \A x \in L : (\A m \in K : x \notin Range(Q[m])) => h.next[x] = Nil
    BY StoresFacts
  <2> QED  BY <2>1, <2>2, <2>3, <2>4
<1> DEFINE q == Q[l]
           g == RemoveLink(h, l, p)
           r == SubSeq(q, 1, Len(q) - 1)
<1>2. Represents(h, l, q) /\ q \in Seq(L) /\ IsInjective(q) /\ q # <<>>
  BY <1>1
<1>3. /\ Len(q) \in Nat /\ Len(q) # 0
      /\ \A i, j \in 1 .. Len(q) : q[i] = q[j] => i = j
      /\ Range(q) = {q[i] : i \in 1 .. Len(q)}
  BY <1>2, SequenceFacts, EmptyIffLengthZero
<1>4. p \in Range(q) /\ p \in L
  <2>1. Len(q) \in 1 .. Len(q)
    BY <1>3
  <2> QED  BY <2>1, <1>1, <1>3
<1>5. CASE Len(q) = 1
  <2>1. Head(q) = q[1]
    BY <1>2
  <2>5. h.first[l] = Head(q)
    BY <1>2, RemoveFirstLinkTakesHead
  <2>2. h.first[l] = p /\ Head(q) = p
    BY <2>1, <2>5, <1>5
  <2>3. g = RemoveFirstLink(h, l) /\ CanRemoveLink(h, l, p)
    BY <2>2 DEF RemoveLink, CanRemoveLink
  <2>4. /\ RemoveFirstLink(h, l) \in Heap(L, K)
        /\ Stores(RemoveFirstLink(h, l), [Q EXCEPT ![l] = Tail(q)])
        /\ Range(Tail(q)) = Range(q) \ {Head(q)}
    <3>1. RemoveFirstLink(h, l) \in Heap(L, K)
      BY RemoveFirstLinkStores
    <3>2. Stores(RemoveFirstLink(h, l), [Q EXCEPT ![l] = Tail(@)])
      BY RemoveFirstLinkStores
    <3>3. Range(Tail(q)) = Range(q) \ {Head(q)}
      <4>1. DOMAIN Tail(q) = {}
        <5>1. Tail(q) \in Seq(L) /\ Len(Tail(q)) = 0
          BY <1>2, <1>5, HeadTailProperties
        <5> QED  BY <5>1, LenProperties
      <4>2. Range(Tail(q)) = {}
        BY <4>1 DEF Range
      <4>3. Range(q) = {q[1]}
        BY <1>3, <1>5
      <4> QED  BY <4>2, <4>3, <2>1
    <3>4. [Q EXCEPT ![l] = Tail(@)] = [Q EXCEPT ![l] = Tail(q)]
      OBVIOUS
    <3> QED  BY <3>1, <3>2, <3>3, <3>4
  <2>6. Taken([Q EXCEPT ![l] = Tail(q)], Q, K, l, p)
    BY <1>1, <2>2, <2>4 DEF Taken
  <2> QED  BY <2>2, <2>3, <2>4, <2>6
<1>6. CASE Len(q) # 1
  <2>1. Len(q) \in 2 .. Len(q)
    <3>1. \A n \in Nat : n # 0 /\ n # 1 => n \in 2 .. n
      OBVIOUS
    <3>2. Len(q) \in Nat /\ Len(q) # 0
      BY <1>3
    <3> QED  BY <3>1, <3>2, <1>6
  <2>2. /\ CanRemoveLink(h, l, p)
        /\ g \in Heap(L, K)
        /\ Represents(g, l, r)
        /\ g.next[p] = Nil
        /\ \A m \in K \ {l} : g.first[m] = h.first[m] /\ g.last[m] = h.last[m]
        /\ \A x \in L \ {q[Len(q) - 1], p} : g.next[x] = h.next[x]
    BY <1>2, <2>1, RemoveInnerLinkTruncates
  <2>3. Range(r) = Range(q) \ {p}
    <3>1. /\ DOMAIN r = 1 .. Len(q) - 1
          /\ \A i \in 1 .. Len(q) - 1 : r[i] = q[i]
      BY <1>2, <1>3
    <3>2. Range(r) = {q[i] : i \in 1 .. Len(q) - 1}
      BY <3>1 DEF Range
    <3>3. \A i \in 1 .. Len(q) - 1 : i \in 1 .. Len(q) /\ i # Len(q)
      BY <1>3
    <3>4. \A i \in 1 .. Len(q) : i # Len(q) => i \in 1 .. Len(q) - 1
      BY <1>3
    <3>5. Len(q) \in 1 .. Len(q)
      BY <1>3
    <3> HIDE DEF q, r
    <3> QED  BY <3>2, <3>3, <3>4, <3>5, <1>3 DEF q
  <2>4. \A x \in L : x \notin Range(q) => g.next[x] = h.next[x]
    <3>1. Len(q) - 1 \in 1 .. Len(q)
      BY <2>1, <1>3
    <3>2. q[Len(q) - 1] \in Range(q)
      BY <3>1, <1>3
    <3> QED  BY <3>2, <2>2, <1>4
  <2>5. Stores(g, [Q EXCEPT ![l] = r])
    <3> HIDE DEF g, r
    <3> QED  BY <2>2, <2>3, <2>4, <1>4, RemovalStores
  <2>6. Taken([Q EXCEPT ![l] = r], Q, K, l, p)
    <3> HIDE DEF r
    <3> QED  BY <1>1, <2>3 DEF Taken
  <2> QED  BY <2>2, <2>5, <2>6
<1> QED  BY <1>5, <1>6

-----------------------------------------------------------------------------
(* Types and contexts *)

\* The list operations keep the pointers of a heap inside the heap.
LEMMA ListOperationsTyped ==
    ASSUME NEW L, NEW K, Nil \notin L, NEW h \in Heap(L, K),
           NEW l \in K, NEW p \in L
    PROVE  /\ AddLastLink(h, l, p) \in Heap(L, K)
           /\ ~ IsEmptyList(h, l) => RemoveFirstLink(h, l) \in Heap(L, K)
           /\ ~ IsEmptyList(h, l) => h.first[l] \in L
           /\ CanRemoveLink(h, l, p) => RemoveLink(h, l, p) \in Heap(L, K)
<1>1. /\ h.first \in [K -> L \cup {Nil}]
      /\ h.last \in [K -> L \cup {Nil}]
      /\ h.next \in [L -> L \cup {Nil}]
  BY DEF Heap
<1>2. AddLastLink(h, l, p) \in Heap(L, K)
  <2>1. [h.first EXCEPT ![l] = p] \in [K -> L \cup {Nil}]
    BY <1>1
  <2>2. [h.last EXCEPT ![l] = p] \in [K -> L \cup {Nil}]
    BY <1>1
  <2>3. [h.next EXCEPT ![h.last[l]] = p] \in [L -> L \cup {Nil}]
    BY <1>1
  <2> QED  BY <2>1, <2>2, <2>3, <1>1 DEF AddLastLink, Heap
<1>3. ASSUME ~ IsEmptyList(h, l)
      PROVE  h.first[l] \in L /\ RemoveFirstLink(h, l) \in Heap(L, K)
  <2>1. h.first[l] \in L
    BY <1>1, <1>3 DEF IsEmptyList
  <2>2. h.next[h.first[l]] \in L \cup {Nil}
    BY <2>1, <1>1
  <2> DEFINE only == h.first[l] = h.last[l]
  <2>3. [h.first EXCEPT ![l] = IF only THEN Nil ELSE h.next[h.first[l]]]
           \in [K -> L \cup {Nil}]
    BY <2>2, <1>1
  <2>4. [h.last EXCEPT ![l] = IF only THEN Nil ELSE @] \in [K -> L \cup {Nil}]
    BY <1>1
  <2>5. [h.next EXCEPT ![h.first[l]] = Nil] \in [L -> L \cup {Nil}]
    BY <1>1
  <2> QED  BY <2>1, <2>3, <2>4, <2>5 DEF RemoveFirstLink, Heap
<1>4. ASSUME CanRemoveLink(h, l, p), h.first[l] # p
      PROVE  RemoveInnerLink(h, l, p) \in Heap(L, K)
  <2> DEFINE c == CHOOSE c \in DOMAIN h.next : IsBefore(h, l, c, p)
             cleared == [h.next EXCEPT ![p] = Nil]
  <2>1. c \in L
    BY <1>1, <1>4 DEF CanRemoveLink
  <2>2. cleared \in [L -> L \cup {Nil}] /\ cleared[p] = Nil
    BY <1>1
  <2> HIDE DEF c, cleared
  <2>3. [h.last EXCEPT ![l] = IF cleared[p] = Nil THEN c ELSE @]
           \in [K -> L \cup {Nil}]
    BY <2>1, <1>1
  <2>4. [cleared EXCEPT ![c] = cleared[p]] \in [L -> L \cup {Nil}]
    BY <2>1, <2>2
  <2>5. RemoveInnerLink(h, l, p) =
           [first |-> h.first,
            last  |-> [h.last EXCEPT ![l] = IF cleared[p] = Nil THEN c ELSE @],
            next  |-> [cleared EXCEPT ![c] = cleared[p]]]
    BY DEF RemoveInnerLink, c, cleared
  <2> QED  BY <2>3, <2>4, <2>5, <1>1 DEF Heap
<1>5. ASSUME CanRemoveLink(h, l, p)
      PROVE  RemoveLink(h, l, p) \in Heap(L, K)
  <2>1. CASE h.first[l] = p
    <3>1. ~ IsEmptyList(h, l)
      BY <2>1 DEF IsEmptyList
    <3> QED  BY <3>1, <2>1, <1>3 DEF RemoveLink
  <2>2. CASE h.first[l] # p
    BY <2>2, <1>4, <1>5 DEF RemoveLink
  <2> QED  BY <2>1, <2>2
<1> QED  BY <1>2, <1>3, <1>5

\* The part of the state that a process switch writes.
SlotsTyped ==
    /\ heap \in Heap(Process, List)
    /\ myList \in [Process -> List \cup {Nil}]
    /\ suspendedContext \in [Process -> Context \cup {Nil}]
    /\ activeProcess \in Process
    /\ frame \in Context
    /\ halted \in Exception \cup {"no"}

LEMMA ConstantFacts ==
    /\ Nil \notin Process /\ Nil \notin List /\ Nil \notin Context
    /\ \A p \in Process : priority[p] \in Nat
    /\ ReadyList \subseteq Nat /\ ReadyList \subseteq List
    /\ Semaphore \subseteq List /\ Semaphore \cap ReadyList = {}
<1>1. NumLists \in Nat
  BY ConstantsAssumption
<1>2. priority \in [Process -> 1 .. NumLists]
  BY ConstantsAssumption
<1>3. \A i \in 1 .. NumLists : i \in Nat
  BY <1>1
<1> QED  BY <1>1, <1>2, <1>3, ConstantsAssumption DEF ReadyList, List

\* A switch to another process hands over the contexts.
LEMMA SwitchToTyped ==
    ASSUME SlotsTyped, ContextsOwned, Running, NEW p \in Process, p # activeProcess,
           NEW lists \in [Process -> List \cup {Nil}], SwitchTo(p, lists),
           heap' \in Heap(Process, List)
    PROVE  SlotsTyped' /\ ContextsOwned'
<1>1. suspendedContext[p] \in Context /\ suspendedContext[p][1] = p
  BY DEF SlotsTyped, ContextsOwned
<1>2. /\ activeProcess' = p
      /\ frame' = suspendedContext[p]
      /\ suspendedContext' =
            [suspendedContext EXCEPT ![activeProcess] = frame, ![p] = Nil]
      /\ myList' = [lists EXCEPT ![p] = Nil]
      /\ halted' = halted
  BY DEF SwitchTo
<1>3. /\ suspendedContext' \in [Process -> Context \cup {Nil}]
      /\ suspendedContext'[p] = Nil
      /\ suspendedContext'[activeProcess] = frame
      /\ \A x \in Process \ {p, activeProcess} :
            suspendedContext'[x] = suspendedContext[x]
  BY <1>2 DEF SlotsTyped
<1>4. myList' \in [Process -> List \cup {Nil}]
  BY <1>2
<1>5. SlotsTyped'
  BY <1>1, <1>2, <1>3, <1>4 DEF SlotsTyped
<1>6. frame # Nil
  BY ConstantFacts DEF SlotsTyped
<1>7. ContextsOwned'
  BY <1>1, <1>2, <1>3, <1>6 DEF ContextsOwned
<1> QED  BY <1>5, <1>7

LEMMA ResumeInTyped ==
    ASSUME SlotsTyped, ContextsOwned, Running, NEW h \in Heap(Process, List),
           NEW p \in Process, ResumeIn(h, p)
    PROVE  SlotsTyped' /\ ContextsOwned'
<1>1. CASE /\ heap' = h
           /\ NoSwitch /\ UNCHANGED myList
  BY <1>1 DEF NoSwitch, SlotsTyped, ContextsOwned
<1>2. CASE /\ priority[p] > priority[activeProcess]
           /\ HasProcessList(activeProcess)
           /\ heap' = PutToSleep(h, activeProcess)
           /\ SwitchTo(p, [myList EXCEPT ![activeProcess] = priority[activeProcess]])
  <2>1. activeProcess \in Process /\ priority[activeProcess] \in List
    BY <1>2, ConstantFacts DEF SlotsTyped, HasProcessList
  <2>2. p # activeProcess
    BY <1>2, <2>1, ConstantFacts
  <2>3. heap' \in Heap(Process, List)
    BY <1>2, <2>1, ConstantFacts, ListOperationsTyped DEF PutToSleep
  <2>4. [myList EXCEPT ![activeProcess] = priority[activeProcess]]
           \in [Process -> List \cup {Nil}]
    BY <2>1 DEF SlotsTyped
  <2> QED  BY <1>2, <2>2, <2>3, <2>4, SwitchToTyped
<1>3. CASE /\ HasProcessList(p)
           /\ heap' = PutToSleep(h, p)
           /\ myList' = [myList EXCEPT ![p] = priority[p]]
           /\ NoSwitch
  <2>1. priority[p] \in List
    BY <1>3, ConstantFacts DEF HasProcessList
  <2>2. heap' \in Heap(Process, List)
    BY <1>3, <2>1, ConstantFacts, ListOperationsTyped DEF PutToSleep
  <2>3. myList' \in [Process -> List \cup {Nil}]
    BY <1>3, <2>1 DEF SlotsTyped
  <2> QED  BY <1>3, <2>2, <2>3 DEF NoSwitch, SlotsTyped, ContextsOwned
<1>4. CASE heap' = h /\ Raise("LayoutException")
  BY <1>4 DEF Raise, SlotsTyped, ContextsOwned, Exception
<1> QED  BY <1>1, <1>2, <1>3, <1>4 DEF ResumeIn

\* A finite set of list indices has a greatest element.
LEMMA HighestListExists ==
    ASSUME NEW h, \E l \in ReadyList : IsRunnable(h, l)
    PROVE  /\ HighestList(h) \in ReadyList /\ IsRunnable(h, HighestList(h))
           /\ \A m \in ReadyList : IsRunnable(h, m) => m <= HighestList(h)
<1> DEFINE T == {i \in ReadyList : IsRunnable(h, NumLists - 1 - i)}
<1>1. NumLists \in Nat
  BY ConstantsAssumption
<1>2. \A l \in ReadyList : /\ NumLists - 1 - l \in ReadyList
                           /\ NumLists - 1 - (NumLists - 1 - l) = l
  BY <1>1 DEF ReadyList
<1>3. T \in SUBSET Nat /\ T # {}
  BY <1>2, ConstantFacts
<1>4. PICK i \in T : \A j \in T : i <= j
  BY <1>3, LeastIndex
<1>5. \A m \in ReadyList : IsRunnable(h, m) => m <= NumLists - 1 - i
  <2> TAKE m \in ReadyList
  <2> HAVE IsRunnable(h, m)
  <2>1. NumLists - 1 - m \in T
    BY <1>2
  <2>2. i <= NumLists - 1 - m
    BY <2>1, <1>4
  <2> QED  BY <2>2, <1>1, <1>3, ConstantFacts
<1>6. NumLists - 1 - i \in ReadyList /\ IsRunnable(h, NumLists - 1 - i)
  BY <1>2
<1>7. \E l \in ReadyList :
         IsRunnable(h, l) /\ \A m \in ReadyList : IsRunnable(h, m) => m <= l
  BY <1>5, <1>6
<1> QED  BY <1>7 DEF HighestList

LEMMA SuspendActiveInTyped ==
    ASSUME SlotsTyped, ContextsOwned, Running, NEW h \in Heap(Process, List),
           SuspendActiveIn(h)
    PROVE  SlotsTyped' /\ ContextsOwned'
<1>1. CASE /\ heap' = h
           /\ NoSwitch /\ UNCHANGED myList
  BY <1>1 DEF NoSwitch, SlotsTyped, ContextsOwned
<1>2. CASE /\ heap' = h
           /\ Raise("AssertionError") \/ Raise("FatalError")
  BY <1>2 DEF Raise, SlotsTyped, ContextsOwned, Exception
<1>3. CASE /\ \E l \in ReadyList : IsRunnable(h, l)
           /\ heap' = RemoveFirstLink(h, HighestList(h))
           /\ LET p == h.first[HighestList(h)]
              IN  IF p = activeProcess
                  THEN /\ halted' = "AssertionError"
                       /\ suspendedContext' = [suspendedContext EXCEPT ![p] = frame]
                       /\ UNCHANGED <<myList, activeProcess, frame>>
                  ELSE SwitchTo(p, myList)
  <2> DEFINE l == HighestList(h)
             p == h.first[l]
  <2>1. l \in List /\ ~ IsEmptyList(h, l)
    BY <1>3, HighestListExists, ConstantFacts DEF IsRunnable
  <2> HIDE DEF l
  <2>2. p \in Process /\ RemoveFirstLink(h, l) \in Heap(Process, List)
    BY <2>1, ConstantFacts, ListOperationsTyped DEF SlotsTyped
  <2>3. heap' \in Heap(Process, List)
    BY <1>3, <2>2 DEF l
  <2>4. CASE p = activeProcess
    <3>1. /\ halted' = "AssertionError"
          /\ suspendedContext' = [suspendedContext EXCEPT ![activeProcess] = frame]
          /\ UNCHANGED <<myList, activeProcess, frame>>
      BY <1>3, <2>4 DEF l
    <3>2. suspendedContext' \in [Process -> Context \cup {Nil}]
      BY <3>1 DEF SlotsTyped
    <3> QED  BY <2>3, <3>1, <3>2 DEF SlotsTyped, ContextsOwned, Exception, Running
  <2>5. CASE p # activeProcess
    <3>1. SwitchTo(p, myList)
      BY <1>3, <2>5 DEF l
    <3>2. myList \in [Process -> List \cup {Nil}]
      BY DEF SlotsTyped
    <3> QED  BY <2>2, <2>3, <2>5, <3>1, <3>2, SwitchToTyped
  <2> QED  BY <2>4, <2>5
<1> QED  BY <1>1, <1>2, <1>3 DEF SuspendActiveIn

LEMMA SuspendOtherTyped ==
    ASSUME SlotsTyped, ContextsOwned, Running, NEW p \in Process, SuspendOther(p)
    PROVE  SlotsTyped' /\ ContextsOwned'
<1>1. CASE UNCHANGED <<heap, myList>> /\ NoSwitch
  BY <1>1 DEF NoSwitch, SlotsTyped, ContextsOwned
<1>2. CASE UNCHANGED heap /\ Raise("WrapperException")
  BY <1>2 DEF Raise, SlotsTyped, ContextsOwned, Exception
<1>3. CASE /\ myList[p] # Nil
           /\ CanRemoveLink(heap, myList[p], p)
           /\ heap' = RemoveLink(heap, myList[p], p)
           /\ myList' = [myList EXCEPT ![p] = Nil]
           /\ NoSwitch
  <2>1. heap \in Heap(Process, List) /\ myList[p] \in List
    BY <1>3 DEF SlotsTyped
  <2>2. heap' \in Heap(Process, List)
    BY <1>3, <2>1, ConstantFacts, ListOperationsTyped
  <2>3. myList' \in [Process -> List \cup {Nil}]
    BY <1>3 DEF SlotsTyped
  <2> QED  BY <1>3, <2>2, <2>3 DEF NoSwitch, SlotsTyped, ContextsOwned
<1> QED  BY <1>1, <1>2, <1>3 DEF SuspendOther

LEMMA TypesInitially == Init => TypeOK /\ ContextsOwned
<1> SUFFICES ASSUME Init PROVE TypeOK /\ ContextsOwned
  OBVIOUS
<1>1. Initial \in Process /\ NumFrames \in Nat \ {0}
  BY ConstantsAssumption
<1>2. \A p \in Process : <<p, 1>> \in Context /\ <<p, 1>>[1] = p
  BY <1>1 DEF Context
<1>3. heap \in Heap(Process, List)
  BY EmptyHeapStores DEF Init
<1>4. TypeOK
  BY <1>1, <1>2, <1>3 DEF Init, TypeOK
<1>5. ContextsOwned
  BY <1>1, <1>2, ConstantFacts DEF Init, ContextsOwned
<1> QED  BY <1>4, <1>5

LEMMA TypesPreserved ==
    TypeOK /\ ContextsOwned /\ [Next]_vars => TypeOK' /\ ContextsOwned'
<1> SUFFICES ASSUME TypeOK, ContextsOwned, [Next]_vars
             PROVE  TypeOK' /\ ContextsOwned'
  OBVIOUS
<1>0. SlotsTyped /\ heap \in Heap(Process, List)
  BY DEF TypeOK, SlotsTyped
<1>1. ASSUME NEW s \in Semaphore, Signal(s)  PROVE TypeOK' /\ ContextsOwned'
  <2>1. excessSignals' \in [Semaphore -> Nat]
    BY <1>1 DEF Signal, SignalEffect, TypeOK
  <2>2. suppressed' \in BOOLEAN /\ stopped' \subseteq Process
    BY <1>1 DEF Signal, TypeOK
  <2>3. CASE UNCHANGED <<heap, myList>> /\ NoSwitch
    BY <2>1, <2>2, <2>3 DEF NoSwitch, TypeOK, ContextsOwned, Running
  <2>4. CASE /\ ~ IsEmptyList(heap, s)
             /\ ResumeIn(RemoveFirstLink(heap, s), heap.first[s])
    <3>1. /\ RemoveFirstLink(heap, s) \in Heap(Process, List)
          /\ heap.first[s] \in Process
      <4>1. s \in List /\ activeProcess \in Process
        BY ConstantFacts DEF TypeOK
      <4> QED  BY <1>0, <2>4, <4>1, ConstantFacts, ListOperationsTyped
    <3>2. SlotsTyped' /\ ContextsOwned'
      BY <1>0, <1>1, <2>4, <3>1, ResumeInTyped DEF Signal
    <3> QED  BY <2>1, <2>2, <3>2 DEF SlotsTyped, TypeOK
  <2> QED  BY <1>1, <2>3, <2>4 DEF Signal, SignalEffect
<1>2. ASSUME NEW s \in Semaphore, Wait(s)  PROVE TypeOK' /\ ContextsOwned'
  <2>1. excessSignals' \in [Semaphore -> Nat]
    BY <1>2 DEF Wait, TypeOK
  <2>2. suppressed' \in BOOLEAN /\ stopped' \subseteq Process
    BY <1>2 DEF Wait, TypeOK
  <2>3. CASE UNCHANGED <<heap, myList>> /\ NoSwitch
    BY <2>1, <2>2, <2>3 DEF NoSwitch, TypeOK, ContextsOwned, Running
  <2>4. CASE SuspendActiveIn(AddLastLink(heap, s, activeProcess))
    <3>1. AddLastLink(heap, s, activeProcess) \in Heap(Process, List)
      <4>1. s \in List /\ activeProcess \in Process
        BY ConstantFacts DEF TypeOK
      <4> QED  BY <1>0, <4>1, ConstantFacts, ListOperationsTyped
    <3>2. SlotsTyped' /\ ContextsOwned'
      BY <1>0, <1>2, <2>4, <3>1, SuspendActiveInTyped DEF Wait
    <3> QED  BY <2>1, <2>2, <3>2 DEF SlotsTyped, TypeOK
  <2> QED  BY <1>2, <2>3, <2>4 DEF Wait
<1>3. ASSUME NEW p \in Process, Resume(p)  PROVE TypeOK' /\ ContextsOwned'
  <2>1. SlotsTyped' /\ ContextsOwned'
    BY <1>0, <1>3, ResumeInTyped DEF Resume
  <2> QED  BY <1>3, <2>1 DEF Resume, SlotsTyped, TypeOK
<1>4. ASSUME NEW p \in Process, Suspend(p)  PROVE TypeOK' /\ ContextsOwned'
  <2>1. SlotsTyped' /\ ContextsOwned'
    BY <1>0, <1>4, SuspendOtherTyped DEF Suspend
  <2> QED  BY <1>4, <2>1 DEF Suspend, SlotsTyped, TypeOK
<1>5. ASSUME SuspendActive  PROVE TypeOK' /\ ContextsOwned'
  <2>1. SlotsTyped' /\ ContextsOwned'
    BY <1>0, <1>5, SuspendActiveInTyped DEF SuspendActive
  <2> QED  BY <1>5, <2>1 DEF SuspendActive, SlotsTyped, TypeOK
<1>6. ASSUME NEW f \in Context, Execute(f)  PROVE TypeOK' /\ ContextsOwned'
  BY <1>6 DEF Execute, TypeOK, ContextsOwned, Running
<1>7. CASE UNCHANGED vars
  BY <1>7 DEF vars, TypeOK, ContextsOwned, Running
<1> QED  BY <1>1, <1>2, <1>3, <1>4, <1>5, <1>6, <1>7 DEF Next

\* Every slot the VM writes keeps its type, whatever the image does: no switch
\* activates nil, or a process without a context.
THEOREM TypeCorrect == Spec => []TypeOK
<1>1. Init => TypeOK /\ ContextsOwned
  BY TypesInitially
<1>2. TypeOK /\ ContextsOwned /\ [Next]_vars => (TypeOK /\ ContextsOwned)'
  BY TypesPreserved
<1> QED  BY <1>1, <1>2, PTL DEF Spec

\* Contexts have one owner, whatever the image does: activate and deactivate
\* never lose or share one.
THEOREM ContextsAlwaysOwned == Spec => []ContextsOwned
<1>1. Init => TypeOK /\ ContextsOwned
  BY TypesInitially
<1>2. TypeOK /\ ContextsOwned /\ [Next]_vars => (TypeOK /\ ContextsOwned)'
  BY TypesPreserved
<1> QED  BY <1>1, <1>2, PTL DEF Spec

\* What a step does to the saved contexts: nothing, or a switch to p.
Hands(p) ==
    /\ p # activeProcess
    /\ activeProcess' = p
    /\ frame' = suspendedContext[p]
    /\ suspendedContext' =
            [suspendedContext EXCEPT ![activeProcess] = frame, ![p] = Nil]

KeepsOrHands ==
    \/ UNCHANGED <<suspendedContext, activeProcess>>
    \/ \E p \in Process : Hands(p)
    \/ UNCHANGED activeProcess /\ ~ Running'

LEMMA StepKeepsOrHands == TypeOK /\ [Next]_vars => KeepsOrHands
<1> SUFFICES ASSUME TypeOK, [Next]_vars PROVE KeepsOrHands
  OBVIOUS
<1>0. activeProcess \in Process /\ heap \in Heap(Process, List)
  BY DEF TypeOK
<1>1. ASSUME NEW h, NEW p \in Process, ResumeIn(h, p)  PROVE KeepsOrHands
  <2>1. CASE priority[p] > priority[activeProcess] /\ ~ suppressed
    <3>1. p # activeProcess
      BY <1>0, <2>1, ConstantFacts
    <3>2. SwitchTo(p, [myList EXCEPT ![activeProcess] = priority[activeProcess]])
      BY <1>0, <1>1, <2>1, ConstantFacts DEF ResumeIn
    <3> QED  BY <3>1, <3>2 DEF SwitchTo, Hands, KeepsOrHands
  <2>2. CASE ~ (priority[p] > priority[activeProcess] /\ ~ suppressed)
    BY <1>1, <2>2 DEF ResumeIn, NoSwitch, Raise, KeepsOrHands
  <2> QED  BY <2>1, <2>2
<1>2. ASSUME NEW h \in Heap(Process, List), SuspendActiveIn(h)
      PROVE  KeepsOrHands
  <2>1. CASE \E l \in ReadyList : IsRunnable(h, l)
    <3> DEFINE p == h.first[HighestList(h)]
    <3>1. p \in Process
      <4>1. HighestList(h) \in List /\ ~ IsEmptyList(h, HighestList(h))
        BY <2>1, HighestListExists, ConstantFacts DEF IsRunnable
      <4> QED  BY <4>1, <1>0, ConstantFacts, ListOperationsTyped
    <3> HIDE DEF p
    <3>2. CASE UNCHANGED <<suspendedContext, activeProcess>>
      BY <3>2 DEF KeepsOrHands
    <3>3. CASE p # activeProcess /\ SwitchTo(p, myList)
      BY <3>1, <3>3 DEF SwitchTo, Hands, KeepsOrHands
    <3>4. CASE UNCHANGED activeProcess /\ halted' = "AssertionError"
      BY <3>4 DEF KeepsOrHands, Running
    <3> QED  BY <1>2, <3>2, <3>3, <3>4 DEF SuspendActiveIn, NoSwitch, Raise, p
  <2>2. CASE ~ \E l \in ReadyList : IsRunnable(h, l)
    BY <1>2, <2>2 DEF SuspendActiveIn, NoSwitch, Raise, KeepsOrHands
  <2> QED  BY <2>1, <2>2
<1>3. ASSUME NEW s \in Semaphore, Signal(s)  PROVE KeepsOrHands
  <2>1. CASE IsEmptyList(heap, s)
    BY <1>3, <2>1 DEF Signal, SignalEffect, NoSwitch, KeepsOrHands
  <2>2. CASE ~ IsEmptyList(heap, s)
    <3>1. heap.first[s] \in Process
      BY <1>0, <2>2, ConstantFacts, ListOperationsTyped
    <3>2. ResumeIn(RemoveFirstLink(heap, s), heap.first[s])
      BY <1>3, <2>2 DEF Signal, SignalEffect
    <3> QED  BY <3>1, <3>2, <1>1
  <2> QED  BY <2>1, <2>2
<1>4. ASSUME NEW s \in Semaphore, Wait(s)  PROVE KeepsOrHands
  <2>1. CASE NoSwitch
    BY <2>1 DEF NoSwitch, KeepsOrHands
  <2>2. CASE SuspendActiveIn(AddLastLink(heap, s, activeProcess))
    <3>1. AddLastLink(heap, s, activeProcess) \in Heap(Process, List)
      BY <1>0, ConstantFacts, ListOperationsTyped
    <3> QED  BY <2>2, <3>1, <1>2
  <2> QED  BY <1>4, <2>1, <2>2 DEF Wait
<1>5. ASSUME NEW p \in Process, Resume(p)  PROVE KeepsOrHands
  BY <1>5, <1>1 DEF Resume
<1>6. ASSUME NEW p \in Process, Suspend(p)  PROVE KeepsOrHands
  BY <1>6 DEF Suspend, SuspendOther, NoSwitch, Raise, KeepsOrHands
<1>7. ASSUME SuspendActive  PROVE KeepsOrHands
  BY <1>0, <1>7, <1>2 DEF SuspendActive
<1>8. ASSUME NEW f \in Context, Execute(f)  PROVE KeepsOrHands
  BY <1>8 DEF Execute, KeepsOrHands
<1>9. CASE UNCHANGED vars
  BY <1>9 DEF vars, KeepsOrHands
<1> QED  BY <1>3, <1>4, <1>5, <1>6, <1>7, <1>8, <1>9 DEF Next

-----------------------------------------------------------------------------
(* The queues *)

\* Everyone who is in a list, when the lists hold the sequences Q.
Held(Q) == UNION {Range(Q[l]) : l \in List}

\* p alone has joined the queues Q, or has left them, which are now R.
Joined(R, Q, p) == Held(R) = Held(Q) \cup {p}
Left(R, Q, p)   == Held(R) = Held(Q) \ {p}

\* The queues of the semaphores have not changed.
SameWaiting(R, Q) == \A s \in Semaphore : R[s] = Q[s]

\* The pointers in h store the queues Q; the ready queue of a priority holds
\* processes of that priority, whose my_list (in lists) names it, and none
\* that outranks process a.
Placed(h, lists, a, Q) ==
    /\ h \in Heap(Process, List)
    /\ Stores(h, Q)
    /\ \A l \in ReadyList : \A p \in Range(Q[l]) :
          priority[p] = l /\ priority[p] <= priority[a]
    /\ lists \in [Process -> ReadyList \cup {Nil}]
    /\ \A p \in Process : \A l \in ReadyList : lists[p] = l <=> p \in Range(Q[l])

LEMMA PlacedFacts ==
    ASSUME NEW h, NEW lists, NEW a, NEW Q, Placed(h, lists, a, Q)
    PROVE  /\ DOMAIN Q = List
           /\ \A l \in List : /\ Represents(h, l, Q[l])
                              /\ Q[l] \in Seq(Process)
                              /\ Range(Q[l]) \subseteq Process
           /\ \A l, m \in List : l # m => Range(Q[l]) \cap Range(Q[m]) = {}
           /\ \A l \in List : IsEmptyList(h, l) <=> Q[l] = <<>>
           /\ \A l \in List : Q[l] = <<>> <=> Range(Q[l]) = {}
           /\ Held(Q) \subseteq Process
<1>0. h \in Heap(Process, List) /\ Stores(h, Q)
  BY DEF Placed
<1>1. DOMAIN Q = List
  BY <1>0, StoresFacts
<1>2. \A l \in List : /\ Represents(h, l, Q[l])
                      /\ Q[l] \in Seq(Process) /\ IsInjective(Q[l])
                      /\ Range(Q[l]) \subseteq Process
  BY <1>0, StoresFacts
<1>3. \A l, m \in List : l # m => Range(Q[l]) \cap Range(Q[m]) = {}
  BY <1>0, StoresFacts
<1>4. ASSUME NEW l \in List
      PROVE  /\ IsEmptyList(h, l) <=> Q[l] = <<>>
             /\ Q[l] = <<>> <=> Range(Q[l]) = {}
  <2> DEFINE q == Q[l]
  <2>1. Represents(h, l, q) /\ q \in Seq(Process) /\ IsInjective(q)
    BY <1>2
  <2> HIDE DEF q
  <2>2. /\ Len(q) \in Nat
        /\ \A i \in 1 .. Len(q) : q[i] \in Process
        /\ Range(q) = {q[i] : i \in 1 .. Len(q)}
        /\ q = <<>> <=> Len(q) = 0
    BY <2>1, SequenceFacts, EmptyIffLengthZero
  <2>3. q # <<>> => 1 \in 1 .. Len(q)
    BY <2>2
  <2>4. q = <<>> => 1 .. Len(q) = {}
    BY <2>2
  <2>5. q = <<>> <=> Range(q) = {}
    BY <2>2, <2>3, <2>4
  <2>6. IsEmptyList(h, l) <=> q = <<>>
    BY <2>1, <2>2, <2>3, ConstantFacts DEF Represents, IsEmptyList
  <2> QED  BY <2>5, <2>6 DEF q
<1>5. Held(Q) \subseteq Process
  BY <1>2 DEF Held
<1> QED  BY <1>1, <1>2, <1>3, <1>4, <1>5

LEMMA HeldMembers ==
    ASSUME NEW Q, NEW x
    PROVE  x \in Held(Q) <=> \E l \in List : x \in Range(Q[l])
BY DEF Held

LEMMA RangeOfAppend ==
    ASSUME NEW L, NEW q \in Seq(L), NEW p \in L
    PROVE  Range(Append(q, p)) = Range(q) \cup {p}
<1> DEFINE r == Append(q, p)
<1>1. /\ Len(q) \in Nat /\ DOMAIN q = 1 .. Len(q)
      /\ DOMAIN r = 1 .. Len(q) + 1 /\ r[Len(q) + 1] = p
      /\ \A i \in 1 .. Len(q) : r[i] = q[i]
  OBVIOUS
<1>2. 1 .. Len(q) + 1 = 1 .. Len(q) \cup {Len(q) + 1}
  BY <1>1
<1>3. Range(q) = {q[i] : i \in 1 .. Len(q)}
  BY <1>1 DEF Range
<1>4. Range(r) = {r[i] : i \in 1 .. Len(q) + 1}
  BY <1>1 DEF Range
<1> HIDE DEF r
<1> QED  BY <1>1, <1>2, <1>3, <1>4 DEF r

\* Being in no list, and my_list: the slot of such a process is nil.
LEMMA NotHeld ==
    ASSUME NEW h, NEW lists, NEW a, NEW Q, Placed(h, lists, a, Q),
           NEW p \in Process, p \notin Held(Q)
    PROVE  lists[p] = Nil /\ [lists EXCEPT ![p] = Nil] = lists
<1>1. \A l \in ReadyList : p \notin Range(Q[l])
  BY ConstantFacts DEF Held
<1>2. lists \in [Process -> ReadyList \cup {Nil}] /\ lists[p] = Nil
  BY <1>1 DEF Placed
<1> QED  BY <1>2

\* add_last_link of a process in no list: put_to_sleep into its ready list, or
\* wait into the list of a semaphore.
LEMMA Enqueue ==
    ASSUME NEW h, NEW lists, NEW a, NEW Q, Placed(h, lists, a, Q),
           NEW l \in List, NEW p \in Process, p \notin Held(Q)
    PROVE  LET R == [Q EXCEPT ![l] = Append(@, p)]
           IN  /\ AddLastLink(h, l, p) \in Heap(Process, List)
               /\ Stores(AddLastLink(h, l, p), R)
               /\ Range(R[l]) = Range(Q[l]) \cup {p}
               /\ \A m \in List : m # l => R[m] = Q[m]
               /\ Joined(R, Q, p)
<1> DEFINE R == [Q EXCEPT ![l] = Append(@, p)]
<1>0. h \in Heap(Process, List) /\ Stores(h, Q) /\ Nil \notin Process
  BY ConstantFacts DEF Placed
<1>1. /\ DOMAIN Q = List /\ Q[l] \in Seq(Process)
      /\ \A m \in List : p \notin Range(Q[m])
  BY PlacedFacts DEF Held
<1>2. /\ AddLastLink(h, l, p) \in Heap(Process, List)
      /\ Stores(AddLastLink(h, l, p), R)
  BY <1>0, <1>1, AddLastLinkStores
<1>3. Range(Append(Q[l], p)) = Range(Q[l]) \cup {p}
  BY <1>1, RangeOfAppend
<1>4. R[l] = Append(Q[l], p) /\ \A m \in List : m # l => R[m] = Q[m]
  BY <1>1
<1>5. Held(R) = Held(Q) \cup {p}
  <2>1. Range(R[l]) = Range(Q[l]) \cup {p}
    BY <1>3, <1>4
  <2> HIDE DEF R
  <2>2. ASSUME NEW x  PROVE x \in Held(R) <=> x \in Held(Q) \/ x = p
    BY <1>4, <2>1, HeldMembers
  <2> QED  BY <2>2
<1> QED  BY <1>2, <1>3, <1>4, <1>5 DEF Joined

LEMMA TakenLeaves ==
    ASSUME NEW h, NEW lists, NEW a, NEW Q, Placed(h, lists, a, Q),
           NEW l \in List, NEW p \in Range(Q[l]), NEW R, Taken(R, Q, List, l, p)
    PROVE  Left(R, Q, p) /\ p \in Held(Q)
<1>1. \A m \in List : m # l => p \notin Range(Q[m])
  BY PlacedFacts
<1>2. ASSUME NEW x  PROVE x \in Held(R) <=> x \in Held(Q) /\ x # p
  <2>1. \A m \in List : x \in Range(R[m]) <=> x \in Range(Q[m]) /\ x # p
    BY <1>1 DEF Taken
  <2> QED  BY <2>1, HeldMembers
<1> QED  BY <1>2, HeldMembers DEF Left

\* remove_first_link_of_list: signal and pop_highest_priority_process.
LEMMA Dequeue ==
    ASSUME NEW h, NEW lists, NEW a, NEW Q, Placed(h, lists, a, Q),
           NEW l \in List, ~ IsEmptyList(h, l)
    PROVE  LET R == [Q EXCEPT ![l] = Tail(@)]
               p == h.first[l]
           IN  /\ RemoveFirstLink(h, l) \in Heap(Process, List)
               /\ Stores(RemoveFirstLink(h, l), R)
               /\ p \in Process /\ p \in Range(Q[l])
               /\ Taken(R, Q, List, l, p)
               /\ Left(R, Q, p) /\ p \in Held(Q)
<1> DEFINE R == [Q EXCEPT ![l] = Tail(@)]
           p == h.first[l]
<1>0. h \in Heap(Process, List) /\ Stores(h, Q) /\ Nil \notin Process
  BY ConstantFacts DEF Placed
<1>1. /\ DOMAIN Q = List /\ Q[l] # <<>>
      /\ Range(Q[l]) \subseteq Process
      /\ \A m \in List : m # l => Range(Q[l]) \cap Range(Q[m]) = {}
  BY PlacedFacts
<1>2. /\ RemoveFirstLink(h, l) \in Heap(Process, List)
      /\ Stores(RemoveFirstLink(h, l), R)
  BY <1>0, <1>1, RemoveFirstLinkStores
<1>3. p = Head(Q[l]) /\ Head(Q[l]) \in Range(Q[l])
  BY <1>0, <1>1, RemoveFirstLinkStores
<1>4. Range(Tail(Q[l])) = Range(Q[l]) \ {Head(Q[l])}
  BY <1>0, <1>1, RemoveFirstLinkStores
<1>5. R[l] = Tail(Q[l]) /\ \A m \in List : m # l => R[m] = Q[m]
  BY <1>1
<1>6. Taken(R, Q, List, l, p)
  BY <1>3, <1>4, <1>5 DEF Taken
<1>7. Left(R, Q, p) /\ p \in Held(Q)
  <2>1. p \in Range(Q[l])
    BY <1>3
  <2> HIDE DEF R, p
  <2> QED  BY <2>1, <1>6, TakenLeaves
<1> QED  BY <1>1, <1>2, <1>3, <1>6, <1>7

\* put_to_sleep, while b (who may be the process that preempts a) is active.
LEMMA PutToSleepPlaced ==
    ASSUME NEW h, NEW lists, NEW a \in Process, NEW Q, Placed(h, lists, a, Q),
           NEW p \in Process, p \notin Held(Q), HasProcessList(p),
           NEW b \in Process,
           priority[a] <= priority[b], priority[p] <= priority[b],
           NEW g, g = PutToSleep(h, p),
           NEW ml, ml = [lists EXCEPT ![p] = priority[p]]
    PROVE  \E R :
              /\ Placed(g, ml, b, R)
              /\ Joined(R, Q, p)
              /\ SameWaiting(R, Q)
<1> DEFINE l == priority[p]
           R == [Q EXCEPT ![l] = Append(@, p)]
<1>1. l \in ReadyList /\ l \in List
  BY ConstantFacts DEF HasProcessList
<1>2. /\ g \in Heap(Process, List) /\ Stores(g, R)
      /\ Range(R[l]) = Range(Q[l]) \cup {p}
      /\ \A m \in List : m # l => R[m] = Q[m]
      /\ Joined(R, Q, p)
  <2>1. g = AddLastLink(h, l, p)
    BY DEF PutToSleep
  <2> HIDE DEF l
  <2>2. AddLastLink(h, l, p) \in Heap(Process, List)
    BY <1>1, Enqueue
  <2>3. Stores(g, R)
    BY <1>1, <2>1, Enqueue
  <2>4. \A m \in List : m # l => R[m] = Q[m]
    BY <1>1, Enqueue
  <2>6. Range(R[l]) = Range(Q[l]) \cup {p}
    <3>1. Q[l] \in Seq(Process) /\ R[l] = Append(Q[l], p)
      BY <1>1, PlacedFacts
    <3> QED  BY <3>1, RangeOfAppend
  <2>5. Joined(R, Q, p)
    BY <1>1, Enqueue
  <2> QED  BY <2>1, <2>2, <2>3, <2>4, <2>5, <2>6
<1>3. /\ \A x \in Process : priority[x] \in Nat
      /\ \A m \in ReadyList : Range(Q[m]) \subseteq Process /\ m \in List
  BY PlacedFacts, ConstantFacts
<1>4. /\ \A m \in ReadyList : \A x \in Range(Q[m]) :
            priority[x] = m /\ priority[x] <= priority[a]
      /\ lists \in [Process -> ReadyList \cup {Nil}]
      /\ \A x \in Process : \A m \in ReadyList :
            lists[x] = m <=> x \in Range(Q[m])
  BY DEF Placed
<1>5. \A m \in ReadyList : p \notin Range(Q[m])
  BY <1>3, HeldMembers
<1> HIDE DEF R
<1>6. ASSUME NEW m \in ReadyList, NEW x \in Range(R[m])
      PROVE  priority[x] = m /\ priority[x] <= priority[b]
  <2>1. CASE x = p
    <3>1. m = l
      BY <1>2, <1>3, <1>5, <2>1
    <3> QED  BY <2>1, <3>1
  <2>2. CASE x # p
    <3>1. x \in Range(Q[m]) /\ x \in Process
      BY <1>2, <1>3, <2>2
    <3>2. priority[x] = m /\ priority[x] <= priority[a]
      BY <3>1, <1>4
    <3> QED  BY <3>1, <3>2, <1>3
  <2> QED  BY <2>1, <2>2
<1>7. ml \in [Process -> ReadyList \cup {Nil}]
  BY <1>1, <1>4
<1>8. ASSUME NEW x \in Process, NEW m \in ReadyList
      PROVE  ml[x] = m <=> x \in Range(R[m])
  <2>1. CASE x = p
    BY <2>1, <1>1, <1>2, <1>3, <1>4, <1>5
  <2>2. CASE x # p
    <3>1. x \in Range(R[m]) <=> x \in Range(Q[m])
      BY <1>2, <1>3, <2>2
    <3>2. ml[x] = lists[x]
      BY <1>4, <2>2
    <3> QED  BY <3>1, <3>2, <1>4
  <2> QED  BY <2>1, <2>2
<1>9. Placed(g, ml, b, R)
  BY <1>2, <1>6, <1>7, <1>8 DEF Placed
<1>10. SameWaiting(R, Q)
  BY <1>1, <1>2, ConstantFacts DEF SameWaiting
<1> QED  BY <1>2, <1>9, <1>10

\* The lists after p has left the queue of its priority, for the processor
\* (b is p), or because it is suspended (b is still a).
LEMMA LeavesReadyList ==
    ASSUME NEW h, NEW lists, NEW a \in Process, NEW Q, Placed(h, lists, a, Q),
           NEW l \in ReadyList, NEW p \in Range(Q[l]), NEW b \in Process,
           \A m \in ReadyList : \A x \in Range(Q[m]) : priority[x] <= priority[b],
           NEW g, NEW R, g \in Heap(Process, List), Stores(g, R),
           Taken(R, Q, List, l, p),
           NEW ml, ml = [lists EXCEPT ![p] = Nil]
    PROVE  Placed(g, ml, b, R)
<1>1. /\ \A m \in List : Range(Q[m]) \subseteq Process
      /\ \A m \in List : m # l => p \notin Range(Q[m])
      /\ \A m \in ReadyList : m \in List /\ m # Nil
      /\ p \in Process
  BY PlacedFacts, ConstantFacts
<1>2. /\ \A m \in ReadyList : \A x \in Range(Q[m]) : priority[x] = m
      /\ lists \in [Process -> ReadyList \cup {Nil}]
      /\ \A x \in Process : \A m \in ReadyList :
            lists[x] = m <=> x \in Range(Q[m])
  BY DEF Placed
<1>3. \A m \in ReadyList : \A x : x \in Range(R[m]) <=> x \in Range(Q[m]) /\ x # p
  BY <1>1 DEF Taken
<1>4. ml \in [Process -> ReadyList \cup {Nil}]
  BY <1>2
<1>5. ASSUME NEW x \in Process, NEW m \in ReadyList
      PROVE  ml[x] = m <=> x \in Range(R[m])
  <2>1. CASE x = p
    <3>1. ml[x] = Nil /\ m # Nil
      BY <1>1, <1>2, <2>1
    <3> QED  BY <3>1, <2>1, <1>3
  <2>2. CASE x # p
    <3>1. ml[x] = lists[x]
      BY <1>2, <2>2
    <3> QED  BY <3>1, <1>2, <1>3, <2>2
  <2> QED  BY <2>1, <2>2
<1> QED  BY <1>2, <1>3, <1>4, <1>5 DEF Placed

\* Only one process may have the top priority, for which there is no list.
SingleTop ==
    \A p, q \in Process : priority[p] = NumLists /\ priority[q] = NumLists => p = q

LEMMA HasListUnlessTop ==
    ASSUME NEW p \in Process
    PROVE  HasProcessList(p) <=> priority[p] # NumLists
<1>1. NumLists \in Nat /\ priority[p] \in 1 .. NumLists
  BY ConstantsAssumption
<1> QED  BY <1>1 DEF HasProcessList, ReadyList

\* ProcessWrapper.resume of a process in no list.
LEMMA ResumeInPlaced ==
    ASSUME TypeOK, ContextsOwned, ~ suppressed, Running,
           NEW h, NEW Q, Placed(h, myList, activeProcess, Q),
           activeProcess \notin Held(Q),
           NEW p \in Process, p # activeProcess, p \notin Held(Q),
           ResumeIn(h, p)
    PROVE  /\ \E R : /\ Placed(heap', myList', activeProcess', R)
                     /\ SameWaiting(R, Q)
                     /\ Running' => Held(R) = (Held(Q) \cup {p, activeProcess})
                                                 \ {activeProcess'}
           /\ activeProcess' \in {p, activeProcess}
           /\ halted' \in {"no", "LayoutException"}
           /\ SingleTop => Running'
<1> DEFINE a == activeProcess
<1>0. /\ a \in Process /\ halted = "no"
      /\ \A x \in Process : priority[x] \in Nat
  BY ConstantFacts DEF TypeOK, Running
<1>1. CASE /\ priority[p] > priority[a]
           /\ HasProcessList(a)
           /\ heap' = PutToSleep(h, a)
           /\ SwitchTo(p, [myList EXCEPT ![a] = priority[a]])
  <2> DEFINE ml == [myList EXCEPT ![a] = priority[a]]
  <2>1. /\ priority[a] <= priority[p] /\ priority[a] <= priority[a]
        /\ heap' = PutToSleep(h, a) /\ HasProcessList(a)
    BY <1>0, <1>1
  <2>2. PICK R : /\ Placed(heap', ml, p, R)
                 /\ Joined(R, Q, a)
                 /\ SameWaiting(R, Q)
    <3>1. a \notin Held(Q) /\ Placed(h, myList, a, Q)
      OBVIOUS
    <3> QED  BY <1>0, <2>1, <3>1, PutToSleepPlaced
  <2>3. p \notin Held(R)
    BY <2>2 DEF Joined
  <2>4. [ml EXCEPT ![p] = Nil] = ml
    <3> HIDE DEF ml
    <3> QED  BY <2>2, <2>3, NotHeld
  <2>5. activeProcess' = p /\ halted' = "no" /\ myList' = ml
    BY <1>0, <1>1, <2>4 DEF SwitchTo
  <2>6. Placed(heap', myList', activeProcess', R)
    BY <2>2, <2>5
  <2>7. Held(R) = (Held(Q) \cup {p, activeProcess}) \ {activeProcess'}
    BY <2>2, <2>5 DEF Joined
  <2> QED  BY <2>2, <2>5, <2>6, <2>7 DEF Running
<1>2. CASE /\ priority[p] <= priority[a]
           /\ HasProcessList(p)
           /\ heap' = PutToSleep(h, p)
           /\ myList' = [myList EXCEPT ![p] = priority[p]]
           /\ NoSwitch
  <2>1. activeProcess' = a /\ halted' = "no" /\ priority[a] <= priority[a]
    BY <1>0, <1>2 DEF NoSwitch
  <2>2. PICK R : /\ Placed(heap', myList', a, R)
                 /\ Joined(R, Q, p)
                 /\ SameWaiting(R, Q)
    <3>1. p \notin Held(Q) /\ Placed(h, myList, a, Q)
      OBVIOUS
    <3>2. heap' = PutToSleep(h, p) /\ myList' = [myList EXCEPT ![p] = priority[p]]
      BY <1>2
    <3> HIDE DEF a
    <3> QED  BY <1>0, <1>2, <2>1, <3>1, <3>2, PutToSleepPlaced
  <2>3. Placed(heap', myList', activeProcess', R)
    BY <2>1, <2>2
  <2>4. Held(R) = (Held(Q) \cup {p, activeProcess}) \ {activeProcess'}
    BY <2>1, <2>2 DEF Joined
  <2> QED  BY <2>1, <2>2, <2>3, <2>4 DEF Running
<1>3. CASE /\ priority[p] <= priority[a]
           /\ ~ HasProcessList(p)
           /\ heap' = h
           /\ Raise("LayoutException")
  <2>1. /\ activeProcess' = a /\ myList' = myList /\ heap' = h
        /\ halted' = "LayoutException"
    BY <1>3 DEF Raise
  <2>2. Placed(heap', myList', activeProcess', Q)
    BY <2>1
  <2>3. ~ SingleTop
    <3>1. priority[p] = NumLists
      BY <1>3, HasListUnlessTop
    <3>2. NumLists \in Nat /\ priority[a] \in 1 .. NumLists
      BY <1>0, ConstantsAssumption
    <3>3. priority[a] = NumLists
      BY <1>3, <3>1, <3>2
    <3> QED  BY <1>0, <3>1, <3>3 DEF SingleTop
  <2>4. ~ Running' /\ SameWaiting(Q, Q)
    BY <2>1 DEF Running, SameWaiting
  <2> QED  BY <2>1, <2>2, <2>3, <2>4
<1>4. ~ (priority[p] > priority[a] /\ suppressed)
  OBVIOUS
<1> QED  BY <1>1, <1>2, <1>3, <1>4 DEF ResumeIn

\* ProcessWrapper.suspend of the active process, which is in no ready list:
\* the head of the highest queue takes the processor, if there is one.
LEMMA SuspendActiveInPlaced ==
    ASSUME TypeOK, ~ suppressed, Running,
           NEW h, NEW Q, Placed(h, myList, activeProcess, Q),
           \A l \in ReadyList : activeProcess \notin Range(Q[l]),
           SuspendActiveIn(h)
    PROVE  /\ \E R : /\ Placed(heap', myList', activeProcess', R)
                     /\ SameWaiting(R, Q)
                     /\ Running' => Left(R, Q, activeProcess')
                     /\ ~ Running' => \A l \in ReadyList : R[l] = <<>>
           /\ Running' => activeProcess' # activeProcess /\ activeProcess' \in Held(Q)
           /\ halted' \in {"no", "FatalError"}
<1> DEFINE a == activeProcess
<1>0. a \in Process /\ halted = "no"
  BY DEF TypeOK, Running
<1>1. myList[a] = Nil
  BY <1>0 DEF Placed
<1>2. CASE /\ \A l \in ReadyList : IsEmptyList(h, l)
           /\ heap' = h
           /\ Raise("FatalError")
  <2>1. /\ activeProcess' = a /\ myList' = myList /\ heap' = h
        /\ halted' = "FatalError"
    BY <1>2 DEF Raise
  <2>2. Placed(heap', myList', activeProcess', Q)
    BY <2>1
  <2>3. \A l \in ReadyList : Q[l] = <<>>
    BY <1>2, PlacedFacts, ConstantFacts
  <2>4. ~ Running' /\ SameWaiting(Q, Q)
    BY <2>1 DEF Running, SameWaiting
  <2> QED  BY <2>1, <2>2, <2>3, <2>4
<1>3. CASE /\ \E l \in ReadyList : IsRunnable(h, l)
           /\ heap' = RemoveFirstLink(h, HighestList(h))
           /\ LET p == h.first[HighestList(h)]
              IN  IF p = activeProcess
                  THEN /\ halted' = "AssertionError"
                       /\ suspendedContext' = [suspendedContext EXCEPT ![p] = frame]
                       /\ UNCHANGED <<myList, activeProcess, frame>>
                  ELSE SwitchTo(p, myList)
  <2> DEFINE l == HighestList(h)
             p == h.first[l]
             R == [Q EXCEPT ![l] = Tail(@)]
  <2>1. /\ l \in ReadyList /\ ~ IsEmptyList(h, l) /\ l \in List
        /\ \A m \in ReadyList : IsRunnable(h, m) => m <= l
    BY <1>3, HighestListExists, ConstantFacts DEF IsRunnable
  <2> HIDE DEF l
  <2>2. RemoveFirstLink(h, l) \in Heap(Process, List)
    BY <2>1, Dequeue
  <2>3. Stores(RemoveFirstLink(h, l), R)
    BY <2>1, Dequeue
  <2>4. p \in Process /\ p \in Range(Q[l])
    BY <2>1, Dequeue
  <2>5. Taken(R, Q, List, l, p)
    BY <2>1, Dequeue
  <2>7. Left(R, Q, p) /\ p \in Held(Q)
    BY <2>1, Dequeue
  <2>8. p # a
    BY <2>1, <2>4
  <2>9. /\ activeProcess' = p /\ halted' = "no"
        /\ myList' = [myList EXCEPT ![p] = Nil]
        /\ heap' = RemoveFirstLink(h, l)
    BY <1>0, <1>3, <2>8 DEF SwitchTo, l
  <2>10. \A m \in ReadyList : \A x \in Range(Q[m]) : priority[x] <= priority[p]
    <3> SUFFICES ASSUME NEW m \in ReadyList, NEW x \in Range(Q[m])
                 PROVE  priority[x] <= priority[p]
      OBVIOUS
    <3>1. ~ IsEmptyList(h, m)
      BY PlacedFacts, ConstantFacts
    <3>2. m <= l
      BY <2>1, <3>1 DEF IsRunnable
    <3>3. priority[x] = m /\ priority[p] = l
      BY <2>1, <2>4 DEF Placed
    <3> QED  BY <3>2, <3>3
  <2> HIDE DEF p, R
  <2>11. Placed(heap', myList', p, R)
    <3>1. Placed(h, myList, a, Q) /\ heap' \in Heap(Process, List) /\ Stores(heap', R)
      BY <2>2, <2>3, <2>9
    <3>2. myList' = [myList EXCEPT ![p] = Nil]
      BY <2>9
    <3> HIDE DEF a
    <3> QED  BY <1>0, <2>1, <2>4, <2>5, <2>10, <3>1, <3>2, LeavesReadyList
  <2>12. SameWaiting(R, Q)
    BY <2>1, <2>5, ConstantFacts DEF SameWaiting, Taken
  <2> QED  BY <2>7, <2>8, <2>9, <2>11, <2>12 DEF Running
<1> QED  BY <1>1, <1>2, <1>3, ConstantFacts DEF SuspendActiveIn

\* remove of the first or the last link of a list: suspend.
LEMMA RemoveQueueEnd ==
    ASSUME NEW h, NEW lists, NEW a, NEW Q, Placed(h, lists, a, Q),
           NEW l \in List, NEW p \in Range(Q[l]), h.first[l] = p \/ h.last[l] = p
    PROVE  /\ CanRemoveLink(h, l, p)
           /\ \E R : /\ RemoveLink(h, l, p) \in Heap(Process, List)
                     /\ Stores(RemoveLink(h, l, p), R)
                     /\ Taken(R, Q, List, l, p)
<1>0. h \in Heap(Process, List) /\ Stores(h, Q) /\ Nil \notin Process
  BY ConstantFacts DEF Placed
<1>1. /\ DOMAIN Q = List /\ Q[l] # <<>> /\ p \in Process
      /\ Represents(h, l, Q[l])
  BY PlacedFacts
<1>2. CASE h.first[l] = p
  <2> DEFINE R == [Q EXCEPT ![l] = Tail(@)]
             g == RemoveFirstLink(h, l)
  <2>1. RemoveLink(h, l, p) = g /\ CanRemoveLink(h, l, p)
    BY <1>2 DEF RemoveLink, CanRemoveLink
  <2>2. ~ IsEmptyList(h, l)
    BY <1>1, PlacedFacts
  <2>3. g \in Heap(Process, List)
    BY <2>2, Dequeue
  <2>4. Stores(g, R)
    BY <2>2, Dequeue
  <2>5. Taken(R, Q, List, l, p)
    BY <1>2, <2>2, Dequeue
  <2> HIDE DEF R, g
  <2> QED  BY <2>1, <2>3, <2>4, <2>5
<1>3. CASE h.last[l] = p
  <2> DEFINE g == RemoveLink(h, l, p)
  <2>1. p = Q[l][Len(Q[l])]
    BY <1>1, <1>3 DEF Represents
  <2>2. CanRemoveLink(h, l, p)
    BY <1>0, <1>1, <2>1, RemoveLastLinkStores
  <2>3. g \in Heap(Process, List)
    BY <1>0, <1>1, <2>1, RemoveLastLinkStores
  <2>4. \E R : Stores(g, R) /\ Taken(R, Q, List, l, p)
    BY <1>0, <1>1, <2>1, RemoveLastLinkStores
  <2> QED  BY <2>2, <2>3, <2>4
<1> QED  BY <1>2, <1>3

\* ProcessWrapper.suspend of another process, which is at the end of its list
\* or in none.
LEMMA SuspendOtherPlaced ==
    ASSUME TypeOK, Running,
           NEW Q, Placed(heap, myList, activeProcess, Q),
           NEW p \in Process, Place(p) # "inner", SuspendOther(p)
    PROVE  /\ \E R : /\ Placed(heap', myList', activeProcess', R)
                     /\ SameWaiting(R, Q)
                     /\ IF Place(p) = "blocked" THEN R = Q ELSE Left(R, Q, p)
           /\ activeProcess' = activeProcess
           /\ Running'
<1> DEFINE a == activeProcess
           l == myList[p]
<1>0. a \in Process /\ halted = "no"
  BY DEF TypeOK, Running
<1>1. CASE l = Nil
  <2>1. UNCHANGED <<heap, myList, activeProcess, halted>>
    BY <1>1 DEF SuspendOther, NoSwitch
  <2>2. Place(p) = "blocked"
    BY <1>1 DEF Place
  <2> QED  BY <1>0, <2>1, <2>2 DEF Running, SameWaiting
<1>2. CASE l # Nil
  <2>1. l \in ReadyList /\ l \in List /\ p \in Range(Q[l])
    BY <1>2, ConstantFacts DEF Placed
  <2>2. heap.first[l] = p \/ heap.last[l] = p
    BY <1>2 DEF Place
  <2> HIDE DEF l
  <2>3. CanRemoveLink(heap, l, p)
    BY <2>1, <2>2, RemoveQueueEnd
  <2>4. PICK R : /\ RemoveLink(heap, l, p) \in Heap(Process, List)
                 /\ Stores(RemoveLink(heap, l, p), R)
                 /\ Taken(R, Q, List, l, p)
    BY <2>1, <2>2, RemoveQueueEnd
  <2>5. /\ heap' = RemoveLink(heap, l, p)
        /\ myList' = [myList EXCEPT ![p] = Nil]
        /\ activeProcess' = a /\ halted' = "no"
    BY <1>0, <1>2, <2>3 DEF SuspendOther, NoSwitch, l
  <2>6. Placed(heap', myList', a, R)
    <3>1. \A m \in ReadyList : \A x \in Range(Q[m]) : priority[x] <= priority[a]
      BY DEF Placed
    <3>2. /\ Placed(heap, myList, a, Q)
          /\ heap' \in Heap(Process, List) /\ Stores(heap', R)
      BY <2>4, <2>5
    <3>3. myList' = [myList EXCEPT ![p] = Nil]
      BY <2>5
    <3> HIDE DEF a
    <3> QED  BY <1>0, <2>1, <2>4, <3>1, <3>2, <3>3, LeavesReadyList
  <2>7. Left(R, Q, p)
    BY <2>1, <2>4, TakenLeaves
  <2>8. SameWaiting(R, Q)
    BY <2>1, <2>4, ConstantFacts DEF SameWaiting, Taken
  <2>9. Place(p) # "blocked"
    BY <1>2 DEF Place, l
  <2> QED  BY <2>5, <2>6, <2>7, <2>8, <2>9 DEF Running
<1> QED  BY <1>1, <1>2

\* What wait and signal do to the list of a semaphore leaves the ready lists
\* as they are.
LEMMA SemaphorePlaced ==
    ASSUME NEW h, NEW lists, NEW a, NEW Q, Placed(h, lists, a, Q),
           NEW s \in Semaphore, NEW g \in Heap(Process, List), NEW R, Stores(g, R),
           \A m \in List : m # s => R[m] = Q[m]
    PROVE  Placed(g, lists, a, R)
<1>1. \A l \in ReadyList : R[l] = Q[l]
  BY ConstantFacts
<1> QED  BY <1>1 DEF Placed

-----------------------------------------------------------------------------
(* The inductive invariant *)

\* While the VM runs: the active process is in no list, and every other
\* process that is not held back is in one; none that is held back is, unless
\* the image suspends processes that a semaphore keeps.
RunningInv(Q) ==
    /\ activeProcess \notin Held(Q)
    /\ Process \ (stopped \cup {activeProcess}) \subseteq Held(Q)
    /\ "blocked" \notin SuspendScope =>
          stopped \cap (Held(Q) \cup {activeProcess}) = {}

QueueInv(Q) ==
    /\ ~ suppressed
    /\ Placed(heap, myList, activeProcess, Q)
    /\ \A s \in Semaphore : excessSignals[s] > 0 => Q[s] = <<>>
    /\ Running => RunningInv(Q)
    /\ halted # "AssertionError"
    /\ halted = "FatalError" => \A l \in ReadyList : Q[l] = <<>>
    /\ SingleTop => halted # "LayoutException"

\* The rules the image has to follow.
ClientRules == "inner" \notin SuspendScope /\ ~ ResumeQueued

LEMMA QueuesInitially == Init => \E Q : QueueInv(Q)
<1> SUFFICES ASSUME Init PROVE \E Q : QueueInv(Q)
  OBVIOUS
<1> DEFINE Q == [l \in List |-> <<>>]
<1>1. heap \in Heap(Process, List) /\ Stores(heap, Q)
  BY EmptyHeapStores DEF Init
<1>2. \A l \in List : Q[l] = <<>> /\ Range(Q[l]) = {}
  BY DEF Range
<1>3. Held(Q) = {}
  BY <1>2, HeldMembers
<1>4. ReadyList \subseteq List /\ Nil \notin ReadyList /\ Semaphore \subseteq List
  BY ConstantFacts
<1> HIDE DEF Q
<1>5. Placed(heap, myList, activeProcess, Q)
  BY <1>1, <1>2, <1>4 DEF Init, Placed
<1>6. RunningInv(Q)
  BY <1>3 DEF Init, RunningInv
<1> QED  BY <1>2, <1>4, <1>5, <1>6 DEF Init, QueueInv

LEMMA SignalKeepsQueues ==
    ASSUME TypeOK, ContextsOwned, NEW Q, QueueInv(Q),
           NEW s \in Semaphore, Signal(s)
    PROVE  \E R : QueueInv(R)'
<1>0. /\ ~ suppressed /\ Running /\ halted = "no" /\ RunningInv(Q)
      /\ Placed(heap, myList, activeProcess, Q)
      /\ suppressed' = suppressed /\ stopped' = stopped
      /\ s \in List
  BY ConstantFacts DEF QueueInv, Signal, Running
<1>1. CASE IsEmptyList(heap, s)
  <2>1. /\ excessSignals' = [excessSignals EXCEPT ![s] = @ + 1]
        /\ UNCHANGED <<heap, myList, activeProcess, halted>>
    BY <1>1 DEF Signal, SignalEffect, NoSwitch
  <2>2. Q[s] = <<>>
    BY <1>0, <1>1, PlacedFacts
  <2>3. \A t \in Semaphore : excessSignals'[t] > 0 => Q[t] = <<>>
    BY <2>1, <2>2 DEF QueueInv, TypeOK
  <2>4. QueueInv(Q)'
    BY <1>0, <2>1, <2>3 DEF QueueInv, RunningInv, Running
  <2> QED  BY <2>4
<1>2. CASE ~ IsEmptyList(heap, s)
  <2> DEFINE p == heap.first[s]
             g == RemoveFirstLink(heap, s)
             Q1 == [Q EXCEPT ![s] = Tail(@)]
  <2>1. ResumeIn(g, p) /\ excessSignals' = excessSignals
    BY <1>2 DEF Signal, SignalEffect
  <2>2. g \in Heap(Process, List)
    BY <1>0, <1>2, Dequeue
  <2>3. Stores(g, Q1)
    BY <1>0, <1>2, Dequeue
  <2>4. /\ p \in Process /\ Taken(Q1, Q, List, s, p)
        /\ Left(Q1, Q, p) /\ p \in Held(Q)
    BY <1>0, <1>2, Dequeue
  <2>5. Q[s] # <<>>
    BY <1>0, <1>2, PlacedFacts
  <2> HIDE DEF p, g, Q1
  <2>6. Placed(g, myList, activeProcess, Q1)
    BY <1>0, <2>2, <2>3, <2>4, SemaphorePlaced DEF Taken
  <2>7. /\ p # activeProcess /\ p \notin Held(Q1) /\ activeProcess \notin Held(Q1)
    BY <1>0, <2>4 DEF RunningInv, Left
  <2>8. PICK R : /\ Placed(heap', myList', activeProcess', R)
                 /\ SameWaiting(R, Q1)
                 /\ Running' => Held(R) = (Held(Q1) \cup {p, activeProcess})
                                             \ {activeProcess'}
    BY <1>0, <2>1, <2>4, <2>6, <2>7, ResumeInPlaced
  <2>9. /\ activeProcess' \in {p, activeProcess}
        /\ halted' \in {"no", "LayoutException"}
        /\ SingleTop => Running'
    BY <1>0, <2>1, <2>4, <2>6, <2>7, ResumeInPlaced
  <2>10. \A t \in Semaphore : excessSignals'[t] > 0 => R[t] = <<>>
    <3> SUFFICES ASSUME NEW t \in Semaphore, excessSignals[t] > 0
                 PROVE  R[t] = <<>>
      BY <2>1
    <3>1. Q[t] = <<>>
      BY DEF QueueInv
    <3>2. Q1[t] = Q[t]
      BY <2>4, <2>5, <3>1, ConstantFacts DEF Taken
    <3> QED  BY <2>8, <3>1, <3>2 DEF SameWaiting
  <2>11. Running' => RunningInv(R)'
    BY <1>0, <2>4, <2>8, <2>9 DEF RunningInv, Left
  <2>12. QueueInv(R)'
    BY <1>0, <2>8, <2>9, <2>10, <2>11 DEF QueueInv, Running
  <2> QED  BY <2>12
<1> QED  BY <1>1, <1>2

LEMMA WaitKeepsQueues ==
    ASSUME TypeOK, NEW Q, QueueInv(Q), NEW s \in Semaphore, Wait(s)
    PROVE  \E R : QueueInv(R)'
<1>0. /\ ~ suppressed /\ Running /\ halted = "no" /\ RunningInv(Q)
      /\ Placed(heap, myList, activeProcess, Q)
      /\ suppressed' = suppressed /\ stopped' = stopped
      /\ s \in List /\ activeProcess \in Process
  BY ConstantFacts DEF QueueInv, Wait, Running, TypeOK
<1>1. CASE excessSignals[s] > 0
  <2>1. /\ excessSignals' = [excessSignals EXCEPT ![s] = @ - 1]
        /\ UNCHANGED <<heap, myList, activeProcess, halted>>
    BY <1>1 DEF Wait, NoSwitch
  <2>2. \A t \in Semaphore : excessSignals'[t] > 0 => Q[t] = <<>>
    BY <1>1, <2>1 DEF QueueInv, TypeOK
  <2>3. QueueInv(Q)'
    BY <1>0, <2>1, <2>2 DEF QueueInv, RunningInv, Running
  <2> QED  BY <2>3
<1>2. CASE ~ (excessSignals[s] > 0)
  <2> DEFINE a == activeProcess
             g == AddLastLink(heap, s, a)
             Q1 == [Q EXCEPT ![s] = Append(@, a)]
  <2>1. SuspendActiveIn(g) /\ excessSignals' = excessSignals
    BY <1>2 DEF Wait
  <2>2. a \notin Held(Q)
    BY <1>0 DEF RunningInv
  <2>3. g \in Heap(Process, List)
    BY <1>0, <2>2, Enqueue
  <2>4. Stores(g, Q1)
    BY <1>0, <2>2, Enqueue
  <2>5. Joined(Q1, Q, a)
    BY <1>0, <2>2, Enqueue
  <2>6. \A m \in List : m # s => Q1[m] = Q[m]
    BY <1>0, <2>2, Enqueue
  <2> HIDE DEF g, Q1
  <2>7. Placed(g, myList, a, Q1)
    BY <1>0, <2>3, <2>4, <2>6, SemaphorePlaced
  <2>8. \A l \in ReadyList : a \notin Range(Q1[l])
    <3>1. \A l \in ReadyList : l \in List /\ l # s
      BY ConstantFacts
    <3> QED  BY <2>2, <2>6, <3>1, HeldMembers
  <2>9. PICK R : /\ Placed(heap', myList', activeProcess', R)
                 /\ SameWaiting(R, Q1)
                 /\ Running' => Left(R, Q1, activeProcess')
                 /\ ~ Running' => \A l \in ReadyList : R[l] = <<>>
    BY <1>0, <2>1, <2>7, <2>8, SuspendActiveInPlaced
  <2>10. /\ Running' => activeProcess' # a /\ activeProcess' \in Held(Q1)
         /\ halted' \in {"no", "FatalError"}
    BY <1>0, <2>1, <2>7, <2>8, SuspendActiveInPlaced
  <2>11. \A t \in Semaphore : excessSignals'[t] > 0 => R[t] = <<>>
    <3> SUFFICES ASSUME NEW t \in Semaphore, excessSignals[t] > 0
                 PROVE  R[t] = <<>>
      BY <2>1
    <3>1. Q[t] = <<>> /\ t # s
      BY <1>2 DEF QueueInv
    <3>2. Q1[t] = Q[t]
      BY <2>6, <3>1, ConstantFacts
    <3> QED  BY <2>9, <3>1, <3>2 DEF SameWaiting
  <2>12. Running' => RunningInv(R)'
    BY <1>0, <2>5, <2>9, <2>10 DEF RunningInv, Left, Joined
  <2>13. QueueInv(R)'
    BY <1>0, <2>9, <2>10, <2>11, <2>12 DEF QueueInv, Running
  <2> QED  BY <2>13
<1> QED  BY <1>1, <1>2

LEMMA WalkVisitsQueue ==
    ASSUME NEW h, NEW lists, NEW a, NEW Q, Placed(h, lists, a, Q), NEW l \in List
    PROVE  Links(h, l) = Range(Q[l])
<1>1. h \in Heap(Process, List) /\ Nil \notin Process
  BY ConstantFacts DEF Placed
<1>2. Represents(h, l, Q[l])
  BY PlacedFacts
<1> QED  BY <1>1, <1>2, WalkVisitsSequence

LEMMA ResumeKeepsQueues ==
    ASSUME TypeOK, ContextsOwned, ClientRules, NEW Q, QueueInv(Q),
           NEW p \in Process, Resume(p)
    PROVE  \E R : QueueInv(R)'
<1>0. /\ ~ suppressed /\ Running /\ halted = "no" /\ RunningInv(Q)
      /\ Placed(heap, myList, activeProcess, Q)
      /\ suppressed' = suppressed /\ stopped' = stopped \ {p}
      /\ excessSignals' = excessSignals /\ activeProcess \in Process
      /\ ResumeIn(heap, p)
  BY DEF QueueInv, Resume, Running, TypeOK
<1>1. p # activeProcess /\ ~ IsQueued(p)
  BY DEF Resume, ClientRules
<1>2. p \notin Held(Q) /\ activeProcess \notin Held(Q)
  <2>1. \A l \in List : p \notin Range(Q[l])
    BY <1>0, <1>1, WalkVisitsQueue DEF IsQueued
  <2> QED  BY <1>0, <2>1, HeldMembers DEF RunningInv
<1>3. PICK R : /\ Placed(heap', myList', activeProcess', R)
               /\ SameWaiting(R, Q)
               /\ Running' => Held(R) = (Held(Q) \cup {p, activeProcess})
                                           \ {activeProcess'}
  BY <1>0, <1>1, <1>2, ResumeInPlaced
<1>4. /\ activeProcess' \in {p, activeProcess}
      /\ halted' \in {"no", "LayoutException"}
      /\ SingleTop => Running'
  BY <1>0, <1>1, <1>2, ResumeInPlaced
<1>5. \A t \in Semaphore : excessSignals'[t] > 0 => R[t] = <<>>
  BY <1>0, <1>3 DEF SameWaiting, QueueInv
<1>6. Running' => RunningInv(R)'
  BY <1>0, <1>2, <1>3, <1>4 DEF RunningInv
<1>7. QueueInv(R)'
  BY <1>0, <1>3, <1>4, <1>5, <1>6 DEF QueueInv, Running
<1> QED  BY <1>7

LEMMA SuspendActiveKeepsQueues ==
    ASSUME TypeOK, NEW Q, QueueInv(Q), SuspendActive
    PROVE  \E R : QueueInv(R)'
<1>0. /\ ~ suppressed /\ Running /\ halted = "no" /\ RunningInv(Q)
      /\ Placed(heap, myList, activeProcess, Q)
      /\ suppressed' = suppressed /\ stopped' = stopped \cup {activeProcess}
      /\ excessSignals' = excessSignals /\ activeProcess \in Process
      /\ SuspendActiveIn(heap)
  BY DEF QueueInv, SuspendActive, Running, TypeOK
<1>1. \A l \in ReadyList : activeProcess \notin Range(Q[l])
  <2>1. ReadyList \subseteq List
    BY ConstantFacts
  <2> QED  BY <1>0, <2>1, HeldMembers DEF RunningInv
<1>2. PICK R : /\ Placed(heap', myList', activeProcess', R)
               /\ SameWaiting(R, Q)
               /\ Running' => Left(R, Q, activeProcess')
               /\ ~ Running' => \A l \in ReadyList : R[l] = <<>>
  BY <1>0, <1>1, SuspendActiveInPlaced
<1>3. /\ Running' => /\ activeProcess' # activeProcess
                     /\ activeProcess' \in Held(Q)
      /\ halted' \in {"no", "FatalError"}
  BY <1>0, <1>1, SuspendActiveInPlaced
<1>4. \A t \in Semaphore : excessSignals'[t] > 0 => R[t] = <<>>
  BY <1>0, <1>2 DEF SameWaiting, QueueInv
<1>5. Running' => RunningInv(R)'
  BY <1>0, <1>2, <1>3 DEF RunningInv, Left
<1>6. QueueInv(R)'
  BY <1>0, <1>2, <1>3, <1>4, <1>5 DEF QueueInv, Running
<1> QED  BY <1>6

LEMMA SuspendKeepsQueues ==
    ASSUME TypeOK, ClientRules, NEW Q, QueueInv(Q), NEW p \in Process, Suspend(p)
    PROVE  \E R : QueueInv(R)'
<1>0. /\ ~ suppressed /\ Running /\ halted = "no" /\ RunningInv(Q)
      /\ Placed(heap, myList, activeProcess, Q)
      /\ suppressed' = suppressed /\ stopped' = stopped \cup {p}
      /\ excessSignals' = excessSignals /\ p # activeProcess
      /\ SuspendOther(p) /\ Place(p) \in SuspendScope /\ Place(p) # "inner"
  BY DEF QueueInv, Suspend, Running, ClientRules
<1>1. PICK R : /\ Placed(heap', myList', activeProcess', R)
               /\ SameWaiting(R, Q)
               /\ IF Place(p) = "blocked" THEN R = Q ELSE Left(R, Q, p)
  BY <1>0, SuspendOtherPlaced
<1>2. activeProcess' = activeProcess /\ Running'
  BY <1>0, SuspendOtherPlaced
<1>3. \A t \in Semaphore : excessSignals'[t] > 0 => R[t] = <<>>
  BY <1>0, <1>1 DEF SameWaiting, QueueInv
<1>4. RunningInv(R)'
  <2>1. CASE Place(p) = "blocked"
    BY <1>0, <1>1, <1>2, <2>1 DEF RunningInv
  <2>2. CASE Place(p) # "blocked"
    BY <1>0, <1>1, <1>2, <2>2 DEF RunningInv, Left
  <2> QED  BY <2>1, <2>2
<1>5. QueueInv(R)'
  BY <1>0, <1>1, <1>2, <1>3, <1>4 DEF QueueInv, Running
<1> QED  BY <1>5

IInv == TypeOK /\ ContextsOwned /\ \E Q : QueueInv(Q)

LEMMA QueuesPreserved ==
    ASSUME ClientRules
    PROVE  IInv /\ [Next]_vars => IInv'
<1> SUFFICES ASSUME IInv, [Next]_vars PROVE IInv'
  OBVIOUS
<1>1. TypeOK /\ ContextsOwned
  BY DEF IInv
<1>2. TypeOK' /\ ContextsOwned'
  BY <1>1, TypesPreserved
<1>3. PICK Q : QueueInv(Q)
  BY DEF IInv
<1>4. \E R : QueueInv(R)'
  <2>1. ASSUME NEW s \in Semaphore, Signal(s)  PROVE \E R : QueueInv(R)'
    BY <1>1, <1>3, <2>1, SignalKeepsQueues
  <2>2. ASSUME NEW s \in Semaphore, Wait(s)  PROVE \E R : QueueInv(R)'
    BY <1>1, <1>3, <2>2, WaitKeepsQueues
  <2>3. ASSUME NEW p \in Process, Resume(p)  PROVE \E R : QueueInv(R)'
    BY <1>1, <1>3, <2>3, ResumeKeepsQueues
  <2>4. ASSUME NEW p \in Process, Suspend(p)  PROVE \E R : QueueInv(R)'
    BY <1>1, <1>3, <2>4, SuspendKeepsQueues
  <2>5. ASSUME SuspendActive  PROVE \E R : QueueInv(R)'
    BY <1>1, <1>3, <2>5, SuspendActiveKeepsQueues
  <2>6. ASSUME NEW f \in Context, Execute(f)  PROVE \E R : QueueInv(R)'
    <3>1. QueueInv(Q)'
      BY <1>3, <2>6 DEF Execute, QueueInv, RunningInv, Running
    <3> QED  BY <3>1
  <2>7. CASE UNCHANGED vars
    <3>1. QueueInv(Q)'
      BY <1>3, <2>7 DEF vars, QueueInv, RunningInv, Running
    <3> QED  BY <3>1
  <2> QED  BY <2>1, <2>2, <2>3, <2>4, <2>5, <2>6, <2>7 DEF Next
<1> QED  BY <1>2, <1>4 DEF IInv

\* The queues are what they should be in every state.
THEOREM QueuesInvariant ==
    ASSUME ClientRules
    PROVE  Spec => []IInv
<1>1. Init => IInv
  BY TypesInitially, QueuesInitially DEF IInv
<1>2. IInv /\ [Next]_vars => IInv'
  BY QueuesPreserved
<1> QED  BY <1>1, <1>2, PTL DEF Spec

LEMMA InvariantMeaning ==
    ASSUME IInv
    PROVE  /\ ListsWellFormed
           /\ ListsDisjoint
           /\ ActiveInNoList
           /\ NoProcessLost
           /\ PriorityRespected
           /\ NoWastedSignal
           /\ AssertionsHold
           /\ FatalMeansNoRunnable
           /\ SingleTop => TopPriorityNeverQueued
           /\ "blocked" \notin SuspendScope => SuspendedStaysOut
<1>1. PICK Q : QueueInv(Q)
  BY DEF IInv
<1>2. Placed(heap, myList, activeProcess, Q) /\ TypeOK
  BY <1>1 DEF QueueInv, IInv
<1>3. \A l \in List : Links(heap, l) = Range(Q[l])
  BY <1>2, WalkVisitsQueue
<1>4. \A l \in List : QueuedIn(l) = Range(Q[l])
  BY <1>3 DEF QueuedIn
<1>5. \A p : IsQueued(p) <=> p \in Held(Q)
  BY <1>3, HeldMembers DEF IsQueued
<1>6. ReadyList \subseteq List /\ Semaphore \subseteq List /\ Nil \notin ReadyList
  BY ConstantFacts
<1>7. ListsWellFormed
  <2> SUFFICES ASSUME NEW l \in List PROVE WellFormedList(heap, l)
    BY DEF ListsWellFormed
  <2> DEFINE q == Q[l]
  <2>1. Represents(heap, l, q) /\ q \in Seq(Process) /\ Links(heap, l) = Range(q)
    BY <1>2, <1>3, PlacedFacts
  <2> HIDE DEF q
  <2>2. CASE q = <<>>
    BY <2>1, <2>2 DEF Represents, WellFormedList
  <2>3. CASE q # <<>>
    <3>1. Len(q) \in DOMAIN q
      BY <2>1, <2>3
    <3>2. q[Len(q)] \in Range(q)
      BY <3>1 DEF Range
    <3> QED  BY <2>1, <2>3, <3>2 DEF Represents, WellFormedList
  <2> QED  BY <2>2, <2>3
<1>8. ListsDisjoint
  BY <1>2, <1>4, PlacedFacts DEF ListsDisjoint
<1>9. ActiveInNoList
  BY <1>1, <1>4, HeldMembers DEF QueueInv, RunningInv, ActiveInNoList
<1>10. NoProcessLost
  <2> SUFFICES ASSUME Running, NEW p \in Process \ (stopped \cup {activeProcess})
               PROVE  \/ myList[p] = Nil /\ \E s \in Semaphore : p \in QueuedIn(s)
                      \/ myList[p] = priority[p] /\ p \in QueuedIn(myList[p])
    BY DEF NoProcessLost
  <2>1. p \in Held(Q)
    BY <1>1 DEF QueueInv, RunningInv
  <2>2. PICK l \in List : p \in Range(Q[l])
    BY <2>1, HeldMembers
  <2>3. CASE l \in ReadyList
    <3>1. myList[p] = l /\ priority[p] = l
      BY <1>2, <2>2, <2>3 DEF Placed
    <3> QED  BY <1>4, <2>2, <3>1
  <2>4. CASE l \in Semaphore
    <3>1. \A m \in ReadyList : p \notin Range(Q[m])
      BY <1>2, <1>6, <2>2, <2>4, PlacedFacts, ConstantFacts
    <3>2. myList[p] = Nil
      BY <1>2, <3>1 DEF Placed
    <3> QED  BY <1>4, <2>2, <2>4, <3>2
  <2> QED  BY <2>3, <2>4 DEF List
<1>11. PriorityRespected
  BY <1>2, <1>4, <1>6 DEF Placed, PriorityRespected
<1>12. NoWastedSignal
  <2> SUFFICES ASSUME NEW s \in Semaphore, excessSignals[s] > 0
               PROVE  QueuedIn(s) = {}
    BY DEF NoWastedSignal
  <2>1. Q[s] = <<>>
    BY <1>1 DEF QueueInv
  <2>2. Range(Q[s]) = {}
    BY <1>2, <1>6, <2>1, PlacedFacts
  <2> QED  BY <1>4, <1>6, <2>2
<1>13. AssertionsHold
  BY <1>1 DEF QueueInv, AssertionsHold
<1>14. FatalMeansNoRunnable
  <2> SUFFICES ASSUME halted = "FatalError", NEW p \in Process
               PROVE  myList[p] = Nil
    BY DEF FatalMeansNoRunnable
  <2>1. \A l \in ReadyList : Q[l] = <<>> /\ Range(Q[l]) = {}
    BY <1>1, <1>2, <1>6, PlacedFacts DEF QueueInv
  <2> QED  BY <1>2, <2>1 DEF Placed
<1>15. SingleTop => TopPriorityNeverQueued
  BY <1>1 DEF QueueInv, TopPriorityNeverQueued
<1>16. "blocked" \notin SuspendScope => SuspendedStaysOut
  BY <1>1, <1>5 DEF QueueInv, RunningInv, SuspendedStaysOut
<1> QED  BY <1>7, <1>8, <1>9, <1>10, <1>11, <1>12, <1>13, <1>14, <1>15, <1>16

-----------------------------------------------------------------------------
(* What the invariant means for the image, as long as it suspends no process  *)
(* from the middle of a list and resumes none that is in one.                 *)

\* Every list stays a chain that ends at its last_link: no add_last_link
\* loses a process, no walk runs forever.
THEOREM ListsStayWellFormed ==
    ASSUME ClientRules
    PROVE  Spec => []ListsWellFormed
<1>1. IInv => ListsWellFormed
  BY InvariantMeaning
<1> QED  BY <1>1, QueuesInvariant, PTL

\* No process is ever in two lists.
THEOREM ListsStayDisjoint ==
    ASSUME ClientRules
    PROVE  Spec => []ListsDisjoint
<1>1. IInv => ListsDisjoint
  BY InvariantMeaning
<1> QED  BY <1>1, QueuesInvariant, PTL

\* The process that runs is in no list: activate is only called with a
\* process that has left its own.
THEOREM ActiveStaysOutOfLists ==
    ASSUME ClientRules
    PROVE  Spec => []ActiveInNoList
<1>1. IInv => ActiveInNoList
  BY InvariantMeaning
<1> QED  BY <1>1, QueuesInvariant, PTL

\* The three together: ready processes and waiting ones are in separate chains.
THEOREM ListsStaySound ==
    ASSUME ClientRules
    PROVE  Spec => []ListsSound
<1>1. IInv => ListsSound
  BY InvariantMeaning DEF ListsSound
<1> QED  BY <1>1, QueuesInvariant, PTL

\* No process that should run or wait vanishes from the lists.
THEOREM NoProcessIsLost ==
    ASSUME ClientRules
    PROVE  Spec => []NoProcessLost
<1>1. IInv => NoProcessLost
  BY InvariantMeaning
<1> QED  BY <1>1, QueuesInvariant, PTL

\* The active process is never outranked by one that is ready.
THEOREM PriorityIsRespected ==
    ASSUME ClientRules
    PROVE  Spec => []PriorityRespected
<1>1. IInv => PriorityRespected
  BY InvariantMeaning
<1> QED  BY <1>1, QueuesInvariant, PTL

\* No semaphore has both excess signals and processes that wait.
THEOREM NoSignalIsWasted ==
    ASSUME ClientRules
    PROVE  Spec => []NoWastedSignal
<1>1. IInv => NoWastedSignal
  BY InvariantMeaning
<1> QED  BY <1>1, QueuesInvariant, PTL

\* The assertions of activate and suspend never fail.
THEOREM AssertionsAlwaysHold ==
    ASSUME ClientRules
    PROVE  Spec => []AssertionsHold
<1>1. IInv => AssertionsHold
  BY InvariantMeaning
<1> QED  BY <1>1, QueuesInvariant, PTL

\* The VM gives up only when no process is ready.
THEOREM FatalErrorIsJustified ==
    ASSUME ClientRules
    PROVE  Spec => []FatalMeansNoRunnable
<1>1. IInv => FatalMeansNoRunnable
  BY InvariantMeaning
<1> QED  BY <1>1, QueuesInvariant, PTL

\* If only one process has the top priority, which has no list, the missing
\* list is never asked for.
THEOREM TopPriorityNeedsNoList ==
    ASSUME ClientRules, SingleTop
    PROVE  Spec => []TopPriorityNeverQueued
<1>1. IInv => TopPriorityNeverQueued
  BY InvariantMeaning
<1> QED  BY <1>1, QueuesInvariant, PTL

\* A single process of the top priority: the scheduler then fails only for lack of
\* a ready process.
THEOREM FailuresAreJustified ==
    ASSUME ClientRules, SingleTop
    PROVE  Spec => []FailuresJustified
<1>1. IInv => FailuresJustified
  BY InvariantMeaning DEF FailuresJustified
<1> QED  BY <1>1, QueuesInvariant, PTL

\* If the image also suspends no process that a semaphore keeps, a suspended
\* process stays out of the lists and off the processor until it is resumed.
THEOREM SuspendedStayOut ==
    ASSUME ClientRules, "blocked" \notin SuspendScope
    PROVE  Spec => []SuspendedStaysOut
<1>1. IInv => SuspendedStaysOut
  BY InvariantMeaning
<1> QED  BY <1>1, QueuesInvariant, PTL

-----------------------------------------------------------------------------
(* The scheduler of pointers implements the scheduler of queues, for any     *)
(* number of processes, semaphores and priorities, if the image follows the   *)
(* client rules and one process at most has the top priority.                *)

-----------------------------------------------------------------------------
(* The sequence that a list holds is LinkSeq.                                *)

\* Links at distinct places are as many as there are places.
LEMMA LinksCounted ==
    ASSUME NEW L, NEW q \in Seq(L), IsInjective(q)
    PROVE  Cardinality(Range(q)) = Len(q) /\ q \in [1 .. Len(q) -> Range(q)]
<1>1. /\ Len(q) \in Nat
      /\ \A i, j \in 1 .. Len(q) : q[i] = q[j] => i = j
      /\ Range(q) = {q[i] : i \in 1 .. Len(q)}
  BY SequenceFacts
<1>2. q \in [1 .. Len(q) -> Range(q)]
  BY <1>1
<1>3. q \in Bijection(1 .. Len(q), Range(q))
  BY <1>1, <1>2 DEF Bijection, Injection, Surjection
<1>4. ExistsBijection(1 .. Len(q), Range(q))
  BY <1>3 DEF ExistsBijection
<1>5. IsFiniteSet(1 .. Len(q)) /\ Cardinality(1 .. Len(q)) = Len(q)
  <2>1. 1 \in Int /\ Len(q) \in Int
    BY <1>1
  <2>2. /\ IsFiniteSet(1 .. Len(q))
        /\ Cardinality(1 .. Len(q)) = IF 1 > Len(q) THEN 0 ELSE Len(q) - 1 + 1
    BY <2>1, FS_Interval
  <2> QED  BY <1>1, <2>2
<1> QED  BY <1>2, <1>4, <1>5, FS_Bijection

\* The pointers of a list determine the sequence: the places where two of them
\* agree are closed under next_link.
LEMMA OneSequence ==
    ASSUME NEW h \in Heap(Process, List), NEW l \in List,
           NEW q, NEW r, Represents(h, l, q), Represents(h, l, r), Len(q) = Len(r)
    PROVE  q = r
<1>1. /\ DOMAIN h.next = Process /\ Nil \notin Process
      /\ q \in Seq(Process) /\ r \in Seq(Process) /\ IsInjective(q)
  BY ConstantFacts DEF Heap, Represents
<1>2. /\ Len(q) \in Nat
      /\ \A i \in 1 .. Len(q) : q[i] \in Process
      /\ \A i, j \in 1 .. Len(q) : q[i] = q[j] => i = j
      /\ Range(q) = {q[i] : i \in 1 .. Len(q)}
  BY <1>1, SequenceFacts
<1>3. q = <<>> <=> Len(q) = 0
  BY <1>1
<1>4. r = <<>> <=> Len(r) = 0
  BY <1>1
<1> DEFINE S == {q[i] : i \in {j \in 1 .. Len(q) : q[j] = r[j]}}
<1>5. S \in SUBSET Process
  BY <1>2
<1>6. h.first[l] \in S \cup {Nil}
  <2>1. CASE q = <<>>
    BY <2>1 DEF Represents
  <2>2. CASE q # <<>>
    <3>1. 1 \in 1 .. Len(q) /\ q[1] = h.first[l] /\ r[1] = h.first[l]
      BY <1>2, <1>3, <1>4, <2>2 DEF Represents
    <3> QED  BY <3>1
  <2> QED  BY <2>1, <2>2
<1>7. ASSUME NEW x \in S  PROVE h.next[x] \in S \cup {Nil}
  <2>1. PICK i \in 1 .. Len(q) : q[i] = r[i] /\ x = q[i]
    OBVIOUS
  <2>2. CASE i = Len(q)
    <3>1. q # <<>>
      BY <1>2, <1>3
    <3> QED  BY <2>1, <2>2, <3>1 DEF Represents
  <2>3. CASE i # Len(q)
    <3>1. i \in 1 .. Len(q) - 1 /\ i + 1 \in 1 .. Len(q)
      BY <1>2, <2>3
    <3>2. h.next[x] = q[i + 1] /\ h.next[x] = r[i + 1]
      BY <2>1, <3>1 DEF Represents
    <3> QED  BY <3>1, <3>2
  <2> QED  BY <2>2, <2>3
<1>8. Range(q) \subseteq S
  <2>1. Links(h, l) = Range(q)
    BY <1>1, WalkVisitsSequence
  <2>2. \A T \in SUBSET Process :
            h.first[l] \in T \cup {Nil} /\ (\A x \in T : h.next[x] \in T \cup {Nil})
              => Links(h, l) \subseteq T
    BY <1>1 DEF Links
  <2> HIDE DEF S
  <2>3. Links(h, l) \subseteq S
    BY <1>5, <1>6, <1>7, <2>2
  <2> QED  BY <2>1, <2>3
<1>9. ASSUME NEW j \in 1 .. Len(q)  PROVE q[j] = r[j]
  <2>1. q[j] \in S
    BY <1>2, <1>8
  <2>2. PICK i \in 1 .. Len(q) : q[i] = r[i] /\ q[j] = q[i]
    BY <2>1
  <2> QED  BY <1>2, <2>2
<1> QED  BY <1>1, <1>2, <1>9

\* LinkSeq reads that sequence.
LEMMA LinkSeqIs ==
    ASSUME NEW h \in Heap(Process, List), NEW l \in List, NEW q, Represents(h, l, q)
    PROVE  LinkSeq(h, l) = q
<1>1. Nil \notin Process /\ q \in Seq(Process) /\ IsInjective(q)
  BY ConstantFacts DEF Heap, Represents
<1>2. Links(h, l) = Range(q)
  BY <1>1, WalkVisitsSequence
<1>3. Cardinality(Range(q)) = Len(q) /\ q \in [1 .. Len(q) -> Range(q)]
  BY <1>1, LinksCounted
<1> DEFINE r == CHOOSE p \in [1 .. Len(q) -> Range(q)] : Represents(h, l, p)
<1>4. LinkSeq(h, l) = r
  BY <1>2, <1>3 DEF LinkSeq
<1>5. r \in [1 .. Len(q) -> Range(q)] /\ Represents(h, l, r)
  BY <1>3
<1> HIDE DEF r
<1>6. Len(r) = Len(q)
  <2>1. DOMAIN r = 1 .. Len(q) /\ Len(q) \in Nat
    BY <1>1, <1>5
  <2>2. r \in Seq(Process)
    BY <1>5 DEF Represents, Heap
  <2>3. DOMAIN r = 1 .. Len(r) /\ Len(r) \in Nat
    BY <2>2
  <2> QED  BY <2>1, <2>3
<1> QED  BY <1>4, <1>5, <1>6, OneSequence

\* What the image sees of the lists of a heap.
Ready(h)   == [l \in ReadyList |-> LinkSeq(h, l)]
Waiting(h) == [s \in Semaphore |-> LinkSeq(h, s)]

\* The refinement reads off the pointers the queues that the invariant names.
LEMMA QueuesAre ==
    ASSUME NEW h \in Heap(Process, List), NEW Q, Stores(h, Q)
    PROVE  /\ \A l \in List : LinkSeq(h, l) = Q[l]
           /\ Ready(h) = [l \in ReadyList |-> Q[l]]
           /\ Waiting(h) = [s \in Semaphore |-> Q[s]]
<1>1. \A l \in List : LinkSeq(h, l) = Q[l]
  BY StoresFacts, LinkSeqIs
<1>2. ReadyList \subseteq List /\ Semaphore \subseteq List
  BY ConstantFacts
<1> QED  BY <1>1, <1>2 DEF Ready, Waiting

\* One list has changed.
LEMMA OneQueueChanges ==
    ASSUME NEW h \in Heap(Process, List), NEW Q, Stores(h, Q),
           NEW g \in Heap(Process, List), NEW R, Stores(g, R),
           NEW l \in List, \A m \in List : m # l => R[m] = Q[m]
    PROVE  /\ l \in ReadyList => /\ Ready(g) = [Ready(h) EXCEPT ![l] = R[l]]
                                 /\ Waiting(g) = Waiting(h)
           /\ l \in Semaphore => /\ Waiting(g) = [Waiting(h) EXCEPT ![l] = R[l]]
                                 /\ Ready(g) = Ready(h)
<1>1. /\ Ready(h) = [m \in ReadyList |-> Q[m]] /\ Waiting(h) = [s \in Semaphore |-> Q[s]]
      /\ Ready(g) = [m \in ReadyList |-> R[m]] /\ Waiting(g) = [s \in Semaphore |-> R[s]]
  BY QueuesAre
<1>2. /\ ReadyList \subseteq List /\ Semaphore \subseteq List
      /\ Semaphore \cap ReadyList = {}
  BY ConstantFacts
<1>3. ASSUME l \in ReadyList
      PROVE  Ready(g) = [Ready(h) EXCEPT ![l] = R[l]] /\ Waiting(g) = Waiting(h)
  BY <1>1, <1>2, <1>3
<1>4. ASSUME l \in Semaphore
      PROVE  Waiting(g) = [Waiting(h) EXCEPT ![l] = R[l]] /\ Ready(g) = Ready(h)
  BY <1>1, <1>2, <1>4
<1> QED  BY <1>3, <1>4

-----------------------------------------------------------------------------
(* The operations on the lists.                                              *)

\* add_last_link appends to one queue.
LEMMA Appends ==
    ASSUME NEW h, NEW lists, NEW a, NEW Q, Placed(h, lists, a, Q),
           NEW l \in List, NEW p \in Process, p \notin Held(Q)
    PROVE  LET g == AddLastLink(h, l, p)
           IN  /\ l \in ReadyList => /\ Ready(g) = [Ready(h) EXCEPT ![l] = Append(@, p)]
                                    /\ Waiting(g) = Waiting(h)
               /\ l \in Semaphore => /\ Waiting(g) = [Waiting(h) EXCEPT ![l] = Append(@, p)]
                                    /\ Ready(g) = Ready(h)
<1> DEFINE g == AddLastLink(h, l, p)
           R == [Q EXCEPT ![l] = Append(@, p)]
<1>0. h \in Heap(Process, List) /\ Stores(h, Q)
  BY DEF Placed
<1>1. h \in Heap(Process, List) /\ Stores(h, Q) /\ DOMAIN Q = List
  BY <1>0, PlacedFacts
<1>2. g \in Heap(Process, List)
  BY Enqueue
<1>3. Stores(g, R)
  BY Enqueue
<1>4. R[l] = Append(Q[l], p) /\ \A m \in List : m # l => R[m] = Q[m]
  BY <1>1
<1>5. Q[l] = LinkSeq(h, l)
  BY <1>1, QueuesAre
<1>6. /\ l \in ReadyList => Ready(h)[l] = LinkSeq(h, l)
      /\ l \in Semaphore => Waiting(h)[l] = LinkSeq(h, l)
  BY DEF Ready, Waiting
<1> HIDE DEF g, R
<1>7. /\ l \in ReadyList => /\ Ready(g) = [Ready(h) EXCEPT ![l] = R[l]]
                            /\ Waiting(g) = Waiting(h)
      /\ l \in Semaphore => /\ Waiting(g) = [Waiting(h) EXCEPT ![l] = R[l]]
                            /\ Ready(g) = Ready(h)
  BY <1>1, <1>2, <1>3, <1>4, OneQueueChanges
<1> QED  BY <1>4, <1>5, <1>6, <1>7 DEF g

\* remove_first_link_of_list takes the head of one queue.
LEMMA TakesHead ==
    ASSUME NEW h, NEW lists, NEW a, NEW Q, Placed(h, lists, a, Q),
           NEW l \in List, ~ IsEmptyList(h, l)
    PROVE  LET g == RemoveFirstLink(h, l)
           IN  /\ LinkSeq(h, l) # <<>> /\ h.first[l] = Head(LinkSeq(h, l))
               /\ l \in ReadyList => /\ Ready(g) = [Ready(h) EXCEPT ![l] = Tail(@)]
                                    /\ Waiting(g) = Waiting(h)
               /\ l \in Semaphore => /\ Waiting(g) = [Waiting(h) EXCEPT ![l] = Tail(@)]
                                    /\ Ready(g) = Ready(h)
<1> DEFINE g == RemoveFirstLink(h, l)
           R == [Q EXCEPT ![l] = Tail(@)]
<1>0. h \in Heap(Process, List) /\ Stores(h, Q)
  BY DEF Placed
<1>1. /\ h \in Heap(Process, List) /\ Stores(h, Q)
      /\ DOMAIN Q = List /\ Q[l] # <<>> /\ Nil \notin Process
  BY <1>0, PlacedFacts, ConstantFacts
<1>2. g \in Heap(Process, List)
  BY Dequeue
<1>3. Stores(g, R)
  BY Dequeue
<1>4. R[l] = Tail(Q[l]) /\ \A m \in List : m # l => R[m] = Q[m]
  BY <1>1
<1>5. Q[l] = LinkSeq(h, l)
  BY <1>1, QueuesAre
<1>6. /\ l \in ReadyList => Ready(h)[l] = LinkSeq(h, l)
      /\ l \in Semaphore => Waiting(h)[l] = LinkSeq(h, l)
  BY DEF Ready, Waiting
<1>7. h.first[l] = Head(Q[l])
  <2>1. Represents(h, l, Q[l])
    BY PlacedFacts
  <2> QED  BY <1>1, <2>1 DEF Represents
<1> HIDE DEF g, R
<1>8. /\ l \in ReadyList => /\ Ready(g) = [Ready(h) EXCEPT ![l] = R[l]]
                            /\ Waiting(g) = Waiting(h)
      /\ l \in Semaphore => /\ Waiting(g) = [Waiting(h) EXCEPT ![l] = R[l]]
                            /\ Ready(g) = Ready(h)
  BY <1>1, <1>2, <1>3, <1>4, OneQueueChanges
<1> QED  BY <1>1, <1>4, <1>5, <1>6, <1>7, <1>8 DEF g

\* The sequence q without its i-th element.
Without(q, i) == SubSeq(q, 1, i - 1) \o SubSeq(q, i + 1, Len(q))

\* Taking out the first or the last element leaves the others.
LEMMA WithoutEnds ==
    ASSUME NEW L, NEW q \in Seq(L), q # <<>>
    PROVE  Without(q, 1) = Tail(q) /\ Without(q, Len(q)) = SubSeq(q, 1, Len(q) - 1)
BY DEF Without

\* A process is taken out at an end of its ready list.
LEMMA TakesEnd ==
    ASSUME NEW h, NEW lists, NEW a, NEW Q, Placed(h, lists, a, Q),
           NEW l \in ReadyList, NEW p \in Range(Q[l]), h.first[l] = p \/ h.last[l] = p
    PROVE  LET g == RemoveLink(h, l, p)
           IN  /\ CanRemoveLink(h, l, p)
               /\ \E i \in 1 .. Len(Ready(h)[l]) :
                     /\ Ready(h)[l][i] = p
                     /\ Ready(g) = [Ready(h) EXCEPT ![l] = Without(@, i)]
               /\ Waiting(g) = Waiting(h)
<1> DEFINE g == RemoveLink(h, l, p)
           q == Q[l]
           n == Len(q)
<1>0. h \in Heap(Process, List) /\ Stores(h, Q)
  BY DEF Placed
<1>1. /\ h \in Heap(Process, List) /\ Stores(h, Q) /\ DOMAIN Q = List
      /\ l \in List /\ Nil \notin Process
  BY <1>0, PlacedFacts, ConstantFacts
<1>2. Represents(h, l, q) /\ q \in Seq(Process) /\ q # <<>>
  BY <1>1, PlacedFacts
<1>3. Ready(h)[l] = q
  BY <1>1, QueuesAre DEF Ready
<1>4. CanRemoveLink(h, l, p)
  BY <1>1, RemoveQueueEnd
<1>5. CASE h.first[l] = p
  <2>1. ~ IsEmptyList(h, l) /\ g = RemoveFirstLink(h, l)
    BY <1>1, <1>2, <1>5, PlacedFacts DEF RemoveLink
  <2>2. /\ Ready(g) = [Ready(h) EXCEPT ![l] = Tail(@)]
        /\ Waiting(g) = Waiting(h)
    BY <1>1, <2>1, TakesHead
  <2>3. 1 \in 1 .. Len(q) /\ q[1] = p
    BY <1>2, <1>5 DEF Represents
  <2>4. Tail(q) = Without(q, 1)
    BY <1>2, WithoutEnds
  <2> HIDE DEF g, q
  <2>5. [Ready(h) EXCEPT ![l] = Tail(@)] = [Ready(h) EXCEPT ![l] = Without(@, 1)]
    BY <1>3, <2>4
  <2>6. CanRemoveLink(h, l, p) /\ Waiting(g) = Waiting(h)
        /\ Ready(g) = [Ready(h) EXCEPT ![l] = Without(@, 1)]
    BY <1>4, <2>2, <2>5
  <2> QED  BY <1>3, <2>3, <2>6 DEF g
<1>6. CASE h.first[l] # p
  <2>1. h.last[l] = p /\ q[n] = p /\ q[1] # p
    BY <1>2, <1>6 DEF Represents
  <2>2. n \in 2 .. Len(q) /\ n \in 1 .. Len(q)
    BY <1>2, <2>1
  <2> DEFINE r == SubSeq(q, 1, n - 1)
  <2>3. g \in Heap(Process, List)
    BY <1>1, <1>2, <2>1, <2>2, RemoveInnerLinkTruncates
  <2>4. Represents(g, l, r)
    BY <1>1, <1>2, <2>1, <2>2, RemoveInnerLinkTruncates
  <2>5. PICK R : Stores(g, R) /\ Taken(R, Q, List, l, p)
    BY <1>1, RemoveQueueEnd
  <2>6. R[l] = r
    <3>1. LinkSeq(g, l) = r
      BY <1>1, <2>3, <2>4, LinkSeqIs
    <3>2. LinkSeq(g, l) = R[l]
      BY <1>1, <2>3, <2>5, QueuesAre
    <3> QED  BY <3>1, <3>2
  <2>7. r = Without(q, n)
    BY <1>2, WithoutEnds
  <2> HIDE DEF g, q, n, r
  <2>8. Ready(g) = [Ready(h) EXCEPT ![l] = R[l]] /\ Waiting(g) = Waiting(h)
    BY <1>1, <2>3, <2>5, OneQueueChanges DEF Taken
  <2>9. Ready(g) = [Ready(h) EXCEPT ![l] = Without(@, n)]
    BY <1>3, <2>6, <2>7, <2>8
  <2> QED  BY <1>3, <1>4, <2>1, <2>2, <2>8, <2>9 DEF g
<1> QED  BY <1>5, <1>6

-----------------------------------------------------------------------------
(* The steps.                                                                *)

\* The view of the heap that the refinement takes.
LEMMA QueuesView ==
    /\ Queues!ReadyList = ReadyList /\ Queues!Context = Context
BY DEF Queues!ReadyList, ReadyList, Queues!Context, Context

\* ProcessWrapper.resume makes a process ready.
LEMMA ResumeMakesReady ==
    ASSUME TypeOK, ~ suppressed, Running, SingleTop,
           NEW h, NEW Q, Placed(h, myList, activeProcess, Q), Ready(h) = Ready(heap),
           activeProcess \notin Held(Q),
           NEW p \in Process, p # activeProcess, p \notin Held(Q), ResumeIn(h, p)
    PROVE  Queues!MakeReady(p) /\ Waiting(heap') = Waiting(h)
<1> DEFINE a == activeProcess
<1>0. /\ a \in Process /\ halted = "no"
      /\ \A x \in Process : priority[x] \in Nat
      /\ ReadyList \subseteq List
  BY ConstantFacts DEF TypeOK, Running
<1>1. CASE /\ priority[p] > priority[a]
           /\ HasProcessList(a)
           /\ heap' = PutToSleep(h, a)
           /\ SwitchTo(p, [myList EXCEPT ![a] = priority[a]])
  <2>1. heap' = AddLastLink(h, priority[a], a) /\ priority[a] \in ReadyList
    BY <1>1 DEF PutToSleep, HasProcessList
  <2>2. /\ Ready(heap') = [Ready(h) EXCEPT ![priority[a]] = Append(@, a)]
        /\ Waiting(heap') = Waiting(h)
    <3> DEFINE l == priority[a]
    <3>1. l \in List /\ l \in ReadyList /\ heap' = AddLastLink(h, l, a) /\ a \notin Held(Q)
      BY <1>0, <2>1
    <3> HIDE DEF l
    <3>2. /\ Ready(heap') = [Ready(h) EXCEPT ![l] = Append(@, a)]
          /\ Waiting(heap') = Waiting(h)
      BY <1>0, <3>1, Appends
    <3> QED  BY <3>2 DEF l
  <2>3. /\ activeProcess' = p /\ frame' = suspendedContext[p] /\ halted' = halted
        /\ suspendedContext' = [suspendedContext EXCEPT ![activeProcess] = frame, ![p] = Nil]
    BY <1>1 DEF SwitchTo
  <2>4. Queues!Dispatch(p)
    BY <2>3 DEF Queues!Dispatch
  <2>5. Ready(heap)' = [Ready(heap) EXCEPT ![priority[a]] = Append(@, a)]
    BY <2>2
  <2>6. Queues!MakeReady(p)
    BY <1>1, <2>4, <2>5 DEF Queues!MakeReady, Queues!Enqueued, Ready
  <2> QED  BY <2>2, <2>6
<1>2. CASE /\ priority[p] <= priority[a]
           /\ HasProcessList(p)
           /\ heap' = PutToSleep(h, p)
           /\ NoSwitch
  <2>1. heap' = AddLastLink(h, priority[p], p) /\ priority[p] \in ReadyList
    BY <1>2 DEF PutToSleep, HasProcessList
  <2>2. /\ Ready(heap') = [Ready(h) EXCEPT ![priority[p]] = Append(@, p)]
        /\ Waiting(heap') = Waiting(h)
    <3> DEFINE l == priority[p]
    <3>1. l \in List /\ l \in ReadyList /\ heap' = AddLastLink(h, l, p) /\ p \notin Held(Q)
      BY <1>0, <2>1
    <3> HIDE DEF l
    <3>2. /\ Ready(heap') = [Ready(h) EXCEPT ![l] = Append(@, p)]
          /\ Waiting(heap') = Waiting(h)
      BY <1>0, <3>1, Appends
    <3> QED  BY <3>2 DEF l
  <2>3. Queues!KeepProcessor
    BY <1>2 DEF Queues!KeepProcessor, NoSwitch
  <2>4. Ready(heap)' = [Ready(heap) EXCEPT ![priority[p]] = Append(@, p)]
    BY <2>2
  <2>5. Queues!MakeReady(p)
    BY <1>2, <2>3, <2>4 DEF Queues!MakeReady, Queues!Enqueued, Ready
  <2> QED  BY <2>2, <2>5
<1>3. ~ (priority[p] <= priority[a] /\ ~ HasProcessList(p))
  <2> SUFFICES ASSUME priority[p] <= priority[a], ~ HasProcessList(p)  PROVE FALSE
    OBVIOUS
  <2>1. priority[p] = NumLists
    BY HasListUnlessTop
  <2>2. NumLists \in Nat /\ priority[a] \in 1 .. NumLists
    BY <1>0, ConstantsAssumption
  <2>3. priority[a] = NumLists
    BY <2>1, <2>2
  <2> QED  BY <1>0, <2>1, <2>3 DEF SingleTop
<1> QED  BY <1>1, <1>2, <1>3 DEF ResumeIn

\* ProcessWrapper.suspend of the active process gives up the processor.
LEMMA SuspendActiveGivesUp ==
    ASSUME TypeOK, ~ suppressed, Running,
           NEW h, NEW Q, Placed(h, myList, activeProcess, Q), Ready(h) = Ready(heap),
           \A l \in ReadyList : activeProcess \notin Range(Q[l]),
           SuspendActiveIn(h)
    PROVE  Queues!GiveUpProcessor /\ Waiting(heap') = Waiting(h)
<1> DEFINE a == activeProcess
<1>0. /\ a \in Process /\ halted = "no" /\ h \in Heap(Process, List) /\ Stores(h, Q)
      /\ myList[a] = Nil
  BY DEF TypeOK, Running, Placed
<1>1. /\ \A l \in ReadyList : IsEmptyList(h, l) <=> Ready(heap)[l] = <<>>
      /\ \A l \in ReadyList : Ready(heap)[l] = LinkSeq(h, l)
      /\ ReadyList \subseteq List /\ ReadyList \subseteq Nat
  <2>1. \A l \in List : LinkSeq(h, l) = Q[l]
    BY <1>0, QueuesAre
  <2>2. \A l \in List : IsEmptyList(h, l) <=> Q[l] = <<>>
    BY PlacedFacts
  <2>3. \A l \in ReadyList : Ready(heap)[l] = LinkSeq(h, l)
    BY DEF Ready
  <2> QED  BY <2>1, <2>2, <2>3, ConstantFacts
<1>2. CASE /\ \A l \in ReadyList : IsEmptyList(h, l)
           /\ heap' = h
           /\ Raise("FatalError")
  <2>1. \A l \in ReadyList : Ready(heap)[l] = <<>>
    BY <1>1, <1>2
  <2>2. /\ activeProcess' = activeProcess /\ frame' = frame /\ halted' = "FatalError"
        /\ suspendedContext' = suspendedContext /\ Ready(heap)' = Ready(heap)
        /\ Waiting(heap') = Waiting(h)
    BY <1>2 DEF Raise
  <2>3. Queues!GiveUpProcessor
    BY <2>1, <2>2, QueuesView DEF Queues!GiveUpProcessor, Ready
  <2> QED  BY <2>2, <2>3
<1>3. CASE /\ \E l \in ReadyList : IsRunnable(h, l)
           /\ heap' = RemoveFirstLink(h, HighestList(h))
           /\ LET p == h.first[HighestList(h)]
              IN  IF p = activeProcess
                  THEN /\ halted' = "AssertionError"
                       /\ suspendedContext' = [suspendedContext EXCEPT ![p] = frame]
                       /\ UNCHANGED <<myList, activeProcess, frame>>
                  ELSE SwitchTo(p, myList)
  <2> DEFINE l == HighestList(h)
             p == h.first[l]
  <2>1. /\ l \in ReadyList /\ ~ IsEmptyList(h, l) /\ l \in List
        /\ \A m \in ReadyList : IsRunnable(h, m) => m <= l
    BY <1>3, HighestListExists, ConstantFacts DEF IsRunnable
  <2> HIDE DEF l
  <2>2. p \in Range(Q[l])
    BY <2>1, Dequeue
  <2>3. p # a
    BY <2>1, <2>2
  <2>4. /\ activeProcess' = p /\ frame' = suspendedContext[p] /\ halted' = halted
        /\ suspendedContext' = [suspendedContext EXCEPT ![activeProcess] = frame, ![p] = Nil]
        /\ heap' = RemoveFirstLink(h, l)
    BY <1>3, <2>3 DEF SwitchTo, l
  <2>5. /\ p = Head(Ready(heap)[l]) /\ Ready(heap)[l] # <<>>
        /\ Ready(heap') = [Ready(h) EXCEPT ![l] = Tail(@)]
        /\ Waiting(heap') = Waiting(h)
    BY <1>1, <2>1, <2>4, TakesHead
  <2> HIDE DEF p
  <2>6. Queues!Dispatch(p)
    BY <2>4 DEF Queues!Dispatch
  <2>7. \A m \in ReadyList : m > l => Ready(heap)[m] = <<>>
    <3> SUFFICES ASSUME NEW m \in ReadyList, m > l, Ready(heap)[m] # <<>>  PROVE FALSE
      OBVIOUS
    <3>1. m <= l
      BY <1>1, <2>1 DEF IsRunnable
    <3> QED  BY <1>1, <2>1, <3>1
  <2>8. Ready(heap)' = [Ready(heap) EXCEPT ![l] = Tail(@)]
    BY <2>5
  <2>9. Queues!GiveUpProcessor
    <3>1. \E k \in ReadyList :
             /\ Ready(heap)[k] # <<>>
             /\ \A m \in ReadyList : m > k => Ready(heap)[m] = <<>>
             /\ Ready(heap)' = [Ready(heap) EXCEPT ![k] = Tail(@)]
             /\ Queues!Dispatch(Head(Ready(heap)[k]))
      BY <2>1, <2>5, <2>6, <2>7, <2>8
    <3> QED  BY <3>1, QueuesView DEF Queues!GiveUpProcessor, Ready
  <2> QED  BY <2>5, <2>9
<1> QED  BY <1>0, <1>2, <1>3, ConstantFacts DEF SuspendActiveIn

\* Primitive signal: an excess signal, or the first waiting process resumed.
LEMMA SignalRefines ==
    ASSUME TypeOK, SingleTop, NEW Q, QueueInv(Q), NEW s \in Semaphore, Signal(s)
    PROVE  Queues!Signal(s)
<1>0. /\ ~ suppressed /\ Running /\ RunningInv(Q)
      /\ Placed(heap, myList, activeProcess, Q)
      /\ heap \in Heap(Process, List) /\ Stores(heap, Q)
      /\ stopped' = stopped /\ s \in List
  BY ConstantFacts DEF QueueInv, Signal, Placed
<1>1. Q[s] = LinkSeq(heap, s) /\ Waiting(heap)[s] = LinkSeq(heap, s)
  BY <1>0, QueuesAre DEF Waiting
<1>2. CASE IsEmptyList(heap, s)
  <2>1. /\ excessSignals' = [excessSignals EXCEPT ![s] = @ + 1]
        /\ heap' = heap /\ NoSwitch
    BY <1>2 DEF Signal, SignalEffect
  <2>2. Waiting(heap)[s] = <<>>
    BY <1>0, <1>1, <1>2, PlacedFacts
  <2>3. Queues!KeepProcessor
    BY <2>1 DEF Queues!KeepProcessor, NoSwitch
  <2>4. Ready(heap)' = Ready(heap) /\ Waiting(heap)' = Waiting(heap)
    BY <2>1
  <2> QED  BY <1>0, <2>1, <2>2, <2>3, <2>4 DEF Queues!Signal, Ready, Waiting
<1>3. CASE ~ IsEmptyList(heap, s)
  <2> DEFINE p == heap.first[s]
             g == RemoveFirstLink(heap, s)
             Q1 == [Q EXCEPT ![s] = Tail(@)]
  <2>1. ResumeIn(g, p) /\ excessSignals' = excessSignals
    BY <1>3 DEF Signal, SignalEffect
  <2>2. g \in Heap(Process, List)
    BY <1>0, <1>3, Dequeue
  <2>3. Stores(g, Q1)
    BY <1>0, <1>3, Dequeue
  <2>4. /\ p \in Process /\ Taken(Q1, Q, List, s, p)
        /\ Left(Q1, Q, p) /\ p \in Held(Q)
    BY <1>0, <1>3, Dequeue
  <2>5. /\ p = Head(Waiting(heap)[s]) /\ Waiting(heap)[s] # <<>>
        /\ Waiting(g) = [Waiting(heap) EXCEPT ![s] = Tail(@)]
        /\ Ready(g) = Ready(heap)
    BY <1>0, <1>1, <1>3, TakesHead
  <2> HIDE DEF p, g, Q1
  <2>6. Placed(g, myList, activeProcess, Q1)
    BY <1>0, <2>2, <2>3, <2>4, SemaphorePlaced DEF Taken
  <2>7. /\ p # activeProcess /\ p \notin Held(Q1) /\ activeProcess \notin Held(Q1)
    BY <1>0, <2>4 DEF RunningInv, Left
  <2>8. Queues!MakeReady(p) /\ Waiting(heap') = Waiting(g)
    BY <1>0, <2>1, <2>4, <2>5, <2>6, <2>7, ResumeMakesReady
  <2>9. Waiting(heap)' = [Waiting(heap) EXCEPT ![s] = Tail(@)]
    BY <2>5, <2>8
  <2> QED  BY <1>0, <2>1, <2>5, <2>8, <2>9 DEF Queues!Signal, Waiting
<1> QED  BY <1>2, <1>3

\* Primitive wait: an excess signal is consumed, or the active process queued.
LEMMA WaitRefines ==
    ASSUME TypeOK, NEW Q, QueueInv(Q), NEW s \in Semaphore, Wait(s)
    PROVE  Queues!Wait(s)
<1>0. /\ ~ suppressed /\ Running /\ RunningInv(Q)
      /\ Placed(heap, myList, activeProcess, Q)
      /\ stopped' = stopped /\ s \in List /\ activeProcess \in Process
  BY ConstantFacts DEF QueueInv, Wait, TypeOK
<1>1. CASE excessSignals[s] > 0
  <2>1. /\ excessSignals' = [excessSignals EXCEPT ![s] = @ - 1]
        /\ heap' = heap /\ NoSwitch
    BY <1>1 DEF Wait
  <2>2. Queues!KeepProcessor
    BY <2>1 DEF Queues!KeepProcessor, NoSwitch
  <2>3. Ready(heap)' = Ready(heap) /\ Waiting(heap)' = Waiting(heap)
    BY <2>1
  <2> QED  BY <1>0, <1>1, <2>1, <2>2, <2>3 DEF Queues!Wait, Ready, Waiting
<1>2. CASE ~ (excessSignals[s] > 0)
  <2> DEFINE a == activeProcess
             g == AddLastLink(heap, s, a)
             Q1 == [Q EXCEPT ![s] = Append(@, a)]
  <2>1. SuspendActiveIn(g) /\ excessSignals' = excessSignals /\ excessSignals[s] = 0
    BY <1>2 DEF Wait
  <2>2. a \notin Held(Q)
    BY <1>0 DEF RunningInv
  <2>3. g \in Heap(Process, List)
    BY <1>0, <2>2, Enqueue
  <2>4. Stores(g, Q1)
    BY <1>0, <2>2, Enqueue
  <2>5. \A m \in List : m # s => Q1[m] = Q[m]
    BY <1>0, <2>2, Enqueue
  <2>6. /\ Waiting(g) = [Waiting(heap) EXCEPT ![s] = Append(@, a)]
        /\ Ready(g) = Ready(heap)
    BY <1>0, <2>2, Appends
  <2> HIDE DEF g, Q1
  <2>7. Placed(g, myList, a, Q1)
    BY <1>0, <2>3, <2>4, <2>5, SemaphorePlaced
  <2>8. \A l \in ReadyList : a \notin Range(Q1[l])
    <3>1. \A l \in ReadyList : l \in List /\ l # s
      BY ConstantFacts
    <3> QED  BY <2>2, <2>5, <3>1, HeldMembers
  <2>9. Queues!GiveUpProcessor /\ Waiting(heap') = Waiting(g)
    BY <1>0, <2>1, <2>6, <2>7, <2>8, SuspendActiveGivesUp
  <2>10. Waiting(heap)' = [Waiting(heap) EXCEPT ![s] = Append(@, a)]
    BY <2>6, <2>9
  <2> QED  BY <1>0, <2>1, <2>9, <2>10 DEF Queues!Wait, Waiting
<1> QED  BY <1>1, <1>2

\* Primitive resume.
LEMMA ResumeRefines ==
    ASSUME TypeOK, ClientRules, SingleTop, NEW Q, QueueInv(Q),
           NEW p \in Process, Resume(p)
    PROVE  Queues!Resume(p)
<1>0. /\ ~ suppressed /\ Running /\ RunningInv(Q)
      /\ Placed(heap, myList, activeProcess, Q)
      /\ p \in stopped /\ stopped' = stopped \ {p} /\ excessSignals' = excessSignals
      /\ ResumeIn(heap, p)
  BY DEF QueueInv, Resume
<1>1. p # activeProcess /\ ~ IsQueued(p)
  BY DEF Resume, ClientRules
<1>2. p \notin Held(Q) /\ activeProcess \notin Held(Q)
  <2>1. \A l \in List : p \notin Range(Q[l])
    BY <1>0, <1>1, WalkVisitsQueue DEF IsQueued
  <2> QED  BY <1>0, <2>1, HeldMembers DEF RunningInv
<1>3. Queues!MakeReady(p) /\ Waiting(heap') = Waiting(heap)
  BY <1>0, <1>1, <1>2, ResumeMakesReady
<1>4. Waiting(heap)' = Waiting(heap)
  BY <1>3
<1> QED  BY <1>0, <1>3, <1>4 DEF Queues!Resume, Waiting

\* Primitive suspend of the active process.
LEMMA SuspendActiveRefines ==
    ASSUME TypeOK, NEW Q, QueueInv(Q), SuspendActive
    PROVE  Queues!SuspendActive
<1>0. /\ ~ suppressed /\ Running /\ RunningInv(Q)
      /\ Placed(heap, myList, activeProcess, Q)
      /\ stopped' = stopped \cup {activeProcess} /\ excessSignals' = excessSignals
      /\ SuspendActiveIn(heap)
  BY DEF QueueInv, SuspendActive
<1>1. \A l \in ReadyList : activeProcess \notin Range(Q[l])
  <2>1. ReadyList \subseteq List
    BY ConstantFacts
  <2> QED  BY <1>0, <2>1, HeldMembers DEF RunningInv
<1>2. Queues!GiveUpProcessor /\ Waiting(heap') = Waiting(heap)
  BY <1>0, <1>1, SuspendActiveGivesUp
<1>3. Waiting(heap)' = Waiting(heap)
  BY <1>2
<1> QED  BY <1>0, <1>2, <1>3 DEF Queues!SuspendActive, Waiting

\* Primitive suspend of a process that waits for a semaphore or is ready.
LEMMA SuspendRefines ==
    ASSUME TypeOK, ClientRules, NEW Q, QueueInv(Q), NEW p \in Process, Suspend(p)
    PROVE  Queues!Suspend(p)
<1>0. /\ RunningInv(Q) /\ Placed(heap, myList, activeProcess, Q)
      /\ heap \in Heap(Process, List) /\ Stores(heap, Q)
      /\ myList \in [Process -> ReadyList \cup {Nil}]
      /\ \A l \in ReadyList : myList[p] = l <=> p \in Range(Q[l])
      /\ stopped' = stopped \cup {p} /\ excessSignals' = excessSignals
      /\ p # activeProcess /\ p \notin stopped
      /\ SuspendOther(p) /\ Place(p) # "inner"
  BY DEF QueueInv, Suspend, ClientRules, Placed
<1>1. CASE myList[p] = Nil
  <2>1. heap' = heap /\ NoSwitch
    BY <1>0, <1>1 DEF SuspendOther, NoSwitch
  <2>2. p \in Held(Q)
    BY <1>0 DEF RunningInv
  <2>3. PICK s \in Semaphore : p \in Range(Q[s])
    <3>1. PICK l \in List : p \in Range(Q[l])
      BY <2>2, HeldMembers
    <3>2. l \notin ReadyList
      BY <1>0, <1>1, <3>1, ConstantFacts
    <3> QED  BY <3>1, <3>2 DEF List
  <2>4. p \in Queues!Range(Waiting(heap)[s])
    <3>1. Waiting(heap)[s] = Q[s]
      BY <1>0, QueuesAre, ConstantFacts DEF Waiting
    <3> QED  BY <2>3, <3>1 DEF Range, Queues!Range
  <2>5. Queues!KeepProcessor
    BY <2>1 DEF Queues!KeepProcessor, NoSwitch
  <2>6. Ready(heap)' = Ready(heap) /\ Waiting(heap)' = Waiting(heap)
    BY <2>1
  <2> QED  BY <1>0, <2>4, <2>5, <2>6 DEF Queues!Suspend, Ready, Waiting
<1>2. CASE myList[p] # Nil
  <2> DEFINE l == myList[p]
             g == RemoveLink(heap, l, p)
  <2>1. l \in ReadyList /\ p \in Range(Q[l])
    BY <1>0, <1>2
  <2>2. heap.first[l] = p \/ heap.last[l] = p
    BY <1>0, <1>2 DEF Place
  <2> HIDE DEF l
  <2>3. CanRemoveLink(heap, l, p) /\ Waiting(g) = Waiting(heap)
    BY <1>0, <2>1, <2>2, TakesEnd
  <2>4. PICK i \in 1 .. Len(Ready(heap)[l]) :
            /\ Ready(heap)[l][i] = p
            /\ Ready(g) = [Ready(heap) EXCEPT ![l] = Without(@, i)]
    <3>1. Placed(heap, myList, activeProcess, Q)
      BY <1>0
    <3> QED  BY <2>1, <2>2, <3>1, TakesEnd
  <2>5. heap' = g /\ NoSwitch
    BY <1>0, <1>2, <2>3 DEF SuspendOther, NoSwitch, l
  <2>6. Queues!KeepProcessor
    BY <2>5 DEF Queues!KeepProcessor, NoSwitch
  <2> HIDE DEF g
  <2>7. /\ Ready(heap)' = [Ready(heap) EXCEPT ![l] = Without(@, i)]
        /\ Waiting(heap)' = Waiting(heap)
    BY <2>3, <2>4, <2>5
  <2> QED
    BY <1>0, <2>1, <2>4, <2>6, <2>7, QueuesView DEF Queues!Suspend, Ready, Waiting, Without
<1> QED  BY <1>1, <1>2

\* The scheduler starts as the queues do.
LEMMA QueuesInitial == Init => Queues!Init
<1> SUFFICES ASSUME Init  PROVE Queues!Init
  OBVIOUS
<1> DEFINE Q == [l \in List |-> <<>>]
<1>1. heap \in Heap(Process, List) /\ Stores(heap, Q)
  BY EmptyHeapStores DEF Init
<1>2. ReadyList \subseteq List /\ Semaphore \subseteq List
  BY ConstantFacts
<1>3. Ready(heap) = [l \in ReadyList |-> Q[l]] /\ Waiting(heap) = [s \in Semaphore |-> Q[s]]
  BY <1>1, QueuesAre
<1>4. /\ Ready(heap) = [l \in ReadyList |-> <<>>]
      /\ Waiting(heap) = [s \in Semaphore |-> <<>>]
  BY <1>2, <1>3
<1> QED  BY <1>4, QueuesView DEF Init, Queues!Init, Ready, Waiting

\* Every step is a step of the queues or changes none of them.
LEMMA StepsRefine ==
    ASSUME ClientRules, SingleTop
    PROVE  IInv /\ [Next]_vars => [Queues!Next]_(Queues!avars)
<1> SUFFICES ASSUME IInv, [Next]_vars  PROVE [Queues!Next]_(Queues!avars)
  OBVIOUS
<1>1. PICK Q : QueueInv(Q)
  BY DEF IInv
<1>2. TypeOK
  BY DEF IInv
<1>3. CASE Next
  <2>1. ~ (halted # "no")
    BY <1>3 DEF Next, Signal, Wait, Resume, Suspend, SuspendActive, Execute, Running
  <2>2. ASSUME NEW s \in Semaphore, Signal(s)  PROVE Queues!Next
    BY <1>1, <1>2, <2>1, <2>2, SignalRefines DEF Queues!Next
  <2>3. ASSUME NEW s \in Semaphore, Wait(s)  PROVE Queues!Next
    BY <1>1, <1>2, <2>1, <2>3, WaitRefines DEF Queues!Next
  <2>4. ASSUME NEW p \in Process, Resume(p)  PROVE Queues!Next
    BY <1>1, <1>2, <2>1, <2>4, ResumeRefines DEF Queues!Next
  <2>5. ASSUME NEW p \in Process, Suspend(p)  PROVE Queues!Next
    BY <1>1, <1>2, <2>1, <2>5, SuspendRefines DEF Queues!Next
  <2>6. ASSUME SuspendActive  PROVE Queues!Next
    BY <1>1, <1>2, <2>1, <2>6, SuspendActiveRefines DEF Queues!Next
  <2>7. ASSUME NEW f \in Context, Execute(f)  PROVE Queues!Next
    <3>1. Ready(heap)' = Ready(heap) /\ Waiting(heap)' = Waiting(heap)
      BY <2>7 DEF Execute
    <3>2. Queues!Execute(f)
      BY <2>7, <3>1, QueuesView DEF Execute, Queues!Execute, Ready, Waiting
    <3> QED  BY <2>1, <2>7, <3>2, QueuesView DEF Queues!Next
  <2> QED  BY <1>3, <2>2, <2>3, <2>4, <2>5, <2>6, <2>7 DEF Next
<1>4. CASE UNCHANGED vars
  <2>1. Ready(heap)' = Ready(heap) /\ Waiting(heap)' = Waiting(heap)
    BY <1>4 DEF vars
  <2> QED  BY <1>4, <2>1 DEF vars, Queues!avars, Ready, Waiting
<1> QED  BY <1>3, <1>4

\* The primitives of wrapper.py, with their exceptions on the way and pointers that
\* are written one by one, are steps of first-in first-out queues, whatever
\* processes, semaphores and priorities there are.
THEOREM PointersImplementQueues ==
    ASSUME ClientRules, SingleTop
    PROVE  Spec => ImplementsQueues
<1>1. Init => Queues!Init
  BY QueuesInitial
<1>2. IInv /\ [Next]_vars => [Queues!Next]_(Queues!avars)
  BY StepsRefine
<1>3. Spec => []IInv
  BY QueuesInvariant
<1> QED  BY <1>1, <1>2, <1>3, PTL DEF Spec, Queues!Spec, ImplementsQueues

=============================================================================
