-------------------------- MODULE MethodCachesProofs --------------------------
(***************************************************************************)
(* Theorems about the copies of method dictionaries, for any number of     *)
(* classes, selectors, methods and processes that change dictionaries, and *)
(* for dictionaries that grow or share methods.                            *)
(*                                                                         *)
(* The invariant has two halves.  Sound says how objects, storages, arrays *)
(* and classes refer to each other; to keep it, each copy an updater still *)
(* holds must be known to nobody else, so the invariant also says which    *)
(* copies those are (Copies).  CompiledCurrent is about compiled code;     *)
(* each operation is shown to leave a class without compiled code, or all  *)
(* that a lookup from it passes as it was or invalid (Noticed).            *)
(***************************************************************************)
EXTENDS MethodCaches, FiniteSetTheorems, SequenceTheorems, TLAPS, WellFoundedInduction

\* As many steps lead to the end of any chain of superclasses.
N == Cardinality(Classes)

\* There are finitely many classes.
LEMMA NumberOfClasses == N \in Nat
BY ClassesAssumption, FS_CardinalityType DEF N

\* A nonempty set of numbers has a least element.
LEMMA LeastOf ==
    ASSUME NEW T \in SUBSET Nat, T # {}
    PROVE  \E i \in T : \A j \in T : i <= j
<1>1. PICK i \in T : \A j \in T : ~ (<<j, i>> \in OpToRel(<, Nat))
  BY NatLessThanWellFounded, WFMin, Zenon
<1>2. \A j \in T : ~ (j < i)
  BY <1>1 DEF OpToRel
<1> QED BY <1>2

\* What holds at 0 and is carried on from each number to the next holds up to m.
LEMMA UpTo ==
    ASSUME NEW m \in Nat, NEW T, 0 \in T, \A n \in 0 .. m : n + 1 <= m /\ n \in T => n + 1 \in T
    PROVE  0 .. m \subseteq T
<1> DEFINE B == {n \in 0 .. m : n \notin T}
<1> SUFFICES ASSUME B # {} PROVE FALSE
  OBVIOUS
<1>1. PICK i \in B : \A j \in B : i <= j
  <2>1. B \in SUBSET Nat
    OBVIOUS
  <2> HIDE DEF B
  <2> QED BY <2>1, LeastOf
<1>2. i # 0 /\ i - 1 \in 0 .. m /\ i - 1 \notin B
  BY <1>1
<1>3. i - 1 \in T /\ (i - 1) + 1 = i
  BY <1>2, <1>1
<1> QED BY <1>1, <1>2, <1>3

\* f starts with a and goes on with F, m times.
Iterates(f, m, a, F) == /\ f[0] = a
                        /\ \A n \in 1 .. m : f[n] = F[<<n, f[n - 1]>>]

\* A function can be iterated; induction over it goes through UpTo.
LEMMA IterExists ==
    ASSUME NEW m \in Nat, NEW S, NEW a \in S, NEW F,
           \A n \in 1 .. m, x \in S : F[<<n, x>>] \in S
    PROVE  \E f \in [0 .. m -> S] : Iterates(f, m, a, F)
<1> DEFINE T == {i \in 0 .. m : \E f \in [0 .. i -> S] : Iterates(f, i, a, F)}
<1>1. 0 \in T
  <2> DEFINE f == [i \in 0 .. 0 |-> a]
  <2>1. f \in [0 .. 0 -> S] /\ f[0] = a
    OBVIOUS
  <2>2. Iterates(f, 0, a, F)
    BY <2>1 DEF Iterates
  <2> QED BY <2>1, <2>2
<1>2. ASSUME NEW i \in 0 .. m, i + 1 <= m, i \in T PROVE i + 1 \in T
  <2>1. PICK f \in [0 .. i -> S] : Iterates(f, i, a, F)
    BY <1>2
  <2> DEFINE g == [n \in 0 .. i + 1 |-> IF n = i + 1 THEN F[<<i + 1, f[i]>>] ELSE f[n]]
  <2>2. i \in 0 .. i /\ f[i] \in S /\ i + 1 \in 1 .. m
    BY <1>2
  <2>3. F[<<i + 1, f[i]>>] \in S
    BY <2>2
  <2>4. g \in [0 .. i + 1 -> S]
    BY <2>3
  <2>5. g[0] = a
    BY <2>1 DEF Iterates
  <2>6. ASSUME NEW n \in 1 .. i + 1 PROVE g[n] = F[<<n, g[n - 1]>>]
    <3>1. CASE n = i + 1
      BY <3>1, <2>2, SMTT(30)
    <3>2. CASE n # i + 1
      <4>1. n \in 1 .. i /\ n \in 0 .. i + 1 /\ n - 1 \in 0 .. i + 1 /\ n - 1 # i + 1
        BY <3>2
      <4>2. f[n] = F[<<n, f[n - 1]>>]
        BY <4>1, <2>1 DEF Iterates
      <4> QED BY <4>1, <4>2, <3>2
    <3> QED BY <3>1, <3>2
  <2>7. Iterates(g, i + 1, a, F)
    BY <2>5, <2>6 DEF Iterates
  <2> HIDE DEF g
  <2> QED BY <2>4, <2>7, <1>2
<1>3. m \in T
  <2>1. \A i \in 0 .. m : i + 1 <= m /\ i \in T => i + 1 \in T
    BY <1>2
  <2> HIDE DEF T
  <2> QED BY <1>1, <2>1, UpTo
<1> QED BY <1>3

-----------------------------------------------------------------------------
(* Classes above and below *)

Supers == [Classes -> Classes \cup {Nil}]
Subs == [Classes -> SUBSET Classes]

Climbs(f, super, c) ==
    f = [n \in 0 .. Cardinality(Classes) |->
            IF n = 0 THEN <<c>>
            ELSE LET above == super[Last(f[n - 1])]
                 IN  IF above = Nil THEN f[n - 1] ELSE Append(f[n - 1], above)]

Descends(f, sub, c) ==
    f = [n \in 0 .. Cardinality(Classes) |->
            IF n = 0 THEN {c} ELSE f[n - 1] \cup UNION {sub[d] : d \in f[n - 1]}]

Climb(super, c) == CHOOSE f : Climbs(f, super, c)
Descent(sub, c) == CHOOSE f : Descends(f, sub, c)

\* The chains and the classes below are such iterations.
LEMMA ChainIs == \A h, c : Chain(h, c) = Climb(h.s_superclass, c)[N]
BY DEF Chain, Climb, Climbs, N

LEMMA BelowIs == \A h, c : Below(h, c) = Descent(h.subclass_s, c)[N]
BY DEF Below, Descent, Descends, N

Rows == {s \in Seq(Classes) : s # <<>>}

\* A row of classes ends with its last class.
LEMMA LastOfRow ==
    /\ \A s \in Rows : Len(s) \in Nat /\ Len(s) >= 1 /\ Last(s) = s[Len(s)] /\ Last(s) \in Classes
    /\ \A c \in Classes : <<c>> \in Rows
    /\ \A s \in Rows, c \in Classes : Append(s, c) \in Rows
<1>1. ASSUME NEW s \in Rows
      PROVE  Len(s) \in Nat /\ Len(s) >= 1 /\ Last(s) = s[Len(s)] /\ Last(s) \in Classes
  BY DEF Rows, Last
<1>2. ASSUME NEW c \in Classes PROVE <<c>> \in Rows
  BY DEF Rows
<1>3. ASSUME NEW s \in Rows, NEW c \in Classes PROVE Append(s, c) \in Rows
  BY DEF Rows
<1> QED BY <1>1, <1>2, <1>3

\* The rows on the way up: each goes on with the superclass of its last class.
LEMMA ClimbFacts ==
    ASSUME NEW super \in Supers, NEW c \in Classes, NEW f, f = Climb(super, c)
    PROVE  /\ f \in [0 .. N -> Rows]
           /\ f[0] = <<c>>
           /\ \A n \in 1 .. N :
                 f[n] = IF super[Last(f[n - 1])] = Nil THEN f[n - 1]
                        ELSE Append(f[n - 1], super[Last(f[n - 1])])
<1> DEFINE F == [x \in (1 .. N) \X Rows |->
                    IF super[Last(x[2])] = Nil THEN x[2] ELSE Append(x[2], super[Last(x[2])])]
<1>1. \A n \in 1 .. N, x \in Rows :
         F[<<n, x>>] = IF super[Last(x)] = Nil THEN x ELSE Append(x, super[Last(x)])
  OBVIOUS
<1>2. \A n \in 1 .. N, x \in Rows : F[<<n, x>>] \in Rows
  <2> SUFFICES ASSUME NEW n \in 1 .. N, NEW x \in Rows PROVE F[<<n, x>>] \in Rows
    BY Zenon
  <2>1. super[Last(x)] \in Classes \cup {Nil}
    BY LastOfRow DEF Supers
  <2> HIDE DEF F
  <2> QED BY <1>1, <2>1, LastOfRow
<1>3. N \in Nat /\ <<c>> \in Rows
  BY NumberOfClasses, LastOfRow
<1> HIDE DEF F
<1>4. PICK g \in [0 .. N -> Rows] : Iterates(g, N, <<c>>, F)
  BY <1>2, <1>3, IterExists
<1>5. Climbs(g, super, c)
  <2>1. ASSUME NEW n \in 0 .. N
        PROVE  g[n] = IF n = 0 THEN <<c>>
                      ELSE LET above == super[Last(g[n - 1])]
                           IN  IF above = Nil THEN g[n - 1] ELSE Append(g[n - 1], above)
    <3>1. CASE n = 0
      BY <3>1, <1>4 DEF Iterates
    <3>2. CASE n # 0
      <4>1. n \in 1 .. N /\ n - 1 \in 0 .. N
        BY <3>2, <1>3
      <4>2. g[n] = F[<<n, g[n - 1]>>] /\ g[n - 1] \in Rows
        BY <4>1, <1>4 DEF Iterates
      <4> QED BY <1>1, <4>1, <4>2, <3>2
    <3> QED BY <3>1, <3>2
  <2> QED BY <2>1 DEF Climbs, N
<1>6. Climbs(f, super, c)
  BY <1>5 DEF Climb
<1>7. f[0] = <<c>> /\ DOMAIN f = 0 .. N /\ f = [n \in 0 .. N |-> f[n]]
  BY <1>6, <1>3 DEF Climbs, N
<1>8. \A n \in 1 .. N :
                 f[n] = IF super[Last(f[n - 1])] = Nil THEN f[n - 1]
                        ELSE Append(f[n - 1], super[Last(f[n - 1])])
  <2> SUFFICES ASSUME NEW n \in 1 .. N
               PROVE  f[n] = IF super[Last(f[n - 1])] = Nil THEN f[n - 1]
                             ELSE Append(f[n - 1], super[Last(f[n - 1])])
    OBVIOUS
  <2>1. n \in 0 .. Cardinality(Classes) /\ n # 0
    BY <1>3 DEF N
  <2> QED BY <1>6, <2>1 DEF Climbs
<1>9. \A n \in 0 .. N : f[n] \in Rows
  <2> DEFINE T == {n \in 0 .. N : f[n] \in Rows}
  <2>1. 0 \in T
    BY <1>3, <1>7
  <2>2. ASSUME NEW n \in 0 .. N, n + 1 <= N, n \in T PROVE n + 1 \in T
    <3>1. n + 1 \in 1 .. N /\ (n + 1) - 1 = n /\ n + 1 \in 0 .. N
      BY <2>2, <1>3
    <3>2. super[Last(f[n])] \in Classes \cup {Nil} /\ f[n] \in Rows
      BY <2>2, LastOfRow DEF Supers
    <3>3. f[n + 1] = IF super[Last(f[n])] = Nil THEN f[n] ELSE Append(f[n], super[Last(f[n])])
      BY <1>8, <3>1
    <3>4. f[n + 1] \in Rows
      BY <3>2, <3>3, LastOfRow
    <3> QED BY <3>1, <3>4
  <2>3. \A n \in 0 .. N : n + 1 <= N /\ n \in T => n + 1 \in T
    BY <2>2
  <2>4. T \subseteq 0 .. N /\ \A n \in T : f[n] \in Rows
    OBVIOUS
  <2> HIDE DEF T
  <2>5. 0 .. N \subseteq T
    BY <2>1, <2>3, <1>3, UpTo
  <2> QED BY <2>4, <2>5
<1>10. f \in [0 .. N -> Rows]
  BY <1>7, <1>9
<1> QED BY <1>7, <1>8, <1>10

\* The sets on the way down: each has the subclasses of the classes before.
LEMMA DescentFacts ==
    ASSUME NEW sub \in Subs, NEW c \in Classes, NEW f, f = Descent(sub, c)
    PROVE  /\ f \in [0 .. N -> SUBSET Classes]
           /\ f[0] = {c}
           /\ \A n \in 1 .. N : f[n] = f[n - 1] \cup UNION {sub[d] : d \in f[n - 1]}
<1> DEFINE F == [x \in (1 .. N) \X SUBSET Classes |-> x[2] \cup UNION {sub[d] : d \in x[2]}]
<1>1. \A n \in 1 .. N, x \in SUBSET Classes :
         F[<<n, x>>] = x \cup UNION {sub[d] : d \in x}
  OBVIOUS
<1>2. \A n \in 1 .. N, x \in SUBSET Classes : F[<<n, x>>] \in SUBSET Classes
  <2> SUFFICES ASSUME NEW n \in 1 .. N, NEW x \in SUBSET Classes PROVE F[<<n, x>>] \subseteq Classes
    BY ZenonT(30)
  <2>1. \A d \in x : sub[d] \subseteq Classes
    BY DEF Subs
  <2> HIDE DEF F
  <2> QED BY <1>1, <2>1
<1>3. N \in Nat /\ {c} \in SUBSET Classes
  BY NumberOfClasses
<1> HIDE DEF F
<1>4. PICK g \in [0 .. N -> SUBSET Classes] : Iterates(g, N, {c}, F)
  BY <1>2, <1>3, IterExists
<1>5. Descends(g, sub, c)
  <2>1. ASSUME NEW n \in 0 .. N
        PROVE  g[n] = IF n = 0 THEN {c} ELSE g[n - 1] \cup UNION {sub[d] : d \in g[n - 1]}
    <3>1. CASE n = 0
      BY <3>1, <1>4 DEF Iterates
    <3>2. CASE n # 0
      <4>1. n \in 1 .. N /\ n - 1 \in 0 .. N
        BY <3>2, <1>3
      <4>2. g[n] = F[<<n, g[n - 1]>>] /\ g[n - 1] \in SUBSET Classes
        BY <4>1, <1>4 DEF Iterates
      <4> QED BY <1>1, <4>1, <4>2, <3>2
    <3> QED BY <3>1, <3>2
  <2> QED BY <2>1 DEF Descends, N
<1>6. Descends(f, sub, c)
  BY <1>5 DEF Descent
<1>7. f[0] = {c} /\ DOMAIN f = 0 .. N /\ f = [n \in 0 .. N |-> f[n]]
  BY <1>6, <1>3 DEF Descends, N
<1>8. \A n \in 1 .. N : f[n] = f[n - 1] \cup UNION {sub[d] : d \in f[n - 1]}
  <2> SUFFICES ASSUME NEW n \in 1 .. N
               PROVE  f[n] = f[n - 1] \cup UNION {sub[d] : d \in f[n - 1]}
    OBVIOUS
  <2>1. n \in 0 .. Cardinality(Classes) /\ n # 0
    BY <1>3 DEF N
  <2> QED BY <1>6, <2>1 DEF Descends
<1>9. \A n \in 0 .. N : f[n] \in SUBSET Classes
  <2> DEFINE T == {n \in 0 .. N : f[n] \in SUBSET Classes}
  <2>1. 0 \in T
    BY <1>3, <1>7
  <2>2. ASSUME NEW n \in 0 .. N, n + 1 <= N, n \in T PROVE n + 1 \in T
    <3>1. n + 1 \in 1 .. N /\ (n + 1) - 1 = n /\ n + 1 \in 0 .. N
      BY <2>2, <1>3
    <3>2. \A d \in f[n] : sub[d] \subseteq Classes
      BY <2>2 DEF Subs
    <3>3. f[n + 1] = f[n] \cup UNION {sub[d] : d \in f[n]}
      BY <1>8, <3>1
    <3>4. f[n + 1] \in SUBSET Classes
      BY <3>2, <3>3, <2>2
    <3> QED BY <3>1, <3>4
  <2>3. \A n \in 0 .. N : n + 1 <= N /\ n \in T => n + 1 \in T
    BY <2>2
  <2>4. T \subseteq 0 .. N /\ \A n \in T : f[n] \in SUBSET Classes
    OBVIOUS
  <2> HIDE DEF T
  <2>5. 0 .. N \subseteq T
    BY <2>1, <2>3, <1>3, UpTo
  <2> QED BY <2>4, <2>5
<1>10. f \in [0 .. N -> SUBSET Classes]
  BY <1>7, <1>9
<1> QED BY <1>7, <1>8, <1>10

\* A row of classes that begins with e, each but the first the superclass of the one
\* before it.
Ascends(s, super, e) ==
    /\ s[1] = e
    /\ \A i \in 1 .. Len(s) : i + 1 <= Len(s) => super[s[i]] = s[i + 1]

\* A chain starts with its class, goes on from each class to its superclass, and is no
\* longer than there are classes and one.
LEMMA ChainShape ==
    ASSUME NEW super \in Supers, NEW e \in Classes
    PROVE  /\ Climb(super, e)[N] \in Rows
           /\ Ascends(Climb(super, e)[N], super, e)
           /\ Len(Climb(super, e)[N]) <= N + 1
<1> PICK f : f = Climb(super, e)
  OBVIOUS
<1>1. /\ f \in [0 .. N -> Rows]
      /\ f[0] = <<e>>
      /\ \A n \in 1 .. N :
            f[n] = IF super[Last(f[n - 1])] = Nil THEN f[n - 1]
                   ELSE Append(f[n - 1], super[Last(f[n - 1])])
  BY ClimbFacts
<1> DEFINE T == {n \in 0 .. N : Ascends(f[n], super, e) /\ Len(f[n]) <= n + 1}
<1>2. 0 \in T
  <2>1. Ascends(<<e>>, super, e) /\ Len(<<e>>) = 1
    BY DEF Ascends
  <2>2. 0 \in 0 .. N /\ f[0] = <<e>> /\ Len(f[0]) <= 0 + 1
    BY <2>1, <1>1, NumberOfClasses
  <2> QED BY <2>1, <2>2
<1>3. ASSUME NEW n \in 0 .. N, n + 1 <= N, n \in T PROVE n + 1 \in T
  <2>1. n + 1 \in 1 .. N /\ (n + 1) - 1 = n /\ n + 1 \in 0 .. N
    BY <1>3, NumberOfClasses
  <2> PICK s \in Rows : s = f[n]
    BY <1>1
  <2>2. /\ s \in Seq(Classes) /\ Len(s) \in Nat /\ Len(s) >= 1 /\ Last(s) = s[Len(s)]
        /\ s[1] = e /\ Len(s) <= n + 1
        /\ \A i \in 1 .. Len(s) : i + 1 <= Len(s) => super[s[i]] = s[i + 1]
    BY <1>3, LastOfRow DEF Ascends, Rows
  <2>3. f[n + 1] = IF super[Last(s)] = Nil THEN s ELSE Append(s, super[Last(s)])
    BY <1>1, <2>1
  <2>4. CASE super[Last(s)] = Nil
    <3>1. f[n + 1] = f[n] /\ Len(f[n + 1]) <= (n + 1) + 1
      BY <2>3, <2>4, <2>2
    <3> QED BY <3>1, <2>1, <1>3
  <2>5. CASE super[Last(s)] # Nil
    <3> PICK d \in Classes : d = super[Last(s)]
      BY <2>5, LastOfRow DEF Supers
    <3>1. f[n + 1] = Append(s, d)
      BY <2>3, <2>5
    <3>2. /\ Len(Append(s, d)) = Len(s) + 1
          /\ Append(s, d)[Len(s) + 1] = d
          /\ \A i \in 1 .. Len(s) : Append(s, d)[i] = s[i]
      BY <2>2
    <3>3. Append(s, d)[1] = e
      BY <3>2, <2>2
    <3>4. ASSUME NEW i \in 1 .. Len(s) + 1, i + 1 <= Len(s) + 1
          PROVE  super[Append(s, d)[i]] = Append(s, d)[i + 1]
      <4>1. CASE i = Len(s)
        BY <4>1, <3>2, <2>2
      <4>2. CASE i # Len(s)
        <5>1. i \in 1 .. Len(s) /\ i + 1 \in 1 .. Len(s) /\ i + 1 <= Len(s)
          BY <4>2, <3>4, <2>2
        <5> QED BY <5>1, <3>2, <2>2
      <4> QED BY <4>1, <4>2
    <3>5. Ascends(Append(s, d), super, e)
      BY <3>2, <3>3, <3>4 DEF Ascends
    <3>6. Len(Append(s, d)) <= (n + 1) + 1
      BY <3>2, <2>2
    <3> QED BY <3>1, <3>5, <3>6, <2>1
  <2> QED BY <2>4, <2>5
<1>4. \A n \in 0 .. N : n + 1 <= N /\ n \in T => n + 1 \in T
  BY <1>3
<1>5. \A n \in T : Ascends(f[n], super, e) /\ Len(f[n]) <= n + 1
  OBVIOUS
<1> HIDE DEF T
<1>6. N \in 0 .. N /\ N \in T
  BY <1>2, <1>4, NumberOfClasses, UpTo
<1> QED BY <1>1, <1>5, <1>6

\* The classes above a class have it below them.
LEMMA AboveBelow ==
    ASSUME NEW super \in Supers, NEW sub \in Subs,
           \A c, d \in Classes : (d \in sub[c]) <=> (super[d] = c),
           NEW e \in Classes, NEW d \in Range(Climb(super, e)[N])
    PROVE  d \in Classes /\ e \in Descent(sub, d)[N]
<1> PICK s : s = Climb(super, e)[N]
  OBVIOUS
<1>1. /\ s \in Rows /\ s \in Seq(Classes) /\ Len(s) <= N + 1 /\ s[1] = e
      /\ \A i \in 1 .. Len(s) : i + 1 <= Len(s) => super[s[i]] = s[i + 1]
  BY ChainShape DEF Ascends, Rows
<1>2. PICK j \in 1 .. Len(s) : d = s[j]
  BY <1>1 DEF Range
<1>3. d \in Classes /\ Len(s) \in Nat /\ N \in Nat
  BY <1>1, <1>2, NumberOfClasses
<1> PICK f : f = Descent(sub, d)
  OBVIOUS
<1>4. /\ f \in [0 .. N -> SUBSET Classes] /\ f[0] = {d}
      /\ \A n \in 1 .. N : f[n] = f[n - 1] \cup UNION {sub[x] : x \in f[n - 1]}
  BY <1>3, DescentFacts
<1> DEFINE T == {n \in 0 .. j - 1 : s[j - n] \in f[n]}
           U == {n \in 0 .. N : n >= j - 1 => e \in f[n]}
<1>5. j - 1 \in Nat /\ j - 1 <= N
  BY <1>1, <1>3
<1>6. 0 \in T
  BY <1>2, <1>4, <1>5
<1>7. ASSUME NEW n \in 0 .. j - 1, n + 1 <= j - 1, n \in T PROVE n + 1 \in T
  <2>1. n + 1 \in 1 .. N /\ (n + 1) - 1 = n /\ n + 1 \in 0 .. j - 1 /\ n \in 0 .. N
    BY <1>7, <1>5, <1>3
  <2>2. j - (n + 1) \in 1 .. Len(s) /\ (j - (n + 1)) + 1 = j - n /\ (j - (n + 1)) + 1 <= Len(s)
        /\ j - n \in 1 .. Len(s)
    BY <1>7, <1>3
  <2> PICK x \in Classes : x = s[j - (n + 1)]
    BY <2>2, <1>1
  <2> PICK y \in Classes : y = s[j - n]
    BY <2>2, <1>1
  <2>3. super[x] = y /\ y \in f[n]
    BY <2>2, <1>1, <1>7
  <2>4. x \in sub[y]
    BY <2>3
  <2>5. f[n + 1] = f[n] \cup UNION {sub[z] : z \in f[n]}
    BY <1>4, <2>1
  <2>6. x \in f[n + 1]
    BY <2>3, <2>4, <2>5
  <2> QED BY <2>6, <2>1
<1>8. \A n \in 0 .. j - 1 : n + 1 <= j - 1 /\ n \in T => n + 1 \in T
  BY <1>7
<1>9. \A n \in T : s[j - n] \in f[n]
  OBVIOUS
<1>10. \A n \in 0 .. N : n \in U <=> (n >= j - 1 => e \in f[n])
  OBVIOUS
<1> HIDE DEF T, U
<1>11. j - 1 \in T
  BY <1>5, <1>6, <1>8, UpTo, SMTT(30)
<1>12. e \in f[j - 1]
  <2>1. j - (j - 1) = 1
    OBVIOUS
  <2> QED BY <1>1, <1>9, <1>11, <2>1
<1>13. 0 \in U
  <2>1. 0 \in 0 .. N /\ (0 >= j - 1 => 0 = j - 1)
    BY <1>3, <1>5
  <2> QED BY <2>1, <1>10, <1>12
<1>14. ASSUME NEW n \in 0 .. N, n + 1 <= N, n \in U PROVE n + 1 \in U
  <2>1. n + 1 \in 1 .. N /\ (n + 1) - 1 = n /\ n + 1 \in 0 .. N
    BY <1>14, <1>3
  <2>2. CASE n + 1 = j - 1
    BY <2>1, <2>2, <1>10, <1>12
  <2>3. CASE n + 1 # j - 1
    <3>1. n + 1 >= j - 1 => n >= j - 1
      BY <2>3, <1>5
    <3>2. n >= j - 1 => e \in f[n]
      BY <1>14, <1>10
    <3>3. f[n + 1] = f[n] \cup UNION {sub[z] : z \in f[n]}
      BY <1>4, <2>1
    <3> QED BY <3>1, <3>2, <3>3, <2>1, <1>10
  <2> QED BY <2>2, <2>3
<1>15. N \in U
  <2>1. \A n \in 0 .. N : n + 1 <= N /\ n \in U => n + 1 \in U
    BY <1>14
  <2>2. 0 .. N \subseteq U
    BY <2>1, <1>3, <1>13, UpTo
  <2>3. N \in 0 .. N
    BY <1>3
  <2> QED BY <2>2, <2>3
<1> QED BY <1>3, <1>5, <1>10, <1>15

\* Where the superclass of c alone differs, the classes not below c have the same chains.
LEMMA SameChain ==
    ASSUME NEW super \in Supers, NEW super2 \in Supers, NEW c,
           \A d \in Classes : d # c => super[d] = super2[d],
           NEW e \in Classes, c \notin Range(Climb(super, e)[N])
    PROVE  Climb(super2, e)[N] = Climb(super, e)[N]
<1> PICK f : f = Climb(super, e)
  OBVIOUS
<1> PICK g : g = Climb(super2, e)
  OBVIOUS
<1>1. /\ f \in [0 .. N -> Rows] /\ f[0] = <<e>>
      /\ \A n \in 1 .. N :
            f[n] = IF super[Last(f[n - 1])] = Nil THEN f[n - 1]
                   ELSE Append(f[n - 1], super[Last(f[n - 1])])
  BY ClimbFacts
<1>2. /\ g \in [0 .. N -> Rows] /\ g[0] = <<e>>
      /\ \A n \in 1 .. N :
            g[n] = IF super2[Last(g[n - 1])] = Nil THEN g[n - 1]
                   ELSE Append(g[n - 1], super2[Last(g[n - 1])])
  BY ClimbFacts
<1>3. N \in Nat
  BY NumberOfClasses
<1> DEFINE R == {n \in 0 .. N : c \notin Range(f[N - n])}
<1>4. 0 \in R
  BY <1>3
<1>5. ASSUME NEW n \in 0 .. N, n + 1 <= N, n \in R PROVE n + 1 \in R
  <2> PICK m \in 0 .. N : m = N - (n + 1)
    BY <1>5, <1>3
  <2>1. m + 1 = N - n /\ m + 1 \in 1 .. N /\ (m + 1) - 1 = m /\ n + 1 \in 0 .. N
    BY <1>5, <1>3
  <2>2. f[m] \in Rows /\ super[Last(f[m])] \in Classes \cup {Nil}
    BY <1>1, LastOfRow DEF Supers
  <2>3. f[m + 1] = IF super[Last(f[m])] = Nil THEN f[m] ELSE Append(f[m], super[Last(f[m])])
    BY <1>1, <2>1
  <2>4. Range(f[m]) \subseteq Range(f[m + 1])
    <3>1. CASE super[Last(f[m])] = Nil
      BY <3>1, <2>3
    <3>2. CASE super[Last(f[m])] # Nil
      <4> PICK s \in Seq(Classes) : s = f[m]
        BY <2>2 DEF Rows
      <4> PICK d \in Classes : d = super[Last(f[m])]
        BY <2>2, <3>2
      <4>1. f[m + 1] = Append(s, d)
        BY <2>3, <3>2
      <4>2. \A i \in DOMAIN s : i \in DOMAIN Append(s, d) /\ Append(s, d)[i] = s[i]
        OBVIOUS
      <4> QED BY <4>1, <4>2 DEF Range
    <3> QED BY <3>1, <3>2
  <2>5. c \notin Range(f[m + 1])
    BY <1>5, <2>1
  <2> QED BY <2>4, <2>5, <2>1
<1>6. \A n \in R : c \notin Range(f[N - n])
  OBVIOUS
<1>7. \A n \in 0 .. N : n + 1 <= N /\ n \in R => n + 1 \in R
  BY <1>5
<1> DEFINE T == {n \in 0 .. N : g[n] = f[n]}
<1> HIDE DEF R
<1>8. \A n \in 0 .. N : c \notin Range(f[n])
  <2>1. 0 .. N \subseteq R
    BY <1>3, <1>4, <1>7, UpTo
  <2>2. \A n \in 0 .. N : N - n \in 0 .. N /\ N - (N - n) = n
    BY <1>3
  <2> QED BY <2>1, <2>2, <1>6
<1>9. ASSUME NEW n \in 0 .. N, n + 1 <= N, n \in T PROVE n + 1 \in T
  <2>1. n + 1 \in 1 .. N /\ (n + 1) - 1 = n /\ n + 1 \in 0 .. N
    BY <1>9, <1>3
  <2>2. f[n] \in Rows /\ g[n] = f[n]
    BY <1>1, <1>9
  <2>3. Last(f[n]) \in Classes /\ Last(f[n]) # c
    <3>1. Last(f[n]) \in Range(f[n])
      <4>1. /\ f[n] \in Seq(Classes) /\ Len(f[n]) \in Nat /\ Len(f[n]) >= 1
            /\ Last(f[n]) = f[n][Len(f[n])]
        BY <2>2, LastOfRow DEF Rows
      <4>2. Len(f[n]) \in DOMAIN f[n]
        BY <4>1
      <4> QED BY <4>1, <4>2 DEF Range
    <3> QED BY <3>1, <1>8, <2>2, LastOfRow
  <2>4. super2[Last(g[n])] = super[Last(f[n])]
    BY <2>2, <2>3
  <2>5. f[n + 1] = IF super[Last(f[n])] = Nil THEN f[n] ELSE Append(f[n], super[Last(f[n])])
    BY <1>1, <2>1
  <2>6. g[n + 1] = IF super2[Last(g[n])] = Nil THEN g[n] ELSE Append(g[n], super2[Last(g[n])])
    BY <1>2, <2>1
  <2>7. g[n + 1] = f[n + 1]
    BY <2>2, <2>4, <2>5, <2>6
  <2> QED BY <2>1, <2>7
<1>10. 0 \in T /\ \A n \in T : g[n] = f[n]
  <2>1. 0 \in 0 .. N /\ g[0] = f[0]
    BY <1>1, <1>2, <1>3
  <2> QED BY <2>1
<1>11. \A n \in 0 .. N : n + 1 <= N /\ n \in T => n + 1 \in T
  BY <1>9
<1> HIDE DEF T
<1>12. N \in 0 .. N /\ 0 .. N \subseteq T
  BY <1>3, <1>10, <1>11, UpTo
<1> QED BY <1>10, <1>12

-----------------------------------------------------------------------------
(* Heaps *)

HeapType ==
    [shadow: [Ids -> Ids], storage: [Ids -> Storage],
     array: [Ids -> [Selectors -> Methods \cup {Nil}]],
     dependent: [Ids -> Ids \cup {Nil}],
     w_methoddict: [Classes -> Ids], s_methoddict: [Classes -> Ids],
     s_superclass: [Classes -> Classes \cup {Nil}],
     subclass_s: [Classes -> SUBSET Classes],
     lookup_class: [Methods -> Classes \cup {Nil}],
     compiled: [Classes -> [Selectors -> Methods \cup {Nil}]],
     made: 0..MaxMade,
     error: {Nil, "ClassShadowError", "AttributeError", "RuntimeError"}]

\* The type invariant in two halves.
LEMMA HeapIs == TypeOK <=> heap \in HeapType /\ pending \in [Updaters -> Seq(Step)]
BY DEF TypeOK, HeapType

\* The types of the fields.
LEMMA HeapFields ==
    ASSUME NEW h \in HeapType
    PROVE  /\ h.shadow \in [Ids -> Ids] /\ h.storage \in [Ids -> Storage]
           /\ h.array \in [Ids -> [Selectors -> Methods \cup {Nil}]]
           /\ h.dependent \in [Ids -> Ids \cup {Nil}]
           /\ h.w_methoddict \in [Classes -> Ids] /\ h.s_methoddict \in [Classes -> Ids]
           /\ h.s_superclass \in Supers /\ h.subclass_s \in Subs
           /\ h.lookup_class \in [Methods -> Classes \cup {Nil}]
           /\ h.compiled \in [Classes -> [Selectors -> Methods \cup {Nil}]]
           /\ h.made \in 0 .. MaxMade
           /\ h.error \in {Nil, "ClassShadowError", "AttributeError", "RuntimeError"}
BY DEF HeapType, Supers, Subs

\* A chain is of classes and has its own class in it.
LEMMA ChainClasses ==
    ASSUME NEW h \in HeapType, NEW c \in Classes
    PROVE  /\ Chain(h, c) \in Seq(Classes) /\ Range(Chain(h, c)) \subseteq Classes
           /\ \E n \in 1 .. Len(Chain(h, c)) : Chain(h, c)[n] = c
<1> PICK s : s = Chain(h, c)
  OBVIOUS
<1>1. h.s_superclass \in Supers /\ s = Climb(h.s_superclass, c)[N]
  BY HeapFields, ChainIs
<1>2. s \in Seq(Classes) /\ s # <<>> /\ s[1] = c
  BY <1>1, ChainShape DEF Rows, Ascends
<1>3. Range(s) \subseteq Classes
  BY <1>2 DEF Range
<1>4. 1 \in 1 .. Len(s)
  BY <1>2
<1> QED BY <1>2, <1>3, <1>4

\* Only stores of superclasses change chains.
LEMMA SuperAbove ==
    ASSUME NEW h, NEW g, g.s_superclass = h.s_superclass, NEW c
    PROVE  Chain(g, c) = Chain(h, c)
BY ChainIs

\* The least of a set of numbers is in it.
LEMMA LeastHit ==
    ASSUME NEW m \in Nat, NEW T \in SUBSET (1 .. m), T # {}
    PROVE  Min(T) \in T
<1>1. \E i \in T : \A j \in T : i <= j
  BY LeastOf
<1> QED BY <1>1 DEF Min

\* A lookup depends on the chain and on the answers of the classes in it.
LEMMA FirstFoundSame ==
    ASSUME NEW h \in HeapType, NEW g, NEW c \in Classes, Chain(g, c) = Chain(h, c),
           NEW a, NEW b, \A d \in Range(Chain(h, c)) : a[d] = b[d]
    PROVE  FirstFound(g, c, b) = FirstFound(h, c, a)
<1> PICK s : s = Chain(h, c)
  OBVIOUS
<1>1. s \in Seq(Classes) /\ Len(s) \in Nat
  BY ChainClasses
<1>2. \A n \in 1 .. Len(s) : a[s[n]] = b[s[n]]
  BY <1>1 DEF Range
<1> DEFINE A == {n \in 1 .. Len(s) : a[s[n]] # Nil}
           B == {n \in 1 .. Len(s) : b[s[n]] # Nil}
<1>3. A = B
  BY <1>2
<1>4. FirstFound(h, c, a) = IF A = {} THEN Nil ELSE a[s[Min(A)]]
  BY DEF FirstFound
<1>5. FirstFound(g, c, b) = IF B = {} THEN Nil ELSE b[s[Min(B)]]
  BY DEF FirstFound
<1>6. A # {} => Min(A) \in 1 .. Len(s)
  <2>1. A \in SUBSET (1 .. Len(s))
    OBVIOUS
  <2> HIDE DEF A
  <2> QED BY <2>1, <1>1, LeastHit
<1> HIDE DEF A, B
<1> QED BY <1>2, <1>3, <1>4, <1>5, <1>6

\* It answers what some class answers.
LEMMA FirstFoundType ==
    ASSUME NEW h \in HeapType, NEW c \in Classes, NEW S, NEW a \in [Classes -> S \cup {Nil}]
    PROVE  FirstFound(h, c, a) \in S \cup {Nil}
<1> PICK s : s = Chain(h, c)
  OBVIOUS
<1>1. s \in Seq(Classes) /\ Len(s) \in Nat
  BY ChainClasses
<1> DEFINE A == {n \in 1 .. Len(s) : a[s[n]] # Nil}
<1>2. FirstFound(h, c, a) = IF A = {} THEN Nil ELSE a[s[Min(A)]]
  BY DEF FirstFound
<1>3. A # {} => Min(A) \in 1 .. Len(s)
  <2>1. A \in SUBSET (1 .. Len(s))
    OBVIOUS
  <2> HIDE DEF A
  <2> QED BY <2>1, <1>1, LeastHit
<1> HIDE DEF A
<1>4. \A n \in 1 .. Len(s) : s[n] \in Classes
  BY <1>1
<1> QED BY <1>2, <1>3, <1>4

\* A lookup answers a method or Nil.
LEMMA LookupType ==
    ASSUME NEW h \in HeapType, NEW c \in Classes, NEW k \in Selectors
    PROVE  lookup(h, c, k) \in Methods \cup {Nil}
<1> DEFINE a == [d \in Classes |-> find_selector(h.storage[h.s_methoddict[d]], k)]
<1>1. ASSUME NEW d \in Classes
      PROVE  find_selector(h.storage[h.s_methoddict[d]], k) \in Methods \cup {Nil}
  <2> PICK t \in Storage : t = h.storage[h.s_methoddict[d]]
    BY HeapFields
  <2> QED BY DEF find_selector, Storage
<1>2. a \in [Classes -> Methods \cup {Nil}]
  BY <1>1
<1>3. lookup(h, c, k) = FirstFound(h, c, a)
  BY DEF lookup
<1> HIDE DEF a
<1> QED BY <1>2, <1>3, FirstFoundType

-----------------------------------------------------------------------------
(* What becomes of compiled code *)

Table(h, c) == h.storage[h.s_methoddict[c]]

CompiledCurrent(h) ==
    \A c \in Classes, k \in Selectors :
        h.compiled[c][k] \in {Nil, lookup(h, c, k)}
        \/ \E d \in Range(Chain(h, c)) : Table(h, d).invalid

Cleared(h, c) == \A k \in Selectors : h.compiled[c][k] = Nil

\* All that a lookup from c passes in g and that is valid is as it was in h.
AsBefore(h, g, c) ==
    /\ g.compiled[c] = h.compiled[c]
    /\ Chain(g, c) = Chain(h, c)
    /\ \A d \in Range(Chain(h, c)) : ~ Table(g, d).invalid =>
           ~ Table(h, d).invalid /\ Table(g, d).methoddict = Table(h, d).methoddict

Noticed(h, g) == \A c \in Classes : Cleared(g, c) \/ AsBefore(h, g, c)

\* What is noticed twice is noticed.
LEMMA NoticedTwice ==
    ASSUME NEW h, NEW g, NEW f, Noticed(h, g), Noticed(g, f)
    PROVE  Noticed(h, f)
<1> SUFFICES ASSUME NEW c \in Classes PROVE Cleared(f, c) \/ AsBefore(h, f, c)
  BY DEF Noticed
<1>1. (Cleared(g, c) \/ AsBefore(h, g, c)) /\ (Cleared(f, c) \/ AsBefore(g, f, c))
  BY DEF Noticed
<1>2. CASE Cleared(g, c) /\ AsBefore(g, f, c)
  BY <1>2 DEF Cleared, AsBefore
<1>3. CASE AsBefore(h, g, c) /\ AsBefore(g, f, c)
  <2>1. AsBefore(h, f, c)
    BY <1>3 DEF AsBefore
  <2> QED BY <2>1
<1> QED BY <1>1, <1>2, <1>3

\* Code compiled for a class is as good as it was if all changes are noticed.
LEMMA NoticedCurrent ==
    ASSUME NEW h \in HeapType, NEW g \in HeapType, Noticed(h, g), CompiledCurrent(h)
    PROVE  CompiledCurrent(g)
<1> SUFFICES ASSUME NEW c \in Classes, NEW k \in Selectors,
                    \A d \in Range(Chain(g, c)) : ~ Table(g, d).invalid
             PROVE  g.compiled[c][k] \in {Nil, lookup(g, c, k)}
  BY DEF CompiledCurrent
<1>1. Cleared(g, c) \/ AsBefore(h, g, c)
  BY DEF Noticed
<1>2. CASE Cleared(g, c)
  BY <1>2 DEF Cleared
<1>3. CASE AsBefore(h, g, c)
  <2>1. Chain(g, c) = Chain(h, c) /\ g.compiled[c] = h.compiled[c]
    BY <1>3 DEF AsBefore
  <2>2. \A d \in Range(Chain(h, c)) :
            /\ ~ Table(g, d).invalid /\ ~ Table(h, d).invalid
            /\ Table(g, d).methoddict = Table(h, d).methoddict
    BY <1>3, <2>1 DEF AsBefore
  <2> DEFINE a == [d \in Classes |-> find_selector(h.storage[h.s_methoddict[d]], k)]
             b == [d \in Classes |-> find_selector(g.storage[g.s_methoddict[d]], k)]
  <2>3. \A d \in Range(Chain(h, c)) : a[d] = b[d]
    <3> SUFFICES ASSUME NEW d \in Range(Chain(h, c)) PROVE a[d] = b[d]
      OBVIOUS
    <3>1. d \in Classes
      BY ChainClasses
    <3>2. find_selector(Table(h, d), k) = find_selector(Table(g, d), k)
      BY <2>2 DEF find_selector
    <3> QED BY <3>1, <3>2 DEF Table
  <2>4. lookup(h, c, k) = FirstFound(h, c, a) /\ lookup(g, c, k) = FirstFound(g, c, b)
    BY DEF lookup
  <2> HIDE DEF a, b
  <2>5. lookup(g, c, k) = lookup(h, c, k)
    BY <2>1, <2>3, <2>4, FirstFoundSame
  <2>6. h.compiled[c][k] \in {Nil, lookup(h, c, k)}
    BY <2>2 DEF CompiledCurrent
  <2> QED BY <2>1, <2>5, <2>6
<1> QED BY <1>1, <1>2, <1>3

-----------------------------------------------------------------------------
(* Copying of dictionaries into tables *)

Attached(h) == \A c, d \in Classes : (d \in h.subclass_s[c]) <=> (h.s_superclass[d] = c)

\* Storages that differ in their tables at most.
Alike(s, t) == /\ s.is_methoddict = t.is_methoddict /\ s.w_self = t.w_self
               /\ s.names = t.names /\ s.w_values = t.w_values /\ s.s_class = t.s_class

\* Heaps that differ in what the VM copied, compiled or raised at most.
SameObjects(h, g) ==
    /\ g.shadow = h.shadow /\ g.array = h.array /\ g.dependent = h.dependent
    /\ g.w_methoddict = h.w_methoddict /\ g.s_methoddict = h.s_methoddict
    /\ g.s_superclass = h.s_superclass /\ g.subclass_s = h.subclass_s /\ g.made = h.made
    /\ \A s \in Ids : Alike(h.storage[s], g.storage[s])

\* Two steps that leave the objects alone leave them alone together.
LEMMA SameObjectsTwice ==
    ASSUME NEW h, NEW g, NEW f, SameObjects(h, g), SameObjects(g, f)
    PROVE  SameObjects(h, f)
BY DEF SameObjects, Alike

\* The subclasses fit if neither they nor the superclasses change.
LEMMA SameAttached ==
    ASSUME NEW h, NEW g, g.s_superclass = h.s_superclass, g.subclass_s = h.subclass_s
    PROVE  Attached(g) <=> Attached(h)
BY DEF Attached

\* g is h but for the classes from c down, for which nothing is compiled.
ChangesTo(h, c, g) ==
    /\ g \in HeapType
    /\ SameObjects(h, g) /\ g.storage = h.storage
    /\ g.lookup_class = h.lookup_class /\ g.error = h.error
    /\ \A e \in Classes : IF e \in Below(h, c) THEN Cleared(g, e)
                          ELSE g.compiled[e] = h.compiled[e]

\* What a new version of a class changes.
LEMMA ChangedFacts ==
    ASSUME NEW h \in HeapType, NEW c \in Classes, NEW g, g = changed(h, c)
    PROVE  ChangesTo(h, c, g)
<1> DEFINE C == [d \in Classes |-> IF d \in Below(h, c) THEN [k \in Selectors |-> Nil]
                                   ELSE h.compiled[d]]
<1>1. g = [h EXCEPT !.compiled = C]
  BY DEF changed
<1>2. h.compiled \in [Classes -> [Selectors -> Methods \cup {Nil}]]
  BY HeapFields
<1>3. C \in [Classes -> [Selectors -> Methods \cup {Nil}]]
  BY <1>2
<1>4. \A e \in Classes : C[e] = IF e \in Below(h, c) THEN [k \in Selectors |-> Nil]
                                ELSE h.compiled[e]
  OBVIOUS
<1> HIDE DEF C
<1>5. g \in HeapType
  BY <1>1, <1>3 DEF HeapType
<1>6. SameObjects(h, g) /\ g.storage = h.storage /\ g.compiled = C
  BY <1>1 DEF SameObjects, Alike, HeapType
<1>7. ASSUME NEW e \in Classes
      PROVE  IF e \in Below(h, c) THEN Cleared(g, e) ELSE g.compiled[e] = h.compiled[e]
  BY <1>4, <1>6 DEF Cleared
<1>8. g.lookup_class = h.lookup_class /\ g.error = h.error
  BY <1>1 DEF HeapType
<1> QED BY <1>5, <1>6, <1>7, <1>8 DEF ChangesTo

\* A class that is not below c does not have it above.
LEMMA NotBelow ==
    ASSUME NEW h \in HeapType, Attached(h), NEW c \in Classes, NEW e \in Classes,
           e \notin Below(h, c)
    PROVE  c \notin Range(Chain(h, e))
<1> SUFFICES ASSUME c \in Range(Chain(h, e)) PROVE FALSE
  OBVIOUS
<1>1. h.s_superclass \in Supers /\ h.subclass_s \in Subs
  BY HeapFields
<1>2. Chain(h, e) = Climb(h.s_superclass, e)[N] /\ Below(h, c) = Descent(h.subclass_s, c)[N]
  BY ChainIs, BelowIs
<1>3. \A x, d \in Classes : (d \in h.subclass_s[x]) <=> (h.s_superclass[d] = x)
  BY DEF Attached
<1>4. \A super \in Supers, sub \in Subs :
         (\A x, d \in Classes : (d \in sub[x]) <=> (super[d] = x))
         => \A d \in Range(Climb(super, e)[N]) : e \in Descent(sub, d)[N]
  BY AboveBelow
<1> QED BY <1>1, <1>2, <1>3, <1>4

\* What sync_method_cache does when it does not raise.
Synced(h, s) ==
    LET d == h.storage[s]
        keys == h.storage[h.shadow[d.w_self]].names
        values == h.array[d.w_values]
    IN  [h EXCEPT
                !.storage[s].methoddict = [k \in Selectors |->
                                             IF k \in keys THEN values[k] ELSE Nil],
                !.storage[s].invalid = FALSE,
                !.lookup_class = [m \in Methods |-> IF \E k \in keys : values[k] = m
                                                    THEN d.s_class ELSE @[m]]]

Copied(h, s) ==
    [k \in Selectors |-> IF k \in h.storage[h.shadow[h.storage[s].w_self]].names
                         THEN h.array[h.storage[s].w_values][k] ELSE Nil]

Learned(h, s) ==
    [m \in Methods |->
        IF \E k \in h.storage[h.shadow[h.storage[s].w_self]].names :
               h.array[h.storage[s].w_values][k] = m
        THEN h.storage[s].s_class ELSE h.lookup_class[m]]

\* A table that is copied, before the new version.
LEMMA SyncedFacts ==
    ASSUME NEW h \in HeapType, NEW s \in Ids, NEW g, g = Synced(h, s)
    PROVE  /\ g \in HeapType
           /\ SameObjects(h, g) /\ g.compiled = h.compiled /\ g.error = h.error
           /\ \A t \in Ids : t # s => g.storage[t] = h.storage[t]
           /\ ~ g.storage[s].invalid /\ g.storage[s].methoddict = Copied(h, s)
           /\ g.lookup_class = Learned(h, s)
<1> PICK d \in Storage : d = h.storage[s]
  BY HeapFields
<1> PICK keys \in SUBSET Selectors : keys = h.storage[h.shadow[d.w_self]].names
  <2>1. h.storage[h.shadow[d.w_self]] \in Storage
    BY HeapFields DEF Storage
  <2> QED BY <2>1 DEF Storage
<1> PICK values \in [Selectors -> Methods \cup {Nil}] : values = h.array[d.w_values]
  BY HeapFields DEF Storage
<1> DEFINE M == [k \in Selectors |-> IF k \in keys THEN values[k] ELSE Nil]
           L == [m \in Methods |-> IF \E k \in keys : values[k] = m
                                   THEN d.s_class ELSE h.lookup_class[m]]
           e == [d EXCEPT !.methoddict = M, !.invalid = FALSE]
           S == [h.storage EXCEPT ![s] = e]
<1>1. M \in [Selectors -> Methods \cup {Nil}]
  OBVIOUS
<1>2. L \in [Methods -> Classes \cup {Nil}]
  <2>1. d.s_class \in Classes \cup {Nil} /\ h.lookup_class \in [Methods -> Classes \cup {Nil}]
    BY HeapFields DEF Storage
  <2> QED BY <2>1
<1>3. Copied(h, s) = M
  BY DEF Copied
<1>4. g = [h EXCEPT !.storage = S, !.lookup_class = L]
  <2>1. Synced(h, s) = [h EXCEPT !.storage[s].methoddict = M, !.storage[s].invalid = FALSE,
                                 !.lookup_class = L]
    BY Zenon DEF Synced
  <2> HIDE DEF M, L
  <2> QED BY <2>1, ZenonT(30) DEF HeapType
<1>5. L = Learned(h, s)
  BY DEF Learned
<1> HIDE DEF M, L
<1>6. e \in Storage /\ Alike(d, e) /\ ~ e.invalid /\ e.methoddict = M
  BY <1>1 DEF Storage, Alike
<1> HIDE DEF e
<1>7. S \in [Ids -> Storage] /\ S[s] = e /\ \A t \in Ids : t # s => S[t] = h.storage[t]
  BY <1>6, HeapFields
<1> HIDE DEF S
<1>8. g \in HeapType /\ g.storage = S /\ g.lookup_class = L
  BY <1>2, <1>4, <1>7 DEF HeapType
<1>9. g.compiled = h.compiled /\ g.error = h.error
  BY <1>4 DEF HeapType
<1>10. \A t \in Ids : Alike(h.storage[t], g.storage[t])
  BY <1>6, <1>7, <1>8 DEF Alike
<1>11. SameObjects(h, g)
  BY <1>4, <1>10 DEF SameObjects, HeapType
<1> QED BY <1>3, <1>5, <1>6, <1>7, <1>8, <1>9, <1>11

\* An exception changes nothing else.
LEMMA ErrorFacts ==
    ASSUME NEW h \in HeapType, NEW x \in {"ClassShadowError", "AttributeError", "RuntimeError"},
           NEW g, g = [h EXCEPT !.error = x]
    PROVE  /\ g \in HeapType /\ SameObjects(h, g) /\ g.storage = h.storage
           /\ g.compiled = h.compiled /\ g.lookup_class = h.lookup_class /\ g.error = x
<1>1. g \in HeapType
  BY DEF HeapType
<1>2. SameObjects(h, g) /\ g.storage = h.storage /\ g.compiled = h.compiled
      /\ g.lookup_class = h.lookup_class /\ g.error = x
  BY DEF SameObjects, Alike, HeapType
<1> QED BY <1>1, <1>2

\* What is copied cannot be copied in full: a key is there before its method.
HalfChanged(h, s) ==
    \E k \in h.storage[h.shadow[h.storage[s].w_self]].names :
        h.array[h.storage[s].w_values][k] = Nil

\* sync_method_cache in terms of these.
LEMMA SyncIs ==
    ASSUME NEW h, NEW s
    PROVE  sync_method_cache(h, s) =
             IF HalfChanged(h, s) THEN [h EXCEPT !.error = "ClassShadowError"]
             ELSE IF h.storage[s].s_class # Nil THEN changed(Synced(h, s), h.storage[s].s_class)
             ELSE IF h.storage[h.shadow[h.storage[s].w_self]].names # {}
                  THEN [h EXCEPT !.error = "AttributeError"]
             ELSE Synced(h, s)
BY DEF sync_method_cache, HalfChanged, Synced

\* What copying a table changes, however it ends.
LEMMA SyncFacts ==
    ASSUME NEW h \in HeapType, NEW s \in Ids, NEW g, g = sync_method_cache(h, s)
    PROVE  /\ g \in HeapType /\ SameObjects(h, g)
           /\ \A t \in Ids : t # s => g.storage[t] = h.storage[t]
           /\ \/ g.storage = h.storage /\ g.compiled = h.compiled
              \/ h.storage[s].s_class = Nil /\ g.compiled = h.compiled
              \/ /\ h.storage[s].s_class \in Classes
                 /\ \A e \in Classes : IF e \in Below(h, h.storage[s].s_class)
                                       THEN Cleared(g, e) ELSE g.compiled[e] = h.compiled[e]
<1> PICK f : f = Synced(h, s)
  OBVIOUS
<1>1. /\ f \in HeapType /\ SameObjects(h, f) /\ f.compiled = h.compiled
      /\ \A t \in Ids : t # s => f.storage[t] = h.storage[t]
  BY SyncedFacts
<1> PICK c \in Classes \cup {Nil} : c = h.storage[s].s_class
  <2>1. h.storage[s] \in Storage
    BY HeapFields
  <2> QED BY <2>1 DEF Storage
<1>2. CASE \/ g = [h EXCEPT !.error = "ClassShadowError"]
           \/ g = [h EXCEPT !.error = "AttributeError"]
  <2>1. PICK x \in {"ClassShadowError", "AttributeError", "RuntimeError"} :
            g = [h EXCEPT !.error = x]
    BY <1>2
  <2> QED BY <2>1, ErrorFacts
<1>3. CASE c # Nil /\ g = changed(f, c)
  <2>1. c \in Classes
    BY <1>3
  <2>2. /\ g \in HeapType /\ SameObjects(f, g) /\ g.storage = f.storage
        /\ \A e \in Classes : IF e \in Below(f, c) THEN Cleared(g, e)
                              ELSE g.compiled[e] = f.compiled[e]
    <3>1. ChangesTo(f, c, g)
      BY <1>1, <1>3, <2>1, ChangedFacts
    <3> QED BY <3>1 DEF ChangesTo
  <2>3. SameObjects(h, g)
    BY <1>1, <2>2, SameObjectsTwice
  <2>4. Below(f, c) = Below(h, c)
    BY <1>1, BelowIs DEF SameObjects
  <2> QED BY <1>1, <2>1, <2>2, <2>3, <2>4
<1>4. CASE c = Nil /\ g = f
  BY <1>1, <1>4
<1> QED BY <1>2, <1>3, <1>4, SyncIs

\* A dictionary is copied that has a class and is not half-changed.
Renewed(h, s, g) ==
    /\ g \in HeapType /\ SameObjects(h, g) /\ g.error = h.error
    /\ \A t \in Ids : t # s => g.storage[t] = h.storage[t]
    /\ g.storage[s].invalid = FALSE /\ g.storage[s].methoddict = Copied(h, s)
    /\ g.lookup_class = Learned(h, s)

LEMMA SyncRenews ==
    ASSUME NEW h \in HeapType, NEW s \in Ids, ~ HalfChanged(h, s),
           h.storage[s].s_class \in Classes, NEW g, g = sync_method_cache(h, s)
    PROVE  Renewed(h, s, g)
<1> PICK f : f = Synced(h, s)
  OBVIOUS
<1> PICK c \in Classes : c = h.storage[s].s_class
  OBVIOUS
<1>1. /\ f \in HeapType /\ SameObjects(h, f) /\ f.error = h.error
      /\ \A t \in Ids : t # s => f.storage[t] = h.storage[t]
      /\ ~ f.storage[s].invalid /\ f.storage[s].methoddict = Copied(h, s)
      /\ f.lookup_class = Learned(h, s)
  BY SyncedFacts
<1>2. g = changed(f, c)
  BY SyncIs, ClassesAssumption
<1>3. g \in HeapType /\ SameObjects(f, g) /\ g.storage = f.storage
      /\ g.error = f.error /\ g.lookup_class = f.lookup_class
  <2>1. ChangesTo(f, c, g)
    BY <1>1, <1>2, ChangedFacts
  <2> QED BY <2>1 DEF ChangesTo
<1>4. SameObjects(h, g)
  BY <1>1, <1>3, SameObjectsTwice
<1>5. f.storage[s].invalid = FALSE
  <2>1. f.storage[s] \in Storage
    BY <1>1, HeapFields
  <2> QED BY <1>1, <2>1 DEF Storage
<1> QED BY <1>1, <1>3, <1>4, <1>5 DEF Renewed

\* The keys and the methods that a storage leads to, and the table u of the class c with
\* given keys and methods.
KeysOf(h, s) == h.storage[h.shadow[h.storage[s].w_self]].names
ValuesOf(h, s) == h.array[h.storage[s].w_values]
TableWith(names, methods) ==
    [k \in Selectors |-> IF k \in names THEN methods[k] ELSE Nil]
ClassesWith(L, c, names, methods) ==
    [m \in Methods |-> IF \E k \in names : methods[k] = m THEN c ELSE L[m]]

LEMMA CopiedIs ==
    \A h, s : /\ HalfChanged(h, s) <=> \E k \in KeysOf(h, s) : ValuesOf(h, s)[k] = Nil
              /\ Copied(h, s) = TableWith(KeysOf(h, s), ValuesOf(h, s))
              /\ Learned(h, s) = ClassesWith(h.lookup_class, h.storage[s].s_class,
                                             KeysOf(h, s), ValuesOf(h, s))
BY DEF HalfChanged, Copied, Learned, KeysOf, ValuesOf, TableWith, ClassesWith

\* With a method for each key, the table is filled and the methods learn their class.
FillsTable(h, c, u, names, methods, g) ==
    (\A k \in names : methods[k] # Nil) =>
        /\ g.storage[u].invalid = FALSE /\ g.storage[u].methoddict = TableWith(names, methods)
        /\ g.lookup_class = ClassesWith(h.lookup_class, c, names, methods)
        /\ g.error = h.error

\* Copying a table is noticed by what is compiled, if it is of no class but the one it knows.
LEMMA SyncNoticed ==
    ASSUME NEW h \in HeapType, Attached(h), NEW s \in Ids, NEW g, g = sync_method_cache(h, s),
           \A d \in Classes : h.s_methoddict[d] = s => h.storage[s].s_class = d
    PROVE  Noticed(h, g)
<1>1. /\ g \in HeapType /\ SameObjects(h, g)
      /\ \A t \in Ids : t # s => g.storage[t] = h.storage[t]
  BY SyncFacts
<1>2. /\ g.s_superclass = h.s_superclass /\ g.s_methoddict = h.s_methoddict
      /\ h.s_methoddict \in [Classes -> Ids]
  BY <1>1, HeapFields DEF SameObjects
<1> SUFFICES ASSUME NEW e \in Classes, ~ Cleared(g, e) PROVE AsBefore(h, g, e)
  BY DEF Noticed
<1>3. Chain(g, e) = Chain(h, e) /\ Range(Chain(h, e)) \subseteq Classes
  <2>1. Chain(g, e) = Chain(h, e)
    BY <1>2, SuperAbove
  <2> QED BY <2>1, ChainClasses
<1>4. CASE g.storage = h.storage /\ g.compiled = h.compiled
  BY <1>2, <1>3, <1>4 DEF AsBefore, Table
<1>5. CASE h.storage[s].s_class = Nil /\ g.compiled = h.compiled
  <2>1. ASSUME NEW d \in Range(Chain(h, e)) PROVE Table(g, d) = Table(h, d)
    <3>1. d \in Classes /\ d # Nil
      BY <1>3, ClassesAssumption
    <3>2. h.s_methoddict[d] # s /\ h.s_methoddict[d] \in Ids
      BY <1>2, <1>5, <3>1
    <3> QED BY <1>1, <1>2, <3>2 DEF Table
  <2> QED BY <1>3, <1>5, <2>1 DEF AsBefore
<1>6. CASE /\ h.storage[s].s_class \in Classes
           /\ \A x \in Classes : IF x \in Below(h, h.storage[s].s_class)
                                 THEN Cleared(g, x) ELSE g.compiled[x] = h.compiled[x]
  <2> PICK c \in Classes : c = h.storage[s].s_class
    BY <1>6
  <2>1. e \notin Below(h, c) /\ g.compiled[e] = h.compiled[e]
    BY <1>6
  <2>2. c \notin Range(Chain(h, e))
    BY <2>1, NotBelow
  <2>3. ASSUME NEW d \in Range(Chain(h, e)) PROVE Table(g, d) = Table(h, d)
    <3>1. d \in Classes /\ d # c
      BY <1>3, <2>2
    <3>2. h.s_methoddict[d] # s /\ h.s_methoddict[d] \in Ids
      BY <1>2, <3>1
    <3> QED BY <1>1, <1>2, <3>2 DEF Table
  <2> QED BY <1>3, <2>1, <2>3 DEF AsBefore
<1> QED BY <1>4, <1>5, <1>6, SyncFacts

\* The VM's dictionary of a class, and it alone, knows the class.
Owned(h) ==
    /\ \A s \in Ids, c \in Classes : (h.storage[s].s_class = c) <=> (h.s_methoddict[c] = s)
    /\ \A c \in Classes : h.storage[h.s_methoddict[c]].is_methoddict

\* Copying tables does not change which storage a class has.
LEMMA SameOwned ==
    ASSUME NEW h \in HeapType, NEW g, SameObjects(h, g)
    PROVE  Owned(g) <=> Owned(h)
<1>1. h.s_methoddict \in [Classes -> Ids]
  BY HeapFields
<1>2. \A s \in Ids : /\ g.storage[s].s_class = h.storage[s].s_class
                     /\ g.storage[s].is_methoddict = h.storage[s].is_methoddict
  BY DEF SameObjects, Alike
<1>3. g.s_methoddict = h.s_methoddict
  BY DEF SameObjects
<1> QED BY <1>1, <1>2, <1>3 DEF Owned

\* What is known to be sound and is only copied stays sound, and compiled code knows.
Carried(h, g) == g \in HeapType /\ SameObjects(h, g) /\ Noticed(h, g)

\* Doing nothing, and doing two things.
LEMMA CarriedItself == ASSUME NEW h \in HeapType PROVE Carried(h, h)
BY DEF Carried, SameObjects, Alike, Noticed, AsBefore

LEMMA CarriedTwice ==
    ASSUME NEW h, NEW g, NEW f, Carried(h, g), Carried(g, f)
    PROVE  Carried(h, f)
<1>1. f \in HeapType /\ SameObjects(h, f)
  BY SameObjectsTwice DEF Carried
<1>2. Noticed(h, f)
  BY NoticedTwice DEF Carried
<1> QED BY <1>1, <1>2 DEF Carried

\* A flush of one table, of the tables of a chain, and of those of a method.
LEMMA FlushCarries ==
    ASSUME NEW h \in HeapType, Attached(h), Owned(h), NEW s \in Ids
    PROVE  Carried(h, sync_method_cache(h, s)) /\ Carried(h, flush_method_cache(h, s))
<1> PICK g : g = sync_method_cache(h, s)
  OBVIOUS
<1>1. g \in HeapType /\ SameObjects(h, g)
  BY SyncFacts
<1>2. \A d \in Classes : h.s_methoddict[d] = s => h.storage[s].s_class = d
  BY DEF Owned
<1>3. Noticed(h, g)
  BY <1>2, SyncNoticed
<1>4. Carried(h, g)
  BY <1>1, <1>3 DEF Carried
<1>5. Carried(h, h)
  BY CarriedItself
<1>6. flush_method_cache(h, s) \in {h, g}
  BY DEF flush_method_cache
<1> QED BY <1>4, <1>5, <1>6

\* f is what flush_method_caches does, class after class.
Flushes(f, h, chain) ==
    f = [n \in 0 .. Len(chain) |->
            IF n = 0 THEN h
            ELSE flush_method_cache(f[n - 1], f[n - 1].s_methoddict[chain[n]])]

\* The flushes along a chain are an iteration.
LEMMA FlushesIs ==
    \A h, c : flush_method_caches(h, c) =
                 (CHOOSE f : Flushes(f, h, Chain(h, c)))[Len(Chain(h, c))]
BY DEF flush_method_caches, Flushes

\* A flush ends with a heap.
LEMMA FlushType ==
    ASSUME NEW h \in HeapType, NEW c \in Classes
    PROVE  flush_method_cache(h, h.s_methoddict[c]) \in HeapType
<1>1. h.s_methoddict[c] \in Ids
  BY HeapFields
<1>2. sync_method_cache(h, h.s_methoddict[c]) \in HeapType
  BY <1>1, SyncFacts
<1> QED BY <1>2 DEF flush_method_cache

\* f leads from h to g, class after class.
FlushesTo(f, h, chain, g) ==
    /\ f \in [0 .. Len(chain) -> HeapType]
    /\ f[0] = h
    /\ \A n \in 1 .. Len(chain) :
          f[n] = flush_method_cache(f[n - 1], f[n - 1].s_methoddict[chain[n]])
    /\ g = f[Len(chain)]

\* They can be taken one at a time.
LEMMA FlushSteps ==
    ASSUME NEW h \in HeapType, NEW c \in Classes
    PROVE  \E f : FlushesTo(f, h, Chain(h, c), flush_method_caches(h, c))
<1> PICK chain : chain = Chain(h, c)
  OBVIOUS
<1>1. chain \in Seq(Classes) /\ Len(chain) \in Nat
  BY ChainClasses
<1> PICK m \in Nat : m = Len(chain)
  BY <1>1
<1> DEFINE F == [x \in (1 .. m) \X HeapType |->
                    flush_method_cache(x[2], x[2].s_methoddict[chain[x[1]]])]
<1>2. \A n \in 1 .. m, x \in HeapType :
         F[<<n, x>>] = flush_method_cache(x, x.s_methoddict[chain[n]])
  OBVIOUS
<1>3. \A n \in 1 .. m, x \in HeapType : F[<<n, x>>] \in HeapType
  <2> SUFFICES ASSUME NEW n \in 1 .. m, NEW x \in HeapType PROVE F[<<n, x>>] \in HeapType
    BY Zenon
  <2>1. chain[n] \in Classes
    BY <1>1
  <2> HIDE DEF F
  <2> QED BY <1>2, <2>1, FlushType
<1> HIDE DEF F
<1>4. PICK g \in [0 .. m -> HeapType] : Iterates(g, m, h, F)
  BY <1>3, IterExists
<1>5. Flushes(g, h, chain)
  <2>1. ASSUME NEW n \in 0 .. m
        PROVE  g[n] = IF n = 0 THEN h
                      ELSE flush_method_cache(g[n - 1], g[n - 1].s_methoddict[chain[n]])
    <3>1. CASE n = 0
      BY <3>1, <1>4 DEF Iterates
    <3>2. CASE n # 0
      <4>1. n \in 1 .. m /\ n - 1 \in 0 .. m
        BY <3>2
      <4>2. g[n] = F[<<n, g[n - 1]>>] /\ g[n - 1] \in HeapType
        BY <4>1, <1>4 DEF Iterates
      <4> QED BY <1>2, <4>1, <4>2, <3>2
    <3> QED BY <3>1, <3>2
  <2> QED BY <2>1 DEF Flushes
<1> PICK f : f = CHOOSE e : Flushes(e, h, chain)
  OBVIOUS
<1>6. Flushes(f, h, chain)
  BY <1>5
<1>7. f[0] = h /\ DOMAIN f = 0 .. m /\ f = [n \in 0 .. m |-> f[n]]
  <2> DEFINE G == [n \in 0 .. m |->
                     IF n = 0 THEN h
                     ELSE flush_method_cache(f[n - 1], f[n - 1].s_methoddict[chain[n]])]
  <2>1. f = G
    BY <1>6, Zenon DEF Flushes
  <2>2. G[0] = h /\ DOMAIN G = 0 .. m /\ G = [n \in 0 .. m |-> G[n]]
    OBVIOUS
  <2> HIDE DEF G
  <2> QED BY <2>1, <2>2
<1>8. \A n \in 1 .. m : f[n] = flush_method_cache(f[n - 1], f[n - 1].s_methoddict[chain[n]])
  <2> SUFFICES ASSUME NEW n \in 1 .. m
               PROVE  f[n] = flush_method_cache(f[n - 1], f[n - 1].s_methoddict[chain[n]])
    OBVIOUS
  <2>1. n \in 0 .. m /\ n # 0
    OBVIOUS
  <2> QED BY <1>6, <2>1 DEF Flushes
<1>9. \A n \in 0 .. m : f[n] \in HeapType
  <2> DEFINE T == {n \in 0 .. m : f[n] \in HeapType}
  <2>1. 0 \in T
    BY <1>7
  <2>2. ASSUME NEW n \in 0 .. m, n + 1 <= m, n \in T PROVE n + 1 \in T
    <3>1. n + 1 \in 1 .. m /\ (n + 1) - 1 = n /\ n + 1 \in 0 .. m
      BY <2>2
    <3>2. chain[n + 1] \in Classes /\ f[n] \in HeapType
      BY <1>1, <2>2, <3>1
    <3>3. f[n + 1] = flush_method_cache(f[n], f[n].s_methoddict[chain[n + 1]])
      BY <1>8, <3>1
    <3>4. f[n + 1] \in HeapType
      BY <3>2, <3>3, FlushType
    <3> QED BY <3>1, <3>4
  <2>3. \A n \in 0 .. m : n + 1 <= m /\ n \in T => n + 1 \in T
    BY <2>2
  <2>4. \A n \in T : f[n] \in HeapType
    OBVIOUS
  <2> HIDE DEF T
  <2>5. 0 .. m \subseteq T
    BY <2>1, <2>3, UpTo
  <2> QED BY <2>4, <2>5
<1>10. flush_method_caches(h, c) = f[m]
  BY FlushesIs
<1>11. f \in [0 .. m -> HeapType]
  BY <1>7, <1>9
<1>12. FlushesTo(f, h, chain, flush_method_caches(h, c))
  BY <1>7, <1>8, <1>10, <1>11 DEF FlushesTo
<1> QED BY <1>12

LEMMA FlushAllCarries ==
    ASSUME NEW h \in HeapType, Attached(h), Owned(h), NEW c \in Classes
    PROVE  Carried(h, flush_method_caches(h, c))
<1> PICK chain : chain = Chain(h, c)
  OBVIOUS
<1>1. chain \in Seq(Classes) /\ Len(chain) \in Nat
  BY ChainClasses
<1> PICK m \in Nat : m = Len(chain)
  BY <1>1
<1> PICK f : FlushesTo(f, h, chain, flush_method_caches(h, c))
  BY FlushSteps
<1>2. /\ f \in [0 .. m -> HeapType]
      /\ f[0] = h
      /\ \A n \in 1 .. m :
            f[n] = flush_method_cache(f[n - 1], f[n - 1].s_methoddict[chain[n]])
      /\ flush_method_caches(h, c) = f[m]
  BY DEF FlushesTo
<1> DEFINE T == {n \in 0 .. m : Carried(h, f[n])}
<1>3. 0 \in T
  BY <1>2, CarriedItself
<1>4. ASSUME NEW n \in 0 .. m, n + 1 <= m, n \in T PROVE n + 1 \in T
  <2>1. n + 1 \in 1 .. m /\ (n + 1) - 1 = n /\ n + 1 \in 0 .. m
    BY <1>4
  <2> PICK g \in HeapType : g = f[n]
    BY <1>2
  <2>2. Carried(h, g)
    BY <1>4
  <2>3. SameObjects(h, g)
    BY <2>2 DEF Carried
  <2>4. Attached(g) /\ Owned(g)
    <3>1. g.s_superclass = h.s_superclass /\ g.subclass_s = h.subclass_s
      BY <2>3 DEF SameObjects
    <3>2. Attached(g)
      BY <3>1, SameAttached
    <3>3. Owned(g)
      BY <2>3, SameOwned
    <3> QED BY <3>2, <3>3
  <2>5. g.s_methoddict[chain[n + 1]] \in Ids
    BY <1>1, <2>1, HeapFields
  <2>6. f[n + 1] = flush_method_cache(g, g.s_methoddict[chain[n + 1]])
    BY <1>2, <2>1
  <2>7. Carried(g, f[n + 1])
    BY <2>4, <2>5, <2>6, FlushCarries
  <2>8. Carried(h, f[n + 1])
    BY <2>2, <2>7, CarriedTwice
  <2> QED BY <2>1, <2>8
<1>5. \A n \in 0 .. m : n + 1 <= m /\ n \in T => n + 1 \in T
  BY <1>4
<1>6. \A n \in T : Carried(h, f[n])
  OBVIOUS
<1> HIDE DEF T
<1>7. m \in 0 .. m /\ 0 .. m \subseteq T
  BY <1>3, <1>5, UpTo, SMTT(30)
<1> QED BY <1>2, <1>6, <1>7

LEMMA FlushMethodCarries ==
    ASSUME NEW h \in HeapType, Attached(h), Owned(h), NEW m \in Methods
    PROVE  Carried(h, FlushMethod(h, m))
<1>1. h.lookup_class[m] \in Classes \cup {Nil}
  BY HeapFields
<1>2. CASE h.lookup_class[m] = Nil
  BY <1>2, CarriedItself DEF FlushMethod
<1>3. CASE h.lookup_class[m] # Nil
  <2> PICK c \in Classes : c = h.lookup_class[m]
    BY <1>1, <1>3
  <2>1. FlushMethod(h, m) = flush_method_caches(h, c)
    BY <1>3 DEF FlushMethod
  <2> QED BY <2>1, FlushAllCarries
<1> QED BY <1>2, <1>3

-----------------------------------------------------------------------------
(* Objects, storages, arrays and classes refer to each other as they should *)

Made(h) == Classes \cup 1 .. h.made

\* What is made next is new and has a name.
LEMMA MadeFacts ==
    ASSUME NEW h \in HeapType
    PROVE  /\ Made(h) \subseteq Ids /\ h.made \in Nat /\ MaxMade \in Nat
           /\ h.made + 1 \notin Made(h) /\ h.made + 2 \notin Made(h)
           /\ h.made + 1 <= MaxMade => h.made + 1 \in Ids /\ h.made + 1 # Nil
           /\ h.made + 2 <= MaxMade => h.made + 2 \in Ids /\ h.made + 2 # Nil
           /\ Nil \notin Ids
<1>1. h.made \in 0 .. MaxMade /\ MaxMade \in Nat
  BY HeapFields, MethodsAssumption
<1>2. Classes \cap Nat = {} /\ Nil \notin Classes /\ Nil \notin Nat
  BY ClassesAssumption
<1> QED BY <1>1, <1>2 DEF Made, Ids

\* What is made refers to what is made, nothing refers to anything else.
Shape(h) ==
    /\ \A o \in Made(h) : h.shadow[o] \in Made(h)
    /\ \A c \in Classes : h.w_methoddict[c] \in Made(h) /\ h.s_methoddict[c] \in Made(h)
    /\ \A s \in Made(h) : h.storage[s].w_self \in Made(h) /\ h.storage[s].w_values \in Made(h)
    /\ \A i \in Ids \ Made(h) : /\ h.dependent[i] = Nil /\ h.storage[i].s_class = Nil
                                /\ ~ h.storage[i].is_methoddict /\ h.shadow[i] = i

LinkedIn(h, c) == h.shadow[h.w_methoddict[c]] = h.s_methoddict[c]

Watched(h) ==
    \A c \in Classes : LinkedIn(h, c) =>
        LET s == h.s_methoddict[c]
        IN  /\ h.storage[s].w_self = h.w_methoddict[c]
            /\ h.dependent[h.storage[s].w_values] = s

\* The objects T can be changed; of the copies V nobody else knows the array.
Apart(h, T, V) ==
    /\ T \subseteq Made(h) /\ V \subseteq Made(h)
    /\ \A c \in Classes : h.w_methoddict[c] \in T
    /\ \A v \in V : h.storage[v].w_values = v /\ h.dependent[v] = Nil
    /\ \A v \in V, o \in T : h.shadow[o] # v

Sound(h, T, V) == Shape(h) /\ Owned(h) /\ Watched(h) /\ Apart(h, T, V)

\* In the form of the property.
LEMMA WatchedIs ==
    Owned(heap) /\ Watched(heap) /\ heap \in HeapType => DictionariesWatched
<1> SUFFICES ASSUME Owned(heap), Watched(heap), heap \in HeapType, NEW c \in Classes, Linked(c)
             PROVE  LET s == heap.s_methoddict[c]
                    IN  /\ heap.storage[s].is_methoddict
                        /\ heap.storage[s].w_self = heap.w_methoddict[c]
                        /\ heap.storage[s].s_class = c
                        /\ heap.dependent[heap.storage[s].w_values] = s
  BY DEF DictionariesWatched
<1>1. LinkedIn(heap, c)
  BY DEF Linked, LinkedIn
<1>2. heap.s_methoddict[c] \in Ids
  BY HeapFields
<1>3. heap.storage[heap.s_methoddict[c]].is_methoddict
      /\ heap.storage[heap.s_methoddict[c]].s_class = c
  BY <1>2 DEF Owned
<1> QED BY <1>1, <1>3 DEF Watched

\* Heaps with the same references.
SameLinks(h, g) ==
    /\ g.shadow = h.shadow /\ g.dependent = h.dependent /\ g.made = h.made
    /\ g.w_methoddict = h.w_methoddict /\ g.s_methoddict = h.s_methoddict
    /\ \A s \in Ids : /\ g.storage[s].is_methoddict = h.storage[s].is_methoddict
                      /\ g.storage[s].w_self = h.storage[s].w_self
                      /\ g.storage[s].w_values = h.storage[s].w_values
                      /\ g.storage[s].s_class = h.storage[s].s_class

\* Copying tables does not change references.
LEMMA SameObjectsLinks == \A h, g : SameObjects(h, g) => SameLinks(h, g)
BY DEF SameObjects, SameLinks, Alike

\* Soundness is about references only.
LEMMA SameLinksSound ==
    ASSUME NEW h \in HeapType, NEW g \in HeapType, SameLinks(h, g), NEW T, NEW V,
           Sound(h, T, V)
    PROVE  Sound(g, T, V) /\ (Owned(h) <=> Owned(g))
<1>1. /\ g.shadow = h.shadow /\ g.dependent = h.dependent /\ Made(g) = Made(h)
      /\ g.w_methoddict = h.w_methoddict /\ g.s_methoddict = h.s_methoddict
  BY DEF SameLinks, Made
<1>2. \A s \in Ids : /\ g.storage[s].is_methoddict = h.storage[s].is_methoddict
                     /\ g.storage[s].w_self = h.storage[s].w_self
                     /\ g.storage[s].w_values = h.storage[s].w_values
                     /\ g.storage[s].s_class = h.storage[s].s_class
  BY DEF SameLinks
<1>3. Made(h) \subseteq Ids /\ \A c \in Classes : h.s_methoddict[c] \in Ids
  BY MadeFacts, HeapFields
<1>4. Shape(g)
  BY <1>1, <1>2, <1>3 DEF Shape, Sound
<1>5. Owned(g) /\ Owned(h)
  BY <1>1, <1>2, <1>3 DEF Owned, Sound
<1>6. Watched(g)
  <2>1. Watched(h)
    BY DEF Sound
  <2> SUFFICES ASSUME NEW c \in Classes, LinkedIn(g, c)
               PROVE  LET s == g.s_methoddict[c]
                      IN  /\ g.storage[s].w_self = g.w_methoddict[c]
                          /\ g.dependent[g.storage[s].w_values] = s
    BY DEF Watched
  <2>2. LinkedIn(h, c)
    BY <1>1 DEF LinkedIn
  <2> QED BY <1>1, <1>2, <1>3, <2>1, <2>2 DEF Watched
<1>7. Apart(g, T, V)
  <2>1. Apart(h, T, V)
    BY DEF Sound
  <2> QED BY <1>1, <1>2, <1>3, <2>1 DEF Apart
<1> QED BY <1>4, <1>5, <1>6, <1>7 DEF Sound

\* Fewer objects to be changed, fewer copies.
LEMMA FewerSound ==
    ASSUME NEW h, NEW T, NEW V, Sound(h, T, V), NEW T2 \in SUBSET T, NEW V2 \in SUBSET V,
           \A c \in Classes : h.w_methoddict[c] \in T2
    PROVE  Sound(h, T2, V2)
BY DEF Sound, Apart

-----------------------------------------------------------------------------
(* The operations *)

\* setup_notification, when nobody else watches the array.
LEMMA SetupFacts ==
    ASSUME NEW h \in HeapType, NEW s \in Ids, NEW a, a = h.storage[s].w_values,
           h.dependent[a] \in {Nil, s}, NEW g, g = setup_notification(h, s)
    PROVE  /\ g \in HeapType
           /\ g.dependent = [h.dependent EXCEPT ![a] = s]
           /\ g.shadow = h.shadow /\ g.storage = h.storage /\ g.array = h.array
           /\ g.w_methoddict = h.w_methoddict /\ g.s_methoddict = h.s_methoddict
           /\ g.s_superclass = h.s_superclass /\ g.subclass_s = h.subclass_s
           /\ g.lookup_class = h.lookup_class /\ g.compiled = h.compiled
           /\ g.made = h.made /\ g.error = h.error
<1> DEFINE D == [h.dependent EXCEPT ![a] = s]
<1>1. g = [h EXCEPT !.dependent[a] = s]
  BY DEF setup_notification
<1>2. D \in [Ids -> Ids \cup {Nil}]
  BY HeapFields
<1>3. g = [h EXCEPT !.dependent = D]
  BY <1>1 DEF HeapType
<1> HIDE DEF D
<1>4. g \in HeapType
  BY <1>2, <1>3 DEF HeapType
<1>5. /\ g.dependent = D
      /\ g.shadow = h.shadow /\ g.storage = h.storage /\ g.array = h.array
      /\ g.w_methoddict = h.w_methoddict /\ g.s_methoddict = h.s_methoddict
      /\ g.s_superclass = h.s_superclass /\ g.subclass_s = h.subclass_s
      /\ g.lookup_class = h.lookup_class /\ g.compiled = h.compiled
      /\ g.made = h.made /\ g.error = h.error
  BY <1>3 DEF HeapType
<1> QED BY <1>4, <1>5 DEF D

\* What copies n of dictionaries leave alone.
SameRest(h, g) ==
    /\ g.w_methoddict = h.w_methoddict /\ g.s_methoddict = h.s_methoddict
    /\ g.s_superclass = h.s_superclass /\ g.subclass_s = h.subclass_s
    /\ g.lookup_class = h.lookup_class /\ g.compiled = h.compiled /\ g.error = h.error

\* The methods of the dictionary o, for some keys.
PartOf(h, o, keys) ==
    [k \in Selectors |->
        IF k \in keys THEN h.array[h.storage[h.shadow[o]].w_values][k] ELSE Nil]

CopyGives(h, o, keys, n, g) ==
    /\ g \in HeapType /\ g.made = n
    /\ g.shadow = [h.shadow EXCEPT ![n] = n]
    /\ g.dependent = h.dependent /\ SameRest(h, g)
    /\ \A s \in Ids : s # n => g.storage[s] = h.storage[s]
    /\ g.storage[n].w_self = n /\ g.storage[n].w_values = n
    /\ g.storage[n].s_class = h.storage[n].s_class
    /\ g.storage[n].is_methoddict = h.storage[n].is_methoddict
    /\ g.storage[n].names = h.storage[h.shadow[o]].names \cap keys
    /\ g.array = [h.array EXCEPT ![n] = PartOf(h, o, keys)]

\* A copy of a dictionary is new in all its parts.
LEMMA CopyFacts ==
    ASSUME NEW h \in HeapType, NEW o \in Ids, NEW keys \in SUBSET Selectors,
           h.made + 1 <= MaxMade, NEW n, n = h.made + 1, NEW g, g = Copy(h, o, keys)
    PROVE  CopyGives(h, o, keys, n, g)
<1>1. n \in Ids /\ n \in 0 .. MaxMade
  BY MadeFacts
<1> PICK d \in Storage : d = h.storage[h.shadow[o]]
  BY HeapFields
<1> PICK x \in Storage : x = h.storage[n]
  BY <1>1, HeapFields
<1> PICK names \in SUBSET Selectors : names = d.names \cap keys
  BY DEF Storage
<1> DEFINE y == [x EXCEPT !.w_self = n, !.w_values = n, !.names = names]
           S == [h.storage EXCEPT ![n] = y]
           values == [k \in Selectors |-> IF k \in keys THEN h.array[d.w_values][k] ELSE Nil]
           A == [h.array EXCEPT ![n] = values]
           W == [h.shadow EXCEPT ![n] = n]
<1>2. g = [h EXCEPT !.made = n, !.shadow = W, !.storage = S, !.array = A]
  <2>1. g = [h EXCEPT !.made = n, !.shadow[n] = n,
                  !.storage[n] = [@ EXCEPT !.w_self = n, !.w_values = n, !.names = names],
                  !.array[n] = values]
    BY Zenon DEF Copy
  <2> HIDE DEF values
  <2> QED BY <2>1 DEF HeapType
<1>3. y \in Storage /\ y.w_self = n /\ y.w_values = n /\ y.names = names
      /\ y.s_class = x.s_class /\ y.is_methoddict = x.is_methoddict
  BY <1>1 DEF Storage
<1>4. A = [h.array EXCEPT ![n] = PartOf(h, o, keys)]
  BY DEF PartOf
<1>5. values \in [Selectors -> Methods \cup {Nil}]
  <2>1. d.w_values \in Ids
    BY DEF Storage
  <2>2. h.array[d.w_values] \in [Selectors -> Methods \cup {Nil}]
    BY <2>1, HeapFields
  <2> QED BY <2>2
<1> HIDE DEF y, values
<1>6. S \in [Ids -> Storage] /\ S[n] = y /\ \A s \in Ids : s # n => S[s] = h.storage[s]
  BY <1>1, <1>3, HeapFields
<1>7. A \in [Ids -> [Selectors -> Methods \cup {Nil}]] /\ W \in [Ids -> Ids]
  BY <1>1, <1>5, HeapFields
<1>8. W = [h.shadow EXCEPT ![n] = n]
  OBVIOUS
<1> HIDE DEF S, A, W
<1>9. g \in HeapType
  BY <1>1, <1>2, <1>6, <1>7 DEF HeapType
<1>10. /\ g.made = n /\ g.shadow = W /\ g.storage = S /\ g.array = A
       /\ g.dependent = h.dependent /\ SameRest(h, g)
  BY <1>2 DEF HeapType, SameRest
<1> QED BY <1>3, <1>4, <1>6, <1>8, <1>9, <1>10 DEF CopyGives

\* new is the storage that is made for the object n.
MakesMethodDict(h, n, new, g) ==
    /\ g \in HeapType /\ g.made = new
    /\ g.shadow = [h.shadow EXCEPT ![n] = new]
    /\ g.dependent = [h.dependent EXCEPT ![n] = new]
    /\ g.array = h.array /\ SameRest(h, g)
    /\ \A s \in Ids : s # new => g.storage[s] = h.storage[s]
    /\ g.storage[new] = [h.storage[n] EXCEPT !.is_methoddict = TRUE, !.invalid = TRUE]
    /\ g.storage[new] \in Storage

\* as_methoddict_get_shadow of an object that has a plain storage of its own.
LEMMA MakeMethodDictFacts ==
    ASSUME NEW h \in HeapType, NEW o \in Ids, NEW n \in Ids, h.shadow[o] = n,
           ~ h.storage[n].is_methoddict, h.storage[n].w_self = n, h.storage[n].w_values = n,
           h.made + 1 <= MaxMade, NEW new, new = h.made + 1, new # n, h.dependent[n] = Nil,
           NEW g, g = as_methoddict_get_shadow(h, o)
    PROVE  MakesMethodDict(h, n, new, g) /\ MethodDictOf(h, o) = new
<1>1. new \in Ids /\ new \in 0 .. MaxMade
  BY MadeFacts
<1> PICK x \in Storage : x = h.storage[n]
  BY HeapFields
<1> DEFINE y == [x EXCEPT !.is_methoddict = TRUE, !.invalid = TRUE]
           S == [h.storage EXCEPT ![new] = y]
           W == [h.shadow EXCEPT ![n] = new]
           f == [h EXCEPT !.made = new, !.shadow = W, !.storage = S]
<1>2. y \in Storage /\ y.w_values = n
  BY DEF Storage
<1>3. g = setup_notification([h EXCEPT !.made = new, !.shadow[n] = new, !.storage[new] = y], new)
  BY DEF as_methoddict_get_shadow
<1>4. y = [h.storage[n] EXCEPT !.is_methoddict = TRUE, !.invalid = TRUE]
  OBVIOUS
<1> HIDE DEF y
<1>5. [h EXCEPT !.made = new, !.shadow[n] = new, !.storage[new] = y] = f
  BY DEF HeapType
<1>6. S \in [Ids -> Storage] /\ S[new] = y /\ \A s \in Ids : s # new => S[s] = h.storage[s]
  BY <1>1, <1>2, HeapFields
<1>7. W \in [Ids -> Ids] /\ W = [h.shadow EXCEPT ![n] = new]
  BY <1>1, HeapFields
<1> HIDE DEF S, W
<1>8. f \in HeapType
  BY <1>1, <1>6, <1>7, ZenonT(30) DEF HeapType
<1>9. /\ f.made = new /\ f.shadow = W /\ f.storage = S /\ f.array = h.array
      /\ f.dependent = h.dependent /\ SameRest(h, f)
  BY DEF HeapType, SameRest
<1> HIDE DEF f
<1>10. g = setup_notification(f, new) /\ f.storage[new].w_values = n /\ f.dependent[n] = Nil
  BY <1>2, <1>3, <1>5, <1>6, <1>9
<1>11. /\ g \in HeapType /\ g.dependent = [f.dependent EXCEPT ![n] = new]
       /\ g.shadow = f.shadow /\ g.storage = f.storage /\ g.array = f.array
       /\ g.made = f.made /\ SameRest(f, g)
  BY <1>1, <1>8, <1>10, SetupFacts DEF SameRest
<1>12. SameRest(h, g)
  BY <1>9, <1>11 DEF SameRest
<1>13. MethodDictOf(h, o) = new
  BY DEF MethodDictOf
<1>14. g.shadow = [h.shadow EXCEPT ![n] = new] /\ g.dependent = [h.dependent EXCEPT ![n] = new]
  BY <1>7, <1>9, <1>11
<1>15. MakesMethodDict(h, n, new, g)
  BY <1>2, <1>4, <1>6, <1>9, <1>11, <1>12, <1>14 DEF MakesMethodDict
<1> QED BY <1>13, <1>15

\* A class takes a storage that is not valid and that no other class uses.
StoresClass(h, c, u, g) ==
    /\ g \in HeapType
    /\ g.s_methoddict = [h.s_methoddict EXCEPT ![c] = u]
    /\ g.shadow = h.shadow /\ g.array = h.array /\ g.dependent = h.dependent
    /\ g.w_methoddict = h.w_methoddict /\ g.made = h.made
    /\ g.s_superclass = h.s_superclass /\ g.subclass_s = h.subclass_s
    /\ \A s \in Ids : /\ g.storage[s].is_methoddict = h.storage[s].is_methoddict
                      /\ g.storage[s].w_self = h.storage[s].w_self
                      /\ g.storage[s].w_values = h.storage[s].w_values
                      /\ g.storage[s].names = h.storage[s].names
    /\ \A s \in Ids : g.storage[s].s_class = IF s = u THEN c ELSE h.storage[s].s_class
    /\ \A s \in Ids : s # u => g.storage[s] = h.storage[s]
    /\ Noticed(h, g)
    /\ FillsTable(h, c, u, KeysOf(h, u), ValuesOf(h, u), g)

\* store_s_methoddict for a storage that has no class or this one.
LEMMA StoreClassFacts ==
    ASSUME NEW h \in HeapType, Attached(h), NEW c \in Classes, NEW u \in Ids,
           h.storage[u].invalid, \A d \in Classes : d # c => h.s_methoddict[d] # u,
           NEW g, g = store_s_methoddict(h, c, u)
    PROVE  StoresClass(h, c, u, g)
<1> PICK x \in Storage : x = h.storage[u]
  BY HeapFields
<1> DEFINE y == [x EXCEPT !.s_class = c]
           S == [h.storage EXCEPT ![u] = y]
           f == [h EXCEPT !.storage = S]
<1>1. y \in Storage /\ y.s_class = c /\ y.invalid /\ y.is_methoddict = x.is_methoddict
      /\ y.w_self = x.w_self /\ y.w_values = x.w_values /\ y.names = x.names
      /\ y.methoddict = x.methoddict
  BY DEF Storage
<1>2. [h EXCEPT !.storage[u].s_class = c] = f
  BY DEF HeapType
<1> HIDE DEF y
<1>3. S \in [Ids -> Storage] /\ S[u] = y /\ \A s \in Ids : s # u => S[s] = h.storage[s]
  BY <1>1, HeapFields
<1> HIDE DEF S
<1>4. f \in HeapType
  BY <1>3 DEF HeapType
<1>5. /\ f.storage = S /\ f.shadow = h.shadow /\ f.array = h.array /\ f.dependent = h.dependent
      /\ f.w_methoddict = h.w_methoddict /\ f.s_methoddict = h.s_methoddict
      /\ f.s_superclass = h.s_superclass /\ f.subclass_s = h.subclass_s /\ f.made = h.made
      /\ f.compiled = h.compiled /\ f.lookup_class = h.lookup_class /\ f.error = h.error
  BY DEF HeapType
<1> HIDE DEF f
<1> PICK e : e = sync_method_cache(f, u)
  OBVIOUS
<1>6. /\ e \in HeapType /\ SameObjects(f, e)
      /\ \A t \in Ids : t # u => e.storage[t] = f.storage[t]
      /\ \/ e.storage = f.storage /\ e.compiled = f.compiled
         \/ f.storage[u].s_class = Nil /\ e.compiled = f.compiled
         \/ /\ f.storage[u].s_class \in Classes
            /\ \A z \in Classes : IF z \in Below(f, f.storage[u].s_class)
                                  THEN Cleared(e, z) ELSE e.compiled[z] = f.compiled[z]
  BY <1>4, SyncFacts
<1>7. /\ e.shadow = h.shadow /\ e.array = h.array /\ e.dependent = h.dependent
      /\ e.w_methoddict = h.w_methoddict /\ e.s_methoddict = h.s_methoddict
      /\ e.s_superclass = h.s_superclass /\ e.subclass_s = h.subclass_s /\ e.made = h.made
  BY <1>5, <1>6 DEF SameObjects
<1>8. \A s \in Ids : Alike(f.storage[s], e.storage[s])
  BY <1>6 DEF SameObjects
<1> DEFINE D == [h.s_methoddict EXCEPT ![c] = u]
<1>9. g = [e EXCEPT !.s_methoddict = D]
  <2>1. store_s_methoddict(h, c, u) =
           [sync_method_cache([h EXCEPT !.storage[u].s_class = c], u)
               EXCEPT !.s_methoddict[c] = u]
    BY DEF store_s_methoddict
  <2>2. g = [e EXCEPT !.s_methoddict[c] = u]
    BY <2>1, <1>2
  <2> QED BY <2>2, <1>6, <1>7 DEF HeapType
<1>10. D \in [Classes -> Ids] /\ D[c] = u
       /\ \A d \in Classes : d # c => D[d] = h.s_methoddict[d] /\ D[d] # u
  BY HeapFields
<1>11. D = [h.s_methoddict EXCEPT ![c] = u]
  OBVIOUS
<1> HIDE DEF D
<1>12. g \in HeapType
  BY <1>6, <1>9, <1>10, ZenonT(30) DEF HeapType
<1>13. /\ g.s_methoddict = D
       /\ g.shadow = e.shadow /\ g.array = e.array /\ g.dependent = e.dependent
       /\ g.w_methoddict = e.w_methoddict /\ g.made = e.made /\ g.storage = e.storage
       /\ g.s_superclass = e.s_superclass /\ g.subclass_s = e.subclass_s
       /\ g.compiled = e.compiled /\ g.lookup_class = e.lookup_class /\ g.error = e.error
  BY <1>6, <1>9 DEF HeapType
<1>14. ASSUME NEW s \in Ids
       PROVE  /\ g.storage[s].is_methoddict = h.storage[s].is_methoddict
              /\ g.storage[s].w_self = h.storage[s].w_self
              /\ g.storage[s].w_values = h.storage[s].w_values
              /\ g.storage[s].names = h.storage[s].names
              /\ g.storage[s].s_class = IF s = u THEN c ELSE h.storage[s].s_class
  BY <1>1, <1>3, <1>5, <1>8, <1>13 DEF Alike
<1>15. Noticed(h, g)
  <2> SUFFICES ASSUME NEW z \in Classes, ~ Cleared(g, z) PROVE AsBefore(h, g, z)
    BY DEF Noticed
  <2>1. Chain(g, z) = Chain(h, z)
    BY <1>7, <1>13, SuperAbove
  <2>2. Range(Chain(h, z)) \subseteq Classes
    BY ChainClasses
  <2>3. f.storage[u].s_class = c /\ c # Nil /\ f.storage[u].invalid
    BY <1>1, <1>3, <1>5, ClassesAssumption
  <2>4. ASSUME NEW d \in Classes, d # c
        PROVE  Table(g, d) = Table(h, d)
    <3>1. h.s_methoddict[d] # u /\ h.s_methoddict[d] \in Ids
          /\ g.s_methoddict[d] = h.s_methoddict[d]
      BY <2>4, <1>10, <1>13
    <3> QED BY <3>1, <1>3, <1>5, <1>6, <1>13 DEF Table
  <2>5. Table(g, c) = e.storage[u]
    BY <1>10, <1>13 DEF Table
  <2>6. CASE e.storage = f.storage /\ e.compiled = f.compiled
    <3>1. Table(g, c).invalid
      BY <2>3, <2>5, <2>6
    <3>2. g.compiled[z] = h.compiled[z]
      BY <2>6, <1>5, <1>13
    <3> QED BY <2>1, <2>2, <2>4, <3>1, <3>2 DEF AsBefore
  <2>7. CASE \A y1 \in Classes : IF y1 \in Below(f, c)
                                 THEN Cleared(e, y1) ELSE e.compiled[y1] = f.compiled[y1]
    <3>1. ~ Cleared(e, z)
      BY <1>13 DEF Cleared
    <3>2. z \notin Below(f, c) /\ g.compiled[z] = h.compiled[z]
      BY <3>1, <2>7, <1>5, <1>13
    <3>3. Below(f, c) = Below(h, c)
      BY <1>5, BelowIs
    <3>4. c \notin Range(Chain(h, z))
      BY <3>2, <3>3, NotBelow
    <3> QED BY <2>1, <2>2, <2>4, <3>2, <3>4 DEF AsBefore
  <2> QED BY <1>6, <2>3, <2>6, <2>7
<1>16. /\ g.shadow = h.shadow /\ g.array = h.array /\ g.dependent = h.dependent
       /\ g.w_methoddict = h.w_methoddict /\ g.made = h.made
       /\ g.s_superclass = h.s_superclass /\ g.subclass_s = h.subclass_s
  BY <1>7, <1>13
<1>17. g.s_methoddict = [h.s_methoddict EXCEPT ![c] = u]
  BY <1>11, <1>13
<1>18. \A s \in Ids : s # u => g.storage[s] = h.storage[s]
  BY <1>3, <1>5, <1>6, <1>13
<1>19. FillsTable(h, c, u, KeysOf(h, u), ValuesOf(h, u), g)
  <2> SUFFICES ASSUME \A k \in KeysOf(h, u) : ValuesOf(h, u)[k] # Nil
               PROVE  /\ g.storage[u].invalid = FALSE
                      /\ g.storage[u].methoddict = TableWith(KeysOf(h, u), ValuesOf(h, u))
                      /\ g.lookup_class = ClassesWith(h.lookup_class, c, KeysOf(h, u),
                                                      ValuesOf(h, u))
                      /\ g.error = h.error
    BY DEF FillsTable
  <2>1. f.storage[u] = y /\ h.storage[u] = x
    BY <1>3, <1>5
  <2>2. \A s \in Ids : f.storage[s].names = h.storage[s].names
    BY <1>1, <1>3, <1>5
  <2>3. f.storage[u].w_self = h.storage[u].w_self /\ f.storage[u].w_values = h.storage[u].w_values
        /\ f.storage[u].s_class = c
    BY <1>1, <2>1
  <2>4. h.shadow[h.storage[u].w_self] \in Ids
    <3>1. x.w_self \in Ids /\ h.shadow \in [Ids -> Ids]
      BY HeapFields DEF Storage
    <3> QED BY <2>1, <3>1
  <2>5. KeysOf(f, u) = KeysOf(h, u) /\ ValuesOf(f, u) = ValuesOf(h, u)
    BY <1>5, <2>2, <2>3, <2>4 DEF KeysOf, ValuesOf
  <2>6. /\ ~ HalfChanged(f, u) /\ Copied(f, u) = TableWith(KeysOf(h, u), ValuesOf(h, u))
        /\ Learned(f, u) = ClassesWith(h.lookup_class, c, KeysOf(h, u), ValuesOf(h, u))
    BY <1>5, <2>3, <2>5, CopiedIs
  <2>7. Renewed(f, u, e)
    BY <1>4, <2>3, <2>6, SyncRenews
  <2> QED BY <1>5, <1>13, <2>6, <2>7 DEF Renewed
<1> QED BY <1>12, <1>14, <1>15, <1>16, <1>17, <1>18, <1>19 DEF StoresClass

\* What a store to the fields of a dictionary object changes, of a heap without copies.
LEMMA StoreNamesFacts ==
    ASSUME NEW h \in HeapType, NEW o \in Ids, NEW names \in SUBSET Selectors,
           NEW g, g = StoreNames(h, o, names)
    PROVE  /\ g \in HeapType /\ SameLinks(h, g) /\ SameRest(h, g) /\ g.array = h.array
           /\ \A s \in Ids : s # h.shadow[o] => g.storage[s] = h.storage[s]
           /\ g.storage[h.shadow[o]].names = names
           /\ g.storage[h.shadow[o]].methoddict = h.storage[h.shadow[o]].methoddict
           /\ g.storage[h.shadow[o]].invalid =
                 (h.storage[h.shadow[o]].invalid \/ h.storage[h.shadow[o]].is_methoddict)
<1> PICK s \in Ids : s = h.shadow[o]
  BY HeapFields
<1> PICK x \in Storage : x = h.storage[s]
  BY HeapFields
<1> DEFINE y == [x EXCEPT !.names = names, !.invalid = (x.invalid \/ x.is_methoddict)]
           S == [h.storage EXCEPT ![s] = y]
<1>1. /\ y \in Storage /\ y.names = names /\ y.methoddict = x.methoddict
      /\ y.is_methoddict = x.is_methoddict /\ y.w_self = x.w_self
      /\ y.w_values = x.w_values /\ y.s_class = x.s_class
  BY DEF Storage
<1>2. y.invalid = (x.invalid \/ x.is_methoddict)
  BY DEF Storage
<1>3. g = [h EXCEPT !.storage = S]
  <2>1. g = [h EXCEPT !.storage[s] = y]
    BY DEF StoreNames
  <2> HIDE DEF y
  <2> QED BY <2>1 DEF HeapType
<1> HIDE DEF y
<1>4. S \in [Ids -> Storage] /\ S[s] = y /\ \A t \in Ids : t # s => S[t] = h.storage[t]
  BY <1>1, HeapFields
<1> HIDE DEF S
<1>5. g \in HeapType
  BY <1>3, <1>4 DEF HeapType
<1>6. /\ g.storage = S /\ g.shadow = h.shadow /\ g.array = h.array
      /\ g.dependent = h.dependent /\ g.made = h.made /\ SameRest(h, g)
  BY <1>3 DEF HeapType, SameRest
<1>7. \A t \in Ids : /\ g.storage[t].is_methoddict = h.storage[t].is_methoddict
                     /\ g.storage[t].w_self = h.storage[t].w_self
                     /\ g.storage[t].w_values = h.storage[t].w_values
                     /\ g.storage[t].s_class = h.storage[t].s_class
  BY <1>1, <1>4, <1>6
<1>8. SameLinks(h, g)
  BY <1>6, <1>7 DEF SameLinks, SameRest
<1> QED BY <1>1, <1>2, <1>4, <1>5, <1>6, <1>8

WithMethod(h, a, k, m) == [h EXCEPT !.array[a][k] = m]

ArrayGives(h, a, k, m, g) ==
    /\ g \in HeapType /\ SameLinks(h, g) /\ SameRest(h, g)
    /\ g.storage = h.storage
    /\ g.array = [h.array EXCEPT ![a] = [h.array[a] EXCEPT ![k] = m]]

\* A store to an array, before the table is copied.
LEMMA ArrayFacts ==
    ASSUME NEW h \in HeapType, NEW a \in Ids, NEW k \in Selectors, NEW m \in Methods \cup {Nil},
           NEW g, g = WithMethod(h, a, k, m)
    PROVE  ArrayGives(h, a, k, m, g)
<1> DEFINE A == [h.array EXCEPT ![a] = [h.array[a] EXCEPT ![k] = m]]
<1>1. h.array[a] \in [Selectors -> Methods \cup {Nil}]
  BY HeapFields
<1>2. A \in [Ids -> [Selectors -> Methods \cup {Nil}]]
  BY <1>1, HeapFields
<1>3. g = [h EXCEPT !.array = A]
  BY DEF HeapType, WithMethod
<1>4. A = [h.array EXCEPT ![a] = [h.array[a] EXCEPT ![k] = m]]
  OBVIOUS
<1> HIDE DEF A
<1>5. g \in HeapType
  BY <1>2, <1>3 DEF HeapType
<1>6. SameLinks(h, g) /\ SameRest(h, g) /\ g.storage = h.storage /\ g.array = A
  BY <1>3 DEF HeapType, SameLinks, SameRest
<1> QED BY <1>4, <1>5, <1>6 DEF ArrayGives

\* Compiled code and tables as they were: nothing to notice.
LEMMA SameNoticed ==
    ASSUME NEW h \in HeapType, NEW g, SameRest(h, g),
           \A d \in Classes : ~ Table(g, d).invalid =>
               ~ Table(h, d).invalid /\ Table(g, d).methoddict = Table(h, d).methoddict
    PROVE  Noticed(h, g)
<1> SUFFICES ASSUME NEW c \in Classes PROVE AsBefore(h, g, c)
  BY DEF Noticed
<1>1. g.compiled = h.compiled /\ g.s_superclass = h.s_superclass
  BY DEF SameRest
<1>2. Chain(g, c) = Chain(h, c)
  BY <1>1, SuperAbove
<1>3. Range(Chain(h, c)) \subseteq Classes
  BY ChainClasses
<1> QED BY <1>1, <1>2, <1>3 DEF AsBefore

-----------------------------------------------------------------------------
(* What each step of a change keeps *)

\* The parts of soundness.
LEMMA SoundParts ==
    ASSUME NEW h, NEW T, NEW V, Sound(h, T, V)
    PROVE  Shape(h) /\ Owned(h) /\ Watched(h) /\ Apart(h, T, V)
BY DEF Sound

\* A store of keys makes the table invalid, so that compiled code need not fit it.
LEMMA StoreNamesKeeps ==
    ASSUME NEW h \in HeapType, NEW T, NEW V, Sound(h, T, V), NEW o \in Ids,
           NEW names \in SUBSET Selectors, NEW g, g = StoreNames(h, o, names)
    PROVE  g \in HeapType /\ Sound(g, T, V) /\ SameRest(h, g) /\ Noticed(h, g)
<1>1. /\ g \in HeapType /\ SameLinks(h, g) /\ SameRest(h, g)
      /\ \A s \in Ids : s # h.shadow[o] => g.storage[s] = h.storage[s]
      /\ g.storage[h.shadow[o]].invalid =
            (h.storage[h.shadow[o]].invalid \/ h.storage[h.shadow[o]].is_methoddict)
  BY StoreNamesFacts
<1>2. Sound(g, T, V)
  BY <1>1, SameLinksSound
<1>3. ASSUME NEW d \in Classes, ~ Table(g, d).invalid
      PROVE  ~ Table(h, d).invalid /\ Table(g, d).methoddict = Table(h, d).methoddict
  <2>1. h.s_methoddict[d] \in Ids /\ g.s_methoddict = h.s_methoddict
    BY <1>1, HeapFields DEF SameRest
  <2>2. h.storage[h.s_methoddict[d]].is_methoddict
    BY DEF Sound, Owned
  <2>3. h.s_methoddict[d] # h.shadow[o]
    BY <1>1, <1>3, <2>1, <2>2 DEF Table
  <2>4. Table(g, d) = Table(h, d)
    BY <1>1, <2>1, <2>3 DEF Table
  <2> QED BY <1>3, <2>4
<1>4. Noticed(h, g)
  BY <1>1, <1>3, SameNoticed
<1> QED BY <1>1, <1>2, <1>4

\* A store to an array.
LEMMA StoreInArrayKeeps ==
    ASSUME NEW h \in HeapType, Attached(h), NEW T, NEW V, Sound(h, T, V), NEW a \in Ids,
           NEW k \in Selectors, NEW m \in Methods,
           NEW g, g = StoreInArray(h, a, k, m)
    PROVE  g \in HeapType /\ Sound(g, T, V) /\ Attached(g) /\ Noticed(h, g)
<1> PICK f : f = WithMethod(h, a, k, m)
  OBVIOUS
<1>1. f \in HeapType /\ SameLinks(h, f) /\ SameRest(h, f) /\ f.storage = h.storage
  <2>1. ArrayGives(h, a, k, m, f)
    BY ArrayFacts
  <2> QED BY <2>1 DEF ArrayGives
<1>2. Sound(f, T, V)
  BY <1>1, SameLinksSound
<1>3. Attached(f)
  BY <1>1, SameAttached DEF SameRest
<1>4. Noticed(h, f)
  <2>1. \A d \in Classes : Table(f, d) = Table(h, d)
    BY <1>1 DEF Table, SameRest
  <2> QED BY <1>1, <2>1, SameNoticed
<1>5. f.dependent[a] \in Ids \cup {Nil} /\ f.dependent[a] = h.dependent[a]
  BY <1>1, HeapFields DEF SameLinks
<1>6. g = IF h.dependent[a] = Nil THEN f ELSE sync_method_cache(f, h.dependent[a])
  BY DEF StoreInArray, WithMethod
<1>7. CASE h.dependent[a] = Nil
  BY <1>1, <1>2, <1>3, <1>4, <1>6, <1>7
<1>8. CASE h.dependent[a] # Nil
  <2> PICK s \in Ids : s = h.dependent[a]
    BY <1>5, <1>8
  <2>1. g = sync_method_cache(f, s) /\ Owned(f)
    BY <1>2, <1>6, <1>8 DEF Sound
  <2>2. Carried(f, g)
    BY <1>1, <1>3, <2>1, FlushCarries
  <2>3. g \in HeapType /\ SameLinks(f, g) /\ SameObjects(f, g) /\ Noticed(f, g)
    BY <2>2, SameObjectsLinks DEF Carried
  <2>4. Sound(g, T, V)
    BY <1>1, <1>2, <2>3, SameLinksSound
  <2>5. Attached(g)
    BY <1>3, <2>3, SameAttached DEF SameObjects
  <2>6. Noticed(h, g)
    BY <1>4, <2>3, NoticedTwice
  <2> QED BY <2>3, <2>4, <2>5, <2>6
<1> QED BY <1>7, <1>8

\* A flush of a method.
LEMMA FlushKeeps ==
    ASSUME NEW h \in HeapType, Attached(h), NEW T, NEW V, Sound(h, T, V), NEW m \in Methods,
           NEW g, g = FlushMethod(h, m)
    PROVE  g \in HeapType /\ Sound(g, T, V) /\ Attached(g) /\ Noticed(h, g)
<1>1. Owned(h)
  BY DEF Sound
<1>2. Carried(h, g)
  BY <1>1, FlushMethodCarries
<1>3. g \in HeapType /\ SameLinks(h, g) /\ SameObjects(h, g) /\ Noticed(h, g)
  BY <1>2, SameObjectsLinks DEF Carried
<1>4. Sound(g, T, V)
  BY <1>3, SameLinksSound
<1>5. Attached(g)
  BY <1>3, SameAttached DEF SameObjects
<1> QED BY <1>3, <1>4, <1>5

\* The copy n is an object of its own.
CopyKept(h, T, V, n, g) ==
    /\ g \in HeapType /\ Sound(g, T, V \cup {n}) /\ SameRest(h, g) /\ Noticed(h, g)
    /\ ~ g.storage[n].is_methoddict /\ n \notin Made(h) /\ n \in Ids
    /\ g.storage[n].s_class = Nil /\ Made(g) = Made(h) \cup {n}

\* The making of a copy.
LEMMA CopyKeeps ==
    ASSUME NEW h \in HeapType, NEW T, NEW V, Sound(h, T, V), NEW o \in Ids,
           NEW keys \in SUBSET Selectors, h.made + 1 <= MaxMade, NEW n, n = h.made + 1,
           NEW g, g = Copy(h, o, keys)
    PROVE  CopyKept(h, T, V, n, g)
<1>1. /\ g \in HeapType /\ g.made = n
      /\ g.shadow = [h.shadow EXCEPT ![n] = n]
      /\ g.dependent = h.dependent /\ SameRest(h, g)
      /\ \A s \in Ids : s # n => g.storage[s] = h.storage[s]
      /\ g.storage[n].w_self = n /\ g.storage[n].w_values = n
      /\ g.storage[n].s_class = h.storage[n].s_class
      /\ g.storage[n].is_methoddict = h.storage[n].is_methoddict
  <2>1. CopyGives(h, o, keys, n, g)
    BY CopyFacts
  <2> QED BY <2>1 DEF CopyGives
<1>2. /\ Made(h) \subseteq Ids /\ n \notin Made(h) /\ n \in Ids /\ n # Nil
      /\ h.made \in Nat /\ MaxMade \in Nat /\ Nil \notin Ids
  BY MadeFacts
<1>3. Made(g) = Made(h) \cup {n}
  BY <1>1, <1>2 DEF Made
<1>4. Shape(h) /\ Owned(h) /\ Watched(h) /\ Apart(h, T, V)
  BY SoundParts
<1>5. h.shadow \in [Ids -> Ids] /\ h.s_methoddict \in [Classes -> Ids]
      /\ h.w_methoddict \in [Classes -> Ids]
      /\ g.w_methoddict = h.w_methoddict /\ g.s_methoddict = h.s_methoddict
  BY <1>1, HeapFields DEF SameRest
<1>6. /\ g.shadow[n] = n /\ \A o2 \in Made(h) : g.shadow[o2] = h.shadow[o2] /\ o2 # n
      /\ \A s \in Made(h) : g.storage[s] = h.storage[s]
  BY <1>1, <1>2, <1>5
<1>7. h.dependent[n] = Nil /\ h.storage[n].s_class = Nil /\ ~ h.storage[n].is_methoddict
  BY <1>2, <1>4 DEF Shape
<1>8. Shape(g)
  <2>1. \A o2 \in Made(g) : g.shadow[o2] \in Made(g)
    BY <1>3, <1>4, <1>6 DEF Shape
  <2>2. \A c \in Classes : g.w_methoddict[c] \in Made(g) /\ g.s_methoddict[c] \in Made(g)
    BY <1>3, <1>4, <1>5 DEF Shape
  <2>3. \A s \in Made(g) : g.storage[s].w_self \in Made(g) /\ g.storage[s].w_values \in Made(g)
    BY <1>1, <1>3, <1>4, <1>6 DEF Shape
  <2>4. \A i \in Ids \ Made(g) : /\ g.dependent[i] = Nil /\ g.storage[i].s_class = Nil
                                 /\ ~ g.storage[i].is_methoddict /\ g.shadow[i] = i
    BY <1>1, <1>3, <1>4, <1>5 DEF Shape
  <2> QED BY <2>1, <2>2, <2>3, <2>4 DEF Shape
<1>9. \A s \in Ids : /\ g.storage[s].s_class = h.storage[s].s_class
                     /\ g.storage[s].is_methoddict = h.storage[s].is_methoddict
  BY <1>1
<1>10. Owned(g)
  BY <1>4, <1>5, <1>9 DEF Owned
<1>11. Watched(g)
  <2> SUFFICES ASSUME NEW c \in Classes, LinkedIn(g, c)
               PROVE  LET s == g.s_methoddict[c]
                      IN  /\ g.storage[s].w_self = g.w_methoddict[c]
                          /\ g.dependent[g.storage[s].w_values] = s
    BY DEF Watched
  <2>1. h.w_methoddict[c] \in Made(h) /\ h.s_methoddict[c] \in Made(h)
    BY <1>4 DEF Shape
  <2>2. LinkedIn(h, c)
    BY <1>5, <1>6, <2>1 DEF LinkedIn
  <2> PICK s : s = h.s_methoddict[c]
    OBVIOUS
  <2>3. h.storage[s].w_self = h.w_methoddict[c] /\ h.dependent[h.storage[s].w_values] = s
    BY <1>4, <2>2 DEF Watched
  <2>4. g.storage[s] = h.storage[s]
    BY <1>6, <2>1
  <2>5. g.dependent = h.dependent
    BY <1>1
  <2> QED BY <1>5, <2>3, <2>4, <2>5
<1>12. Apart(g, T, V \cup {n})
  <2>1. T \subseteq Made(h) /\ V \subseteq Made(h)
    BY <1>4 DEF Apart
  <2>2. \A c \in Classes : g.w_methoddict[c] \in T
    BY <1>4, <1>5 DEF Apart
  <2>3. \A v \in V \cup {n} : g.storage[v].w_values = v /\ g.dependent[v] = Nil
    BY <1>1, <1>4, <1>6, <1>7, <2>1 DEF Apart
  <2>4. \A v \in V \cup {n}, o2 \in T : g.shadow[o2] # v
    <3>1. \A o2 \in T : g.shadow[o2] = h.shadow[o2] /\ h.shadow[o2] \in Made(h)
      BY <1>4, <1>6, <2>1 DEF Shape
    <3> QED BY <1>2, <1>4, <3>1 DEF Apart
  <2> QED BY <1>3, <2>1, <2>2, <2>3, <2>4 DEF Apart
<1>13. Noticed(h, g)
  <2>1. ASSUME NEW d \in Classes PROVE Table(g, d) = Table(h, d)
    <3>1. h.s_methoddict[d] \in Made(h)
      BY <1>4 DEF Shape
    <3> QED BY <1>5, <1>6, <3>1 DEF Table
  <2> QED BY <1>1, <2>1, SameNoticed
<1> QED BY <1>1, <1>2, <1>3, <1>7, <1>8, <1>10, <1>11, <1>12, <1>13 DEF CopyKept, Sound

\* An array that nobody watches, of a copy that nobody else takes, becomes the values.
LEMMA StoreValuesKeeps ==
    ASSUME NEW h \in HeapType, NEW T, NEW V, Sound(h, T, V), NEW o \in T, NEW v \in V,
           NEW g, g = StoreValues(h, o, v)
    PROVE  g \in HeapType /\ Sound(g, T, V \ {v}) /\ SameRest(h, g) /\ Noticed(h, g)
<1>1. Shape(h) /\ Owned(h) /\ Watched(h) /\ Apart(h, T, V)
  BY SoundParts
<1>2. Made(h) \subseteq Ids /\ Nil \notin Ids
  BY MadeFacts
<1>3. o \in Made(h) /\ v \in Made(h) /\ T \subseteq Made(h) /\ V \subseteq Made(h)
  BY <1>1 DEF Apart
<1> PICK s \in Made(h) : s = h.shadow[o]
  BY <1>1, <1>3 DEF Shape
<1>4. /\ s # v /\ h.dependent[v] = Nil /\ h.storage[v].w_values = v
      /\ \A w \in V : s # w /\ h.dependent[w] = Nil /\ h.storage[w].w_values = w
      /\ \A w \in V, x \in T : h.shadow[x] # w
  BY <1>1 DEF Apart
<1> PICK x \in Storage : x = h.storage[s]
  BY <1>2, HeapFields
<1> DEFINE y == [x EXCEPT !.w_values = v]
           S == [h.storage EXCEPT ![s] = y]
           f == [h EXCEPT !.storage = S]
<1>5. /\ y \in Storage /\ y.w_values = v /\ y.methoddict = x.methoddict
      /\ y.is_methoddict = x.is_methoddict /\ y.w_self = x.w_self
      /\ y.s_class = x.s_class /\ y.invalid = x.invalid
  BY <1>2, <1>3 DEF Storage
<1>6. [h EXCEPT !.storage[s].w_values = v] = f
  BY DEF HeapType
<1>7. g = IF x.is_methoddict THEN setup_notification(f, s) ELSE f
  BY <1>6 DEF StoreValues
<1> HIDE DEF y
<1>8. S \in [Ids -> Storage] /\ S[s] = y /\ \A t \in Ids : t # s => S[t] = h.storage[t]
  BY <1>2, <1>5, HeapFields
<1> HIDE DEF S
<1>9. f \in HeapType
  BY <1>8 DEF HeapType
<1>10. /\ f.storage = S /\ f.shadow = h.shadow /\ f.array = h.array
       /\ f.dependent = h.dependent /\ f.made = h.made /\ SameRest(h, f)
  BY DEF HeapType, SameRest
<1> HIDE DEF f
<1> DEFINE D == [h.dependent EXCEPT ![v] = s]
<1>11. /\ g \in HeapType /\ g.storage = S /\ g.shadow = h.shadow /\ g.made = h.made
       /\ SameRest(h, g)
       /\ g.dependent = IF x.is_methoddict THEN D ELSE h.dependent
  <2>1. CASE ~ x.is_methoddict
    BY <2>1, <1>7, <1>9, <1>10
  <2>2. CASE x.is_methoddict
    <3>1. g = setup_notification(f, s) /\ f.storage[s].w_values = v /\ f.dependent[v] = Nil
      BY <2>2, <1>4, <1>5, <1>7, <1>8, <1>10
    <3>2. /\ g \in HeapType /\ g.dependent = [f.dependent EXCEPT ![v] = s]
          /\ g.shadow = f.shadow /\ g.storage = f.storage /\ g.made = f.made /\ SameRest(f, g)
      BY <1>2, <1>9, <3>1, SetupFacts DEF SameRest
    <3>3. SameRest(h, g)
      BY <1>10, <3>2 DEF SameRest
    <3> QED BY <1>10, <2>2, <3>2, <3>3
  <2> QED BY <2>1, <2>2
<1>12. /\ g.w_methoddict = h.w_methoddict /\ g.s_methoddict = h.s_methoddict
       /\ Made(g) = Made(h) /\ h.s_methoddict \in [Classes -> Ids]
       /\ h.dependent \in [Ids -> Ids \cup {Nil}]
  BY <1>11, HeapFields DEF SameRest, Made
<1>13. \A t \in Ids : /\ g.storage[t].is_methoddict = h.storage[t].is_methoddict
                      /\ g.storage[t].w_self = h.storage[t].w_self
                      /\ g.storage[t].s_class = h.storage[t].s_class
                      /\ g.storage[t].invalid = h.storage[t].invalid
                      /\ g.storage[t].methoddict = h.storage[t].methoddict
  BY <1>5, <1>8, <1>11
<1>14. g.storage[s].w_values = v
       /\ \A t \in Ids : t # s => g.storage[t].w_values = h.storage[t].w_values
  BY <1>2, <1>5, <1>8, <1>11
<1>15. D[v] = s /\ \A i \in Ids : i # v => D[i] = h.dependent[i]
  BY <1>2, <1>3, <1>12
<1>16. \A i \in Ids : i # v => g.dependent[i] = h.dependent[i]
  BY <1>11, <1>15
<1> HIDE DEF D
<1>17. Shape(g)
  <2>1. \A i \in Ids \ Made(h) : g.dependent[i] = Nil
    BY <1>1, <1>3, <1>16 DEF Shape
  <2>2. \A t \in Made(h) : g.storage[t].w_self \in Made(h) /\ g.storage[t].w_values \in Made(h)
    BY <1>1, <1>2, <1>3, <1>13, <1>14 DEF Shape
  <2> QED BY <1>1, <1>11, <1>12, <1>13, <2>1, <2>2 DEF Shape
<1>18. Owned(g)
  BY <1>1, <1>12, <1>13 DEF Owned
<1>19. Watched(g)
  <2> SUFFICES ASSUME NEW c \in Classes, LinkedIn(g, c)
               PROVE  LET u == g.s_methoddict[c]
                      IN  /\ g.storage[u].w_self = g.w_methoddict[c]
                          /\ g.dependent[g.storage[u].w_values] = u
    BY DEF Watched
  <2> PICK u \in Made(h) : u = h.s_methoddict[c]
    BY <1>1 DEF Shape
  <2>1. LinkedIn(h, c)
    BY <1>11, <1>12 DEF LinkedIn
  <2>2. /\ h.storage[u].w_self = h.w_methoddict[c]
        /\ h.dependent[h.storage[u].w_values] = u
    BY <1>1, <2>1 DEF Watched
  <2>3. g.storage[u].w_self = g.w_methoddict[c]
    BY <1>2, <1>12, <1>13, <2>2
  <2>4. CASE u = s
    <3>1. x.is_methoddict
      BY <1>1, <2>4 DEF Owned
    <3> QED BY <1>11, <1>12, <1>14, <1>15, <2>3, <2>4, <3>1
  <2>5. CASE u # s
    <3>1. h.storage[u].w_values \in Made(h) /\ h.storage[u].w_values # v
      BY <1>1, <1>2, <1>4, <2>2 DEF Shape
    <3> QED BY <1>2, <1>12, <1>14, <1>16, <2>2, <2>3, <2>5, <3>1
  <2> QED BY <2>4, <2>5
<1>20. Apart(g, T, V \ {v})
  <2>1. \A c \in Classes : g.w_methoddict[c] \in T
    BY <1>1, <1>12 DEF Apart
  <2>2. \A w \in V \ {v} : g.storage[w].w_values = w /\ g.dependent[w] = Nil
    BY <1>2, <1>3, <1>4, <1>14, <1>16
  <2> QED BY <1>3, <1>4, <1>11, <1>12, <2>1, <2>2 DEF Apart
<1>21. Noticed(h, g)
  <2>1. ASSUME NEW d \in Classes
        PROVE  Table(g, d).invalid = Table(h, d).invalid
               /\ Table(g, d).methoddict = Table(h, d).methoddict
    BY <1>12, <1>13 DEF Table
  <2> QED BY <1>11, <2>1, SameNoticed
<1> QED BY <1>11, <1>17, <1>18, <1>19, <1>20, <1>21 DEF Sound

\* A class c gets a copy of its dictionary: the object n, with the storage new; u is the one
\* it had.  The heap is e before the new version of c, then g.
SuppliedLinks(h, c, n, new, e) ==
    /\ Made(e) = Made(h) \cup {n, new}
    /\ e.shadow[n] = new /\ e.shadow[new] = new
    /\ \A i \in Ids : i # n => e.shadow[i] = h.shadow[i]
    /\ e.dependent[n] = new /\ \A i \in Ids : i # n => e.dependent[i] = h.dependent[i]
    /\ e.s_methoddict[c] = new
    /\ \A z \in Classes : z # c => e.s_methoddict[z] = h.s_methoddict[z]
    /\ e.w_methoddict[c] = n
    /\ \A z \in Classes : z # c => e.w_methoddict[z] = h.w_methoddict[z]
    /\ e.array[n] = PartOf(h, h.w_methoddict[c], Selectors)
    /\ \A i \in Ids : i # n => e.array[i] = h.array[i]

SuppliedStorages(h, c, n, new, u, e) ==
    /\ e.storage[new].is_methoddict /\ e.storage[new].w_self = n
    /\ e.storage[new].w_values = n /\ e.storage[new].s_class = c
    /\ e.storage[new].names = h.storage[h.shadow[h.w_methoddict[c]]].names
    /\ ~ e.storage[n].is_methoddict /\ e.storage[n].w_self = n
    /\ e.storage[n].w_values = n /\ e.storage[n].s_class = Nil
    /\ \A s \in Ids : s # n /\ s # new =>
          /\ e.storage[s].is_methoddict = h.storage[s].is_methoddict
          /\ e.storage[s].w_self = h.storage[s].w_self
          /\ e.storage[s].w_values = h.storage[s].w_values
          /\ e.storage[s].s_class = IF s = u THEN Nil ELSE h.storage[s].s_class
    /\ \A s \in Ids : s # n /\ s # new /\ s # u => e.storage[s] = h.storage[s]

Supplied(h, c, n, new, u, e, g) ==
    /\ n \in Ids /\ n \notin Made(h) /\ new \in Ids /\ new \notin Made(h) /\ n # new
    /\ u \in Made(h) /\ u \in Ids
    /\ e \in HeapType /\ g \in HeapType /\ SameObjects(e, g) /\ g.storage = e.storage
    /\ g.lookup_class = e.lookup_class /\ g.error = e.error
    /\ Attached(g) /\ Noticed(h, g)
    /\ SuppliedLinks(h, c, n, new, e) /\ SuppliedStorages(h, c, n, new, u, e)
    /\ FillsTable(h, c, new, h.storage[h.shadow[h.w_methoddict[c]]].names,
                  PartOf(h, h.w_methoddict[c], Selectors), e)

LEMMA SetMethodDictGives ==
    ASSUME NEW h \in HeapType, Attached(h), NEW T, NEW V, Sound(h, T, V), NEW c \in Classes,
           h.made + 2 <= MaxMade, NEW n, n = h.made + 1, NEW new, new = n + 1,
           NEW u, u = h.s_methoddict[c],
           NEW g, g = store_w_methoddict(Copy(h, h.w_methoddict[c], Selectors), c, n)
    PROVE  \E e : Supplied(h, c, n, new, u, e, g)
<1> PICK o \in Ids : o = h.w_methoddict[c]
  BY HeapFields
<1> PICK b : b = Copy(h, o, Selectors)
  OBVIOUS
<1>1. h.made + 1 <= MaxMade /\ h.made \in Nat /\ MaxMade \in Nat
  BY MadeFacts
<1>2. CopyGives(h, o, Selectors, n, b)
  BY <1>1, CopyFacts
<1>3. /\ b \in HeapType /\ Sound(b, T, V \cup {n}) /\ SameRest(h, b) /\ Noticed(h, b)
      /\ ~ b.storage[n].is_methoddict /\ n \notin Made(h) /\ n \in Ids
      /\ b.storage[n].s_class = Nil /\ Made(b) = Made(h) \cup {n}
  <2>1. CopyKept(h, T, V, n, b)
    BY <1>1, CopyKeeps
  <2> QED BY <2>1 DEF CopyKept
<1>4. /\ b.made = n /\ b.shadow = [h.shadow EXCEPT ![n] = n] /\ b.dependent = h.dependent
      /\ \A s \in Ids : s # n => b.storage[s] = h.storage[s]
      /\ b.storage[n].w_self = n /\ b.storage[n].w_values = n
  BY <1>2, Zenon DEF CopyGives
<1>5. /\ Shape(h) /\ Owned(h) /\ Watched(h) /\ Apart(h, T, V)
      /\ Shape(b) /\ Owned(b) /\ Watched(b) /\ Apart(b, T, V \cup {n})
  BY <1>3, SoundParts
<1>6. /\ new \in Ids /\ new # n /\ new \notin Made(b) /\ b.made + 1 <= MaxMade
      /\ new = b.made + 1 /\ new # Nil
  BY <1>1, <1>3, <1>4, MadeFacts
<1>7. b.shadow[n] = n /\ b.dependent[n] = Nil
  <2>1. h.shadow \in [Ids -> Ids]
    BY HeapFields
  <2>2. b.shadow[n] = n
    BY <1>3, <1>4, <2>1
  <2> QED BY <2>2, <1>5 DEF Apart
<1> PICK a : a = as_methoddict_get_shadow(b, n)
  OBVIOUS
<1>8. /\ a \in HeapType /\ a.made = new
      /\ a.shadow = [b.shadow EXCEPT ![n] = new]
      /\ a.dependent = [b.dependent EXCEPT ![n] = new]
      /\ SameRest(b, a) /\ a.array = b.array
      /\ \A s \in Ids : s # new => a.storage[s] = b.storage[s]
      /\ a.storage[new] = [b.storage[n] EXCEPT !.is_methoddict = TRUE, !.invalid = TRUE]
      /\ a.storage[new] \in Storage
      /\ MethodDictOf(b, n) = new
  <2>1. /\ b \in HeapType /\ n \in Ids /\ b.shadow[n] = n /\ ~ b.storage[n].is_methoddict
        /\ b.storage[n].w_self = n /\ b.storage[n].w_values = n
        /\ b.made + 1 <= MaxMade /\ new = b.made + 1 /\ new # n /\ b.dependent[n] = Nil
    BY <1>3, <1>4, <1>6, <1>7
  <2>2. MakesMethodDict(b, n, new, a) /\ MethodDictOf(b, n) = new
    BY <2>1, MakeMethodDictFacts
  <2> QED BY <2>2 DEF MakesMethodDict
<1>9. /\ a.storage[new].is_methoddict /\ a.storage[new].invalid /\ a.storage[new].w_self = n
      /\ a.storage[new].w_values = n /\ a.storage[new].s_class = Nil
      /\ a.storage[new].names = b.storage[n].names
  <2>1. b.storage[n] \in Storage
    BY <1>3, HeapFields
  <2> QED BY <1>3, <1>4, <1>8, <2>1, Zenon DEF Storage
<1>10. /\ u \in Made(h) /\ u # new /\ u # n /\ u \in Ids /\ a.s_methoddict[c] = u
       /\ b.s_methoddict = h.s_methoddict /\ b.w_methoddict = h.w_methoddict
       /\ a.s_methoddict = h.s_methoddict /\ a.w_methoddict = h.w_methoddict
       /\ a.s_superclass = h.s_superclass /\ a.subclass_s = h.subclass_s
  <2>1. /\ b.s_methoddict = h.s_methoddict /\ b.w_methoddict = h.w_methoddict
        /\ a.s_methoddict = h.s_methoddict /\ a.w_methoddict = h.w_methoddict
        /\ a.s_superclass = h.s_superclass /\ a.subclass_s = h.subclass_s
    BY <1>3, <1>8 DEF SameRest
  <2>2. u \in Made(h)
    BY <1>5 DEF Shape
  <2>3. Made(h) \subseteq Ids
    BY MadeFacts
  <2> QED BY <2>1, <2>2, <2>3, <1>3, <1>6
<1> PICK x \in Storage : x = a.storage[u]
  <2>1. a.storage \in [Ids -> Storage]
    BY <1>8, HeapFields, Zenon
  <2>2. u \in Ids
    BY <1>10, Zenon
  <2> QED BY <2>1, <2>2
<1> DEFINE y == [x EXCEPT !.s_class = Nil]
           S == [a.storage EXCEPT ![u] = y]
           W == [h.w_methoddict EXCEPT ![c] = n]
           d == [a EXCEPT !.w_methoddict = W, !.storage = S]
<1>11. /\ y \in Storage /\ y.s_class = Nil /\ y.is_methoddict = x.is_methoddict
       /\ y.w_self = x.w_self /\ y.w_values = x.w_values /\ y.methoddict = x.methoddict
       /\ y.invalid = x.invalid
  BY ZenonT(30) DEF Storage
<1>12. g = changed(store_s_methoddict(d, c, new), c)
  <2> DEFINE g1 == [a EXCEPT !.w_methoddict[c] = n]
             g2 == [g1 EXCEPT !.storage[g1.s_methoddict[c]].s_class = Nil]
  <2>1. g1 = [a EXCEPT !.w_methoddict = W]
    BY <1>8, <1>10 DEF HeapType
  <2>2. g1.s_methoddict[c] = u /\ g1.storage = a.storage
    BY <1>8, <1>10 DEF HeapType
  <2>3. g = changed(IF new = g1.s_methoddict[c] THEN g1
                    ELSE store_s_methoddict(g2, c, new), c)
    <3>1. g = store_w_methoddict(b, c, n)
      OBVIOUS
    <3>2. MethodDictOf(b, n) = new
      BY <1>8
    <3> QED BY <3>1, <3>2, Zenon DEF store_w_methoddict
  <2>4. g2 = [g1 EXCEPT !.storage[u].s_class = Nil]
    BY <2>2
  <2> HIDE DEF g2, y, W
  <2>5. g2 = d
    BY <1>8, <2>1, <2>2, <2>4 DEF HeapType, y
  <2> QED BY <1>10, <2>2, <2>3, <2>5
<1> HIDE DEF y
<1>13. S \in [Ids -> Storage] /\ S[u] = y /\ \A s \in Ids : s # u => S[s] = a.storage[s]
  <2>1. a.storage \in [Ids -> Storage] /\ u \in Ids /\ y \in Storage
    BY <1>8, <1>10, <1>11, HeapFields, Zenon
  <2> QED BY <2>1
<1>14. W \in [Classes -> Ids] /\ W[c] = n /\ \A e \in Classes : e # c => W[e] = h.w_methoddict[e]
  BY <1>3, HeapFields
<1> HIDE DEF S, W
<1>15. d \in HeapType
  BY <1>8, <1>13, <1>14 DEF HeapType
<1>16. /\ d.storage = S /\ d.w_methoddict = W /\ d.shadow = a.shadow /\ d.made = new
       /\ d.dependent = a.dependent /\ d.s_methoddict = h.s_methoddict
       /\ d.s_superclass = h.s_superclass /\ d.subclass_s = h.subclass_s
       /\ d.compiled = a.compiled /\ d.array = a.array
       /\ d.lookup_class = a.lookup_class /\ d.error = a.error
  BY <1>8, <1>10 DEF HeapType
<1> HIDE DEF d
<1> PICK e : e = store_s_methoddict(d, c, new)
  OBVIOUS
<1>17. d.storage[new] = a.storage[new] /\ Attached(d)
  <2>1. Attached(d)
    BY <1>16, SameAttached
  <2> QED BY <1>6, <1>10, <1>13, <1>16, <2>1
<1>18. \A z \in Classes : h.s_methoddict[z] \in Made(h) /\ h.s_methoddict[z] # new
                          /\ h.s_methoddict[z] # n /\ h.s_methoddict[z] \in Ids
  <2> SUFFICES ASSUME NEW z \in Classes, NEW s, s = h.s_methoddict[z]
               PROVE  s \in Made(h) /\ s # new /\ s # n /\ s \in Ids
    OBVIOUS
  <2>1. s \in Made(h)
    BY <1>5, Zenon DEF Shape
  <2>2. Made(h) \subseteq Ids /\ n \notin Made(h) /\ new \notin Made(h)
    BY <1>3, <1>6, MadeFacts
  <2> QED BY <2>1, <2>2
<1>19. StoresClass(d, c, new, e)
  <2>1. d \in HeapType /\ Attached(d) /\ new \in Ids /\ d.storage[new].invalid
        /\ \A z \in Classes : z # c => d.s_methoddict[z] # new
    BY <1>6, <1>9, <1>15, <1>16, <1>17, <1>18
  <2> QED BY <2>1, StoreClassFacts
<1>20. /\ e \in HeapType
       /\ e.s_methoddict = [d.s_methoddict EXCEPT ![c] = new]
       /\ e.shadow = d.shadow /\ e.dependent = d.dependent
       /\ e.w_methoddict = d.w_methoddict /\ e.made = d.made
       /\ e.s_superclass = d.s_superclass /\ e.subclass_s = d.subclass_s
       /\ \A s \in Ids : /\ e.storage[s].is_methoddict = d.storage[s].is_methoddict
                         /\ e.storage[s].w_self = d.storage[s].w_self
                         /\ e.storage[s].w_values = d.storage[s].w_values
       /\ \A s \in Ids : e.storage[s].s_class = IF s = new THEN c ELSE d.storage[s].s_class
       /\ Noticed(d, e)
  BY <1>19 DEF StoresClass
<1>21. /\ \A s \in Ids : s # new => e.storage[s] = d.storage[s]
       /\ e.storage[new].names = d.storage[new].names
       /\ e.array = d.array /\ FillsTable(d, c, new, KeysOf(d, new), ValuesOf(d, new), e)
  BY <1>6, <1>19 DEF StoresClass
<1>22. /\ g = changed(e, c) /\ g \in HeapType /\ SameObjects(e, g)
       /\ \A z \in Classes : IF z \in Below(e, c) THEN Cleared(g, z)
                             ELSE g.compiled[z] = e.compiled[z]
       /\ g.storage = e.storage /\ g.lookup_class = e.lookup_class /\ g.error = e.error
  <2>1. g = changed(e, c)
    BY <1>12
  <2>2. ChangesTo(e, c, g)
    BY <2>1, <1>20, ChangedFacts
  <2> QED BY <2>1, <2>2 DEF ChangesTo
<1>23. Noticed(e, g)
  <2> SUFFICES ASSUME NEW z \in Classes, ~ Cleared(g, z) PROVE AsBefore(e, g, z)
    BY DEF Noticed
  <2>1. g.compiled[z] = e.compiled[z]
    BY <1>22
  <2>2. g.s_superclass = e.s_superclass /\ g.s_methoddict = e.s_methoddict
    BY <1>22 DEF SameObjects
  <2>3. Chain(g, z) = Chain(e, z)
    BY <2>2, SuperAbove
  <2> QED BY <1>22, <2>1, <2>2, <2>3, Zenon DEF AsBefore, Table
<1>24. Noticed(b, d)
  <2>1. /\ d.compiled = b.compiled /\ d.s_superclass = b.s_superclass
        /\ d.s_methoddict = b.s_methoddict
    BY <1>3, <1>8, <1>16 DEF SameRest
  <2>2. ASSUME NEW z \in Classes
        PROVE  Table(d, z).invalid = Table(b, z).invalid
               /\ Table(d, z).methoddict = Table(b, z).methoddict
    <3>1. h.s_methoddict[z] \in Ids /\ h.s_methoddict[z] # new
      BY <1>18
    <3>2. a.storage[h.s_methoddict[z]] = b.storage[h.s_methoddict[z]]
      BY <1>8, <3>1
    <3>3. CASE h.s_methoddict[z] = u
      <4>1. Table(d, z) = y /\ Table(b, z) = x
        BY <3>2, <3>3, <1>10, <1>13, <1>16 DEF Table
      <4> QED BY <4>1, <1>11, Zenon
    <3>4. CASE h.s_methoddict[z] # u
      BY <3>1, <3>2, <3>4, <1>10, <1>13, <1>16 DEF Table
    <3> QED BY <3>3, <3>4
  <2> SUFFICES ASSUME NEW z \in Classes PROVE AsBefore(b, d, z)
    BY DEF Noticed
  <2>3. Chain(d, z) = Chain(b, z) /\ Range(Chain(b, z)) \subseteq Classes
    <3>1. Chain(d, z) = Chain(b, z)
      BY <2>1, SuperAbove
    <3> QED BY <3>1, <1>3, ChainClasses
  <2> QED BY <2>1, <2>2, <2>3 DEF AsBefore
<1>25. Noticed(h, g)
  <2>1. Noticed(h, d)
    BY <1>3, <1>24, NoticedTwice
  <2>2. Noticed(h, e)
    BY <1>20, <2>1, NoticedTwice
  <2> QED BY <1>23, <2>2, NoticedTwice
<1>26. Attached(g)
  <2>1. g.s_superclass = h.s_superclass /\ g.subclass_s = h.subclass_s
    BY <1>16, <1>20, <1>22 DEF SameObjects
  <2> QED BY <2>1, SameAttached
<1>27. Made(e) = Made(h) \cup {n, new}
  BY <1>1, <1>16, <1>20 DEF Made
<1>28. /\ e.shadow[n] = new /\ e.shadow[new] = new
       /\ \A i \in Ids : i # n => e.shadow[i] = h.shadow[i]
       /\ \A i \in Made(h) : e.shadow[i] = h.shadow[i] /\ h.shadow[i] \in Made(h)
  <2>1. h.shadow \in [Ids -> Ids] /\ Made(h) \subseteq Ids
    BY HeapFields, MadeFacts
  <2>2. h.shadow[new] = new
    BY <1>3, <1>5, <1>6 DEF Shape
  <2>3. b.shadow \in [Ids -> Ids] /\ \A i \in Ids : i # n => b.shadow[i] = h.shadow[i]
    BY <2>1, <1>3, <1>4, HeapFields
  <2>4. e.shadow = [b.shadow EXCEPT ![n] = new]
    BY <1>8, <1>16, <1>20
  <2>5. \A i \in Ids : i # n => e.shadow[i] = h.shadow[i]
    BY <2>3, <2>4
  <2>6. e.shadow[n] = new
    BY <2>3, <2>4, <1>3
  <2> QED BY <2>1, <2>2, <2>5, <2>6, <1>3, <1>5, <1>6 DEF Shape
<1>29. e.dependent[n] = new /\ \A i \in Ids : i # n => e.dependent[i] = h.dependent[i]
  <2>1. h.dependent \in [Ids -> Ids \cup {Nil}]
    BY HeapFields
  <2>2. e.dependent = a.dependent
    BY <1>16, <1>20
  <2>3. a.dependent = [b.dependent EXCEPT ![n] = new]
    BY <1>8
  <2>4. b.dependent = h.dependent
    BY <1>4
  <2>5. e.dependent = [h.dependent EXCEPT ![n] = new]
    BY <2>2, <2>3, <2>4
  <2> QED BY <2>1, <2>5, <1>3
<1>30. /\ e.s_methoddict[c] = new
       /\ \A z \in Classes : z # c => e.s_methoddict[z] = h.s_methoddict[z]
  <2>1. h.s_methoddict \in [Classes -> Ids]
    BY HeapFields
  <2> QED BY <2>1, <1>16, <1>20
<1>31. /\ e.w_methoddict[c] = n
       /\ \A z \in Classes : z # c => e.w_methoddict[z] = h.w_methoddict[z]
  BY <1>14, <1>16, <1>20
<1>32. /\ e.storage[new].is_methoddict /\ e.storage[new].w_self = n
       /\ e.storage[new].w_values = n /\ e.storage[new].s_class = c
  <2>1. /\ d.storage[new].is_methoddict /\ d.storage[new].w_self = n
        /\ d.storage[new].w_values = n
    BY <1>9, <1>17
  <2> QED BY <2>1, <1>6, <1>20
<1>33. \A s \in Ids : s # n /\ s # new =>
          /\ e.storage[s].is_methoddict = h.storage[s].is_methoddict
          /\ e.storage[s].w_self = h.storage[s].w_self
          /\ e.storage[s].w_values = h.storage[s].w_values
          /\ e.storage[s].s_class = IF s = u THEN Nil ELSE h.storage[s].s_class
  <2> SUFFICES ASSUME NEW s \in Ids, s # n, s # new
               PROVE  /\ e.storage[s].is_methoddict = h.storage[s].is_methoddict
                      /\ e.storage[s].w_self = h.storage[s].w_self
                      /\ e.storage[s].w_values = h.storage[s].w_values
                      /\ e.storage[s].s_class = IF s = u THEN Nil ELSE h.storage[s].s_class
    OBVIOUS
  <2>1. a.storage[s] = h.storage[s]
    <3>1. a.storage[s] = b.storage[s]
      BY <1>8, Zenon
    <3>2. b.storage[s] = h.storage[s]
      BY <1>4, Zenon
    <3> QED BY <3>1, <3>2, Zenon
  <2>2. CASE s = u
    BY <2>1, <2>2, <1>11, <1>13, <1>16, <1>20, ZenonT(30)
  <2>3. CASE s # u
    BY <2>1, <2>3, <1>13, <1>16, <1>20, SMTT(30)
  <2> QED BY <2>2, <2>3
<1>34. /\ ~ e.storage[n].is_methoddict /\ e.storage[n].w_self = n
       /\ e.storage[n].w_values = n /\ e.storage[n].s_class = Nil
  <2>1. d.storage[n] = b.storage[n]
    <3>1. n \in Ids /\ n # u /\ n # new
      BY <1>3, <1>6, <1>10
    <3>2. d.storage[n] = a.storage[n]
      BY <3>1, <1>13, <1>16, Zenon
    <3>3. a.storage[n] = b.storage[n]
      BY <3>1, <1>8, Zenon
    <3> QED BY <3>2, <3>3, Zenon
  <2>2. /\ ~ d.storage[n].is_methoddict /\ d.storage[n].w_self = n
        /\ d.storage[n].w_values = n /\ d.storage[n].s_class = Nil
    BY <2>1, <1>3, <1>4
  <2> QED BY <2>2, <1>3, <1>6, <1>20
<1>35. /\ e.storage[new].names = h.storage[h.shadow[o]].names
       /\ d.storage[new].names = h.storage[h.shadow[o]].names
  <2>1. h.storage[h.shadow[o]].names \subseteq Selectors
    <3>1. h.shadow[o] \in Ids
      BY HeapFields
    <3>2. h.storage[h.shadow[o]] \in Storage
      BY <3>1, HeapFields
    <3> QED BY <3>2 DEF Storage
  <2>2. b.storage[n].names = h.storage[h.shadow[o]].names
    BY <2>1, <1>2, Zenon DEF CopyGives
  <2> QED BY <2>2, <1>9, <1>17, <1>21
<1>36. /\ e.array = b.array /\ b.array[n] = PartOf(h, o, Selectors)
       /\ \A i \in Ids : i # n => b.array[i] = h.array[i]
  <2>1. h.array \in [Ids -> [Selectors -> Methods \cup {Nil}]]
    BY HeapFields
  <2>2. b.array = [h.array EXCEPT ![n] = PartOf(h, o, Selectors)]
    BY <1>2, Zenon DEF CopyGives
  <2>3. e.array = b.array
    BY <1>8, <1>16, <1>21
  <2> QED BY <2>1, <2>2, <2>3, <1>3
<1>37. \A s \in Ids : s # n /\ s # new /\ s # u => e.storage[s] = h.storage[s]
  <2> SUFFICES ASSUME NEW s \in Ids, s # n, s # new, s # u PROVE e.storage[s] = h.storage[s]
    OBVIOUS
  <2>1. a.storage[s] = h.storage[s]
    <3>1. a.storage[s] = b.storage[s]
      BY <1>8, Zenon
    <3>2. b.storage[s] = h.storage[s]
      BY <1>4, Zenon
    <3> QED BY <3>1, <3>2, Zenon
  <2>2. d.storage[s] = a.storage[s]
    BY <1>13, <1>16, Zenon
  <2>3. e.storage[s] = d.storage[s]
    BY <1>21, Zenon
  <2> QED BY <2>1, <2>2, <2>3, Zenon
<1>38. FillsTable(h, c, new, h.storage[h.shadow[o]].names, PartOf(h, o, Selectors), e)
  <2>1. d.storage[new].w_self = n /\ d.storage[new].w_values = n
    BY <1>9, <1>17
  <2>2. d.shadow[n] = new
    BY <1>20, <1>28
  <2>3. KeysOf(d, new) = h.storage[h.shadow[o]].names
    BY <2>1, <2>2, <1>35 DEF KeysOf
  <2>4. ValuesOf(d, new) = PartOf(h, o, Selectors)
    BY <2>1, <1>36, <1>21 DEF ValuesOf
  <2>5. d.lookup_class = h.lookup_class /\ d.error = h.error
    BY <1>3, <1>8, <1>16 DEF SameRest
  <2>6. FillsTable(d, c, new, h.storage[h.shadow[o]].names, PartOf(h, o, Selectors), e)
    BY <2>3, <2>4, <1>21
  <2> QED BY <2>5, <2>6 DEF FillsTable
<1>39. /\ n \in Ids /\ n \notin Made(h) /\ new \in Ids /\ new \notin Made(h) /\ n # new
       /\ u \in Made(h) /\ u \in Ids
  BY <1>3, <1>6, <1>10
<1>40. /\ e \in HeapType /\ g \in HeapType /\ SameObjects(e, g) /\ g.storage = e.storage
       /\ g.lookup_class = e.lookup_class /\ g.error = e.error
  <2>1. e \in HeapType
    BY <1>20
  <2> QED BY <2>1, <1>22, Zenon
<1>41. /\ e.array[n] = PartOf(h, h.w_methoddict[c], Selectors)
       /\ \A i \in Ids : i # n => e.array[i] = h.array[i]
       /\ e.storage[new].names = h.storage[h.shadow[h.w_methoddict[c]]].names
       /\ FillsTable(h, c, new, h.storage[h.shadow[h.w_methoddict[c]]].names,
                     PartOf(h, h.w_methoddict[c], Selectors), e)
  BY <1>35, <1>36, <1>38, Zenon
<1>42. SuppliedLinks(h, c, n, new, e)
  BY <1>27, <1>28, <1>29, <1>30, <1>31, <1>41, Zenon DEF SuppliedLinks
<1>43. SuppliedStorages(h, c, n, new, u, e)
  <2>1. /\ e.storage[new].is_methoddict /\ e.storage[new].w_self = n
        /\ e.storage[new].w_values = n /\ e.storage[new].s_class = c
        /\ e.storage[new].names = h.storage[h.shadow[h.w_methoddict[c]]].names
    BY <1>32, <1>41, Zenon
  <2> QED BY <2>1, <1>33, <1>34, <1>37, Zenon DEF SuppliedStorages
<1> QED BY <1>25, <1>26, <1>39, <1>40, <1>41, <1>42, <1>43, Zenon DEF Supplied

\* A class gets a copy of its dictionary.
LEMMA SetMethodDictKeeps ==
    ASSUME NEW h \in HeapType, Attached(h), NEW T, NEW V, Sound(h, T, V), NEW c \in Classes,
           h.made + 2 <= MaxMade, NEW n, n = h.made + 1,
           NEW g, g = store_w_methoddict(Copy(h, h.w_methoddict[c], Selectors), c, n)
    PROVE  g \in HeapType /\ Sound(g, T \cup {n}, V) /\ Attached(g) /\ Noticed(h, g)
<1> PICK new : new = n + 1
  OBVIOUS
<1> PICK u : u = h.s_methoddict[c]
  OBVIOUS
<1> PICK e : Supplied(h, c, n, new, u, e, g)
  BY SetMethodDictGives
<1>1. Shape(h) /\ Owned(h) /\ Watched(h) /\ Apart(h, T, V)
  BY SoundParts
<1>2. /\ n \notin Made(h) /\ n \in Ids /\ new \in Ids /\ new # n /\ new \notin Made(h)
      /\ Made(h) \subseteq Ids /\ u \in Made(h) /\ u \in Ids
  BY MadeFacts DEF Supplied
<1>3. \A z \in Classes : h.s_methoddict[z] \in Made(h) /\ h.s_methoddict[z] # new
                         /\ h.s_methoddict[z] # n /\ h.s_methoddict[z] \in Ids
  BY <1>2, <1>1 DEF Shape
<1>4. /\ e \in HeapType /\ g \in HeapType /\ SameObjects(e, g) /\ Attached(g)
      /\ Noticed(h, g)
  BY Zenon DEF Supplied, SuppliedLinks, SuppliedStorages
<1>5. Made(e) = Made(h) \cup {n, new}
  BY Zenon DEF Supplied, SuppliedLinks, SuppliedStorages
<1>6. /\ e.shadow[n] = new /\ e.shadow[new] = new
      /\ \A i \in Ids : i # n => e.shadow[i] = h.shadow[i]
      /\ \A i \in Made(h) : e.shadow[i] = h.shadow[i] /\ h.shadow[i] \in Made(h)
  <2>1. /\ e.shadow[n] = new /\ e.shadow[new] = new
        /\ \A i \in Ids : i # n => e.shadow[i] = h.shadow[i]
    BY Zenon DEF Supplied, SuppliedLinks, SuppliedStorages
  <2> QED BY <2>1, <1>2, <1>1 DEF Shape
<1>7. e.dependent[n] = new /\ \A i \in Ids : i # n => e.dependent[i] = h.dependent[i]
  BY Zenon DEF Supplied, SuppliedLinks, SuppliedStorages
<1>8. /\ e.s_methoddict[c] = new
      /\ \A z \in Classes : z # c => e.s_methoddict[z] = h.s_methoddict[z]
  BY Zenon DEF Supplied, SuppliedLinks, SuppliedStorages
<1>9. /\ e.w_methoddict[c] = n
      /\ \A z \in Classes : z # c => e.w_methoddict[z] = h.w_methoddict[z]
  BY Zenon DEF Supplied, SuppliedLinks, SuppliedStorages
<1>10. /\ e.storage[new].is_methoddict /\ e.storage[new].w_self = n
       /\ e.storage[new].w_values = n /\ e.storage[new].s_class = c
  BY Zenon DEF Supplied, SuppliedLinks, SuppliedStorages
<1>11. \A s \in Ids : s # n /\ s # new =>
          /\ e.storage[s].is_methoddict = h.storage[s].is_methoddict
          /\ e.storage[s].w_self = h.storage[s].w_self
          /\ e.storage[s].w_values = h.storage[s].w_values
          /\ e.storage[s].s_class = IF s = u THEN Nil ELSE h.storage[s].s_class
  BY Zenon DEF Supplied, SuppliedLinks, SuppliedStorages
<1>12. /\ ~ e.storage[n].is_methoddict /\ e.storage[n].w_self = n
       /\ e.storage[n].w_values = n /\ e.storage[n].s_class = Nil
  BY Zenon DEF Supplied, SuppliedLinks, SuppliedStorages
<1>13. Shape(e)
  <2>1. \A i \in Made(e) : e.shadow[i] \in Made(e)
    BY <1>5, <1>6
  <2>2. \A z \in Classes : e.w_methoddict[z] \in Made(e) /\ e.s_methoddict[z] \in Made(e)
    BY <1>1, <1>5, <1>8, <1>9 DEF Shape
  <2>3. \A s \in Made(e) : e.storage[s].w_self \in Made(e) /\ e.storage[s].w_values \in Made(e)
    <3> SUFFICES ASSUME NEW s \in Made(e)
                 PROVE  e.storage[s].w_self \in Made(e) /\ e.storage[s].w_values \in Made(e)
      OBVIOUS
    <3>1. CASE s \in {n, new}
      BY <3>1, <1>5, <1>10, <1>12
    <3>2. CASE s \notin {n, new}
      <4>1. s \in Made(h) /\ s \in Ids
        BY <3>2, <1>5, <1>2
      <4>2. h.storage[s].w_self \in Made(h) /\ h.storage[s].w_values \in Made(h)
        BY <4>1, <1>1 DEF Shape
      <4> QED BY <3>2, <4>1, <4>2, <1>5, <1>11
    <3> QED BY <3>1, <3>2
  <2>4. \A i \in Ids \ Made(e) : /\ e.dependent[i] = Nil /\ e.storage[i].s_class = Nil
                                 /\ ~ e.storage[i].is_methoddict /\ e.shadow[i] = i
    <3> SUFFICES ASSUME NEW i \in Ids \ Made(e)
                 PROVE  /\ e.dependent[i] = Nil /\ e.storage[i].s_class = Nil
                        /\ ~ e.storage[i].is_methoddict /\ e.shadow[i] = i
      OBVIOUS
    <3>1. i \in Ids \ Made(h) /\ i # n /\ i # new /\ i # u
      BY <1>2, <1>5
    <3>2. h.dependent[i] = Nil /\ h.storage[i].s_class = Nil /\ ~ h.storage[i].is_methoddict
          /\ h.shadow[i] = i
      BY <3>1, <1>1 DEF Shape
    <3> QED BY <3>1, <3>2, <1>6, <1>7, <1>11
  <2> QED BY <2>1, <2>2, <2>3, <2>4 DEF Shape
<1>14. Owned(e)
  <2>1. ASSUME NEW s \in Ids, NEW z \in Classes
        PROVE  (e.storage[s].s_class = z) <=> (e.s_methoddict[z] = s)
    <3>1. z # Nil /\ ((h.storage[s].s_class = z) <=> (h.s_methoddict[z] = s))
      BY <1>1, ClassesAssumption DEF Owned
    <3>2. CASE s = new
      BY <3>2, <1>3, <1>8, <1>10
    <3>3. CASE s = n
      BY <3>1, <3>3, <1>3, <1>8, <1>12
    <3>4. CASE s # n /\ s # new
      <4>1. CASE z = c
        BY <4>1, <3>1, <3>4, <1>8, <1>11
      <4>2. CASE z # c
        <5>1. h.s_methoddict[z] # u
          BY <4>2, <1>2, <1>1, <1>3 DEF Owned
        <5> QED BY <5>1, <4>2, <3>1, <3>4, <1>8, <1>11
      <4> QED BY <4>1, <4>2
    <3> QED BY <3>2, <3>3, <3>4
  <2>2. ASSUME NEW z \in Classes PROVE e.storage[e.s_methoddict[z]].is_methoddict
    <3>1. CASE z = c
      BY <3>1, <1>8, <1>10
    <3>2. CASE z # c
      BY <3>2, <1>1, <1>3, <1>8, <1>11, SMTT(30) DEF Owned
    <3> QED BY <3>1, <3>2
  <2> QED BY <2>1, <2>2 DEF Owned
<1>15. Watched(e)
  <2> SUFFICES ASSUME NEW z \in Classes, LinkedIn(e, z)
               PROVE  LET s == e.s_methoddict[z]
                      IN  /\ e.storage[s].w_self = e.w_methoddict[z]
                          /\ e.dependent[e.storage[s].w_values] = s
    BY DEF Watched
  <2>1. CASE z = c
    BY <2>1, <1>7, <1>8, <1>9, <1>10, SMTT(30)
  <2>2. CASE z # c
    <3>1. h.w_methoddict[z] \in Made(h)
      BY <1>1 DEF Shape
    <3>2. LinkedIn(h, z)
      BY <2>2, <3>1, <1>6, <1>8, <1>9 DEF LinkedIn
    <3>3. /\ h.storage[h.s_methoddict[z]].w_self = h.w_methoddict[z]
          /\ h.dependent[h.storage[h.s_methoddict[z]].w_values] = h.s_methoddict[z]
      BY <1>1, <3>2 DEF Watched
    <3>4. h.storage[h.s_methoddict[z]].w_values \in Made(h)
      BY <1>1, <1>3 DEF Shape
    <3> PICK t \in Ids : t = h.s_methoddict[z]
      BY <1>3
    <3>5. t # n /\ t # new /\ e.s_methoddict[z] = t /\ e.w_methoddict[z] = h.w_methoddict[z]
      BY <2>2, <1>3, <1>8, <1>9
    <3>6. e.storage[t].w_self = h.storage[t].w_self /\ e.storage[t].w_values = h.storage[t].w_values
      BY <3>5, <1>11
    <3>7. h.storage[t].w_values \in Ids /\ h.storage[t].w_values # n
      BY <3>4, <1>2
    <3> QED BY <3>3, <3>5, <3>6, <3>7, <1>7, SMTT(30)
  <2> QED BY <2>1, <2>2
<1>16. Apart(e, T \cup {n}, V)
  <2>1. T \subseteq Made(h) /\ V \subseteq Made(h)
    BY <1>1 DEF Apart
  <2>2. \A z \in Classes : e.w_methoddict[z] \in T \cup {n}
    BY <1>1, <1>9 DEF Apart
  <2>3. \A v \in V : e.storage[v].w_values = v /\ e.dependent[v] = Nil
    BY <1>1, <1>7, <1>11, <1>2, <2>1 DEF Apart
  <2>4. \A v \in V, i \in T \cup {n} : e.shadow[i] # v
    <3>1. n \notin Made(h) /\ new \notin Made(h) /\ Made(h) \subseteq Ids
      BY <1>2
    <3> QED BY <3>1, <1>1, <1>6, <2>1 DEF Apart
  <2> QED BY <2>1, <2>2, <2>3, <2>4, <1>5 DEF Apart
<1>17. Sound(e, T \cup {n}, V)
  BY <1>13, <1>14, <1>15, <1>16 DEF Sound
<1>18. SameLinks(e, g)
  BY <1>4, SameObjectsLinks
<1>19. Sound(g, T \cup {n}, V)
  BY <1>4, <1>17, <1>18, SameLinksSound
<1> QED BY <1>4, <1>19

\* g is h but for its storages s and t, which are alike but for what they refer back to.
SwapsSelf(h, s, x, t, y, g) ==
    /\ g \in HeapType /\ SameRest(h, g)
    /\ g.shadow = h.shadow /\ g.array = h.array /\ g.dependent = h.dependent /\ g.made = h.made
    /\ \A u \in Ids : u # s /\ u # t => g.storage[u] = h.storage[u]
    /\ g.storage[s] = [h.storage[s] EXCEPT !.w_self = x]
    /\ g.storage[t] = [h.storage[t] EXCEPT !.w_self = y]

\* The parts of become: objects, classes and storages are exchanged.
LEMMA SwapSelfFacts ==
    ASSUME NEW h \in HeapType, NEW s \in Ids, NEW x \in Ids, NEW t \in Ids, NEW y \in Ids, s # t
    PROVE  SwapsSelf(h, s, x, t, y, SwapSelf(h, s, x, t, y))
<1> PICK g : g = SwapSelf(h, s, x, t, y)
  OBVIOUS
<1> PICK d \in Storage : d = h.storage[s]
  BY HeapFields
<1> PICK e \in Storage : e = h.storage[t]
  BY HeapFields
<1> DEFINE d2 == [d EXCEPT !.w_self = x]
           e2 == [e EXCEPT !.w_self = y]
           S == [h.storage EXCEPT ![s] = d2, ![t] = e2]
<1>1. d2 \in Storage /\ e2 \in Storage
  BY DEF Storage
<1>2. g = [h EXCEPT !.storage = S]
  <2>1. g = [h EXCEPT !.storage[s].w_self = x, !.storage[t].w_self = y]
    BY DEF SwapSelf
  <2>2. h.storage \in [Ids -> Storage]
    BY HeapFields
  <2> QED BY <2>1, <2>2 DEF HeapType
<1> HIDE DEF d2, e2
<1>3. /\ S \in [Ids -> Storage] /\ S[s] = d2 /\ S[t] = e2
      /\ \A u \in Ids : u # s /\ u # t => S[u] = h.storage[u]
  BY <1>1, HeapFields
<1> HIDE DEF S
<1>4. g \in HeapType
  BY <1>2, <1>3 DEF HeapType
<1>5. /\ SameRest(h, g) /\ g.storage = S
      /\ g.shadow = h.shadow /\ g.array = h.array /\ g.dependent = h.dependent
      /\ g.made = h.made
  BY <1>2 DEF HeapType, SameRest
<1> QED BY <1>3, <1>4, <1>5 DEF SwapsSelf, d2, e2

SwapsClasses(h, s, t, g) ==
    /\ g \in HeapType /\ SameRest(h, g)
    /\ g.shadow = h.shadow /\ g.array = h.array /\ g.dependent = h.dependent /\ g.made = h.made
    /\ \A u \in Ids : u # s /\ u # t => g.storage[u] = h.storage[u]
    /\ g.storage[s] = [h.storage[s] EXCEPT !.s_class = h.storage[t].s_class]
    /\ g.storage[t] = [h.storage[t] EXCEPT !.s_class = h.storage[s].s_class]

SwapClasses(h, s, t) ==
    [h EXCEPT !.storage[s].s_class = h.storage[t].s_class,
              !.storage[t].s_class = h.storage[s].s_class]

LEMMA SwapClassesFacts ==
    ASSUME NEW h \in HeapType, NEW s \in Ids, NEW t \in Ids, s # t
    PROVE  SwapsClasses(h, s, t, SwapClasses(h, s, t))
<1> PICK g : g = SwapClasses(h, s, t)
  OBVIOUS
<1> PICK d \in Storage : d = h.storage[s]
  BY HeapFields
<1> PICK e \in Storage : e = h.storage[t]
  BY HeapFields
<1> DEFINE d2 == [d EXCEPT !.s_class = e.s_class]
           e2 == [e EXCEPT !.s_class = d.s_class]
           S == [h.storage EXCEPT ![s] = d2, ![t] = e2]
<1>1. d2 \in Storage /\ e2 \in Storage
  BY DEF Storage
<1>2. g = [h EXCEPT !.storage = S]
  <2>1. g = [h EXCEPT !.storage[s].s_class = e.s_class, !.storage[t].s_class = d.s_class]
    BY DEF SwapClasses
  <2>2. h.storage \in [Ids -> Storage]
    BY HeapFields
  <2> QED BY <2>1, <2>2 DEF HeapType
<1> HIDE DEF d2, e2
<1>3. /\ S \in [Ids -> Storage] /\ S[s] = d2 /\ S[t] = e2
      /\ \A u \in Ids : u # s /\ u # t => S[u] = h.storage[u]
  BY <1>1, HeapFields
<1> HIDE DEF S
<1>4. g \in HeapType
  BY <1>2, <1>3 DEF HeapType
<1>5. /\ SameRest(h, g) /\ g.storage = S
      /\ g.shadow = h.shadow /\ g.array = h.array /\ g.dependent = h.dependent
      /\ g.made = h.made
  BY <1>2 DEF HeapType, SameRest
<1> QED BY <1>3, <1>4, <1>5 DEF SwapsClasses, d2, e2

\* g is h but for the objects x and y, which have exchanged their storages.
SwapsShadows(h, x, y, g) ==
    /\ g \in HeapType /\ SameRest(h, g)
    /\ g.storage = h.storage /\ g.array = h.array /\ g.dependent = h.dependent
    /\ g.made = h.made
    /\ g.shadow[x] = h.shadow[y] /\ g.shadow[y] = h.shadow[x]
    /\ \A i \in Ids : i # x /\ i # y => g.shadow[i] = h.shadow[i]

SwapShadows(h, x, y) == [h EXCEPT !.shadow[x] = h.shadow[y], !.shadow[y] = h.shadow[x]]

LEMMA SwapShadowsFacts ==
    ASSUME NEW h \in HeapType, NEW x \in Ids, NEW y \in Ids, x # y
    PROVE  SwapsShadows(h, x, y, SwapShadows(h, x, y))
<1> PICK g : g = SwapShadows(h, x, y)
  OBVIOUS
<1> PICK s \in Ids : s = h.shadow[y]
  BY HeapFields
<1> PICK t \in Ids : t = h.shadow[x]
  BY HeapFields
<1> DEFINE W == [h.shadow EXCEPT ![x] = s, ![y] = t]
<1>1. h.shadow \in [Ids -> Ids]
  BY HeapFields
<1>2. g = [h EXCEPT !.shadow = W]
  <2>1. g = [h EXCEPT !.shadow[x] = s, !.shadow[y] = t]
    BY DEF SwapShadows
  <2> QED BY <1>1, <2>1 DEF HeapType
<1>3. W \in [Ids -> Ids] /\ W[x] = s /\ W[y] = t
      /\ \A i \in Ids : i # x /\ i # y => W[i] = h.shadow[i]
  BY <1>1
<1> HIDE DEF W
<1>4. g \in HeapType
  BY <1>2, <1>3 DEF HeapType
<1>5. /\ SameRest(h, g) /\ g.shadow = W
      /\ g.storage = h.storage /\ g.array = h.array /\ g.dependent = h.dependent
      /\ g.made = h.made
  BY <1>2 DEF HeapType, SameRest
<1> QED BY <1>3, <1>4, <1>5 DEF SwapsShadows

\* MethodDictionaryShadow._s_become, with names for its steps.
Inform(f, u) == IF f.storage[u].s_class = Nil THEN f
                ELSE store_s_methoddict(f, f.storage[u].s_class, u)

\* become in terms of its parts.
LEMMA SwapMethodDictsIs ==
    ASSUME NEW h, NEW s, NEW x, NEW y, NEW t, t = MethodDictOf(h, y),
           NEW g, g = SwapSelf(as_methoddict_get_shadow(h, y), s, x, t, y)
    PROVE  SwapMethodDicts(h, s, x, y) = Inform(Inform(SwapClasses(g, s, t), s), t)
BY DEF SwapMethodDicts, Inform, SwapClasses

LEMMA BecomeIs ==
    ASSUME NEW h, NEW x, NEW y, NEW g, g = SwapShadows(h, x, y)
    PROVE  become(h, x, y) =
             IF h.storage[h.shadow[y]].is_methoddict THEN SwapMethodDicts(g, h.shadow[y], x, y)
             ELSE IF h.storage[h.shadow[x]].is_methoddict
                  THEN SwapMethodDicts(g, h.shadow[x], y, x)
             ELSE SwapSelf(g, h.shadow[x], y, h.shadow[y], x)
BY DEF become, SwapShadows

\* The heap b in which n is a fresh copy of the dictionary o, which can be changed.
Fresh(b, T, V, o, n) ==
    /\ b \in HeapType /\ Sound(b, T, V \cup {n}) /\ b.made = n /\ n \in Ids
    /\ o \in T /\ T \subseteq Made(b) \ {n} /\ V \subseteq Made(b) \ {n}
    /\ ~ b.storage[n].is_methoddict /\ b.storage[n].w_self = n /\ b.storage[n].s_class = Nil
    /\ b.shadow[n] = n

\* Two steps that leave the rest alone leave it alone together.
LEMMA SameRestTwice ==
    ASSUME NEW h, NEW g, NEW f, SameRest(h, g), SameRest(g, f)
    PROVE  SameRest(h, f)
BY DEF SameRest

\* The copy that grow makes.
LEMMA CopyFresh ==
    ASSUME NEW h \in HeapType, NEW T, NEW V, Sound(h, T, V), NEW o \in T,
           h.made + 1 <= MaxMade, NEW n, n = h.made + 1, NEW g, g = Copy(h, o, Selectors)
    PROVE  Fresh(g, T, V, o, n) /\ SameRest(h, g) /\ Noticed(h, g)
<1>1. T \subseteq Made(h) /\ V \subseteq Made(h) /\ Made(h) \subseteq Ids
  BY MadeFacts DEF Sound, Apart
<1>2. o \in Ids
  BY <1>1
<1>3. CopyGives(h, o, Selectors, n, g)
  BY <1>2, CopyFacts
<1>4. /\ g \in HeapType /\ Sound(g, T, V \cup {n}) /\ SameRest(h, g) /\ Noticed(h, g)
      /\ ~ g.storage[n].is_methoddict /\ n \notin Made(h) /\ n \in Ids
      /\ g.storage[n].s_class = Nil /\ Made(g) = Made(h) \cup {n}
  <2>1. CopyKept(h, T, V, n, g)
    BY <1>2, CopyKeeps
  <2> QED BY <2>1 DEF CopyKept
<1>5. g.made = n /\ g.storage[n].w_self = n /\ g.shadow = [h.shadow EXCEPT ![n] = n]
  BY <1>3 DEF CopyGives
<1>6. g.shadow[n] = n
  BY <1>4, <1>5, HeapFields
<1> QED BY <1>1, <1>4, <1>5, <1>6 DEF Fresh

\* The exchange of an object o, whose storage t is a plain list, with its fresh copy n.
PlainExchanged(b, o, n, t, g) ==
    /\ g \in HeapType /\ SameRest(b, g)
    /\ g.array = b.array /\ g.dependent = b.dependent /\ g.made = b.made
    /\ g.shadow[o] = n /\ g.shadow[n] = t
    /\ \A i \in Ids : i # o /\ i # n => g.shadow[i] = b.shadow[i]
    /\ \A u \in Ids : u # t /\ u # n => g.storage[u] = b.storage[u]
    /\ g.storage[t] = [b.storage[t] EXCEPT !.w_self = n]
    /\ g.storage[n] = [b.storage[n] EXCEPT !.w_self = o]

LEMMA PlainExchangeFacts ==
    ASSUME NEW b, NEW T, NEW V, NEW o, NEW n, Fresh(b, T, V, o, n), NEW t, t = b.shadow[o],
           ~ b.storage[t].is_methoddict, NEW g, g = become(b, o, n)
    PROVE  PlainExchanged(b, o, n, t, g)
<1>1. /\ b \in HeapType /\ Sound(b, T, V \cup {n}) /\ n \in Ids
      /\ o \in T /\ T \subseteq Made(b) \ {n}
      /\ ~ b.storage[n].is_methoddict /\ b.shadow[n] = n
  BY DEF Fresh
<1>2. Shape(b) /\ Apart(b, T, V \cup {n})
  BY <1>1, SoundParts
<1>3. Made(b) \subseteq Ids /\ o \in Ids /\ o # n
  BY <1>1, MadeFacts
<1>4. t # n /\ t \in Ids
  BY <1>1, <1>2, <1>3 DEF Apart, Shape
<1> PICK f : f = SwapShadows(b, o, n)
  OBVIOUS
<1>5. /\ f \in HeapType /\ SameRest(b, f)
      /\ f.storage = b.storage /\ f.dependent = b.dependent /\ f.array = b.array
      /\ f.made = b.made /\ f.shadow[o] = n /\ f.shadow[n] = t
      /\ \A i \in Ids : i # o /\ i # n => f.shadow[i] = b.shadow[i]
  <2>1. SwapsShadows(b, o, n, f)
    BY <1>1, <1>3, SwapShadowsFacts
  <2> QED BY <2>1, <1>1 DEF SwapsShadows
<1>6. g = SwapSelf(f, t, n, n, o)
  BY <1>1, BecomeIs
<1>7. SwapsSelf(f, t, n, n, o, g)
  BY <1>1, <1>3, <1>4, <1>5, <1>6, SwapSelfFacts
<1>8. SameRest(b, g)
  BY <1>5, <1>7, SameRestTwice DEF SwapsSelf
<1> QED BY <1>5, <1>7, <1>8 DEF SwapsSelf, PlainExchanged

\* grow of a dictionary the VM does not know.
LEMMA GrowPlainKeeps ==
    ASSUME NEW b, NEW T, NEW V, NEW o, NEW n, Fresh(b, T, V, o, n),
           ~ b.storage[b.shadow[o]].is_methoddict, NEW g, g = become(b, o, n)
    PROVE  g \in HeapType /\ Sound(g, T, V) /\ SameRest(b, g) /\ Noticed(b, g)
<1>1. /\ b \in HeapType /\ Sound(b, T, V \cup {n}) /\ b.made = n /\ n \in Ids
      /\ o \in T /\ T \subseteq Made(b) \ {n} /\ V \subseteq Made(b) \ {n}
      /\ ~ b.storage[n].is_methoddict /\ b.storage[n].w_self = n /\ b.storage[n].s_class = Nil
      /\ b.shadow[n] = n
  BY DEF Fresh
<1>2. Shape(b) /\ Owned(b) /\ Watched(b) /\ Apart(b, T, V \cup {n})
  BY <1>1, SoundParts
<1>3. Made(b) \subseteq Ids /\ o \in Ids /\ o # n
  BY <1>1, MadeFacts
<1> PICK t \in Made(b) : t = b.shadow[o]
  BY <1>1, <1>2 DEF Shape
<1>4. t # n /\ t \in Ids
  BY <1>1, <1>2, <1>3 DEF Apart
<1>5. /\ g \in HeapType /\ SameRest(b, g)
      /\ g.dependent = b.dependent
      /\ g.made = b.made /\ g.shadow[o] = n /\ g.shadow[n] = t
      /\ \A i \in Ids : i # o /\ i # n => g.shadow[i] = b.shadow[i]
      /\ \A u \in Ids : u # t /\ u # n => g.storage[u] = b.storage[u]
      /\ g.storage[t] = [b.storage[t] EXCEPT !.w_self = n]
      /\ g.storage[n] = [b.storage[n] EXCEPT !.w_self = o]
  <2>1. PlainExchanged(b, o, n, t, g)
    BY PlainExchangeFacts
  <2> QED BY <2>1 DEF PlainExchanged
<1>6. /\ SameRest(b, g) /\ Made(g) = Made(b)
      /\ g.s_methoddict = b.s_methoddict /\ g.w_methoddict = b.w_methoddict
  BY <1>5 DEF SameRest, Made
<1>7. /\ g.storage[t].w_self = n /\ g.storage[n].w_self = o
      /\ \A u \in Ids : /\ g.storage[u].is_methoddict = b.storage[u].is_methoddict
                        /\ g.storage[u].w_values = b.storage[u].w_values
                        /\ g.storage[u].s_class = b.storage[u].s_class
                        /\ g.storage[u].invalid = b.storage[u].invalid
                        /\ g.storage[u].methoddict = b.storage[u].methoddict
  <2>1. \A u \in Ids : b.storage[u] \in Storage
    BY <1>1, HeapFields
  <2>2. /\ g.storage[t].w_self = n /\ g.storage[n].w_self = o
        /\ \A u \in {t, n} : /\ g.storage[u].is_methoddict = b.storage[u].is_methoddict
                             /\ g.storage[u].w_values = b.storage[u].w_values
                             /\ g.storage[u].s_class = b.storage[u].s_class
                             /\ g.storage[u].invalid = b.storage[u].invalid
                             /\ g.storage[u].methoddict = b.storage[u].methoddict
    BY <2>1, <1>1, <1>4, <1>5 DEF Storage
  <2> QED BY <2>2, <1>5
<1>8. \A z \in Classes : b.s_methoddict[z] \in Made(b) /\ b.s_methoddict[z] # t
                         /\ b.s_methoddict[z] # n
  BY <1>1, <1>2 DEF Shape, Owned
<1>9. Shape(g)
  <2>1. \A i \in Made(g) : g.shadow[i] \in Made(g)
    BY <1>1, <1>2, <1>3, <1>5, <1>6 DEF Shape, Apart
  <2>2. \A z \in Classes : g.w_methoddict[z] \in Made(g) /\ g.s_methoddict[z] \in Made(g)
    BY <1>2, <1>6 DEF Shape
  <2>3. \A s \in Made(g) : g.storage[s].w_self \in Made(g) /\ g.storage[s].w_values \in Made(g)
    <3> SUFFICES ASSUME NEW s \in Made(b)
                 PROVE  g.storage[s].w_self \in Made(b) /\ g.storage[s].w_values \in Made(b)
      BY <1>6
    <3>1. b.storage[s].w_self \in Made(b) /\ b.storage[s].w_values \in Made(b) /\ s \in Ids
      BY <1>2, <1>3 DEF Shape
    <3>2. n \in Made(b) /\ o \in Made(b)
      BY <1>1, <1>2 DEF Apart
    <3>3. CASE s = t
      BY <1>7, <3>1, <3>2, <3>3
    <3>4. CASE s = n
      BY <1>7, <3>1, <3>2, <3>4
    <3>5. CASE s # t /\ s # n
      BY <1>5, <3>1, <3>5
    <3> QED BY <3>3, <3>4, <3>5
  <2>4. \A i \in Ids \ Made(g) : /\ g.dependent[i] = Nil /\ g.storage[i].s_class = Nil
                                 /\ ~ g.storage[i].is_methoddict /\ g.shadow[i] = i
    <3> SUFFICES ASSUME NEW i \in Ids \ Made(b)
                 PROVE  /\ g.dependent[i] = Nil /\ g.storage[i].s_class = Nil
                        /\ ~ g.storage[i].is_methoddict /\ g.shadow[i] = i
      BY <1>6
    <3>1. i # o /\ i # n
      BY <1>1, <1>2 DEF Apart
    <3> QED BY <3>1, <1>2, <1>5, <1>7 DEF Shape
  <2> QED BY <2>1, <2>2, <2>3, <2>4 DEF Shape
<1>10. Owned(g)
  BY <1>2, <1>3, <1>6, <1>7, <1>8 DEF Owned
<1>11. Watched(g)
  <2> SUFFICES ASSUME NEW z \in Classes, LinkedIn(g, z)
               PROVE  LET s == g.s_methoddict[z]
                      IN  /\ g.storage[s].w_self = g.w_methoddict[z]
                          /\ g.dependent[g.storage[s].w_values] = s
    BY DEF Watched
  <2>1. b.w_methoddict[z] \in T /\ b.w_methoddict[z] # n /\ b.w_methoddict[z] \in Ids
    BY <1>1, <1>2, <1>3 DEF Apart
  <2>2. b.w_methoddict[z] # o
    BY <1>5, <1>6, <1>8 DEF LinkedIn
  <2>3. LinkedIn(b, z)
    BY <2>1, <2>2, <1>5, <1>6 DEF LinkedIn
  <2>4. /\ b.storage[b.s_methoddict[z]].w_self = b.w_methoddict[z]
        /\ b.dependent[b.storage[b.s_methoddict[z]].w_values] = b.s_methoddict[z]
    BY <1>2, <2>3 DEF Watched
  <2>5. g.storage[b.s_methoddict[z]] = b.storage[b.s_methoddict[z]]
    BY <1>3, <1>5, <1>8
  <2> QED BY <2>4, <2>5, <1>5, <1>6
<1>12. Apart(g, T, V)
  <2>1. \A z \in Classes : g.w_methoddict[z] \in T
    BY <1>2, <1>6 DEF Apart
  <2>2. \A v \in V : g.storage[v].w_values = v /\ g.dependent[v] = Nil
    BY <1>1, <1>2, <1>3, <1>5, <1>7 DEF Apart
  <2>3. \A v \in V, i \in T : g.shadow[i] # v
    <3> SUFFICES ASSUME NEW v \in V, NEW i \in T PROVE g.shadow[i] # v
      OBVIOUS
    <3>1. v # n /\ i # n /\ i \in Ids /\ b.shadow[i] # v
      BY <1>1, <1>2, <1>3 DEF Apart
    <3> QED BY <3>1, <1>5
  <2> QED BY <2>1, <2>2, <2>3, <1>1, <1>6 DEF Apart
<1>13. Noticed(b, g)
  <2>1. ASSUME NEW d \in Classes
        PROVE  Table(g, d).invalid = Table(b, d).invalid
               /\ Table(g, d).methoddict = Table(b, d).methoddict
    BY <1>3, <1>6, <1>7, <1>8 DEF Table
  <2> QED BY <1>1, <1>6, <2>1, SameNoticed
<1> QED BY <1>5, <1>6, <1>9, <1>10, <1>11, <1>12, <1>13 DEF Sound

\* A storage with another class, or of another object.
HasClass(x, y, z) ==
    /\ x.is_methoddict = y.is_methoddict /\ x.w_self = y.w_self /\ x.s_class = z
    /\ x.w_values = y.w_values /\ x.invalid = y.invalid /\ x.names = y.names
    /\ x.methoddict = y.methoddict
HasSelf(x, y, o) ==
    /\ x.is_methoddict = y.is_methoddict /\ x.w_self = o /\ x.s_class = y.s_class
    /\ x.w_values = y.w_values /\ x.invalid = y.invalid /\ x.methoddict = y.methoddict

LEMMA WithClass ==
    ASSUME NEW y \in Storage, NEW z, NEW x, x = [y EXCEPT !.s_class = z]
    PROVE  HasClass(x, y, z)
BY DEF Storage, HasClass

LEMMA WithSelf ==
    ASSUME NEW y \in Storage, NEW o, NEW x, x = [y EXCEPT !.w_self = o]
    PROVE  HasSelf(x, y, o)
BY DEF Storage, HasSelf

\* The exchange of an object o, whose storage t is a MethodDictionaryShadow, with its fresh
\* copy n: what g has of b.  The storage new is the one that the class of t uses, if any.
Exchanged(b, o, n, t, new, g) ==
    /\ g \in HeapType /\ g.made = new
    /\ g.shadow[o] = n /\ g.shadow[n] = new
    /\ \A i \in Ids : i # o /\ i # n => g.shadow[i] = b.shadow[i]
    /\ g.dependent[n] = new /\ \A i \in Ids : i # n => g.dependent[i] = b.dependent[i]
    /\ g.array = b.array
    /\ g.w_methoddict = b.w_methoddict
    /\ g.s_superclass = b.s_superclass /\ g.subclass_s = b.subclass_s
    /\ \A z \in Classes : g.s_methoddict[z] = IF b.storage[t].s_class = z THEN new
                                              ELSE b.s_methoddict[z]
    /\ \A u \in Ids : u # t /\ u # new => g.storage[u] = b.storage[u]
    /\ g.storage[t].is_methoddict /\ g.storage[t].w_self = n
    /\ g.storage[t].w_values = b.storage[t].w_values /\ g.storage[t].s_class = Nil
    /\ g.storage[new].is_methoddict /\ g.storage[new].w_self = o
    /\ g.storage[new].w_values = n /\ g.storage[new].s_class = b.storage[t].s_class
    /\ g.storage[new].names = b.storage[n].names
    /\ b.storage[t].s_class \in Classes =>
          FillsTable(b, b.storage[t].s_class, new, b.storage[n].names, b.array[n], g)

\* What the exchange with the copy gives.
LEMMA ExchangeFacts ==
    ASSUME NEW b, Attached(b), NEW T, NEW V, NEW o, NEW n, Fresh(b, T, V, o, n),
           b.made + 1 <= MaxMade, NEW new, new = n + 1,
           NEW t, t = b.shadow[o], b.storage[t].is_methoddict, NEW g, g = become(b, o, n)
    PROVE  Exchanged(b, o, n, t, new, g) /\ Noticed(b, g)
<1>1. /\ b \in HeapType /\ Sound(b, T, V \cup {n}) /\ b.made = n /\ n \in Ids
      /\ o \in T /\ T \subseteq Made(b) \ {n} /\ V \subseteq Made(b) \ {n}
      /\ ~ b.storage[n].is_methoddict /\ b.storage[n].w_self = n /\ b.storage[n].s_class = Nil
      /\ b.shadow[n] = n
  BY DEF Fresh
<1>2. Shape(b) /\ Owned(b) /\ Watched(b) /\ Apart(b, T, V \cup {n})
  BY <1>1, SoundParts
<1>3. Made(b) \subseteq Ids /\ o \in Ids /\ o # n
  BY <1>1, MadeFacts
<1>4. t \in Made(b) /\ t # n /\ t \in Ids
  BY <1>1, <1>2, <1>3 DEF Shape
<1>5. /\ new \in Ids /\ new # n /\ new \notin Made(b) /\ new = b.made + 1 /\ new # Nil
  BY <1>1, MadeFacts
<1>6. b.storage[n].w_values = n /\ b.dependent[n] = Nil
  BY <1>2 DEF Apart
<1> PICK f : f = SwapShadows(b, o, n)
  OBVIOUS
<1>7. /\ f \in HeapType /\ SameRest(b, f)
      /\ f.storage = b.storage /\ f.dependent = b.dependent /\ f.array = b.array
      /\ f.made = n /\ f.shadow[o] = n /\ f.shadow[n] = t
      /\ \A i \in Ids : i # o /\ i # n => f.shadow[i] = b.shadow[i]
  <2>1. SwapsShadows(b, o, n, f)
    BY <1>1, <1>3, SwapShadowsFacts
  <2> QED BY <2>1, <1>1 DEF SwapsShadows
<1>8. g = SwapMethodDicts(f, t, n, o)
  BY <1>1, BecomeIs
<1> PICK a : a = as_methoddict_get_shadow(f, o)
  OBVIOUS
<1>9. MakesMethodDict(f, n, new, a) /\ MethodDictOf(f, o) = new
  <2>1. /\ f \in HeapType /\ o \in Ids /\ n \in Ids /\ f.shadow[o] = n
        /\ ~ f.storage[n].is_methoddict /\ f.storage[n].w_self = n /\ f.storage[n].w_values = n
        /\ f.made + 1 <= MaxMade /\ new = f.made + 1 /\ new # n /\ f.dependent[n] = Nil
    BY <1>1, <1>3, <1>5, <1>6, <1>7
  <2> QED BY <2>1, MakeMethodDictFacts
<1>10. /\ a \in HeapType /\ a.made = new
       /\ a.shadow = [f.shadow EXCEPT ![n] = new]
       /\ a.dependent = [f.dependent EXCEPT ![n] = new]
       /\ a.array = f.array /\ SameRest(f, a)
       /\ \A s \in Ids : s # new => a.storage[s] = b.storage[s]
       /\ a.storage[new] = [b.storage[n] EXCEPT !.is_methoddict = TRUE, !.invalid = TRUE]
  BY <1>7, <1>9 DEF MakesMethodDict
<1> PICK e : e = SwapSelf(a, t, n, new, o)
  OBVIOUS
<1>11. SwapsSelf(a, t, n, new, o, e)
  BY <1>1, <1>3, <1>4, <1>5, <1>10, SwapSelfFacts
<1> PICK d : d = SwapClasses(e, t, new)
  OBVIOUS
<1>12. SwapsClasses(e, t, new, d)
  <2>1. e \in HeapType
    BY <1>11 DEF SwapsSelf
  <2> QED BY <2>1, <1>4, <1>5, SwapClassesFacts
<1>13. g = Inform(Inform(d, t), new)
  BY <1>8, <1>9, SwapMethodDictsIs
<1> PICK c \in Classes \cup {Nil} : c = b.storage[t].s_class
  <2>1. b.storage[t] \in Storage
    BY <1>1, <1>4, HeapFields
  <2> QED BY <2>1 DEF Storage
<1>14. /\ d \in HeapType /\ d.made = new /\ d.array = b.array
       /\ d.shadow = a.shadow /\ d.dependent = a.dependent
       /\ d.w_methoddict = b.w_methoddict /\ d.s_methoddict = b.s_methoddict
       /\ d.s_superclass = b.s_superclass /\ d.subclass_s = b.subclass_s
       /\ SameRest(b, d)
  <2>1. /\ SameRest(a, e) /\ e.shadow = a.shadow /\ e.array = a.array
        /\ e.dependent = a.dependent /\ e.made = a.made
    BY <1>11 DEF SwapsSelf
  <2>2. /\ SameRest(e, d) /\ d.shadow = e.shadow /\ d.array = e.array
        /\ d.dependent = e.dependent /\ d.made = e.made /\ d \in HeapType
    BY <1>12, Zenon DEF SwapsClasses
  <2>3. SameRest(b, d)
    <3>1. SameRest(b, a)
      BY <1>7, <1>10, SameRestTwice
    <3>2. SameRest(b, e)
      BY <2>1, <3>1, SameRestTwice
    <3> QED BY <2>2, <3>2, SameRestTwice
  <2>4. /\ d.w_methoddict = b.w_methoddict /\ d.s_methoddict = b.s_methoddict
        /\ d.s_superclass = b.s_superclass /\ d.subclass_s = b.subclass_s
    BY <2>3 DEF SameRest
  <2> QED BY <2>1, <2>2, <2>3, <2>4, <1>7, <1>10, SMTT(30)
<1>15. d.shadow[o] = n /\ d.shadow[n] = new
       /\ \A i \in Ids : i # o /\ i # n => d.shadow[i] = b.shadow[i]
  <2>1. f.shadow \in [Ids -> Ids]
    BY <1>7, HeapFields
  <2> QED BY <2>1, <1>1, <1>3, <1>7, <1>10, <1>14, SMTT(30)
<1>16. d.dependent[n] = new /\ \A i \in Ids : i # n => d.dependent[i] = b.dependent[i]
  <2>1. b.dependent \in [Ids -> Ids \cup {Nil}]
    BY <1>1, HeapFields
  <2> QED BY <2>1, <1>1, <1>7, <1>10, <1>14
<1>17. \A u \in Ids : u # t /\ u # new => d.storage[u] = b.storage[u]
  <2>1. \A u \in Ids : u # t /\ u # new => e.storage[u] = a.storage[u]
    BY <1>11 DEF SwapsSelf
  <2>2. \A u \in Ids : u # t /\ u # new => d.storage[u] = e.storage[u]
    BY <1>12 DEF SwapsClasses
  <2> QED BY <2>1, <2>2, <1>10
<1>18. /\ e.storage[t] = [b.storage[t] EXCEPT !.w_self = n]
       /\ e.storage[new] = [a.storage[new] EXCEPT !.w_self = o]
  BY <1>4, <1>5, <1>10, <1>11 DEF SwapsSelf
<1>19. /\ a.storage[new].is_methoddict /\ a.storage[new].invalid
       /\ a.storage[new].w_values = n /\ a.storage[new].s_class = Nil
       /\ a.storage[new].names = b.storage[n].names /\ a.storage[new] \in Storage
  <2>1. b.storage[n] \in Storage /\ a.storage[new] \in Storage
    BY <1>1, <1>5, <1>10, HeapFields
  <2> QED BY <2>1, <1>1, <1>6, <1>10 DEF Storage
<1>20. /\ e.storage[t].is_methoddict /\ e.storage[t].w_self = n /\ e.storage[t].s_class = c
       /\ e.storage[t].w_values = b.storage[t].w_values
       /\ e.storage[t].invalid = b.storage[t].invalid
       /\ e.storage[t].methoddict = b.storage[t].methoddict /\ e.storage[t] \in Storage
  <2>1. b.storage[t] \in Storage /\ e.storage[t] \in Storage
    BY <1>1, <1>4, <1>11, HeapFields DEF SwapsSelf
  <2> PICK y \in Storage : y = b.storage[t]
    BY <2>1
  <2> PICK x : x = e.storage[t]
    OBVIOUS
  <2>2. x = [y EXCEPT !.w_self = n]
    BY <1>18, Zenon
  <2>3. HasSelf(x, y, n)
    BY <2>2, WithSelf
  <2>4. y.is_methoddict /\ y.s_class = c
    BY <1>4
  <2>5. x.is_methoddict /\ x.w_self = n /\ x.s_class = c
    BY <2>3, <2>4, Zenon DEF HasSelf
  <2>6. /\ x.w_values = b.storage[t].w_values /\ x.invalid = b.storage[t].invalid
        /\ x.methoddict = b.storage[t].methoddict
    BY <2>3, Zenon DEF HasSelf
  <2> QED BY <2>1, <2>5, <2>6, Zenon
<1>21. /\ e.storage[new].is_methoddict /\ e.storage[new].invalid /\ e.storage[new].w_self = o
       /\ e.storage[new].w_values = n /\ e.storage[new].s_class = Nil
       /\ e.storage[new].names = b.storage[n].names /\ e.storage[new] \in Storage
  <2>1. e.storage[new] \in Storage
    BY <1>5, <1>11, HeapFields DEF SwapsSelf
  <2> QED BY <2>1, <1>18, <1>19, SMTT(30) DEF Storage
<1>22. /\ d.storage[t].is_methoddict /\ d.storage[t].w_self = n /\ d.storage[t].s_class = Nil
       /\ d.storage[t].w_values = b.storage[t].w_values
       /\ d.storage[t].invalid = b.storage[t].invalid
       /\ d.storage[t].methoddict = b.storage[t].methoddict
  <2> PICK y \in Storage : y = e.storage[t]
    BY <1>20, <1>21
  <2> PICK z \in Classes \cup {Nil} : z = e.storage[new].s_class
    BY <1>20, <1>21
  <2> PICK x : x = d.storage[t]
    OBVIOUS
  <2>1. x = [y EXCEPT !.s_class = z]
    BY <1>12 DEF SwapsClasses
  <2>2. HasClass(x, y, z)
    BY <2>1, WithClass
  <2>3. y.is_methoddict /\ z = Nil
    BY <1>20, <1>21
  <2>4. /\ y.w_self = n /\ y.w_values = b.storage[t].w_values
        /\ y.invalid = b.storage[t].invalid /\ y.methoddict = b.storage[t].methoddict
    BY <1>20, ZenonT(30)
  <2>5. /\ x.is_methoddict /\ x.w_self = n /\ x.s_class = Nil
        /\ x.w_values = b.storage[t].w_values
    BY <2>2, <2>3, <2>4, Zenon DEF HasClass
  <2>6. x.invalid = b.storage[t].invalid /\ x.methoddict = b.storage[t].methoddict
    BY <2>2, <2>4, Zenon DEF HasClass
  <2> QED BY <2>5, <2>6, Zenon
<1>23. /\ d.storage[new].is_methoddict /\ d.storage[new].invalid /\ d.storage[new].w_self = o
       /\ d.storage[new].w_values = n /\ d.storage[new].s_class = c
       /\ d.storage[new].names = b.storage[n].names
  <2> PICK y \in Storage : y = e.storage[new]
    BY <1>20, <1>21
  <2> PICK z \in Classes \cup {Nil} : z = e.storage[t].s_class
    BY <1>20, <1>21
  <2> PICK x : x = d.storage[new]
    OBVIOUS
  <2>1. x = [y EXCEPT !.s_class = z]
    BY <1>12 DEF SwapsClasses
  <2>2. HasClass(x, y, z)
    BY <2>1, WithClass
  <2>3. y.is_methoddict /\ z = c
    BY <1>20, <1>21
  <2>4. /\ y.invalid /\ y.w_self = o /\ y.w_values = n /\ y.names = b.storage[n].names
    BY <1>21
  <2>5. /\ x.is_methoddict = y.is_methoddict /\ x.invalid = y.invalid /\ x.w_self = y.w_self
        /\ x.w_values = y.w_values /\ x.s_class = z /\ x.names = y.names
    BY <2>2, Zenon DEF HasClass
  <2>6. x.is_methoddict /\ x.invalid
    BY <2>3, <2>4, <2>5, Zenon
  <2>7. /\ x.w_self = o /\ x.w_values = n /\ x.s_class = c /\ x.names = b.storage[n].names
    BY <2>3, <2>4, <2>5, Zenon
  <2> QED BY <2>6, <2>7, Zenon
<1>24. g = Inform(d, new)
  <2>1. Inform(d, t) = d
    BY <1>22 DEF Inform
  <2> QED BY <2>1, <1>13
<1>25. \A z \in Classes : b.s_methoddict[z] \in Made(b) /\ b.s_methoddict[z] \in Ids
                          /\ b.s_methoddict[z] # new
  BY <1>2, <1>3, <1>5 DEF Shape
<1>26. Noticed(b, d)
  <2>1. ASSUME NEW z \in Classes
        PROVE  Table(d, z).invalid = Table(b, z).invalid
               /\ Table(d, z).methoddict = Table(b, z).methoddict
    <3> PICK u \in Ids : u = b.s_methoddict[z] /\ u # new
      BY <1>25
    <3>1. Table(d, z) = d.storage[u] /\ Table(b, z) = b.storage[u]
      BY <1>14, Zenon DEF Table
    <3>2. d.storage[u].invalid = b.storage[u].invalid
          /\ d.storage[u].methoddict = b.storage[u].methoddict
      <4>1. CASE u = t
        BY <4>1, <1>22, SMT
      <4>2. CASE u # t
        BY <4>2, <1>17, SMT
      <4> QED BY <4>1, <4>2, Zenon
    <3> QED BY <3>1, <3>2, Zenon
  <2> QED BY <1>1, <1>14, <2>1, SameNoticed
<1>27. CASE c = Nil
  <2>1. g = d
    BY <1>23, <1>24, <1>27 DEF Inform
  <2>2. \A z \in Classes : g.s_methoddict[z] = IF b.storage[t].s_class = z THEN new
                                               ELSE b.s_methoddict[z]
    BY <1>14, <1>27, <2>1, ClassesAssumption
  <2>3. Exchanged(b, o, n, t, new, g)
    <3>1. \A u \in Ids : u # t /\ u # new => g.storage[u] = b.storage[u]
      BY <1>17, <2>1
    <3>2. g.shadow[o] = n /\ g.shadow[n] = new
          /\ \A i \in Ids : i # o /\ i # n => g.shadow[i] = b.shadow[i]
      BY <1>15, <2>1
    <3>3. g.dependent[n] = new /\ \A i \in Ids : i # n => g.dependent[i] = b.dependent[i]
      BY <1>16, <2>1
    <3>4. /\ g.array = b.array /\ g.made = new /\ g.w_methoddict = b.w_methoddict
          /\ g.s_superclass = b.s_superclass /\ g.subclass_s = b.subclass_s
          /\ g \in HeapType
      BY <1>14, <2>1
    <3>5. /\ g.storage[t].is_methoddict /\ g.storage[t].w_self = n
          /\ g.storage[t].w_values = b.storage[t].w_values /\ g.storage[t].s_class = Nil
      BY <1>22, <2>1
    <3>6. /\ g.storage[new].is_methoddict /\ g.storage[new].w_self = o
          /\ g.storage[new].w_values = n /\ g.storage[new].s_class = b.storage[t].s_class
          /\ g.storage[new].names = b.storage[n].names
      BY <1>23, <2>1
    <3>7. b.storage[t].s_class \notin Classes
      BY <1>27, ClassesAssumption
    <3> QED BY <2>2, <3>1, <3>2, <3>3, <3>4, <3>5, <3>6, <3>7 DEF Exchanged
  <2> QED BY <1>26, <2>1, <2>3
<1>28. CASE c # Nil
  <2>1. c \in Classes
    BY <1>28
  <2>2. g = store_s_methoddict(d, c, new)
    BY <1>23, <1>24, <1>28 DEF Inform
  <2>3. Attached(d)
    BY <1>14, SameAttached
  <2>4. \A z \in Classes : z # c => d.s_methoddict[z] # new
    BY <1>14, <1>25
  <2>5. /\ g \in HeapType
        /\ g.s_methoddict = [d.s_methoddict EXCEPT ![c] = new]
        /\ g.shadow = d.shadow /\ g.array = d.array /\ g.dependent = d.dependent
        /\ g.w_methoddict = d.w_methoddict /\ g.made = d.made
        /\ g.s_superclass = d.s_superclass /\ g.subclass_s = d.subclass_s
        /\ \A s \in Ids : /\ g.storage[s].is_methoddict = d.storage[s].is_methoddict
                          /\ g.storage[s].w_self = d.storage[s].w_self
                          /\ g.storage[s].w_values = d.storage[s].w_values
                          /\ g.storage[s].names = d.storage[s].names
        /\ \A s \in Ids : g.storage[s].s_class = IF s = new THEN c ELSE d.storage[s].s_class
        /\ \A s \in Ids : s # new => g.storage[s] = d.storage[s]
        /\ Noticed(d, g)
        /\ FillsTable(d, c, new, KeysOf(d, new), ValuesOf(d, new), g)
    <3>1. d \in HeapType /\ Attached(d) /\ new \in Ids /\ d.storage[new].invalid
      BY <1>5, <1>14, <1>23, <2>3
    <3>2. StoresClass(d, c, new, g)
      BY <3>1, <2>1, <2>2, <2>4, StoreClassFacts
    <3> QED BY <3>2, Zenon DEF StoresClass
  <2>6. \A z \in Classes : g.s_methoddict[z] = IF b.storage[t].s_class = z THEN new
                                               ELSE b.s_methoddict[z]
    <3>1. b.s_methoddict \in [Classes -> Ids]
      BY <1>1, HeapFields
    <3>2. g.s_methoddict = [b.s_methoddict EXCEPT ![c] = new]
      BY <1>14, <2>5, Zenon
    <3> QED BY <2>1, <3>1, <3>2
  <2>7. Noticed(b, g)
    BY <1>26, <2>5, NoticedTwice, Zenon
  <2>8. /\ g.shadow[o] = n /\ g.shadow[n] = new
        /\ \A i \in Ids : i # o /\ i # n => g.shadow[i] = b.shadow[i]
        /\ g.dependent[n] = new /\ \A i \in Ids : i # n => g.dependent[i] = b.dependent[i]
        /\ g.array = b.array /\ g.made = new
        /\ g.w_methoddict = b.w_methoddict
        /\ g.s_superclass = b.s_superclass /\ g.subclass_s = b.subclass_s
    <3>1. g.shadow[o] = n /\ g.shadow[n] = new
          /\ \A i \in Ids : i # o /\ i # n => g.shadow[i] = b.shadow[i]
      <4>1. g.shadow = d.shadow
        BY <2>5, Zenon
      <4> QED BY <4>1, <1>15
    <3>2. g.dependent[n] = new /\ \A i \in Ids : i # n => g.dependent[i] = b.dependent[i]
      <4>1. g.dependent = d.dependent
        BY <2>5, Zenon
      <4> QED BY <4>1, <1>16
    <3>3. /\ g.array = b.array /\ g.made = new /\ g.w_methoddict = b.w_methoddict
          /\ g.s_superclass = b.s_superclass /\ g.subclass_s = b.subclass_s
      BY <1>14, <2>5, ZenonT(30)
    <3> QED BY <3>1, <3>2, <3>3
  <2>9. \A u \in Ids : u # t /\ u # new => g.storage[u] = b.storage[u]
    <3>1. \A u \in Ids : u # new => g.storage[u] = d.storage[u]
      BY <2>5, Zenon
    <3> QED BY <3>1, <1>17
  <2>10. /\ g.storage[t].is_methoddict /\ g.storage[t].w_self = n
         /\ g.storage[t].w_values = b.storage[t].w_values /\ g.storage[t].s_class = Nil
    <3>1. t # new
      BY <1>4, <1>5
    <3>2. /\ g.storage[t].is_methoddict = d.storage[t].is_methoddict
          /\ g.storage[t].w_self = d.storage[t].w_self
          /\ g.storage[t].w_values = d.storage[t].w_values
          /\ g.storage[t].s_class = d.storage[t].s_class
      BY <3>1, <1>4, <2>5, Zenon
    <3> QED BY <3>2, <1>22
  <2>11. /\ g.storage[new].is_methoddict /\ g.storage[new].w_self = o
         /\ g.storage[new].w_values = n /\ g.storage[new].s_class = b.storage[t].s_class
         /\ g.storage[new].names = b.storage[n].names
    BY <1>5, <1>23, <2>5, ZenonT(30)
  <2>12. FillsTable(b, c, new, b.storage[n].names, b.array[n], g)
    <3>1. d.storage[n] = b.storage[n]
      BY <1>1, <1>4, <1>5, <1>17
    <3>2. KeysOf(d, new) = b.storage[n].names
      <4>1. d.storage[new].w_self = o
        BY <1>23
      <4>2. d.shadow[o] = n
        BY <1>15
      <4>3. KeysOf(d, new) = d.storage[n].names
        BY <4>1, <4>2, ZenonT(30) DEF KeysOf
      <4> QED BY <3>1, <4>3, ZenonT(30)
    <3>3. ValuesOf(d, new) = b.array[n]
      BY <1>14, <1>23 DEF ValuesOf
    <3>4. d.lookup_class = b.lookup_class /\ d.error = b.error
      BY <1>14 DEF SameRest
    <3>5. FillsTable(d, c, new, b.storage[n].names, b.array[n], g)
      BY <2>5, <3>2, <3>3, Zenon
    <3> QED BY <3>4, <3>5 DEF FillsTable
  <2>13. g \in HeapType
    BY <2>5, Zenon
  <2>14. Exchanged(b, o, n, t, new, g)
    BY <2>6, <2>8, <2>9, <2>10, <2>11, <2>12, <2>13 DEF Exchanged
  <2> QED BY <2>7, <2>14
<1> QED BY <1>27, <1>28

\* grow of a dictionary the VM knows: the copy takes its class.
LEMMA GrowMethodDictKeeps ==
    ASSUME NEW b, NEW T, NEW V, NEW o, NEW n, Fresh(b, T, V, o, n), b.made + 1 <= MaxMade,
           NEW new, new = n + 1, NEW t, t = b.shadow[o], b.storage[t].is_methoddict,
           NEW g, Exchanged(b, o, n, t, new, g)
    PROVE  Sound(g, T, V)
<1>1. /\ b \in HeapType /\ Sound(b, T, V \cup {n}) /\ b.made = n /\ n \in Ids
      /\ o \in T /\ T \subseteq Made(b) \ {n} /\ V \subseteq Made(b) \ {n}
      /\ ~ b.storage[n].is_methoddict /\ b.storage[n].w_self = n /\ b.storage[n].s_class = Nil
      /\ b.shadow[n] = n
  BY DEF Fresh
<1>2. Shape(b) /\ Owned(b) /\ Watched(b) /\ Apart(b, T, V \cup {n})
  BY <1>1, SoundParts
<1>3. Made(b) \subseteq Ids /\ o \in Ids /\ o # n /\ o \in Made(b) /\ n \in Made(b)
  BY <1>1, <1>2, MadeFacts DEF Apart
<1>4. t \in Made(b) /\ t # n /\ t \in Ids
  BY <1>1, <1>2, <1>3 DEF Shape
<1>5. /\ new \in Ids /\ new # n /\ new \notin Made(b) /\ new # Nil /\ t # new /\ o # new
  BY <1>1, <1>3, <1>4, MadeFacts
<1>6. b.storage[n].w_values = n /\ b.dependent[n] = Nil
  BY <1>2 DEF Apart
<1>7. /\ g \in HeapType /\ g.made = new /\ g.w_methoddict = b.w_methoddict
  BY DEF Exchanged
<1>8. /\ g.shadow[o] = n /\ g.shadow[n] = new
      /\ \A i \in Ids : i # o /\ i # n => g.shadow[i] = b.shadow[i]
  BY DEF Exchanged
<1>9. g.dependent[n] = new /\ \A i \in Ids : i # n => g.dependent[i] = b.dependent[i]
  BY DEF Exchanged
<1>10. \A z \in Classes : g.s_methoddict[z] = IF b.storage[t].s_class = z THEN new
                                              ELSE b.s_methoddict[z]
  BY DEF Exchanged
<1>11. \A u \in Ids : u # t /\ u # new =>
          /\ g.storage[u].is_methoddict = b.storage[u].is_methoddict
          /\ g.storage[u].w_self = b.storage[u].w_self
          /\ g.storage[u].w_values = b.storage[u].w_values
          /\ g.storage[u].s_class = b.storage[u].s_class
  BY DEF Exchanged
<1>12. /\ g.storage[t].is_methoddict /\ g.storage[t].w_self = n
       /\ g.storage[t].w_values = b.storage[t].w_values /\ g.storage[t].s_class = Nil
       /\ g.storage[new].is_methoddict /\ g.storage[new].w_self = o
       /\ g.storage[new].w_values = n /\ g.storage[new].s_class = b.storage[t].s_class
  BY DEF Exchanged
<1>13. Made(g) = Made(b) \cup {new}
  <2>1. n \in Nat
    BY <1>1, HeapFields
  <2> QED BY <2>1, <1>1, <1>7 DEF Made
<1>14. b.shadow[new] = new /\ \A i \in Made(b) : b.shadow[i] \in Made(b)
  BY <1>2, <1>5 DEF Shape
<1>15. \A z \in Classes : b.s_methoddict[z] \in Made(b) /\ b.s_methoddict[z] # new
                          /\ b.s_methoddict[z] # n /\ b.s_methoddict[z] \in Ids
  BY <1>1, <1>2, <1>3, <1>5 DEF Shape, Owned
<1>16. Shape(g)
  <2>1. \A i \in Made(g) : g.shadow[i] \in Made(g)
    <3> SUFFICES ASSUME NEW i \in Made(b) \cup {new} PROVE g.shadow[i] \in Made(b) \cup {new}
      BY <1>13
    <3>1. CASE i = o \/ i = n
      BY <3>1, <1>3, <1>8
    <3>2. CASE i # o /\ i # n
      <4>1. g.shadow[i] = b.shadow[i]
        BY <3>2, <1>3, <1>5, <1>8
      <4> QED BY <4>1, <1>14
    <3> QED BY <3>1, <3>2
  <2>2. \A z \in Classes : g.w_methoddict[z] \in Made(g) /\ g.s_methoddict[z] \in Made(g)
    BY <1>2, <1>7, <1>10, <1>13, <1>15 DEF Shape
  <2>3. \A s \in Made(g) : g.storage[s].w_self \in Made(g) /\ g.storage[s].w_values \in Made(g)
    <3> SUFFICES ASSUME NEW s \in Made(b) \cup {new}
                 PROVE  /\ g.storage[s].w_self \in Made(b) \cup {new}
                        /\ g.storage[s].w_values \in Made(b) \cup {new}
      BY <1>13
    <3>1. CASE s = new
      BY <3>1, <1>3, <1>12
    <3>2. CASE s # new
      <4>1. s \in Made(b) /\ s \in Ids
        BY <3>2, <1>3
      <4>2. b.storage[s].w_self \in Made(b) /\ b.storage[s].w_values \in Made(b)
        BY <4>1, <1>2 DEF Shape
      <4>3. CASE s = t
        BY <4>2, <4>3, <1>3, <1>12
      <4>4. CASE s # t
        BY <3>2, <4>1, <4>2, <4>4, <1>11
      <4> QED BY <4>3, <4>4
    <3> QED BY <3>1, <3>2
  <2>4. \A i \in Ids \ Made(g) : /\ g.dependent[i] = Nil /\ g.storage[i].s_class = Nil
                                 /\ ~ g.storage[i].is_methoddict /\ g.shadow[i] = i
    <3> SUFFICES ASSUME NEW i \in Ids \ Made(g)
                 PROVE  /\ g.dependent[i] = Nil /\ g.storage[i].s_class = Nil
                        /\ ~ g.storage[i].is_methoddict /\ g.shadow[i] = i
      OBVIOUS
    <3>1. i \in Ids \ Made(b) /\ i # new /\ i # n /\ i # o /\ i # t
      BY <1>3, <1>4, <1>13
    <3>2. b.dependent[i] = Nil /\ b.storage[i].s_class = Nil /\ ~ b.storage[i].is_methoddict
          /\ b.shadow[i] = i
      BY <3>1, <1>2 DEF Shape
    <3> QED BY <3>1, <3>2, <1>8, <1>9, <1>11
  <2> QED BY <2>1, <2>2, <2>3, <2>4 DEF Shape
<1>17. \A s \in Ids, z \in Classes : (b.storage[s].s_class = z) <=> (b.s_methoddict[z] = s)
  BY <1>2 DEF Owned
<1>18. Owned(g)
  <2>1. ASSUME NEW s \in Ids, NEW z \in Classes
        PROVE  (g.storage[s].s_class = z) <=> (g.s_methoddict[z] = s)
    <3>1. z # Nil
      BY ClassesAssumption
    <3>2. CASE s = new
      BY <3>2, <1>10, <1>12, <1>15
    <3>3. CASE s = t
      BY <3>1, <3>3, <1>5, <1>10, <1>12, <1>17
    <3>4. CASE s # new /\ s # t
      <4>1. g.storage[s].s_class = b.storage[s].s_class
        BY <3>4, <1>11
      <4>2. CASE b.storage[t].s_class = z
        <5>1. b.s_methoddict[z] = t /\ b.s_methoddict[z] # s
          BY <3>4, <4>2, <1>4, <1>17
        <5>2. b.storage[s].s_class # z
          BY <5>1, <1>17
        <5> QED BY <3>4, <4>1, <4>2, <5>2, <1>10
      <4>3. CASE b.storage[t].s_class # z
        BY <4>1, <4>3, <1>10, <1>17
      <4> QED BY <4>2, <4>3
    <3> QED BY <3>2, <3>3, <3>4
  <2>2. ASSUME NEW z \in Classes PROVE g.storage[g.s_methoddict[z]].is_methoddict
    <3>1. CASE b.storage[t].s_class = z
      BY <3>1, <1>10, <1>12
    <3>2. CASE b.storage[t].s_class # z
      <4>1. b.s_methoddict[z] # t /\ b.storage[b.s_methoddict[z]].is_methoddict
        BY <3>2, <1>2, <1>4, <1>17 DEF Owned
      <4> QED BY <3>2, <4>1, <1>10, <1>11, <1>15
    <3> QED BY <3>1, <3>2
  <2> QED BY <2>1, <2>2 DEF Owned
<1>19. Watched(g)
  <2> SUFFICES ASSUME NEW z \in Classes, LinkedIn(g, z)
               PROVE  LET s == g.s_methoddict[z]
                      IN  /\ g.storage[s].w_self = g.w_methoddict[z]
                          /\ g.dependent[g.storage[s].w_values] = s
    BY DEF Watched
  <2> PICK w \in T : w = b.w_methoddict[z]
    BY <1>2 DEF Apart
  <2>1. w # n /\ w \in Ids /\ w \in Made(b) /\ w # new
    BY <1>1, <1>3, <1>5
  <2>2. g.s_methoddict[z] # n /\ g.s_methoddict[z] \in {new, b.s_methoddict[z]}
    BY <1>5, <1>10, <1>15
  <2>3. g.shadow[w] = g.s_methoddict[z]
    BY <1>7 DEF LinkedIn
  <2>4. w # o
    BY <2>2, <2>3, <1>8
  <2>5. g.shadow[w] = b.shadow[w] /\ b.shadow[w] \in Made(b)
    BY <2>1, <2>4, <1>8, <1>14
  <2>6. g.s_methoddict[z] = b.s_methoddict[z] /\ b.storage[t].s_class # z
    BY <2>2, <2>3, <2>5, <1>5, <1>10
  <2>7. LinkedIn(b, z)
    BY <2>3, <2>5, <2>6 DEF LinkedIn
  <2> PICK s \in Ids : s = b.s_methoddict[z]
    BY <1>15
  <2>8. b.storage[s].w_self = w /\ b.dependent[b.storage[s].w_values] = s
    BY <2>7, <1>2 DEF Watched
  <2>9. s # t /\ s # new
    BY <2>6, <1>15, <1>17
  <2>10. g.storage[s].w_self = b.storage[s].w_self /\ g.storage[s].w_values = b.storage[s].w_values
    BY <2>9, <1>11
  <2>11. b.storage[s].w_values \in Ids /\ b.storage[s].w_values # n
    <3>1. s \in Made(b) /\ s # Nil
      BY <1>15, <1>1, MadeFacts
    <3>2. b.storage[s].w_values \in Made(b)
      BY <3>1, <1>2 DEF Shape
    <3> QED BY <3>1, <3>2, <2>8, <1>3, <1>6
  <2> QED BY <2>6, <2>8, <2>10, <2>11, <1>7, <1>9
<1>20. Apart(g, T, V)
  <2>1. \A z \in Classes : g.w_methoddict[z] \in T
    BY <1>2, <1>7 DEF Apart
  <2>2. ASSUME NEW v \in V PROVE g.storage[v].w_values = v /\ g.dependent[v] = Nil
    <3>1. v \in Ids /\ v # n /\ v # new
      BY <1>1, <1>3, <1>5
    <3>2. b.storage[v].w_values = v /\ b.dependent[v] = Nil /\ v # t
      BY <1>1, <1>2 DEF Apart
    <3> QED BY <3>1, <3>2, <1>9, <1>11
  <2>3. ASSUME NEW v \in V, NEW i \in T PROVE g.shadow[i] # v
    <3>1. v # n /\ i # n /\ i \in Ids /\ b.shadow[i] # v
      BY <1>1, <1>2, <1>3 DEF Apart
    <3> QED BY <3>1, <1>8
  <2> QED BY <2>1, <2>2, <2>3, <1>1, <1>13 DEF Apart
<1> QED BY <1>16, <1>18, <1>19, <1>20 DEF Sound

\* grow of any dictionary.
LEMMA GrowKeeps ==
    ASSUME NEW h \in HeapType, Attached(h), NEW T, NEW V, Sound(h, T, V), NEW o \in T,
           h.made + 2 <= MaxMade, NEW n, n = h.made + 1,
           NEW g, g = become(Copy(h, o, Selectors), o, n)
    PROVE  g \in HeapType /\ Sound(g, T, V) /\ Attached(g) /\ Noticed(h, g)
<1> PICK b : b = Copy(h, o, Selectors)
  OBVIOUS
<1>1. h.made \in Nat /\ h.made + 1 <= MaxMade
  BY MadeFacts
<1>2. Fresh(b, T, V, o, n) /\ SameRest(h, b) /\ Noticed(h, b)
  BY <1>1, CopyFresh
<1>3. Attached(b)
  BY <1>2, SameAttached DEF SameRest
<1>4. b.made + 1 <= MaxMade
  BY <1>1, <1>2 DEF Fresh
<1> PICK t : t = b.shadow[o]
  OBVIOUS
<1>5. g = become(b, o, n)
  OBVIOUS
<1>6. CASE ~ b.storage[t].is_methoddict
  <2>1. g \in HeapType /\ Sound(g, T, V) /\ SameRest(b, g) /\ Noticed(b, g)
    BY <1>2, <1>5, <1>6, GrowPlainKeeps
  <2>2. Attached(g)
    BY <1>3, <2>1, SameAttached DEF SameRest
  <2>3. Noticed(h, g)
    BY <1>2, <2>1, NoticedTwice
  <2> QED BY <2>1, <2>2, <2>3
<1>7. CASE b.storage[t].is_methoddict
  <2> PICK new : new = n + 1
    OBVIOUS
  <2>1. Exchanged(b, o, n, t, new, g) /\ Noticed(b, g)
    BY <1>2, <1>3, <1>4, <1>5, <1>7, ExchangeFacts
  <2>2. Sound(g, T, V)
    BY <1>2, <1>4, <1>7, <2>1, GrowMethodDictKeeps
  <2>3. g \in HeapType /\ g.s_superclass = b.s_superclass /\ g.subclass_s = b.subclass_s
    BY <2>1 DEF Exchanged
  <2>4. Attached(g)
    BY <1>3, <2>3, SameAttached
  <2>5. Noticed(h, g)
    BY <1>2, <2>1, NoticedTwice
  <2> QED BY <2>2, <2>3, <2>4, <2>5
<1> QED BY <1>6, <1>7

\* A superclass is stored: what is below the class is the same before and after.
LEMMA SetSuperclassKeeps ==
    ASSUME NEW h \in HeapType, Attached(h), NEW T, NEW V, Sound(h, T, V), NEW c \in Classes,
           NEW super \in Classes \cup {Nil}, NEW g, g = store_w_superclass(h, c, super)
    PROVE  g \in HeapType /\ Sound(g, T, V) /\ Attached(g) /\ Noticed(h, g)
<1> PICK old \in Classes \cup {Nil} : old = h.s_superclass[c]
  BY HeapFields DEF Supers
<1> DEFINE P == [h.s_superclass EXCEPT ![c] = super]
           B == [d \in Classes |-> IF d = super THEN h.subclass_s[d] \cup {c}
                                   ELSE IF d = old THEN h.subclass_s[d] \ {c}
                                   ELSE h.subclass_s[d]]
           f == [h EXCEPT !.s_superclass = P, !.subclass_s = B]
<1>1. h.s_superclass \in Supers /\ h.subclass_s \in Subs
  BY HeapFields
<1>2. P \in Supers /\ P[c] = super /\ \A d \in Classes : d # c => P[d] = h.s_superclass[d]
  BY <1>1 DEF Supers
<1>3. B \in Subs
  BY <1>1 DEF Subs
<1>4. \A d \in Classes : B[d] = IF d = super THEN h.subclass_s[d] \cup {c}
                                ELSE IF d = old THEN h.subclass_s[d] \ {c}
                                ELSE h.subclass_s[d]
  OBVIOUS
<1>5. g = changed(f, c)
  <2>1. g = changed([h EXCEPT !.s_superclass[c] = super, !.subclass_s = B], c)
    BY DEF store_w_superclass
  <2> HIDE DEF B
  <2>2. [h EXCEPT !.s_superclass[c] = super, !.subclass_s = B] = f
    BY DEF HeapType
  <2> QED BY <2>1, <2>2
<1> HIDE DEF P, B
<1>6. f \in HeapType
  BY <1>2, <1>3 DEF HeapType, Supers, Subs
<1>7. /\ f.s_superclass = P /\ f.subclass_s = B /\ f.storage = h.storage
      /\ f.s_methoddict = h.s_methoddict /\ f.compiled = h.compiled /\ SameLinks(h, f)
  BY DEF HeapType, SameLinks
<1> HIDE DEF f
<1>8. Sound(f, T, V)
  BY <1>6, <1>7, SameLinksSound
<1>9. Attached(f)
  <2>1. ASSUME NEW d \in Classes, NEW e \in Classes PROVE (e \in B[d]) <=> (P[e] = d)
    <3>1. (e \in h.subclass_s[d]) <=> (h.s_superclass[e] = d)
      BY DEF Attached
    <3>2. CASE e = c
      BY <3>1, <3>2, <1>2, <1>4
    <3>3. CASE e # c
      BY <3>1, <3>3, <1>2, <1>4
    <3> QED BY <3>2, <3>3
  <2> QED BY <2>1, <1>7 DEF Attached
<1>10. /\ g \in HeapType /\ SameObjects(f, g) /\ g.storage = f.storage
       /\ \A e \in Classes : IF e \in Below(f, c) THEN Cleared(g, e)
                             ELSE g.compiled[e] = f.compiled[e]
  <2>1. ChangesTo(f, c, g)
    BY <1>5, <1>6, ChangedFacts
  <2> QED BY <2>1 DEF ChangesTo
<1>11. Sound(g, T, V)
  BY <1>6, <1>8, <1>10, SameObjectsLinks, SameLinksSound
<1>12. g.s_superclass = P /\ g.subclass_s = B /\ g.s_methoddict = h.s_methoddict
  BY <1>7, <1>10 DEF SameObjects
<1>13. Attached(g)
  BY <1>7, <1>9, <1>12, SameAttached
<1>14. Noticed(h, g)
  <2> SUFFICES ASSUME NEW e \in Classes, ~ Cleared(g, e) PROVE AsBefore(h, g, e)
    BY DEF Noticed
  <2>1. e \notin Below(f, c) /\ g.compiled[e] = h.compiled[e]
    BY <1>7, <1>10
  <2>2. c \notin Range(Chain(f, e))
    BY <2>1, <1>6, <1>9, NotBelow
  <2>3. Chain(f, e) = Climb(P, e)[N] /\ Chain(h, e) = Climb(h.s_superclass, e)[N]
    BY <1>7, ChainIs
  <2>4. Chain(h, e) = Chain(f, e)
    BY <2>2, <2>3, <1>1, <1>2, SameChain
  <2>5. Chain(g, e) = Chain(f, e)
    BY <1>7, <1>12, SuperAbove
  <2>6. \A d : Table(g, d) = Table(h, d)
    BY <1>7, <1>10, <1>12 DEF Table
  <2> QED BY <2>1, <2>4, <2>5, <2>6 DEF AsBefore
<1> QED BY <1>10, <1>11, <1>13, <1>14

-----------------------------------------------------------------------------
(* What is left of the changes *)

\* Each step has what its call takes.
StepOK(st) ==
    /\ st \in Step
    /\ st.call # "flush" => st.o \in Ids
    /\ st.call \in {"name", "value"} => st.k \in Selectors
    /\ st.call \in {"value", "flush"} => st.v \in Methods
    /\ st.call \in {"values", "names"} => st.v \in Ids

\* The updater p is about to store the array of its copy.
Copying(pd, p) == pd[p] # <<>> /\ pd[p][1].call = "values"

PendingOK(pd) ==
    /\ pd \in [Updaters -> Seq(Step)]
    /\ \A p \in Updaters : \A i \in 1 .. Len(pd[p]) :
          StepOK(pd[p][i]) /\ (pd[p][i].call = "values" => i = 1)
    /\ \A p, q \in Updaters : p # q /\ Copying(pd, p) /\ Copying(pd, q)
                                 => pd[p][1].v # pd[q][1].v

\* The objects the updaters still change, and the copies they still take.
Objects(pd) == {o \in Ids : \E p \in Updaters : \E i \in 1 .. Len(pd[p]) :
                                pd[p][i].call # "flush" /\ pd[p][i].o = o}
Targets(h, pd) == {h.w_methoddict[c] : c \in Classes} \cup Objects(pd)
Copies(pd) == {v \in Ids : \E p \in Updaters : Copying(pd, p) /\ pd[p][1].v = v}

\* The first of the steps left.
LEMMA PendingStep ==
    ASSUME NEW pd, PendingOK(pd), NEW p \in Updaters, pd[p] # <<>>, NEW st, st = Head(pd[p])
    PROVE  /\ st = pd[p][1] /\ StepOK(st) /\ Len(pd[p]) \in Nat /\ Len(pd[p]) >= 1
           /\ st.call # "flush" => st.o \in Objects(pd)
           /\ st.call = "values" => st.v \in Copies(pd)
<1> PICK s \in Seq(Step) : s = pd[p]
  BY DEF PendingOK
<1>1. /\ st = s[1] /\ 1 \in 1 .. Len(s) /\ Len(s) \in Nat /\ Len(s) >= 1
  OBVIOUS
<1>2. StepOK(st)
  BY <1>1 DEF PendingOK
<1>3. st.call # "flush" => st.o \in Objects(pd)
  BY <1>1, <1>2 DEF StepOK, Objects
<1>4. st.call = "values" => st.v \in Copies(pd)
  BY <1>1, <1>2 DEF StepOK, Copies, Copying
<1> QED BY <1>1, <1>2, <1>3, <1>4

\* An updater that goes on does not begin anything.
LEMMA PendingTail ==
    ASSUME NEW pd, PendingOK(pd), NEW p \in Updaters, pd[p] # <<>>,
           NEW pe, pe = [pd EXCEPT ![p] = Tail(pd[p])]
    PROVE  /\ PendingOK(pe) /\ Objects(pe) \subseteq Objects(pd)
           /\ Copies(pe) \subseteq Copies(pd)
           /\ Head(pd[p]).call = "values" => Copies(pe) \subseteq Copies(pd) \ {Head(pd[p]).v}
<1> PICK s \in Seq(Step) : s = pd[p]
  BY DEF PendingOK
<1>1. /\ pd \in [Updaters -> Seq(Step)]
      /\ \A q \in Updaters : \A i \in 1 .. Len(pd[q]) :
            StepOK(pd[q][i]) /\ (pd[q][i].call = "values" => i = 1)
      /\ \A q, r \in Updaters : q # r /\ Copying(pd, q) /\ Copying(pd, r)
                                   => pd[q][1].v # pd[r][1].v
  BY DEF PendingOK
<1>2. /\ Tail(s) \in Seq(Step) /\ Len(Tail(s)) = Len(s) - 1 /\ Len(s) \in Nat /\ Len(s) >= 1
      /\ \A i \in 1 .. Len(s) - 1 : Tail(s)[i] = s[i + 1]
      /\ Head(s) = s[1]
  OBVIOUS
<1>3. /\ pe \in [Updaters -> Seq(Step)] /\ pe[p] = Tail(s)
      /\ \A q \in Updaters : q # p => pe[q] = pd[q]
  BY <1>1, <1>2
<1>4. \A i \in 1 .. Len(pe[p]) : /\ i + 1 \in 1 .. Len(s) /\ pe[p][i] = s[i + 1]
                                 /\ pe[p][i].call # "values" /\ StepOK(pe[p][i])
  <2> SUFFICES ASSUME NEW i \in 1 .. Len(pe[p])
               PROVE  /\ i + 1 \in 1 .. Len(s) /\ pe[p][i] = s[i + 1]
                      /\ pe[p][i].call # "values" /\ StepOK(pe[p][i])
    OBVIOUS
  <2>1. i + 1 \in 1 .. Len(s) /\ pe[p][i] = s[i + 1] /\ i + 1 # 1
    BY <1>2, <1>3
  <2> QED BY <2>1, <1>1
<1>5. ~ Copying(pe, p)
  <2> SUFFICES ASSUME pe[p] # <<>> PROVE pe[p][1].call # "values"
    BY DEF Copying
  <2>1. pe[p] \in Seq(Step)
    BY <1>3
  <2>2. 1 \in 1 .. Len(pe[p])
    BY <2>1
  <2> QED BY <2>2, <1>4
<1>6. \A q \in Updaters : Copying(pe, q) => q # p /\ Copying(pd, q) /\ pe[q] = pd[q]
  BY <1>3, <1>5 DEF Copying
<1>7. PendingOK(pe)
  <2>1. ASSUME NEW q \in Updaters, NEW i \in 1 .. Len(pe[q])
        PROVE  StepOK(pe[q][i]) /\ (pe[q][i].call = "values" => i = 1)
    <3>1. CASE q = p
      BY <3>1, <1>4
    <3>2. CASE q # p
      BY <3>2, <1>1, <1>3
    <3> QED BY <3>1, <3>2
  <2>2. ASSUME NEW q \in Updaters, NEW r \in Updaters, q # r, Copying(pe, q), Copying(pe, r)
        PROVE  pe[q][1].v # pe[r][1].v
    BY <2>2, <1>1, <1>6
  <2> QED BY <2>1, <2>2, <1>3 DEF PendingOK
<1>8. Objects(pe) \subseteq Objects(pd)
  <2> SUFFICES ASSUME NEW o \in Objects(pe) PROVE o \in Objects(pd)
    OBVIOUS
  <2>1. PICK q \in Updaters : \E i \in 1 .. Len(pe[q]) : pe[q][i].call # "flush" /\ pe[q][i].o = o
    BY DEF Objects
  <2>2. PICK i \in 1 .. Len(pe[q]) : pe[q][i].call # "flush" /\ pe[q][i].o = o
    BY <2>1
  <2>3. o \in Ids
    BY DEF Objects
  <2>4. CASE q = p
    BY <2>2, <2>3, <2>4, <1>4 DEF Objects
  <2>5. CASE q # p
    BY <2>2, <2>3, <2>5, <1>3 DEF Objects
  <2> QED BY <2>4, <2>5
<1>9. Copies(pe) \subseteq Copies(pd)
  BY <1>6 DEF Copies
<1>10. ASSUME Head(pd[p]).call = "values"
       PROVE  Copies(pe) \subseteq Copies(pd) \ {Head(pd[p]).v}
  <2>1. Copying(pd, p) /\ Head(pd[p]).v = pd[p][1].v
    BY <1>2, <1>10 DEF Copying
  <2>2. \A q \in Updaters : Copying(pe, q) => pe[q][1].v # Head(pd[p]).v
    BY <2>1, <1>1, <1>6
  <2> QED BY <2>2, <1>9 DEF Copies
<1> QED BY <1>7, <1>8, <1>9, <1>10

\* The steps change objects of O, and take the copy v first if they take one.
Begins(steps, O, v) ==
    \A i \in 1 .. Len(steps) :
        /\ StepOK(steps[i]) /\ (steps[i].call # "flush" => steps[i].o \in O)
        /\ (steps[i].call = "values" => i = 1 /\ steps[i].v = v)

Begun(pd, pe, steps, O, v) ==
    /\ PendingOK(pe) /\ Objects(pe) \subseteq Objects(pd) \cup O
    /\ Copies(pe) \subseteq Copies(pd) \cup {v}
    /\ (\A i \in 1 .. Len(steps) : steps[i].call # "values") => Copies(pe) \subseteq Copies(pd)

\* An updater that begins: its steps change objects known, and take a copy first if at all.
LEMMA PendingStart ==
    ASSUME NEW pd, PendingOK(pd), NEW p \in Updaters, pd[p] = <<>>, NEW steps \in Seq(Step),
           NEW pe, pe = [pd EXCEPT ![p] = steps], NEW O, NEW v, v \notin Copies(pd),
           Begins(steps, O, v)
    PROVE  Begun(pd, pe, steps, O, v)
<1>1. \A i \in 1 .. Len(steps) :
           /\ StepOK(steps[i]) /\ (steps[i].call # "flush" => steps[i].o \in O)
           /\ (steps[i].call = "values" => i = 1 /\ steps[i].v = v)
  BY DEF Begins
<1>2. /\ pd \in [Updaters -> Seq(Step)]
      /\ \A q \in Updaters : \A i \in 1 .. Len(pd[q]) :
            StepOK(pd[q][i]) /\ (pd[q][i].call = "values" => i = 1)
      /\ \A q, r \in Updaters : q # r /\ Copying(pd, q) /\ Copying(pd, r)
                                   => pd[q][1].v # pd[r][1].v
  BY DEF PendingOK
<1>3. /\ pe \in [Updaters -> Seq(Step)] /\ pe[p] = steps
      /\ \A q \in Updaters : q # p => pe[q] = pd[q]
  BY <1>2
<1>4. \A q \in Updaters : q # p => (Copying(pe, q) <=> Copying(pd, q)) /\ pe[q] = pd[q]
  BY <1>3 DEF Copying
<1>5. Copying(pe, p) => /\ pe[p][1].v = v
                        /\ ~ \A i \in 1 .. Len(steps) : steps[i].call # "values"
  <2> SUFFICES ASSUME Copying(pe, p)
               PROVE  pe[p][1].v = v /\ ~ \A i \in 1 .. Len(steps) : steps[i].call # "values"
    OBVIOUS
  <2>1. steps # <<>> /\ steps[1].call = "values"
    BY <1>3 DEF Copying
  <2>2. 1 \in 1 .. Len(steps)
    BY <2>1
  <2> QED BY <2>1, <2>2, <1>1, <1>3
<1>6. \A q \in Updaters : Copying(pd, q) => pd[q][1].v # v
  <2> SUFFICES ASSUME NEW q \in Updaters, Copying(pd, q) PROVE pd[q][1].v # v
    OBVIOUS
  <2> PICK s \in Seq(Step) : s = pd[q]
    BY <1>2
  <2>1. s # <<>> /\ s[1].call = "values"
    BY DEF Copying
  <2>2. 1 \in 1 .. Len(s)
    BY <2>1
  <2>3. s[1].v \in Ids
    BY <1>2, <2>1, <2>2 DEF StepOK
  <2> QED BY <2>3 DEF Copies
<1>7. PendingOK(pe)
  <2>1. ASSUME NEW q \in Updaters, NEW i \in 1 .. Len(pe[q])
        PROVE  StepOK(pe[q][i]) /\ (pe[q][i].call = "values" => i = 1)
    <3>1. CASE q = p
      BY <3>1, <1>1, <1>3
    <3>2. CASE q # p
      BY <3>2, <1>2, <1>3
    <3> QED BY <3>1, <3>2
  <2>2. ASSUME NEW q \in Updaters, NEW r \in Updaters, q # r, Copying(pe, q), Copying(pe, r)
        PROVE  pe[q][1].v # pe[r][1].v
    <3>1. CASE q = p
      BY <3>1, <2>2, <1>4, <1>5, <1>6
    <3>2. CASE r = p
      BY <3>2, <2>2, <1>4, <1>5, <1>6
    <3>3. CASE q # p /\ r # p
      BY <3>3, <2>2, <1>2, <1>4
    <3> QED BY <3>1, <3>2, <3>3
  <2> QED BY <2>1, <2>2, <1>3 DEF PendingOK
<1>8. Objects(pe) \subseteq Objects(pd) \cup O
  <2> SUFFICES ASSUME NEW o \in Objects(pe) PROVE o \in Objects(pd) \cup O
    OBVIOUS
  <2>1. PICK q \in Updaters : \E i \in 1 .. Len(pe[q]) : pe[q][i].call # "flush" /\ pe[q][i].o = o
    BY DEF Objects
  <2>2. o \in Ids
    BY DEF Objects
  <2>3. CASE q = p
    BY <2>1, <2>3, <1>1, <1>3
  <2>4. CASE q # p
    BY <2>1, <2>2, <2>4, <1>3 DEF Objects
  <2> QED BY <2>3, <2>4
<1>9. Copies(pe) \subseteq Copies(pd) \cup {v}
      /\ ((\A i \in 1 .. Len(steps) : steps[i].call # "values")
             => Copies(pe) \subseteq Copies(pd))
  <2>1. \A w \in Copies(pe) : w \in Copies(pd) \/ (Copying(pe, p) /\ w = pe[p][1].v)
    BY <1>4 DEF Copies
  <2> QED BY <2>1, <1>5
<1> QED BY <1>7, <1>8, <1>9 DEF Begun

\* The calls of a change of the dictionary o, copies left aside.
Calls(o) == {st \in Step : /\ StepOK(st) /\ st.call # "values"
                           /\ (st.call # "flush" => st.o = o)}

\* The steps that the changes are made of.
LEMMA CallsAre ==
    ASSUME NEW o \in Ids
    PROVE  /\ \A k \in Selectors : Call("name", o, k, Nil) \in Calls(o)
           /\ \A k \in Selectors, m \in Methods : Call("value", o, k, m) \in Calls(o)
           /\ Call("grow", o, Nil, Nil) \in Calls(o)
           /\ \A m \in Methods : Call("flush", Nil, Nil, m) \in Calls(o)
           /\ \A v \in Ids : Call("names", o, Nil, v) \in Calls(o)
           /\ \A v \in Ids : StepOK(Call("values", o, Nil, v))
BY DEF Calls, Call, Step, StepOK

\* A step that may be left out.
LEMMA CallIfIs ==
    ASSUME NEW S, NEW test \in BOOLEAN, NEW st, test => st \in S
    PROVE  CallIf(test, st) \in Seq(S)
<1>1. CASE test
  BY <1>1 DEF CallIf
<1>2. CASE ~ test
  BY <1>2 DEF CallIf
<1> QED BY <1>1, <1>2

\* A change without a copy begins.
LEMMA StartsCalls ==
    ASSUME NEW pd, PendingOK(pd), NEW p \in Updaters, pd[p] = <<>>, NEW o \in Ids,
           NEW steps \in Seq(Calls(o)), NEW pe, pe = [pd EXCEPT ![p] = steps]
    PROVE  PendingOK(pe) /\ Objects(pe) \subseteq Objects(pd) \cup {o}
           /\ Copies(pe) \subseteq Copies(pd)
<1>1. steps \in Seq(Step)
  BY DEF Calls
<1>2. \A i \in 1 .. Len(steps) : steps[i] \in Calls(o)
  OBVIOUS
<1>3. \A i \in 1 .. Len(steps) :
           /\ StepOK(steps[i]) /\ (steps[i].call # "flush" => steps[i].o \in {o})
           /\ (steps[i].call = "values" => i = 1 /\ steps[i].v = Nil)
  BY <1>2 DEF Calls
<1>4. \A i \in 1 .. Len(steps) : steps[i].call # "values"
  BY <1>2 DEF Calls
<1>5. Nil \notin Copies(pd)
  BY ClassesAssumption, MethodsAssumption DEF Copies, Ids
<1>6. Begins(steps, {o}, Nil)
  BY <1>3 DEF Begins
<1>7. Begun(pd, pe, steps, {o}, Nil)
  BY <1>1, <1>5, <1>6, PendingStart
<1> QED BY <1>4, <1>7 DEF Begun

\* The image's dictionaries give methods or Nil.
LEMMA ImageMethodType ==
    ASSUME NEW h \in HeapType, NEW c \in Classes, NEW k \in Selectors
    PROVE  ImageMethod(h, c, k) \in Methods \cup {Nil}
           /\ ImageLookup(h, c, k) \in Methods \cup {Nil}
<1>1. ASSUME NEW d \in Classes
      PROVE  ImageMethod(h, d, k) \in Methods \cup {Nil}
  <2> PICK s \in Ids : s = h.shadow[h.w_methoddict[d]]
    BY HeapFields
  <2> PICK t \in Storage : t = h.storage[s]
    BY HeapFields
  <2> PICK a \in Ids : a = t.w_values
    BY DEF Storage
  <2>1. h.array[a] \in [Selectors -> Methods \cup {Nil}]
    BY HeapFields, Zenon
  <2>2. ImageMethod(h, d, k) = IF k \in t.names THEN h.array[a][k] ELSE Nil
    BY Zenon DEF ImageMethod
  <2> QED BY <2>1, <2>2
<1> DEFINE a == [d \in Classes |-> ImageMethod(h, d, k)]
<1>2. a \in [Classes -> Methods \cup {Nil}]
  BY <1>1
<1>3. ImageLookup(h, c, k) = FirstFound(h, c, a)
  BY DEF ImageLookup
<1> HIDE DEF a
<1> QED BY <1>1, <1>2, <1>3, FirstFoundType

-----------------------------------------------------------------------------
(* The invariant *)

Holds(h, pd) ==
    /\ h \in HeapType /\ Attached(h) /\ CompiledCurrent(h)
    /\ PendingOK(pd) /\ Sound(h, Targets(h, pd), Copies(pd))

Inv == Holds(heap, pending)

\* What an operation and the steps left have to give for it.
LEMMA HoldsAfter ==
    ASSUME NEW h, NEW pd, Holds(h, pd), NEW g \in HeapType, NEW pe, NEW T, NEW V,
           Attached(g), Noticed(h, g), Sound(g, T, V), PendingOK(pe),
           Objects(pe) \subseteq T, Copies(pe) \subseteq V
    PROVE  Holds(g, pe)
<1>1. CompiledCurrent(g)
  BY NoticedCurrent DEF Holds
<1>2. \A c \in Classes : g.w_methoddict[c] \in T
  BY DEF Sound, Apart
<1>3. Targets(g, pe) \in SUBSET T /\ \A c \in Classes : g.w_methoddict[c] \in Targets(g, pe)
  BY <1>2 DEF Targets
<1>4. Sound(g, Targets(g, pe), Copies(pe))
  BY <1>3, FewerSound
<1> QED BY <1>1, <1>4 DEF Holds

\* Doing nothing goes unnoticed and leaves all alone.
LEMMA NothingDone == \A h : Noticed(h, h) /\ SameRest(h, h)
BY DEF Noticed, AsBefore, SameRest

\* A change begins, of the dictionary of a class; the heap is left alone.
LEMMA HoldsStarting ==
    ASSUME NEW h, NEW pd, Holds(h, pd), NEW p \in Updaters, pd[p] = <<>>, NEW c \in Classes,
           NEW steps \in Seq(Calls(h.w_methoddict[c])), NEW pe, pe = [pd EXCEPT ![p] = steps]
    PROVE  Holds(h, pe)
<1> PICK o \in Ids : o = h.w_methoddict[c]
  BY HeapFields DEF Holds
<1> DEFINE T == Targets(h, pd)
<1>1. PendingOK(pe) /\ Objects(pe) \subseteq Objects(pd) \cup {o}
      /\ Copies(pe) \subseteq Copies(pd)
  <2>1. PendingOK(pd) /\ steps \in Seq(Calls(o))
    BY DEF Holds
  <2> QED BY <2>1, StartsCalls
<1>2. Objects(pe) \subseteq T
  BY <1>1 DEF Targets
<1>3. h \in HeapType /\ Attached(h) /\ Sound(h, T, Copies(pd)) /\ Noticed(h, h)
  BY NothingDone DEF Holds
<1> HIDE DEF T
<1> QED BY <1>1, <1>2, <1>3, HoldsAfter

\* A change goes on.
LEMMA HoldsContinuing ==
    ASSUME NEW h, NEW pd, Holds(h, pd), NEW p \in Updaters, pd[p] # <<>>,
           NEW pe, pe = [pd EXCEPT ![p] = Tail(pd[p])],
           NEW g \in HeapType, Attached(g), Noticed(h, g),
           \/ Sound(g, Targets(h, pd), Copies(pd))
           \/ /\ Head(pd[p]).call = "values"
              /\ Sound(g, Targets(h, pd), Copies(pd) \ {Head(pd[p]).v})
    PROVE  Holds(g, pe)
<1> DEFINE T == Targets(h, pd)
<1>1. PendingOK(pd)
  BY DEF Holds
<1>2. /\ PendingOK(pe) /\ Objects(pe) \subseteq Objects(pd) /\ Copies(pe) \subseteq Copies(pd)
      /\ Head(pd[p]).call = "values" => Copies(pe) \subseteq Copies(pd) \ {Head(pd[p]).v}
  BY <1>1, PendingTail
<1>3. Objects(pe) \subseteq T
  BY <1>2 DEF Targets
<1>4. CASE Sound(g, T, Copies(pd))
  <2> HIDE DEF T
  <2> QED BY <1>2, <1>3, <1>4, HoldsAfter
<1>5. CASE Head(pd[p]).call = "values" /\ Sound(g, T, Copies(pd) \ {Head(pd[p]).v})
  <2> HIDE DEF T
  <2> QED BY <1>2, <1>3, <1>5, HoldsAfter
<1> QED BY <1>4, <1>5

-----------------------------------------------------------------------------
(* At the start, and after each action *)

\* The image is loaded.
LEMMA HoldsAtFirst == Init => Inv
<1> SUFFICES ASSUME Init PROVE Inv
  OBVIOUS
<1> DEFINE row == [k \in Selectors |-> Nil]
           S == [i \in Ids |-> [is_methoddict |-> i \in Classes, w_self |-> i, names |-> {},
                                w_values |-> i, invalid |-> FALSE,
                                s_class |-> IF i \in Classes THEN i ELSE Nil,
                                methoddict |-> row]]
           W == [i \in Ids |-> i]
           A == [i \in Ids |-> row]
           D == [i \in Ids |-> IF i \in Classes THEN i ELSE Nil]
           M == [c \in Classes |-> c]
           P == [c \in Classes |-> Nil]
           B == [c \in Classes |-> {}]
           L == [m \in Methods |-> Nil]
           R == [c \in Classes |-> row]
<1>1. /\ heap = [shadow |-> W, storage |-> S, array |-> A, dependent |-> D,
                 w_methoddict |-> M, s_methoddict |-> M, s_superclass |-> P,
                 subclass_s |-> B, lookup_class |-> L, compiled |-> R, made |-> 0,
                 error |-> Nil]
      /\ pending = [p \in Updaters |-> <<>>]
  BY DEF Init
<1>2. Classes \subseteq Ids /\ MaxMade \in Nat /\ Nil \notin Ids
  BY ClassesAssumption, MethodsAssumption DEF Ids
<1>3. row \in [Selectors -> Methods \cup {Nil}] /\ \A k \in Selectors : row[k] = Nil
  OBVIOUS
<1> HIDE DEF row
<1>4. S \in [Ids -> Storage]
  <2> SUFFICES ASSUME NEW i \in Ids PROVE S[i] \in Storage
    BY Zenon
  <2> QED BY <1>2, <1>3 DEF Storage
<1>5. \A i \in Ids : /\ S[i].is_methoddict = (i \in Classes) /\ S[i].w_self = i
                     /\ S[i].w_values = i
                     /\ S[i].s_class = (IF i \in Classes THEN i ELSE Nil)
  OBVIOUS
<1>6. /\ W \in [Ids -> Ids] /\ A \in [Ids -> [Selectors -> Methods \cup {Nil}]]
      /\ D \in [Ids -> Ids \cup {Nil}] /\ M \in [Classes -> Ids]
      /\ P \in [Classes -> Classes \cup {Nil}] /\ B \in [Classes -> SUBSET Classes]
      /\ L \in [Methods -> Classes \cup {Nil}]
      /\ R \in [Classes -> [Selectors -> Methods \cup {Nil}]]
  BY <1>2, <1>3
<1>7. /\ \A i \in Ids : W[i] = i /\ D[i] = IF i \in Classes THEN i ELSE Nil
      /\ \A c \in Classes : M[c] = c /\ P[c] = Nil /\ B[c] = {} /\ R[c] = row
  OBVIOUS
<1> HIDE DEF S, W, A, D, M, P, B, L, R
<1>8. heap \in HeapType
  BY <1>1, <1>2, <1>4, <1>6 DEF HeapType
<1>9. /\ heap.shadow = W /\ heap.storage = S /\ heap.dependent = D
      /\ heap.w_methoddict = M /\ heap.s_methoddict = M /\ heap.s_superclass = P
      /\ heap.subclass_s = B /\ heap.compiled = R /\ heap.made = 0
  BY <1>1
<1>10. Attached(heap)
  BY <1>7, <1>9, ClassesAssumption DEF Attached
<1>11. CompiledCurrent(heap)
  BY <1>3, <1>7, <1>9 DEF CompiledCurrent
<1>12. /\ \A p \in Updaters : pending[p] = <<>>
       /\ pending \in [Updaters -> Seq(Step)]
  BY <1>1
<1>13. PendingOK(pending)
  BY <1>12 DEF PendingOK, Copying
<1>14. Copies(pending) = {} /\ Objects(pending) = {}
  BY <1>12 DEF Copies, Objects, Copying
<1>15. Targets(heap, pending) = Classes
  BY <1>7, <1>9, <1>14 DEF Targets
<1>16. Made(heap) = Classes
  BY <1>9 DEF Made
<1>17. Shape(heap)
  <2>1. \A i \in Ids : heap.shadow[i] = i /\ heap.storage[i].w_self = i
                       /\ heap.storage[i].w_values = i
    BY <1>5, <1>7, <1>9
  <2>2. \A i \in Ids \ Classes : heap.dependent[i] = Nil /\ heap.storage[i].s_class = Nil
                                  /\ ~ heap.storage[i].is_methoddict
    BY <1>5, <1>7, <1>9
  <2>3. \A c \in Classes : heap.w_methoddict[c] = c /\ heap.s_methoddict[c] = c
    BY <1>7, <1>9
  <2> QED BY <1>2, <1>16, <2>1, <2>2, <2>3 DEF Shape
<1>18. Owned(heap)
  <2>1. \A i \in Classes : heap.storage[i].is_methoddict /\ heap.storage[i].s_class = i
    BY <1>2, <1>5, <1>9
  <2>2. \A i \in Ids : heap.storage[i].s_class = IF i \in Classes THEN i ELSE Nil
    BY <1>5, <1>9
  <2>3. \A c \in Classes : heap.s_methoddict[c] = c
    BY <1>7, <1>9
  <2> QED BY <1>2, <2>1, <2>2, <2>3 DEF Owned
<1>19. Watched(heap)
  BY <1>2, <1>5, <1>7, <1>9 DEF Watched
<1>20. Apart(heap, Classes, {})
  BY <1>7, <1>9, <1>16 DEF Apart
<1>21. Sound(heap, Targets(heap, pending), Copies(pending))
  BY <1>14, <1>15, <1>17, <1>18, <1>19, <1>20 DEF Sound
<1> QED BY <1>8, <1>10, <1>11, <1>13, <1>21 DEF Inv, Holds

\* The changes begin; only some of them touch the heap at once.
LEMMA AddSelectorKeeps ==
    ASSUME Inv, NEW p \in Updaters, NEW c \in Classes, NEW k \in Selectors,
           NEW m \in Methods, NEW grows \in BOOLEAN, AddSelector(p, c, k, m, grows)
    PROVE  Inv'
<1>1. heap \in HeapType /\ Holds(heap, pending)
  BY DEF Inv, Holds
<1> PICK o \in Ids : o = heap.w_methoddict[c]
  BY <1>1, HeapFields
<1> PICK x \in Methods \cup {Nil} : x = ImageLookup(heap, c, k)
  BY <1>1, ImageMethodType
<1> PICK first : first = <<Call("name", o, k, Nil), Call("value", o, k, m)>>
  OBVIOUS
<1> PICK second : second = CallIf(grows, Call("grow", o, Nil, Nil))
  OBVIOUS
<1> PICK third : third = CallIf(x # Nil, Call("flush", Nil, Nil, x))
  OBVIOUS
<1>2. first \in Seq(Calls(o))
  BY CallsAre
<1>3. second \in Seq(Calls(o))
  <2>1. Call("grow", o, Nil, Nil) \in Calls(o)
    BY CallsAre
  <2> QED BY <2>1, CallIfIs
<1>4. third \in Seq(Calls(o))
  <2>1. x # Nil => Call("flush", Nil, Nil, x) \in Calls(o)
    BY CallsAre
  <2> QED BY <2>1, CallIfIs
<1> PICK steps : steps = first \o second \o third
  OBVIOUS
<1>5. steps \in Seq(Calls(heap.w_methoddict[c]))
  BY <1>2, <1>3, <1>4
<1>6. pending[p] = <<>> /\ pending' = [pending EXCEPT ![p] = steps] /\ heap' = heap
  BY DEF AddSelector, Starts
<1>7. Holds(heap, pending')
  BY <1>1, <1>5, <1>6, HoldsStarting
<1> QED BY <1>6, <1>7 DEF Inv

LEMMA ReplaceMethodKeeps ==
    ASSUME Inv, NEW p \in Updaters, NEW c \in Classes, NEW k \in Selectors,
           NEW m \in Methods, ReplaceMethod(p, c, k, m)
    PROVE  Inv'
<1>1. heap \in HeapType /\ Holds(heap, pending)
  BY DEF Inv, Holds
<1> PICK o \in Ids : o = heap.w_methoddict[c]
  BY <1>1, HeapFields
<1> PICK old \in Methods : old = ImageMethod(heap, c, k)
  BY <1>1, ImageMethodType DEF ReplaceMethod
<1> PICK steps : steps = <<Call("flush", Nil, Nil, old), Call("value", o, k, m),
                           Call("flush", Nil, Nil, old)>>
  OBVIOUS
<1>2. steps \in Seq(Calls(heap.w_methoddict[c]))
  BY CallsAre
<1>3. pending[p] = <<>> /\ pending' = [pending EXCEPT ![p] = steps] /\ heap' = heap
  BY DEF ReplaceMethod, Starts
<1>4. Holds(heap, pending')
  BY <1>1, <1>2, <1>3, HoldsStarting
<1> QED BY <1>3, <1>4 DEF Inv

\* The copy is new: no updater holds it yet.
LEMMA RemoveSelectorKeeps ==
    ASSUME Inv, NEW p \in Updaters, NEW c \in Classes, NEW k \in Selectors,
           RemoveSelector(p, c, k)
    PROVE  Inv'
<1> DEFINE T == Targets(heap, pending)
           V == Copies(pending)
<1>1. /\ heap \in HeapType /\ Holds(heap, pending) /\ Attached(heap)
      /\ PendingOK(pending) /\ Sound(heap, T, V)
  BY DEF Inv, Holds
<1> PICK o \in Ids : o = heap.w_methoddict[c]
  BY <1>1, HeapFields
<1> PICK old \in Methods : old = ImageMethod(heap, c, k)
  BY <1>1, ImageMethodType DEF RemoveSelector
<1> PICK n : n = heap.made + 1
  OBVIOUS
<1> PICK keys \in SUBSET Selectors : keys = Selectors \ {k}
  OBVIOUS
<1> PICK steps : steps = <<Call("values", o, Nil, n), Call("names", o, Nil, n),
                           Call("flush", Nil, Nil, old)>>
  OBVIOUS
<1>2. /\ pending[p] = <<>> /\ pending' = [pending EXCEPT ![p] = steps] /\ n <= MaxMade
      /\ heap' = Copy(heap, o, keys)
  BY DEF RemoveSelector, Starts
<1>3. o \in T
  BY DEF Targets
<1> HIDE DEF T, V
<1>4. /\ heap' \in HeapType /\ Sound(heap', T, V \cup {n}) /\ SameRest(heap, heap')
      /\ Noticed(heap, heap') /\ n \notin Made(heap) /\ n \in Ids
  <2> PICK g : g = heap'
    OBVIOUS
  <2>1. /\ heap \in HeapType /\ Sound(heap, T, V) /\ o \in Ids /\ keys \in SUBSET Selectors
        /\ heap.made + 1 <= MaxMade /\ n = heap.made + 1 /\ g = Copy(heap, o, keys)
    BY <1>1, <1>2
  <2>2. CopyKept(heap, T, V, n, g)
    BY <2>1, CopyKeeps
  <2> QED BY <2>2 DEF CopyKept
<1>5. n \notin V
  BY <1>1, <1>4 DEF Sound, Apart
<1>6. Attached(heap')
  BY <1>1, <1>4, SameAttached DEF SameRest
<1>7. /\ StepOK(Call("values", o, Nil, n)) /\ Call("names", o, Nil, n) \in Calls(o)
      /\ Call("flush", Nil, Nil, old) \in Calls(o)
      /\ Call("values", o, Nil, n).o = o /\ Call("values", o, Nil, n).v = n
  <2>1. Call("values", o, Nil, n).o = o /\ Call("values", o, Nil, n).v = n
    BY DEF Call
  <2> QED BY <1>4, <2>1, CallsAre
<1>8. steps \in Seq(Step) /\ Begins(steps, {o}, n)
  <2> DEFINE x == Call("values", o, Nil, n)
             y == Call("names", o, Nil, n)
             z == Call("flush", Nil, Nil, old)
  <2>1. /\ StepOK(x) /\ StepOK(y) /\ StepOK(z) /\ x \in Step /\ y \in Step /\ z \in Step
        /\ x.o = o /\ x.v = n /\ y.call # "values" /\ z.call # "values"
        /\ (y.call # "flush" => y.o = o) /\ (z.call # "flush" => z.o = o)
    BY <1>7 DEF Calls, StepOK
  <2>2. steps = <<x, y, z>>
    OBVIOUS
  <2> HIDE DEF x, y, z
  <2>3. steps \in Seq(Step) /\ Len(steps) = 3 /\ steps[1] = x /\ steps[2] = y /\ steps[3] = z
    BY <2>1, <2>2
  <2>4. \A i \in 1 .. Len(steps) : i = 1 \/ i = 2 \/ i = 3
    BY <2>3
  <2>5. ASSUME NEW i \in 1 .. Len(steps)
        PROVE  /\ StepOK(steps[i]) /\ (steps[i].call # "flush" => steps[i].o \in {o})
               /\ (steps[i].call = "values" => i = 1 /\ steps[i].v = n)
    <3>1. CASE i = 1
      BY <3>1, <2>1, <2>3
    <3>2. CASE i = 2
      BY <3>2, <2>1, <2>3
    <3>3. CASE i = 3
      BY <3>3, <2>1, <2>3
    <3> QED BY <3>1, <3>2, <3>3, <2>4
  <2> QED BY <2>3, <2>5 DEF Begins
<1>9. Begun(pending, pending', steps, {o}, n)
  <2>1. n \notin Copies(pending)
    BY <1>5 DEF V
  <2> QED BY <1>1, <1>2, <1>8, <2>1, PendingStart
<1>10. PendingOK(pending') /\ Objects(pending') \subseteq T /\ Copies(pending') \subseteq V \cup {n}
  <2>1. Objects(pending) \subseteq T
    BY DEF T, Targets
  <2> QED BY <1>3, <1>9, <2>1 DEF Begun, V
<1>11. Holds(heap', pending')
  BY <1>1, <1>4, <1>6, <1>10, HoldsAfter
<1> QED BY <1>11 DEF Inv

\* The changes of one step.
LEMMA SetMethodDictActionKeeps ==
    ASSUME Inv, NEW p \in Updaters, NEW c \in Classes, SetMethodDict(p, c)
    PROVE  Inv'
<1> DEFINE T == Targets(heap, pending)
           V == Copies(pending)
<1>1. /\ heap \in HeapType /\ Holds(heap, pending) /\ Attached(heap)
      /\ PendingOK(pending) /\ Sound(heap, T, V)
  BY DEF Inv, Holds
<1> PICK n : n = heap.made + 1
  OBVIOUS
<1>2. /\ pending[p] = <<>> /\ pending' = [pending EXCEPT ![p] = <<>>]
      /\ heap.made + 2 <= MaxMade
      /\ heap' = store_w_methoddict(Copy(heap, heap.w_methoddict[c], Selectors), c, n)
  BY DEF SetMethodDict, Starts
<1>3. pending' = pending
  BY <1>1, <1>2 DEF PendingOK
<1>4. Objects(pending') \subseteq T \cup {n} /\ Copies(pending') \subseteq V /\ PendingOK(pending')
  BY <1>1, <1>3 DEF Targets
<1> HIDE DEF T, V
<1>5. heap' \in HeapType /\ Sound(heap', T \cup {n}, V) /\ Attached(heap') /\ Noticed(heap, heap')
  <2> PICK g : g = heap'
    OBVIOUS
  <2>1. /\ heap \in HeapType /\ Attached(heap) /\ Sound(heap, T, V)
        /\ heap.made + 2 <= MaxMade /\ n = heap.made + 1
        /\ g = store_w_methoddict(Copy(heap, heap.w_methoddict[c], Selectors), c, n)
    BY <1>1, <1>2
  <2>2. g \in HeapType /\ Sound(g, T \cup {n}, V) /\ Attached(g) /\ Noticed(heap, g)
    BY <2>1, SetMethodDictKeeps
  <2> QED BY <2>2
<1>6. Holds(heap', pending')
  BY <1>1, <1>4, <1>5, HoldsAfter
<1> QED BY <1>6 DEF Inv

LEMMA SetSuperclassActionKeeps ==
    ASSUME Inv, NEW p \in Updaters, NEW c \in Classes, NEW super \in Classes \cup {Nil},
           SetSuperclass(p, c, super)
    PROVE  Inv'
<1> DEFINE T == Targets(heap, pending)
           V == Copies(pending)
<1>1. /\ heap \in HeapType /\ Holds(heap, pending) /\ Attached(heap)
      /\ PendingOK(pending) /\ Sound(heap, T, V)
  BY DEF Inv, Holds
<1>2. /\ pending[p] = <<>> /\ pending' = [pending EXCEPT ![p] = <<>>]
      /\ heap' = store_w_superclass(heap, c, super)
  BY DEF SetSuperclass, Starts
<1>3. pending' = pending
  BY <1>1, <1>2 DEF PendingOK
<1>4. Objects(pending') \subseteq T /\ Copies(pending') \subseteq V /\ PendingOK(pending')
  BY <1>1, <1>3 DEF Targets
<1> HIDE DEF T, V
<1>5. heap' \in HeapType /\ Sound(heap', T, V) /\ Attached(heap') /\ Noticed(heap, heap')
  BY <1>1, <1>2, SetSuperclassKeeps
<1>6. Holds(heap', pending')
  BY <1>1, <1>4, <1>5, HoldsAfter
<1> QED BY <1>6 DEF Inv

\* An updater goes on with st: its objects and copies are those of the invariant.
Continues(p, st) ==
    /\ heap \in HeapType /\ Attached(heap) /\ PendingOK(pending) /\ StepOK(st)
    /\ Sound(heap, Targets(heap, pending), Copies(pending))
    /\ pending[p] # <<>> /\ pending' = [pending EXCEPT ![p] = Tail(pending[p])]
    /\ st.call # "flush" => st.o \in Targets(heap, pending) /\ st.o \in Ids
    /\ st.call = "values" => st.v \in Copies(pending)

\* What is known of the next step of a change.
LEMMA ContinueIs ==
    ASSUME Inv, NEW p \in Updaters, NEW call, Continue(p, call),
           NEW st, st = Head(pending[p])
    PROVE  Continues(p, st) /\ st.call = call
<1>1. /\ heap \in HeapType /\ Attached(heap) /\ PendingOK(pending)
      /\ Sound(heap, Targets(heap, pending), Copies(pending))
  BY DEF Inv, Holds
<1>2. pending[p] # <<>> /\ pending' = [pending EXCEPT ![p] = Tail(pending[p])]
      /\ st.call = call
  BY DEF Continue
<1>3. /\ StepOK(st) /\ (st.call # "flush" => st.o \in Objects(pending))
      /\ (st.call = "values" => st.v \in Copies(pending))
  BY <1>1, <1>2, PendingStep
<1>4. st.call # "flush" => st.o \in Ids
  BY <1>3 DEF StepOK
<1>5. Objects(pending) \subseteq Targets(heap, pending)
  BY DEF Targets
<1> QED BY <1>1, <1>2, <1>3, <1>4, <1>5 DEF Continues

\* What a step that takes no copy has to give.
LEMMA ContinuesTo ==
    ASSUME Inv, NEW p \in Updaters, NEW st, Continues(p, st), NEW g, g = heap',
           g \in HeapType, Attached(g), Noticed(heap, g),
           Sound(g, Targets(heap, pending), Copies(pending))
    PROVE  Inv'
<1>1. Holds(heap, pending) /\ pending[p] # <<>>
      /\ pending' = [pending EXCEPT ![p] = Tail(pending[p])]
  BY DEF Inv, Continues
<1>2. Holds(g, pending')
  BY <1>1, HoldsContinuing
<1> QED BY <1>2 DEF Inv

\* The steps of changes.
LEMMA DoNameKeeps ==
    ASSUME Inv, NEW p \in Updaters, DoName(p)
    PROVE  Inv'
<1>1. PICK st : st = Head(pending[p])
  OBVIOUS
<1>2. Continues(p, st) /\ st.call = "name"
  <2>1. Continue(p, "name")
    BY Zenon DEF DoName
  <2> QED BY <1>1, <2>1, ContinueIs
<1>3. PICK h, T, V : h = heap /\ T = Targets(heap, pending) /\ V = Copies(pending)
  OBVIOUS
<1>4. /\ h \in HeapType /\ Attached(h) /\ Sound(h, T, V) /\ st.o \in Ids
      /\ st.k \in Selectors
  BY <1>2, <1>3 DEF Continues, StepOK
<1>5. PICK o, names, g : o = st.o /\ names = h.storage[h.shadow[st.o]].names \cup {st.k}
                         /\ g = heap'
  OBVIOUS
<1>6. names \in SUBSET Selectors
  <2>1. h.storage[h.shadow[st.o]] \in Storage
    BY <1>4, HeapFields
  <2> QED BY <1>4, <1>5, <2>1 DEF Storage
<1>7. g = StoreNames(h, o, names) /\ o \in Ids
  BY <1>1, <1>3, <1>4, <1>5, Zenon DEF DoName
<1>8. g \in HeapType /\ Sound(g, T, V) /\ SameRest(h, g) /\ Noticed(h, g)
  <2>1. h \in HeapType /\ Sound(h, T, V)
    BY <1>4
  <2> QED BY <2>1, <1>6, <1>7, StoreNamesKeeps
<1>9. Attached(g)
  BY <1>4, <1>8, SameAttached DEF SameRest
<1> QED BY <1>2, <1>3, <1>5, <1>8, <1>9, ContinuesTo

LEMMA DoNamesKeeps ==
    ASSUME Inv, NEW p \in Updaters, DoNames(p)
    PROVE  Inv'
<1>1. PICK st : st = Head(pending[p])
  OBVIOUS
<1>2. Continues(p, st) /\ st.call = "names"
  <2>1. Continue(p, "names")
    BY DEF DoNames
  <2> QED BY <1>1, <2>1, ContinueIs
<1>3. PICK h, T, V : h = heap /\ T = Targets(heap, pending) /\ V = Copies(pending)
  OBVIOUS
<1>4. /\ h \in HeapType /\ Attached(h) /\ Sound(h, T, V) /\ st.o \in Ids
      /\ st.v \in Ids
  BY <1>2, <1>3 DEF Continues, StepOK
<1>5. PICK o, names, g : o = st.o /\ names = h.storage[st.v].names
                         /\ g = heap'
  OBVIOUS
<1>6. names \in SUBSET Selectors
  <2>1. h.storage[st.v] \in Storage
    BY <1>4, HeapFields
  <2> QED BY <1>4, <1>5, <2>1 DEF Storage
<1>7. g = StoreNames(h, o, names) /\ o \in Ids
  BY <1>1, <1>3, <1>4, <1>5 DEF DoNames
<1>8. g \in HeapType /\ Sound(g, T, V) /\ SameRest(h, g) /\ Noticed(h, g)
  <2>1. h \in HeapType /\ Sound(h, T, V)
    BY <1>4
  <2> QED BY <2>1, <1>6, <1>7, StoreNamesKeeps
<1>9. Attached(g)
  BY <1>4, <1>8, SameAttached DEF SameRest
<1> QED BY <1>2, <1>3, <1>5, <1>8, <1>9, ContinuesTo

LEMMA DoValueKeeps ==
    ASSUME Inv, NEW p \in Updaters, DoValue(p)
    PROVE  Inv'
<1>1. PICK st : st = Head(pending[p])
  OBVIOUS
<1>2. Continues(p, st) /\ st.call = "value"
  <2>1. Continue(p, "value")
    BY DEF DoValue
  <2> QED BY <1>1, <2>1, ContinueIs
<1>3. PICK h, T, V : h = heap /\ T = Targets(heap, pending) /\ V = Copies(pending)
  OBVIOUS
<1>4. /\ h \in HeapType /\ Attached(h) /\ Sound(h, T, V) /\ st.o \in Ids
      /\ st.k \in Selectors /\ st.v \in Methods
  BY <1>2, <1>3 DEF Continues, StepOK
<1>5. PICK a : a = h.storage[h.shadow[st.o]].w_values
  OBVIOUS
<1>6. a \in Ids
  <2>1. h.storage[h.shadow[st.o]] \in Storage
    BY <1>4, HeapFields
  <2> QED BY <1>5, <2>1 DEF Storage
<1>7. PICK k, m, g : k = st.k /\ m = st.v /\ g = heap'
  OBVIOUS
<1>8. g = StoreInArray(h, a, k, m) /\ k \in Selectors /\ m \in Methods
  BY <1>1, <1>3, <1>4, <1>5, <1>7, Zenon DEF DoValue
<1>9. g \in HeapType /\ Sound(g, T, V) /\ Attached(g) /\ Noticed(h, g)
  <2>1. h \in HeapType /\ Attached(h) /\ Sound(h, T, V)
    BY <1>4
  <2> QED BY <2>1, <1>6, <1>8, StoreInArrayKeeps
<1> QED BY <1>2, <1>3, <1>7, <1>9, ContinuesTo

\* The array of the copy: nobody else has it, and nobody has it as a copy after this.
LEMMA DoValuesKeeps ==
    ASSUME Inv, NEW p \in Updaters, DoValues(p)
    PROVE  Inv'
<1> PICK st : st = Head(pending[p])
  OBVIOUS
<1>1. Continues(p, st) /\ st.call = "values"
  <2>1. Continue(p, "values")
    BY DEF DoValues
  <2> QED BY <2>1, ContinueIs
<1> PICK T, V : T = Targets(heap, pending) /\ V = Copies(pending)
  OBVIOUS
<1> PICK v, g, o : v = st.v /\ g = heap' /\ o = st.o
  OBVIOUS
<1>2. heap \in HeapType /\ Attached(heap) /\ Sound(heap, T, V) /\ o \in T /\ v \in V
  BY <1>1 DEF Continues
<1>3. heap.storage[v].w_values = v
  BY <1>2 DEF Sound, Apart
<1>4. g = StoreValues(heap, o, v)
  BY <1>3 DEF DoValues
<1>5. g \in HeapType /\ Sound(g, T, V \ {v}) /\ SameRest(heap, g) /\ Noticed(heap, g)
  BY <1>2, <1>4, StoreValuesKeeps
<1>6. Attached(g)
  BY <1>2, <1>5, SameAttached DEF SameRest
<1>7. Holds(heap, pending) /\ pending[p] # <<>>
      /\ pending' = [pending EXCEPT ![p] = Tail(pending[p])]
      /\ Head(pending[p]).call = "values" /\ v = Head(pending[p]).v
  BY <1>1 DEF Inv, Continues
<1>8. Holds(g, pending')
  BY <1>5, <1>6, <1>7, HoldsContinuing
<1> QED BY <1>8 DEF Inv

LEMMA DoGrowKeeps ==
    ASSUME Inv, NEW p \in Updaters, DoGrow(p)
    PROVE  Inv'
<1> PICK st : st = Head(pending[p])
  OBVIOUS
<1>1. Continues(p, st) /\ st.call = "grow"
  <2>1. Continue(p, "grow")
    BY DEF DoGrow
  <2> QED BY <2>1, ContinueIs
<1> PICK T, V : T = Targets(heap, pending) /\ V = Copies(pending)
  OBVIOUS
<1> PICK n, g, o : n = heap.made + 1 /\ g = heap' /\ o = st.o
  OBVIOUS
<1>2. /\ heap \in HeapType /\ Attached(heap) /\ Sound(heap, T, V) /\ o \in T
      /\ heap.made + 2 <= MaxMade /\ g = become(Copy(heap, o, Selectors), o, n)
  BY <1>1 DEF Continues, DoGrow
<1>3. g \in HeapType /\ Sound(g, T, V) /\ Attached(g) /\ Noticed(heap, g)
  BY <1>2, GrowKeeps
<1> QED BY <1>1, <1>3, ContinuesTo

LEMMA DoFlushKeeps ==
    ASSUME Inv, NEW p \in Updaters, DoFlush(p)
    PROVE  Inv'
<1> PICK st : st = Head(pending[p])
  OBVIOUS
<1>1. Continues(p, st) /\ st.call = "flush"
  <2>1. Continue(p, "flush")
    BY DEF DoFlush
  <2> QED BY <2>1, ContinueIs
<1> PICK T, V : T = Targets(heap, pending) /\ V = Copies(pending)
  OBVIOUS
<1> PICK m, g : m = st.v /\ g = heap'
  OBVIOUS
<1>2. /\ heap \in HeapType /\ Attached(heap) /\ Sound(heap, T, V) /\ m \in Methods
      /\ g = FlushMethod(heap, m)
  BY <1>1 DEF Continues, StepOK, DoFlush
<1>3. g \in HeapType /\ Sound(g, T, V) /\ Attached(g) /\ Noticed(heap, g)
  BY <1>2, FlushKeeps
<1> QED BY <1>1, <1>3, ContinuesTo

\* What the compiler keeps is what the lookup gives.
LEMMA CompileKeeps ==
    ASSUME Inv, NEW c \in Classes, NEW k \in Selectors, Compile(c, k)
    PROVE  Inv'
<1> PICK h, g : h = heap /\ g = heap'
  OBVIOUS
<1>1. /\ h \in HeapType /\ Attached(h) /\ CompiledCurrent(h)
      /\ PendingOK(pending) /\ Sound(h, Targets(h, pending), Copies(pending))
  BY DEF Inv, Holds
<1> PICK m \in Methods \cup {Nil} : m = lookup(h, c, k)
  BY <1>1, LookupType
<1>2. pending' = pending /\ g = [h EXCEPT !.compiled[c][k] = m]
  BY DEF Compile
<1>3. /\ g \in HeapType /\ SameLinks(h, g)
      /\ g.storage = h.storage /\ g.s_methoddict = h.s_methoddict
      /\ g.w_methoddict = h.w_methoddict
      /\ g.s_superclass = h.s_superclass /\ g.subclass_s = h.subclass_s
      /\ \A d \in Classes, j \in Selectors :
            g.compiled[d][j] = IF d = c /\ j = k THEN m ELSE h.compiled[d][j]
  <2> PICK R : R = h.compiled
    OBVIOUS
  <2> DEFINE Q == [R EXCEPT ![c][k] = m]
  <2>1. R \in [Classes -> [Selectors -> Methods \cup {Nil}]]
    BY <1>1, HeapFields
  <2>2. Q \in [Classes -> [Selectors -> Methods \cup {Nil}]]
        /\ \A d \in Classes, j \in Selectors :
                Q[d][j] = IF d = c /\ j = k THEN m ELSE R[d][j]
    BY <2>1
  <2>3. g = [h EXCEPT !.compiled = Q]
    BY <1>1, <1>2 DEF HeapType
  <2> HIDE DEF Q
  <2>4. g \in HeapType
    BY <1>1, <2>2, <2>3 DEF HeapType
  <2>5. /\ g.storage = h.storage /\ g.s_methoddict = h.s_methoddict
        /\ g.w_methoddict = h.w_methoddict
        /\ g.s_superclass = h.s_superclass /\ g.subclass_s = h.subclass_s
        /\ g.shadow = h.shadow /\ g.dependent = h.dependent /\ g.made = h.made
        /\ g.compiled = Q
    BY <1>1, <2>3 DEF HeapType
  <2>6. SameLinks(h, g)
    BY <2>5 DEF SameLinks
  <2> QED BY <2>2, <2>4, <2>5, <2>6
<1>4. \A d \in Classes : Chain(g, d) = Chain(h, d)
  BY <1>3, SuperAbove
<1>5. \A d \in Classes, j \in Selectors : lookup(g, d, j) = lookup(h, d, j)
  <2> SUFFICES ASSUME NEW d \in Classes, NEW j \in Selectors
               PROVE  lookup(g, d, j) = lookup(h, d, j)
    OBVIOUS
  <2> DEFINE a == [e \in Classes |-> find_selector(h.storage[h.s_methoddict[e]], j)]
             b == [e \in Classes |-> find_selector(g.storage[g.s_methoddict[e]], j)]
  <2>1. lookup(h, d, j) = FirstFound(h, d, a) /\ lookup(g, d, j) = FirstFound(g, d, b)
    BY DEF lookup
  <2>2. a = b
    BY <1>3
  <2> HIDE DEF a, b
  <2>3. \A e \in Range(Chain(h, d)) : a[e] = b[e]
    BY <2>2
  <2> QED BY <1>1, <1>4, <2>1, <2>3, FirstFoundSame
<1>6. CompiledCurrent(g)
  <2> SUFFICES ASSUME NEW d \in Classes, NEW j \in Selectors,
                      \A e \in Range(Chain(g, d)) : ~ Table(g, e).invalid
               PROVE  g.compiled[d][j] \in {Nil, lookup(g, d, j)}
    BY DEF CompiledCurrent
  <2>1. CASE d = c /\ j = k
    BY <2>1, <1>3, <1>5
  <2>2. CASE ~ (d = c /\ j = k)
    <3>1. \A e \in Range(Chain(h, d)) : ~ Table(h, e).invalid
      BY <1>3, <1>4 DEF Table
    <3>2. h.compiled[d][j] \in {Nil, lookup(h, d, j)}
      BY <1>1, <3>1 DEF CompiledCurrent
    <3> QED BY <2>2, <3>2, <1>3, <1>5
  <2> QED BY <2>1, <2>2
<1>7. Attached(g)
  BY <1>1, <1>3, SameAttached
<1>8. Targets(g, pending) = Targets(h, pending)
  BY <1>3 DEF Targets
<1>9. Sound(g, Targets(h, pending), Copies(pending))
  BY <1>1, <1>3, SameLinksSound
<1>10. Holds(g, pending)
  BY <1>1, <1>3, <1>6, <1>7, <1>8, <1>9 DEF Holds
<1> QED BY <1>2, <1>10 DEF Inv

\* The invariant is inductive.
LEMMA HoldsAlways == Spec => []Inv
<1>1. Init => Inv
  BY HoldsAtFirst
<1>2. Inv /\ [Next]_vars => Inv'
  <2> SUFFICES ASSUME Inv, [Next]_vars PROVE Inv'
    OBVIOUS
  <2>1. CASE UNCHANGED vars
    BY <2>1 DEF vars, Inv
  <2>2. ASSUME NEW p \in Updaters, Update(p) PROVE Inv'
    <3>1. ASSUME NEW c \in Classes, NEW k \in Selectors, NEW m \in Methods,
                 NEW grows \in BOOLEAN, AddSelector(p, c, k, m, grows)
          PROVE  Inv'
      BY <3>1, AddSelectorKeeps
    <3>2. ASSUME NEW c \in Classes, NEW k \in Selectors, NEW m \in Methods,
                 ReplaceMethod(p, c, k, m)
          PROVE  Inv'
      BY <3>2, ReplaceMethodKeeps
    <3>3. ASSUME NEW c \in Classes, NEW k \in Selectors, RemoveSelector(p, c, k) PROVE Inv'
      BY <3>3, RemoveSelectorKeeps
    <3>4. ASSUME NEW c \in Classes, SetMethodDict(p, c) PROVE Inv'
      BY <3>4, SetMethodDictActionKeeps
    <3>5. ASSUME NEW c \in Classes, NEW super \in Classes \cup {Nil},
                 SetSuperclass(p, c, super)
          PROVE  Inv'
      BY <3>5, SetSuperclassActionKeeps
    <3>6. DoName(p) => Inv'
      BY DoNameKeeps
    <3>7. DoValue(p) => Inv'
      BY DoValueKeeps
    <3>8. DoValues(p) => Inv'
      BY DoValuesKeeps
    <3>9. DoNames(p) => Inv'
      BY DoNamesKeeps
    <3>10. DoGrow(p) => Inv'
      BY DoGrowKeeps
    <3>11. DoFlush(p) => Inv'
      BY DoFlushKeeps
    <3> QED BY <2>2, <3>1, <3>2, <3>3, <3>4, <3>5, <3>6, <3>7, <3>8, <3>9, <3>10, <3>11
            DEF Update
  <2>3. ASSUME NEW c \in Classes, NEW k \in Selectors, Compile(c, k) PROVE Inv'
    BY <2>3, CompileKeeps
  <2> QED BY <2>1, <2>2, <2>3 DEF Next
<1> QED BY <1>1, <1>2, PTL DEF Spec

-----------------------------------------------------------------------------
(* Theorems *)

\* Whatever several processes do to the dictionaries, in whatever order their bytecodes
\* run, and even after dictionaries have grown: a store to the array of a dictionary the VM
\* uses reaches the dictionary, from there the class it was copied for, and from there
\* every class below (setup_notification, store_s_methoddict, _s_become, superclass_changed).
THEOREM ChangesStayNoticed == Spec => []ChangesAreNoticed
<1>1. Inv => ChangesAreNoticed
  <2> SUFFICES ASSUME Inv PROVE ChangesAreNoticed
    OBVIOUS
  <2>1. heap \in HeapType /\ Attached(heap) /\ PendingOK(pending)
        /\ Owned(heap) /\ Watched(heap)
    BY DEF Inv, Holds, Sound
  <2>2. TypeOK
    BY <2>1, HeapIs DEF PendingOK
  <2>3. DictionariesWatched
    BY <2>1, WatchedIs
  <2>4. SubclassesAttached
    BY <2>1 DEF Attached, SubclassesAttached
  <2> QED BY <2>2, <2>3, <2>4 DEF ChangesAreNoticed
<1> QED BY <1>1, HoldsAlways, PTL

\* Code compiled with the result of a lookup is used only as long as the lookup gives that
\* result: a dictionary that is copied again, replaced or exchanged and a superclass that
\* is stored give a new version to all classes below (changed in util/version.py).
THEOREM CompiledSendsStayCurrent == Spec => []CompiledSendsCurrent
<1>1. Inv => CompiledSendsCurrent
  BY DEF Inv, Holds, CompiledCurrent, Table, CompiledSendsCurrent
<1> QED BY <1>1, HoldsAlways, PTL

===============================================================================
