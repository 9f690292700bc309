-------------------------- MODULE OperandStacksProofs --------------------------
(***************************************************************************)
(* Theorems about the slots of contexts, for contexts of any size, any       *)
(* number of them, and any numbers of arguments and temporaries.             *)
(***************************************************************************)
EXTENDS OperandStacks, TLAPS

--------------------------------------------------------------------------------
(* One frame.                                                                *)

FrameKinds == {"free", "method", "closure", "block"}
Slots      == [1 .. FrameSize -> Value]

FrameState ==
    [kind : FrameKinds, receiver : Value, slots : Slots, sp : 0 .. FrameSize,
     tempsize : 0 .. FrameSize, home : Context \union {Nil}, eargc : 0 .. MaxArgs,
     due : 0 .. FrameSize]

\* The slots of a frame: temps, operands, and nil in the rest.
Sound(f) ==
    /\ f.tempsize <= f.sp
    /\ \A i \in 1 .. FrameSize : i > f.sp => f.slots[i] = Nil

\* The slots behind a, up to b.
Part(ss, a, b) == SubSeq(ss, a + 1, b)
Ops(f)   == Part(f.slots, f.tempsize, f.sp)
Temps(f) == Part(f.slots, 0, f.tempsize)

\* What the operations on operands leave alone.
SameFrame(f, g) ==
    /\ f.kind = g.kind /\ f.receiver = g.receiver /\ f.tempsize = g.tempsize
    /\ f.home = g.home /\ f.eargc = g.eargc /\ f.due = g.due

With(f, ss, n) == [f EXCEPT !.slots = ss, !.sp = n]

LEMMA Constants ==
    /\ FrameSize \in Nat /\ MaxArgs \in Nat /\ MaxTemps \in Nat /\ MaxListed \in Nat
    /\ MaxListed <= MaxArgs /\ MaxListed < FrameSize /\ MaxTemps <= FrameSize
    /\ Nil \in Value /\ True \in Value /\ Nil \notin Context /\ Nil \in Object
    /\ Object \subseteq Value /\ Context \subseteq Value /\ Boxed \subseteq Value
    /\ \A k \in {"free", "method", "closure", "block"} : k \in FrameKinds
<1>1. {FrameSize, MaxArgs, MaxTemps, MaxArrays, MaxBoxes} \subseteq Nat
  BY OperandStacksAssumption
<1>2. FrameSize \in Nat /\ MaxArgs \in Nat /\ MaxTemps \in Nat
  BY <1>1
<1>3. MaxListed \in 0 .. MaxArgs /\ MaxListed < FrameSize /\ MaxTemps <= FrameSize
  BY OperandStacksAssumption
<1>4. Nil \in Object /\ True \in Object /\ Object \intersect Context = {}
  BY OperandStacksAssumption
<1>5. Object \subseteq Value /\ Context \subseteq Value /\ Boxed \subseteq Value
  BY DEF Value
<1>6. \A k \in {"free", "method", "closure", "block"} : k \in FrameKinds
  BY DEF FrameKinds
<1> QED  BY <1>2, <1>3, <1>4, <1>5, <1>6

LEMMA FrameFields ==
    ASSUME NEW f \in FrameState
    PROVE  /\ f.kind \in FrameKinds /\ f.receiver \in Value /\ f.slots \in Slots
           /\ f.sp \in 0 .. FrameSize /\ f.tempsize \in 0 .. FrameSize
           /\ f.home \in Context \union {Nil} /\ f.eargc \in 0 .. MaxArgs
           /\ f.due \in 0 .. FrameSize
  BY DEF FrameState

\* Sequences of the same length with the same elements.
LEMMA SameSequence ==
    ASSUME NEW S, NEW q \in Seq(S), NEW r \in Seq(S), Len(q) = Len(r),
           \A i \in 1 .. Len(q) : q[i] = r[i]
    PROVE  q = r
<1>1. q = [i \in 1 .. Len(q) |-> q[i]] /\ r = [i \in 1 .. Len(q) |-> r[i]]
  OBVIOUS
<1> QED  BY <1>1

LEMMA PartIs ==
    ASSUME NEW ss \in Slots, NEW a \in Nat, NEW b \in Nat, a <= b, b <= FrameSize
    PROVE  /\ Part(ss, a, b) = [i \in 1 .. b - a |-> ss[a + i]]
           /\ Part(ss, a, b) \in Seq(Value)
           /\ Len(Part(ss, a, b)) = b - a
<1>1. ss \in Seq(Value) /\ Len(ss) = FrameSize /\ FrameSize \in Nat
  BY Constants DEF Slots
<1>2. /\ SubSeq(ss, a + 1, b) \in Seq(Value)
      /\ Len(SubSeq(ss, a + 1, b)) = b - a
  BY <1>1
<1>3. \A i \in 1 .. b - a : SubSeq(ss, a + 1, b)[i] = ss[a + i]
  BY <1>1
<1>4. DOMAIN SubSeq(ss, a + 1, b) = 1 .. b - a
  BY <1>2
<1>5. SubSeq(ss, a + 1, b) = [i \in 1 .. b - a |-> SubSeq(ss, a + 1, b)[i]]
  BY <1>2, <1>4
<1> QED  BY <1>2, <1>3, <1>5 DEF Part

LEMMA PartAgrees ==
    ASSUME NEW ss \in Slots, NEW tt \in Slots,
           NEW a \in Nat, NEW b \in Nat, a <= b, b <= FrameSize,
           \A i \in 1 .. FrameSize : a < i /\ i <= b => ss[i] = tt[i]
    PROVE  Part(ss, a, b) = Part(tt, a, b)
<1>1. \A i \in 1 .. b - a : ss[a + i] = tt[a + i]
  BY Constants
<1>2. Part(ss, a, b) = [i \in 1 .. b - a |-> ss[a + i]]
  BY PartIs
<1>3. Part(tt, a, b) = [i \in 1 .. b - a |-> tt[a + i]]
  BY PartIs
<1> QED  BY <1>1, <1>2, <1>3

LEMMA PartAppend ==
    ASSUME NEW ss \in Slots, NEW tt \in Slots,
           NEW a \in Nat, NEW b \in Nat, NEW c \in Nat, c = b + 1, a <= b, c <= FrameSize,
           \A i \in 1 .. FrameSize : a < i /\ i <= b => ss[i] = tt[i]
    PROVE  Part(tt, a, c) = Append(Part(ss, a, b), tt[c])
<1> DEFINE q == Part(ss, a, b)
           r == Part(tt, a, c)
           v == tt[c]
           s == Append(q, v)
<1>1. FrameSize \in Nat /\ b <= FrameSize /\ a <= c /\ b - a \in Nat /\ c - a = b - a + 1
  BY Constants
<1>2. /\ q = [i \in 1 .. b - a |-> ss[a + i]] /\ q \in Seq(Value) /\ Len(q) = b - a
  BY <1>1, PartIs
<1>3. /\ r = [i \in 1 .. c - a |-> tt[a + i]] /\ r \in Seq(Value) /\ Len(r) = c - a
  BY <1>1, PartIs
<1>4. v \in Value
  BY <1>1 DEF Slots
<1> HIDE DEF q, r, v
<1>5. s \in Seq(Value) /\ Len(s) = b - a + 1 /\ s[b - a + 1] = v
      /\ \A i \in 1 .. b - a : s[i] = q[i]
  BY <1>1, <1>2, <1>4
<1> HIDE DEF s
<1>6. \A i \in 1 .. b - a : r[i] = s[i]
  <2> SUFFICES ASSUME NEW i \in 1 .. b - a PROVE r[i] = s[i]
    OBVIOUS
  <2>1. a + i \in 1 .. FrameSize /\ a < a + i /\ a + i <= b
    BY <1>1
  <2>2. r[i] = tt[a + i] /\ q[i] = ss[a + i] /\ s[i] = q[i]
    BY <1>1, <1>2, <1>3, <1>5
  <2> QED  BY <2>1, <2>2
<1>7. r[b - a + 1] = v
  BY <1>1, <1>3 DEF v
<1> QED
  BY <1>1, <1>3, <1>5, <1>6, <1>7, SameSequence DEF q, r, v, s

LEMMA PartFront ==
    ASSUME NEW ss \in Slots, NEW a \in Nat, NEW b \in Nat, NEW c \in Nat,
           a <= c, c <= b, b <= FrameSize
    PROVE  SubSeq(Part(ss, a, b), 1, c - a) = Part(ss, a, c)
<1> DEFINE q == Part(ss, a, b)
           r == Part(ss, a, c)
           k == c - a
           s == SubSeq(q, 1, k)
<1>0. FrameSize \in Nat /\ a <= b /\ c <= FrameSize /\ k \in Nat /\ k <= b - a /\ b - a \in Nat
  BY Constants
<1>1. /\ q = [i \in 1 .. b - a |-> ss[a + i]] /\ q \in Seq(Value) /\ Len(q) = b - a
  BY <1>0, PartIs
<1>2. /\ r = [i \in 1 .. k |-> ss[a + i]] /\ r \in Seq(Value) /\ Len(r) = k
  BY <1>0, PartIs
<1> HIDE DEF q, r, k
<1>3. s \in Seq(Value) /\ Len(s) = k /\ \A i \in 1 .. k : s[i] = q[i]
  <2>1. q \in Seq(Value) /\ Len(q) = b - a
    BY <1>1
  <2>2. k \in 0 .. Len(q)
    BY <1>0, <2>1
  <2> QED  BY <2>1, <2>2
<1> HIDE DEF s
<1>4. \A i \in 1 .. k : s[i] = r[i]
  <2> SUFFICES ASSUME NEW i \in 1 .. k PROVE s[i] = r[i]
    OBVIOUS
  <2>1. i \in 1 .. b - a
    BY <1>0
  <2> QED  BY <1>1, <1>2, <1>3, <2>1
<1> QED  BY <1>2, <1>3, <1>4, SameSequence DEF q, r, s, k

\* A frame with other slots.
LEMMA Reslotted ==
    ASSUME NEW f \in FrameState, NEW ss \in Slots, NEW n \in 0 .. FrameSize
    PROVE  /\ With(f, ss, n) \in FrameState /\ With(f, ss, n).slots = ss
           /\ With(f, ss, n).sp = n /\ SameFrame(With(f, ss, n), f)
  BY DEF FrameState, SameFrame, With

LEMMA PushFrame ==
    ASSUME NEW f \in FrameState, Sound(f), NEW v \in Value, f.sp + 1 <= FrameSize
    PROVE  /\ Push(f, v) \in FrameState /\ Sound(Push(f, v)) /\ SameFrame(Push(f, v), f)
           /\ Push(f, v).sp = f.sp + 1
           /\ Ops(Push(f, v)) = Append(Ops(f), v)
           /\ Temps(Push(f, v)) = Temps(f)
<1> DEFINE ss == [f.slots EXCEPT ![f.sp + 1] = v]
           g == Push(f, v)
<1>1. /\ f.slots \in Slots /\ f.sp \in Nat /\ f.tempsize \in Nat
      /\ f.tempsize <= f.sp /\ FrameSize \in Nat
  BY FrameFields, Constants DEF Sound
<1>2. ss \in Slots /\ f.sp + 1 \in 0 .. FrameSize /\ ss[f.sp + 1] = v
      /\ \A i \in 1 .. FrameSize : i # f.sp + 1 => ss[i] = f.slots[i]
  BY <1>1 DEF Slots
<1>3. g = With(f, ss, f.sp + 1)
  BY DEF Push, With
<1> HIDE DEF g, ss
<1>4. /\ g \in FrameState /\ g.slots = ss /\ g.sp = f.sp + 1 /\ SameFrame(g, f)
  BY <1>2, <1>3, Reslotted
<1>5. g.tempsize = f.tempsize
  BY <1>4 DEF SameFrame
<1>6. Sound(g)
  BY <1>1, <1>2, <1>4, <1>5 DEF Sound
<1>7. Ops(g) = Append(Ops(f), v)
  <2> DEFINE c == f.sp + 1
             t == f.tempsize
             n == f.sp
             old == f.slots
  <2>1. /\ t \in Nat /\ n \in Nat /\ c \in Nat /\ c = n + 1 /\ t <= n /\ c <= FrameSize
        /\ old \in Slots /\ ss \in Slots
    BY <1>1, <1>2
  <2>2. \A i \in 1 .. FrameSize : t < i /\ i <= n => old[i] = ss[i]
    BY <1>1, <1>2
  <2>3. ss[c] = v /\ g.sp = c
    BY <1>2, <1>4
  <2> HIDE DEF c, t, n, old
  <2>4. Part(ss, t, c) = Append(Part(old, t, n), ss[c])
    BY <2>1, <2>2, PartAppend
  <2> QED  BY <1>4, <1>5, <2>3, <2>4 DEF Ops, t, n, old
<1>8. Temps(g) = Temps(f)
  <2>1. /\ 0 \in Nat /\ 0 <= f.tempsize /\ f.tempsize <= FrameSize
        /\ \A i \in 1 .. FrameSize : 0 < i /\ i <= f.tempsize => f.slots[i] = ss[i]
    BY <1>1, <1>2
  <2>2. Part(f.slots, 0, f.tempsize) = Part(ss, 0, f.tempsize)
    BY <1>1, <1>2, <2>1, PartAgrees
  <2> QED  BY <1>4, <1>5, <2>2 DEF Temps
<1> QED  BY <1>4, <1>6, <1>7, <1>8 DEF g

LEMMA PopFrame ==
    ASSUME NEW f \in FrameState, Sound(f), NEW n \in Nat, n <= f.sp - f.tempsize
    PROVE  /\ PopN(f, n) \in FrameState /\ Sound(PopN(f, n)) /\ SameFrame(PopN(f, n), f)
           /\ PopN(f, n).sp = f.sp - n
           /\ Ops(PopN(f, n)) = SubSeq(Ops(f), 1, Len(Ops(f)) - n)
           /\ Temps(PopN(f, n)) = Temps(f)
<1> DEFINE ss == [i \in 1 .. FrameSize |-> IF i > f.sp - n /\ i <= f.sp THEN Nil ELSE f.slots[i]]
           g == PopN(f, n)
<1>1. /\ f.slots \in Slots /\ f.sp \in Nat /\ f.tempsize \in Nat
      /\ f.tempsize <= f.sp /\ FrameSize \in Nat /\ f.sp <= FrameSize
  BY FrameFields, Constants DEF Sound
<1>2. ss \in Slots /\ f.sp - n \in 0 .. FrameSize
      /\ \A i \in 1 .. FrameSize :
            ss[i] = IF i > f.sp - n /\ i <= f.sp THEN Nil ELSE f.slots[i]
  BY <1>1, Constants DEF Slots
<1>3. g = With(f, ss, f.sp - n)
  BY DEF PopN, FrameState, With
<1> HIDE DEF g, ss
<1>4. /\ g \in FrameState /\ g.slots = ss /\ g.sp = f.sp - n /\ SameFrame(g, f)
  BY <1>2, <1>3, Reslotted
<1>5. g.tempsize = f.tempsize
  BY <1>4 DEF SameFrame
<1>6. Sound(g)
  <2>1. \A i \in 1 .. FrameSize : i > f.sp - n => ss[i] = Nil
    BY <1>1, <1>2 DEF Sound
  <2> QED  BY <1>1, <2>1, <1>4, <1>5 DEF Sound
<1>7. Ops(g) = SubSeq(Ops(f), 1, Len(Ops(f)) - n)
  <2> DEFINE t == f.tempsize
             e == f.sp - n
  <2>1. /\ f.sp \in Nat /\ t \in Nat /\ e \in Nat /\ t <= f.sp /\ t <= e /\ e <= f.sp
        /\ f.sp <= FrameSize /\ e <= FrameSize
    BY <1>1
  <2>2. Len(Ops(f)) = f.sp - t
    BY <1>1, <2>1, PartIs DEF Ops
  <2>3. Len(Ops(f)) - n = e - t
    BY <1>1, <2>2
  <2>4. \A i \in 1 .. FrameSize : t < i /\ i <= e => f.slots[i] = ss[i]
    BY <1>1, <1>2
  <2> HIDE DEF e, t
  <2>5. SubSeq(Part(f.slots, t, f.sp), 1, e - t) = Part(f.slots, t, e)
    BY <1>1, <2>1, PartFront
  <2>6. Part(f.slots, t, e) = Part(ss, t, e)
    BY <1>1, <1>2, <2>1, <2>4, PartAgrees
  <2> QED  BY <1>4, <1>5, <2>3, <2>5, <2>6 DEF Ops, t, e
<1>8. Temps(g) = Temps(f)
  <2>1. Part(f.slots, 0, f.tempsize) = Part(ss, 0, f.tempsize)
    <3>1. \A i \in 1 .. FrameSize : i <= f.tempsize => ss[i] = f.slots[i]
      BY <1>1, <1>2
    <3> QED  BY <1>1, <1>2, <3>1, PartAgrees
  <2> QED  BY <1>4, <1>5, <2>1 DEF Temps
<1> QED  BY <1>4, <1>6, <1>7, <1>8 DEF g

\* A frame with other slots behind its temporaries.
LEMMA WithSound ==
    ASSUME NEW f \in FrameState, Sound(f), NEW ss \in Slots, NEW n \in 0 .. FrameSize,
           f.tempsize <= n,
           \A i \in 1 .. FrameSize : i <= f.tempsize => ss[i] = f.slots[i],
           \A i \in 1 .. FrameSize : i > n => ss[i] = Nil
    PROVE  /\ With(f, ss, n) \in FrameState /\ Sound(With(f, ss, n))
           /\ SameFrame(With(f, ss, n), f)
           /\ With(f, ss, n).slots = ss /\ With(f, ss, n).sp = n
           /\ Temps(With(f, ss, n)) = Temps(f)
           /\ Ops(With(f, ss, n)) = Part(ss, f.tempsize, n)
<1> DEFINE g == With(f, ss, n)
           t == f.tempsize
           old == f.slots
<1>1. /\ g \in FrameState /\ g.slots = ss /\ g.sp = n /\ SameFrame(g, f)
  BY Reslotted
<1> HIDE DEF g
<1>2. g.tempsize = t
  BY <1>1 DEF SameFrame
<1>3. Sound(g)
  BY <1>1, <1>2 DEF Sound
<1>4. /\ t \in Nat /\ 0 \in Nat /\ 0 <= t /\ t <= FrameSize /\ old \in Slots
      /\ \A i \in 1 .. FrameSize : 0 < i /\ i <= t => ss[i] = old[i]
  BY FrameFields, Constants
<1> HIDE DEF t, old
<1>5. Part(ss, 0, t) = Part(old, 0, t)
  BY <1>4, PartAgrees
<1> QED  BY <1>1, <1>2, <1>3, <1>5 DEF g, Temps, Ops, t, old

\* The slots of f with vs from k on.
FilledIn(f, k, vs) ==
    [i \in 1 .. FrameSize |->
        IF k <= i /\ i < k + Len(vs) THEN vs[i - k + 1] ELSE f.slots[i]]

LEMMA FilledSlots ==
    ASSUME NEW f \in FrameState, NEW k \in Nat \ {0}, NEW vs \in Seq(Value)
    PROVE  /\ FilledIn(f, k, vs) \in Slots
           /\ Filled(f, k, vs) = [f EXCEPT !.slots = FilledIn(f, k, vs)]
<1> DEFINE ss == [i \in 1 .. FrameSize |->
                     IF k <= i /\ i < k + Len(vs) THEN vs[i - k + 1] ELSE f.slots[i]]
<1>1. Len(vs) \in Nat /\ DOMAIN vs = 1 .. Len(vs) /\ f.slots \in Slots
  BY FrameFields
<1>2. ss \in Slots
  <2>1. \A i \in 1 .. FrameSize : k <= i /\ i < k + Len(vs) => i - k + 1 \in DOMAIN vs
    BY <1>1, Constants
  <2>2. \A j \in DOMAIN vs : vs[j] \in Value
    BY <1>1
  <2>3. \A i \in 1 .. FrameSize : f.slots[i] \in Value
    BY <1>1 DEF Slots
  <2>4. \A i \in 1 .. FrameSize :
            (IF k <= i /\ i < k + Len(vs) THEN vs[i - k + 1] ELSE f.slots[i]) \in Value
    BY <2>1, <2>2, <2>3
  <2> QED  BY <2>4 DEF Slots
<1>3. \A i \in 1 .. FrameSize : i - k + 1 \in DOMAIN vs <=> k <= i /\ i < k + Len(vs)
  BY <1>1, Constants
<1>4. [i \in 1 .. FrameSize |-> IF i - k + 1 \in DOMAIN vs THEN vs[i - k + 1] ELSE f.slots[i]] = ss
  BY <1>3
<1> HIDE DEF ss
<1>5. Filled(f, k, vs) = [f EXCEPT !.slots = ss]
  BY <1>4 DEF Filled, FrameState
<1> QED  BY <1>2, <1>5 DEF ss, FilledIn

LEMMA ConcatIs ==
    ASSUME NEW q \in Seq(Value), NEW vs \in Seq(Value)
    PROVE  /\ q \o vs \in Seq(Value) /\ Len(q \o vs) = Len(q) + Len(vs)
           /\ \A i \in 1 .. Len(q) : (q \o vs)[i] = q[i]
           /\ \A i \in 1 .. Len(vs) : (q \o vs)[Len(q) + i] = vs[i]
  OBVIOUS

\* push_all
LEMMA PushAllFrame ==
    ASSUME NEW f \in FrameState, Sound(f), NEW vs \in Seq(Value), f.sp + Len(vs) <= FrameSize
    PROVE  /\ PushAll(f, vs) \in FrameState /\ Sound(PushAll(f, vs))
           /\ SameFrame(PushAll(f, vs), f)
           /\ PushAll(f, vs).sp = f.sp + Len(vs)
           /\ Ops(PushAll(f, vs)) = Ops(f) \o vs
           /\ Temps(PushAll(f, vs)) = Temps(f)
<1> DEFINE k == f.sp + 1
           ss == [i \in 1 .. FrameSize |->
                     IF k <= i /\ i < k + Len(vs) THEN vs[i - k + 1] ELSE f.slots[i]]
           n == f.sp + Len(vs)
           g == PushAll(f, vs)
           t == f.tempsize
<1>1. /\ f.slots \in Slots /\ f.sp \in Nat /\ t \in Nat /\ k \in Nat \ {0} /\ Len(vs) \in Nat
      /\ t <= f.sp /\ FrameSize \in Nat /\ n \in 0 .. FrameSize /\ t <= n
  BY FrameFields, Constants DEF Sound
<1>2. ss \in Slots /\ Filled(f, k, vs) = [f EXCEPT !.slots = ss]
  BY <1>1, FilledSlots DEF FilledIn
<1>3. g = [Filled(f, k, vs) EXCEPT !.sp = n]
  BY DEF PushAll
<1>4. /\ \A i \in 1 .. FrameSize : i <= f.sp => ss[i] = f.slots[i]
      /\ \A i \in 1 .. FrameSize : i > n => ss[i] = Nil
      /\ \A i \in 1 .. Len(vs) : ss[f.sp + i] = vs[i]
  <2>1. \A i \in 1 .. FrameSize : i <= f.sp => ss[i] = f.slots[i]
    BY <1>1
  <2>2. \A i \in 1 .. FrameSize : i > n => ss[i] = f.slots[i]
    BY <1>1
  <2>3. \A i \in 1 .. FrameSize : i > n => f.slots[i] = Nil
    BY <1>1 DEF Sound
  <2>4. ASSUME NEW i \in 1 .. Len(vs) PROVE ss[f.sp + i] = vs[i]
    <3> DEFINE j == f.sp + i
    <3>1. j \in 1 .. FrameSize /\ k <= j /\ j < k + Len(vs) /\ j - k + 1 = i
      BY <1>1
    <3> HIDE DEF j
    <3>2. ss[j] = vs[j - k + 1]
      BY <3>1
    <3> QED  BY <3>1, <3>2 DEF j
  <2> QED  BY <2>1, <2>2, <2>3, <2>4
<1> HIDE DEF ss, g, k
<1>5. g = With(f, ss, n)
  BY <1>2, <1>3 DEF With
<1>6. \A i \in 1 .. FrameSize : i <= t => ss[i] = f.slots[i]
  BY <1>1, <1>4
<1> HIDE DEF n
<1>7. /\ g \in FrameState /\ Sound(g) /\ SameFrame(g, f) /\ g.sp = n
      /\ Temps(g) = Temps(f) /\ Ops(g) = Part(ss, t, n)
  BY <1>1, <1>2, <1>4, <1>5, <1>6, WithSound
<1>8. Part(ss, t, n) = Ops(f) \o vs
  <2> DEFINE m == f.sp
             q == Ops(f)
             r == Part(ss, t, n)
             s == q \o vs
  <2>1. /\ t \in Nat /\ m \in Nat /\ n \in Nat /\ t <= m /\ m <= FrameSize /\ t <= n /\ n <= FrameSize
        /\ f.slots \in Slots /\ n = m + Len(vs) /\ Len(vs) \in Nat /\ FrameSize \in Nat
    BY <1>1 DEF n
  <2>2. \A i \in 1 .. FrameSize : i <= m => ss[i] = f.slots[i]
    BY <1>4
  <2>2a. \A i \in 1 .. Len(vs) : ss[m + i] = vs[i]
    BY <1>4
  <2>3. q = [i \in 1 .. m - t |-> f.slots[t + i]] /\ q \in Seq(Value) /\ Len(q) = m - t
    BY <2>1, PartIs DEF Ops
  <2>4. r = [i \in 1 .. n - t |-> ss[t + i]] /\ r \in Seq(Value) /\ Len(r) = n - t
    BY <1>2, <2>1, PartIs
  <2> HIDE DEF t, m, q, r
  <2>5. /\ s \in Seq(Value) /\ Len(s) = Len(q) + Len(vs)
        /\ \A i \in 1 .. Len(q) : s[i] = q[i]
        /\ \A i \in 1 .. Len(vs) : s[Len(q) + i] = vs[i]
    BY <2>3, ConcatIs
  <2> HIDE DEF s
  <2>6. Len(r) = Len(s) /\ Len(r) = n - t
    BY <2>1, <2>3, <2>4, <2>5
  <2>7. ASSUME NEW i \in 1 .. n - t PROVE r[i] = s[i]
    <3>1. CASE i <= m - t
      <4>1. i \in 1 .. m - t /\ t + i \in 1 .. FrameSize /\ t + i <= m
        BY <2>1, <3>1
      <4> QED  BY <2>2, <2>3, <2>4, <2>5, <4>1
    <3>2. CASE i > m - t
      <4> DEFINE j == i - (m - t)
      <4>1. j \in 1 .. Len(vs) /\ t + i = m + j /\ i = Len(q) + j
        BY <2>1, <2>3, <3>2
      <4>2. r[i] = ss[m + j]
        BY <2>4, <4>1
      <4> QED  BY <2>2a, <2>5, <4>1, <4>2
    <3> QED  BY <2>1, <3>1, <3>2
  <2>8. \A i \in 1 .. Len(r) : r[i] = s[i]
    BY <2>6, <2>7
  <2> QED  BY <2>4, <2>5, <2>6, <2>8, SameSequence DEF r, s, q
<1> QED  BY <1>7, <1>8 DEF g, n

\* store_stackpointer
LEMMA StackPointerStored ==
    ASSUME NEW f \in FrameState, Sound(f), NEW n \in Nat, f.tempsize <= n, n <= FrameSize
    PROVE  LET g == StoreStackPointer(f, n)
           IN  /\ g \in FrameState /\ Sound(g) /\ SameFrame(g, f) /\ g.sp = n
               /\ Temps(g) = Temps(f)
               /\ \/ Ops(g) = SubSeq(Ops(f), 1, n - f.tempsize) /\ n < f.sp
                  \/ Ops(g) = Ops(f) \o [i \in 1 .. n - f.sp |-> Nil] /\ n >= f.sp
<1> DEFINE g == StoreStackPointer(f, n)
           vs == [i \in 1 .. (n - f.sp) |-> Nil]
<1>1. /\ f.slots \in Slots /\ f.sp \in Nat /\ f.tempsize \in Nat /\ f.sp <= FrameSize
      /\ f.tempsize <= f.sp /\ FrameSize \in Nat
  BY FrameFields, Constants DEF Sound
<1>2. CASE n < f.sp
  <2>1. g = PopN(f, f.sp - n)
    BY <1>2 DEF StoreStackPointer
  <2>2. f.sp - n \in Nat /\ f.sp - n <= f.sp - f.tempsize
    BY <1>1, <1>2
  <2>3. Len(Ops(f)) = f.sp - f.tempsize
    BY <1>1, PartIs DEF Ops
  <2>4. Len(Ops(f)) - (f.sp - n) = n - f.tempsize /\ f.sp - (f.sp - n) = n
    BY <1>1, <2>3
  <2> QED  BY <1>2, <2>1, <2>2, <2>4, PopFrame
<1>3. CASE ~ (n < f.sp)
  <2>1. g = PushAll(f, vs)
    BY <1>3 DEF StoreStackPointer
  <2>2. n - f.sp \in Nat
    BY <1>1, <1>3
  <2>3. vs \in Seq(Value) /\ Len(vs) = n - f.sp
    BY <2>2, Constants
  <2>4. f.sp + Len(vs) = n /\ n >= f.sp
    BY <1>1, <1>3, <2>3
  <2> HIDE DEF vs
  <2>5. /\ g \in FrameState /\ Sound(g) /\ SameFrame(g, f) /\ g.sp = n
        /\ Ops(g) = Ops(f) \o vs /\ Temps(g) = Temps(f)
    BY <2>1, <2>3, <2>4, PushAllFrame
  <2> QED  BY <2>4, <2>5 DEF vs
<1> QED  BY <1>2, <1>3

\* store_context_part
LEMMA SlotStored ==
    ASSUME NEW f \in FrameState, Sound(f), NEW i \in 1 .. FrameSize, NEW v \in Value
    PROVE  LET g == StoreSlot(f, i, v)
           IN  /\ g \in FrameState /\ Sound(g) /\ SameFrame(g, f) /\ g.sp = f.sp
               /\ g.slots = IF i <= f.sp THEN [f.slots EXCEPT ![i] = v] ELSE f.slots
<1> DEFINE ss == [f.slots EXCEPT ![i] = v]
           g == StoreSlot(f, i, v)
<1>1. /\ f.slots \in Slots /\ f.sp \in 0 .. FrameSize /\ f.tempsize \in Nat
      /\ f.tempsize <= f.sp /\ FrameSize \in Nat
  BY FrameFields, Constants DEF Sound
<1>2. CASE i <= f.sp
  <2>1. g = [f EXCEPT !.slots = ss]
    BY <1>2 DEF StoreSlot
  <2>2. g = With(f, ss, f.sp)
    BY <2>1, <1>1 DEF With, FrameState
  <2>3. /\ ss \in Slots
        /\ \A j \in 1 .. FrameSize : j # i => ss[j] = f.slots[j]
    BY <1>1 DEF Slots
  <2> HIDE DEF ss, g
  <2>4. /\ g \in FrameState /\ g.slots = ss /\ g.sp = f.sp /\ SameFrame(g, f)
    BY <1>1, <2>2, <2>3, Reslotted
  <2>5. Sound(g)
    BY <1>1, <1>2, <2>3, <2>4 DEF Sound, SameFrame
  <2> QED  BY <1>2, <2>4, <2>5 DEF ss, g
<1>3. CASE ~ (i <= f.sp)
  <2>1. ~ (i <= f.tempsize)
    BY <1>1, <1>3
  <2>2. g = f
    BY <1>3, <2>1 DEF StoreSlot
  <2> QED  BY <1>3, <2>2 DEF SameFrame
<1> QED  BY <1>2, <1>3

LEMMA NewFrameSound ==
    ASSUME NEW k \in FrameKinds, NEW r \in Value, NEW t \in 0 .. FrameSize,
           NEW h \in Context \union {Nil}, NEW e \in 0 .. MaxArgs,
           NEW f, f = NewFrame(k, r, t, h, e)
    PROVE  /\ f \in FrameState /\ Sound(f)
           /\ f.kind = k /\ f.receiver = r /\ f.tempsize = t /\ f.home = h /\ f.eargc = e
           /\ f.sp = t /\ f.due = 0
           /\ f.slots = [i \in 1 .. FrameSize |-> Nil]
           /\ Ops(f) = << >> /\ Len(Temps(f)) = t /\ Temps(f) \in Seq(Value)
<1> DEFINE nils == [i \in 1 .. FrameSize |-> Nil]
<1>1. nils \in Slots /\ \A i \in 1 .. FrameSize : nils[i] = Nil
  BY Constants DEF Slots
<1>2. f = [kind |-> k, receiver |-> r, slots |-> nils, sp |-> t, tempsize |-> t,
           home |-> h, eargc |-> e, due |-> 0]
  BY DEF NewFrame
<1>3. 0 \in 0 .. FrameSize
  BY Constants
<1> HIDE DEF nils
<1>4. f \in FrameState
  BY <1>1, <1>2, <1>3 DEF FrameState
<1>5. /\ f.kind = k /\ f.receiver = r /\ f.tempsize = t /\ f.home = h /\ f.eargc = e
      /\ f.sp = t /\ f.due = 0 /\ f.slots = nils
  BY <1>2
<1>6. Sound(f)
  BY <1>1, <1>5, Constants DEF Sound
<1>7. /\ t \in Nat /\ 0 \in Nat /\ 0 <= t /\ t <= FrameSize /\ t <= t /\ t - t = 0 /\ t - 0 = t
  BY Constants
<1>8. Len(Ops(f)) = 0 /\ Ops(f) \in Seq(Value) /\ Len(Temps(f)) = t /\ Temps(f) \in Seq(Value)
  BY <1>1, <1>5, <1>7, PartIs DEF Ops, Temps
<1>9. Ops(f) = << >>
  BY <1>8
<1> QED  BY <1>4, <1>5, <1>6, <1>8, <1>9 DEF nils

LEMMA PrefixIs ==
    ASSUME NEW q \in Seq(Value), NEW r \in Seq(Value), Len(q) <= Len(r),
           \A i \in 1 .. Len(q) : q[i] = r[i]
    PROVE  IsPrefix(q, r)
<1> DEFINE s == SubSeq(r, 1, Len(q))
<1>1. Len(q) \in 0 .. Len(r)
  OBVIOUS
<1>2. s \in Seq(Value) /\ Len(s) = Len(q) /\ \A i \in 1 .. Len(q) : s[i] = r[i]
  BY <1>1
<1>3. SubSeq(q, 1, Len(q)) = q
  OBVIOUS
<1> HIDE DEF s
<1>4. s = q
  BY <1>2, SameSequence
<1> QED  BY <1>3, <1>4 DEF IsPrefix, s

LEMMA FilledNew ==
    ASSUME NEW n \in FrameState, Sound(n), n.sp = n.tempsize, NEW o, o = 1,
           NEW vs \in Seq(Value), Len(vs) <= n.tempsize,
           NEW f, f = Filled(n, o, vs)
    PROVE  /\ f \in FrameState /\ Sound(f) /\ SameFrame(f, n) /\ f.sp = n.sp
           /\ Ops(f) = << >> /\ IsPrefix(vs, Temps(f))
<1> DEFINE t == n.tempsize
           ss == FilledIn(n, o, vs)
<1>0. t \in Nat /\ t <= FrameSize /\ t \in 0 .. FrameSize /\ FrameSize \in Nat /\ Len(vs) \in Nat
      /\ o \in Nat \ {0}
  BY FrameFields, Constants
<1>2. ss \in Slots /\ f = [n EXCEPT !.slots = ss]
  BY <1>0, FilledSlots
<1>4. \A i \in 1 .. FrameSize : i > t => ss[i] = Nil
  BY <1>0 DEF FilledIn, Sound
<1>5. ASSUME NEW i \in 1 .. Len(vs) PROVE ss[i] = vs[i]
  <2>1. i \in 1 .. FrameSize /\ o <= i /\ i < o + Len(vs) /\ i - o + 1 = i
    BY <1>0
  <2> QED  BY <2>1 DEF FilledIn
<1> HIDE DEF ss
<1>3. f = With(n, ss, t)
  BY <1>2 DEF With, FrameState
<1> HIDE DEF t
<1>6. /\ f \in FrameState /\ f.slots = ss /\ f.sp = t /\ SameFrame(f, n)
  BY <1>0, <1>2, <1>3, Reslotted
<1>7. Sound(f) /\ f.tempsize = t
  BY <1>0, <1>4, <1>6 DEF Sound, SameFrame, t
<1>8. /\ 0 \in Nat /\ 0 <= t /\ t <= t /\ t - t = 0 /\ t - 0 = t
  BY <1>0
<1>9. /\ Len(Ops(f)) = 0 /\ Ops(f) \in Seq(Value)
  BY <1>0, <1>2, <1>6, <1>7, <1>8, PartIs DEF Ops
<1>10. Temps(f) \in Seq(Value) /\ Len(Temps(f)) = t /\ Temps(f) = [i \in 1 .. t |-> ss[0 + i]]
  <2>1. /\ Part(ss, 0, t) = [i \in 1 .. t - 0 |-> ss[0 + i]]
        /\ Part(ss, 0, t) \in Seq(Value)
        /\ Len(Part(ss, 0, t)) = t - 0
    BY <1>0, <1>2, <1>8, PartIs
  <2>2. Temps(f) = Part(ss, 0, t)
    BY <1>6, <1>7 DEF Temps
  <2> QED  BY <1>8, <2>1, <2>2
<1>11. \A i \in 1 .. Len(vs) : vs[i] = Temps(f)[i]
  <2> SUFFICES ASSUME NEW i \in 1 .. Len(vs) PROVE vs[i] = Temps(f)[i]
    OBVIOUS
  <2>1. i \in 1 .. t /\ 0 + i = i
    BY <1>0 DEF t
  <2> QED  BY <1>5, <1>10, <2>1
<1>12. IsPrefix(vs, Temps(f))
  BY <1>10, <1>11, PrefixIs DEF t
<1>13. Ops(f) = << >>
  BY <1>9
<1> QED  BY <1>6, <1>7, <1>12, <1>13 DEF t

\* The frame of a method or of a block: its temporaries start with vs.
LEMMA FilledFrame ==
    ASSUME NEW k \in {"method", "closure"}, NEW r \in Value, NEW t \in 0 .. FrameSize,
           NEW vs \in Seq(Value), Len(vs) <= t,
           NEW f, f = Filled(NewFrame(k, r, t, Nil, 0), 1, vs)
    PROVE  /\ f \in FrameState /\ Sound(f)
           /\ f.kind = k /\ f.receiver = r /\ f.due = 0
           /\ Ops(f) = << >> /\ IsPrefix(vs, Temps(f))
<1> DEFINE h == Nil
           e == 0
           o == 1
           n == NewFrame(k, r, t, h, e)
<1>0. k \in FrameKinds /\ h \in Context \union {Nil} /\ e \in 0 .. MaxArgs /\ o = 1
  BY Constants
<1>1. f = Filled(n, o, vs)
  OBVIOUS
<1> HIDE DEF h, e, o
<1>2. n = NewFrame(k, r, t, h, e)
  OBVIOUS
<1> HIDE DEF n
<1>3. /\ n \in FrameState /\ Sound(n) /\ n.kind = k /\ n.receiver = r /\ n.tempsize = t
      /\ n.sp = t /\ n.due = 0
  BY <1>0, <1>2, NewFrameSound
<1>4. n.sp = n.tempsize /\ Len(vs) <= n.tempsize
  BY <1>3
<1>5. /\ f \in FrameState /\ Sound(f) /\ SameFrame(f, n) /\ f.sp = n.sp
      /\ Ops(f) = << >> /\ IsPrefix(vs, Temps(f))
  BY <1>0, <1>1, <1>3, <1>4, FilledNew
<1> QED  BY <1>3, <1>5 DEF SameFrame

\* The n operands on top.
TopOps(f, n) == SubSeq(Ops(f), Len(Ops(f)) - n + 1, Len(Ops(f)))

LEMMA PeekIs ==
    ASSUME NEW f \in FrameState, Sound(f), NEW i \in Nat, i + 1 <= f.sp - f.tempsize
    PROVE  /\ Peek(f, i) \in Value
           /\ Len(Ops(f)) = f.sp - f.tempsize /\ Ops(f) \in Seq(Value)
           /\ Ops(f)[Len(Ops(f)) - i] = Peek(f, i)
           /\ TopOps(f, i + 1)[1] = Peek(f, i)
<1> DEFINE t == f.tempsize
           m == f.sp
           q == Ops(f)
           k == m - t - i
<1>1. /\ f.slots \in Slots /\ m \in Nat /\ t \in Nat /\ m <= FrameSize
      /\ t <= m /\ FrameSize \in Nat /\ i + 1 <= m - t
  BY FrameFields, Constants DEF Sound
<1>2. q \in Seq(Value) /\ Len(q) = m - t /\ q = [j \in 1 .. m - t |-> f.slots[t + j]]
  BY <1>1, PartIs DEF Ops
<1> HIDE DEF t, m, q
<1>3. k \in 1 .. m - t /\ t + k = m - i /\ m - i \in 1 .. FrameSize /\ Len(q) - i = k
      /\ Len(q) - (i + 1) + 1 = k
  BY <1>1, <1>2
<1> HIDE DEF k
<1>4. q[k] = f.slots[m - i] /\ f.slots[m - i] \in Value
  BY <1>1, <1>2, <1>3 DEF Slots
<1>5. SubSeq(q, k, Len(q))[1] = q[k]
  <2>1. q \in Seq(Value) /\ k \in 1 .. Len(q)
    BY <1>2, <1>3
  <2> QED  BY <2>1
<1> QED  BY <1>2, <1>3, <1>4, <1>5 DEF Peek, TopOps, q, m, t

LEMMA PeekNIs ==
    ASSUME NEW f \in FrameState, Sound(f), NEW n \in Nat, n <= f.sp - f.tempsize
    PROVE  /\ PeekN(f, n) \in Seq(Value) /\ Len(PeekN(f, n)) = n
           /\ PeekN(f, n) = TopOps(f, n)
<1> DEFINE t == f.tempsize
           m == f.sp
           q == Ops(f)
           k == m - t - n
           r == SubSeq(q, k + 1, Len(q))
<1>1. /\ f.slots \in Slots /\ m \in Nat /\ t \in Nat /\ m <= FrameSize
      /\ t <= m /\ FrameSize \in Nat /\ n <= m - t
  BY FrameFields, Constants DEF Sound
<1>2. q \in Seq(Value) /\ Len(q) = m - t /\ q = [j \in 1 .. m - t |-> f.slots[t + j]]
  BY <1>1, PartIs DEF Ops
<1>4. PeekN(f, n) = [j \in 1 .. n |-> f.slots[m - (n - j)]]
  BY DEF PeekN, Peek
<1> HIDE DEF t, m, q
<1>3. k \in 0 .. m - t /\ Len(q) - n + 1 = k + 1 /\ Len(q) = k + n
  BY <1>1, <1>2
<1>5. /\ r \in Seq(Value) /\ Len(r) = n /\ \A j \in 1 .. n : r[j] = q[k + j]
  <2> HIDE DEF k
  <2>1. q \in Seq(Value) /\ Len(q) \in Nat /\ k \in 0 .. Len(q) /\ Len(q) = k + n
    BY <1>1, <1>2, <1>3
  <2> QED  BY <2>1
<1>6. ASSUME NEW j \in 1 .. n PROVE r[j] = f.slots[m - (n - j)]
  <2>1. k + j \in 1 .. m - t /\ t + (k + j) = m - (n - j)
    BY <1>1, <1>3
  <2> HIDE DEF k, r
  <2>2. q[k + j] = f.slots[t + (k + j)]
    BY <1>2, <2>1
  <2> QED  BY <1>5, <2>1, <2>2
<1> HIDE DEF k, r
<1>7. r = [j \in 1 .. n |-> r[j]]
  BY <1>5
<1>8. r = PeekN(f, n)
  BY <1>4, <1>6, <1>7
<1>9. r = TopOps(f, n)
  BY <1>3 DEF r, TopOps, q, k
<1> QED  BY <1>5, <1>8, <1>9

--------------------------------------------------------------------------------
(* The inductive invariant.                                                  *)

\* A block has its home and no temporaries of its own; arguments and copied
\* values are in its operands.
FrameOK(f) ==
    /\ f \in FrameState
    /\ Sound(f)
    /\ f.kind = "block" => f.home \in Context /\ f.tempsize = 0

\* A block that has returned has no operands left; a context that waits has room
\* for its answer.
Rested(f) == f.kind = "block" => f.sp = 0
HasPlace(f) == f.sp < FrameSize

Injective(s) == \A i, j \in 1 .. Len(s) : s[i] = s[j] => i = j
StackOK(s)   == s \in Seq(Context) /\ s # << >> /\ Injective(s)
Above(s)     == ToSet(s) \ {Last(s)}

FramesOK(fr, s) ==
    /\ fr \in [Context -> FrameState]
    /\ \A c \in Context : FrameOK(fr[c])
    /\ \A c \in Context \ ToSet(s) : Rested(fr[c])
    /\ \A c \in Above(s) : HasPlace(fr[c])

OpInv == StackOK(stack) /\ FramesOK(frame, stack)

--------------------------------------------------------------------------------
(* Stacks of contexts that grow and shrink, and their frames.                *)

LEMMA StackIs ==
    ASSUME NEW s, StackOK(s)
    PROVE  /\ s \in Seq(Context) /\ Len(s) \in Nat /\ Len(s) >= 1
           /\ Last(s) = s[Len(s)] /\ Last(s) \in Context
           /\ ToSet(s) = {s[i] : i \in 1 .. Len(s)} /\ ToSet(s) \subseteq Context
           /\ Last(s) \in ToSet(s) /\ Above(s) \subseteq Context
           /\ \A i, j \in 1 .. Len(s) : s[i] = s[j] => i = j
<1>1. s \in Seq(Context) /\ s # << >> /\ Injective(s)
  BY DEF StackOK
<1>2. Len(s) \in Nat /\ Len(s) >= 1 /\ DOMAIN s = 1 .. Len(s)
  BY <1>1
<1>3. \A i \in 1 .. Len(s) : s[i] \in Context
  BY <1>1
<1>4. Len(s) \in 1 .. Len(s)
  BY <1>2
<1> QED  BY <1>1, <1>2, <1>3, <1>4 DEF ToSet, Last, Injective, Above

LEMMA StackGrows ==
    ASSUME NEW s, StackOK(s), NEW c \in Context, c \notin ToSet(s),
           NEW t, t = Append(s, c)
    PROVE  /\ StackOK(t) /\ ToSet(t) = ToSet(s) \union {c} /\ Last(t) = c
           /\ Above(t) = ToSet(s) /\ Len(t) > Len(s)
<1> DEFINE n == Len(s)
<1>1. /\ s \in Seq(Context) /\ n \in Nat /\ n >= 1
      /\ ToSet(s) = {s[i] : i \in 1 .. n}
      /\ \A i, j \in 1 .. n : s[i] = s[j] => i = j
  BY StackIs
<1>2. /\ t \in Seq(Context) /\ Len(t) = n + 1 /\ t[n + 1] = c
      /\ \A i \in 1 .. n : t[i] = s[i]
  BY <1>1
<1> HIDE DEF n
<1>3. \A i \in 1 .. n : s[i] # c
  BY <1>1
<1>4. Injective(t)
  <2> SUFFICES ASSUME NEW i \in 1 .. n + 1, NEW j \in 1 .. n + 1, t[i] = t[j]
               PROVE  i = j
    BY <1>2 DEF Injective
  <2>1. \A k \in 1 .. n + 1 : k = n + 1 \/ k \in 1 .. n
    BY <1>1
  <2> QED  BY <1>1, <1>2, <1>3, <2>1
<1>5. StackOK(t)
  BY <1>1, <1>2, <1>4 DEF StackOK
<1>6. ToSet(t) = ToSet(s) \union {c}
  <2>0. DOMAIN t = 1 .. n + 1
    BY <1>2
  <2>1. ToSet(t) = {t[i] : i \in 1 .. n + 1}
    BY <2>0 DEF ToSet
  <2>2. 1 .. n + 1 = (1 .. n) \union {n + 1}
    BY <1>1
  <2> QED  BY <1>1, <1>2, <2>1, <2>2
<1>7. Last(t) = c
  BY <1>2 DEF Last
<1>8. Len(t) > Len(s)
  BY <1>1, <1>2 DEF n
<1> QED  BY <1>5, <1>6, <1>7, <1>8 DEF Above

LEMMA StackShrinks ==
    ASSUME NEW s, StackOK(s), Len(s) > 1, NEW t, t = Front(s)
    PROVE  /\ StackOK(t) /\ ToSet(t) = ToSet(s) \ {Last(s)}
           /\ Last(t) \in Above(s) /\ Last(t) # Last(s) /\ Last(t) \in Context
           /\ Above(t) = Above(s) \ {Last(t)}
<1> DEFINE n == Len(s)
           m == n - 1
<1>1. /\ s \in Seq(Context) /\ n \in Nat /\ n > 1 /\ Last(s) = s[n] /\ m \in Nat /\ m >= 1
      /\ n = m + 1
      /\ ToSet(s) = {s[i] : i \in 1 .. n}
      /\ \A i, j \in 1 .. n : s[i] = s[j] => i = j
  BY StackIs
<1>2. t = SubSeq(s, 1, m)
  BY DEF Front
<1>2a. Len(s) = n
  OBVIOUS
<1> HIDE DEF n, m
<1>3. /\ t \in Seq(Context) /\ Len(t) = m /\ \A i \in 1 .. m : t[i] = s[i]
  BY <1>1, <1>2, <1>2a
<1>4. Injective(t)
  BY <1>1, <1>3 DEF Injective
<1>5. StackOK(t)
  BY <1>1, <1>3, <1>4 DEF StackOK
<1>6. ToSet(t) = ToSet(s) \ {Last(s)}
  <2>1. ToSet(t) = {t[i] : i \in 1 .. m}
    BY <1>3, <1>5, StackIs
  <2>2. 1 .. n = (1 .. m) \union {n}
    BY <1>1
  <2>3. \A i \in 1 .. m : i \in 1 .. n /\ i # n
    BY <1>1
  <2>4. n \in 1 .. n
    BY <1>1
  <2>5. \A i \in 1 .. m : s[i] # s[n]
    BY <1>1, <2>3, <2>4
  <2> QED  BY <1>1, <1>3, <2>1, <2>2, <2>5
<1>7. Last(t) \in ToSet(t) /\ Last(t) \in Context
  BY <1>5, StackIs
<1> QED  BY <1>5, <1>6, <1>7 DEF Above

\* Only the frame of the running context changes.
LEMMA MoveKeeps ==
    ASSUME NEW s, StackOK(s), NEW fr, FramesOK(fr, s), NEW g, FrameOK(g),
           NEW fr2, fr2 = [fr EXCEPT ![Last(s)] = g]
    PROVE  FramesOK(fr2, s)
<1>1. Last(s) \in Context /\ Last(s) \in ToSet(s) /\ Last(s) \notin Above(s)
  BY StackIs DEF Above
<1>2. g \in FrameState
  BY DEF FrameOK
<1>3. fr \in [Context -> FrameState]
  BY DEF FramesOK
<1>4. /\ fr2 \in [Context -> FrameState] /\ fr2[Last(s)] = g
      /\ \A c \in Context : c # Last(s) => fr2[c] = fr[c]
  BY <1>1, <1>2, <1>3
<1>5. \A c \in Context : FrameOK(fr2[c])
  BY <1>4 DEF FramesOK
<1>6. \A c \in Context \ ToSet(s) : Rested(fr2[c])
  BY <1>1, <1>4 DEF FramesOK
<1>7. \A c \in Above(s) : HasPlace(fr2[c])
  BY <1>1, <1>4, StackIs DEF FramesOK
<1> QED  BY <1>4, <1>5, <1>6, <1>7 DEF FramesOK

\* Only the frame of a waiting context changes.
LEMMA WaitKeeps ==
    ASSUME NEW s, StackOK(s), NEW fr, FramesOK(fr, s), NEW g, FrameOK(g), HasPlace(g),
           NEW c \in Above(s), NEW fr2, fr2 = [fr EXCEPT ![c] = g]
    PROVE  FramesOK(fr2, s)
<1>1. c \in Context /\ c \in ToSet(s)
  BY StackIs DEF Above
<1>2. g \in FrameState
  BY DEF FrameOK
<1>3. fr \in [Context -> FrameState]
  BY DEF FramesOK
<1>4. /\ fr2 \in [Context -> FrameState] /\ fr2[c] = g
      /\ \A d \in Context : d # c => fr2[d] = fr[d]
  BY <1>1, <1>2, <1>3
<1>5. \A d \in Context : FrameOK(fr2[d])
  BY <1>4 DEF FramesOK
<1>6. \A d \in Context \ ToSet(s) : Rested(fr2[d])
  BY <1>1, <1>4 DEF FramesOK
<1>7. \A d \in Above(s) : HasPlace(fr2[d])
  BY <1>4, StackIs DEF FramesOK
<1> QED  BY <1>4, <1>5, <1>6, <1>7 DEF FramesOK

\* A context is called.
WithBoth(fr, b, g, c, h) == [fr EXCEPT ![b] = g, ![c] = h]

LEMMA CallKeeps ==
    ASSUME NEW s, StackOK(s), NEW fr, FramesOK(fr, s), NEW c \in Context, c \notin ToSet(s),
           NEW g, FrameOK(g), HasPlace(g), NEW h, FrameOK(h)
    PROVE  /\ StackOK(Append(s, c)) /\ FramesOK(WithBoth(fr, Last(s), g, c, h), Append(s, c))
           /\ WithBoth(fr, Last(s), g, c, h)[Last(s)] = g
           /\ WithBoth(fr, Last(s), g, c, h)[c] = h
           /\ \A d \in Context \ {c, Last(s)} : WithBoth(fr, Last(s), g, c, h)[d] = fr[d]
<1> DEFINE fr2 == WithBoth(fr, Last(s), g, c, h)
           t == Append(s, c)
<1>0. fr2 = [fr EXCEPT ![Last(s)] = g, ![c] = h] /\ t = Append(s, c)
  BY DEF WithBoth
<1> HIDE DEF fr2, t
<1>1. Last(s) \in Context /\ Last(s) \in ToSet(s) /\ c # Last(s)
  BY StackIs
<1>2. StackOK(t) /\ ToSet(t) = ToSet(s) \union {c} /\ Above(t) = ToSet(s)
  BY <1>0, StackGrows
<1>3. g \in FrameState /\ h \in FrameState
  BY DEF FrameOK
<1>4. fr \in [Context -> FrameState]
  BY DEF FramesOK
<1>5. /\ fr2 \in [Context -> FrameState] /\ fr2[Last(s)] = g /\ fr2[c] = h
      /\ \A d \in Context \ {c, Last(s)} : fr2[d] = fr[d]
  BY <1>0, <1>1, <1>3, <1>4
<1>6. \A d \in Context : FrameOK(fr2[d])
  BY <1>5 DEF FramesOK
<1>7. \A d \in Context \ ToSet(t) : Rested(fr2[d])
  BY <1>1, <1>2, <1>5 DEF FramesOK
<1>8. \A d \in Above(t) : HasPlace(fr2[d])
  <2> SUFFICES ASSUME NEW d \in ToSet(s) PROVE HasPlace(fr2[d])
    BY <1>2
  <2>1. CASE d = Last(s)
    BY <1>5, <2>1
  <2>2. CASE d # Last(s)
    BY <1>5, <2>2, StackIs DEF FramesOK, Above
  <2> QED  BY <2>1, <2>2
<1>9. StackOK(t) /\ FramesOK(fr2, t)
  BY <1>2, <1>5, <1>6, <1>7, <1>8 DEF FramesOK
<1> QED  BY <1>5, <1>9 DEF fr2, t

\* A context returns to the one below.
LEMMA ReturnKeeps ==
    ASSUME NEW s, StackOK(s), Len(s) > 1, NEW fr, FramesOK(fr, s),
           NEW t, t = Front(s), NEW fr2, fr2 \in [Context -> FrameState],
           FrameOK(fr2[Last(t)]), FrameOK(fr2[Last(s)]), Rested(fr2[Last(s)]),
           \A d \in Context \ {Last(t), Last(s)} : fr2[d] = fr[d]
    PROVE  StackOK(t) /\ FramesOK(fr2, t)
<1>1. Last(s) \in Context /\ Last(s) \in ToSet(s)
  BY StackIs
<1>2. /\ StackOK(t) /\ ToSet(t) = ToSet(s) \ {Last(s)}
      /\ Last(t) \in Above(s) /\ Last(t) \in ToSet(s)
      /\ Above(t) = Above(s) \ {Last(t)}
  BY StackShrinks DEF Above
<1>3. \A d \in Context : FrameOK(fr2[d])
  BY DEF FramesOK
<1>4. \A d \in Context \ ToSet(t) : Rested(fr2[d])
  <2> SUFFICES ASSUME NEW d \in Context, d \notin ToSet(t) PROVE Rested(fr2[d])
    OBVIOUS
  <2>1. CASE d = Last(s)
    BY <2>1
  <2>2. CASE d # Last(s)
    <3>1. d \notin ToSet(s) /\ d # Last(t)
      BY <1>2, <2>2
    <3> QED  BY <2>2, <3>1 DEF FramesOK
  <2> QED  BY <2>1, <2>2
<1>5. \A d \in Above(t) : HasPlace(fr2[d])
  BY <1>2, StackIs DEF FramesOK, Above
<1> QED  BY <1>2, <1>3, <1>4, <1>5 DEF FramesOK

--------------------------------------------------------------------------------
(* Steps, by what they do to the operands of the running context.            *)

RestOps(f, n) == SubSeq(Ops(f), 1, Len(Ops(f)) - n)

LEMMA MeIs ==
    ASSUME OpInv
    PROVE  /\ Running \in Context /\ Running \in Active /\ Active \subseteq Context
           /\ Me \in FrameState /\ Sound(Me) /\ FrameOK(Me)
           /\ Depth(Me) \in Nat /\ Len(Ops(Me)) = Depth(Me) /\ Ops(Me) \in Seq(Value)
           /\ Depth(Me) <= Me.sp /\ Me.sp \in Nat /\ Me.tempsize \in Nat /\ Me.sp <= FrameSize
           /\ StackOK(stack) /\ FramesOK(frame, stack)
           /\ frame \in [Context -> FrameState]
<1>1. StackOK(stack) /\ FramesOK(frame, stack)
  BY DEF OpInv
<1>2. Running \in Context /\ Running \in Active /\ Active \subseteq Context
  BY <1>1, StackIs DEF Running, Active
<1>3. Me \in FrameState /\ Sound(Me) /\ FrameOK(Me) /\ frame \in [Context -> FrameState]
  BY <1>1, <1>2 DEF FramesOK, FrameOK, Me
<1> DEFINE m == Me
<1>4. /\ m.slots \in Slots /\ m.sp \in Nat /\ m.tempsize \in Nat /\ m.sp <= FrameSize
      /\ m.tempsize <= m.sp
  BY <1>3, FrameFields, Constants DEF Sound
<1> HIDE DEF m
<1>5. Len(Ops(m)) = m.sp - m.tempsize /\ Ops(m) \in Seq(Value)
  BY <1>4, PartIs DEF Ops
<1>6. Depth(m) = m.sp - m.tempsize /\ Depth(m) \in Nat /\ Depth(m) <= m.sp
  BY <1>4 DEF Depth
<1> QED  BY <1>1, <1>2, <1>3, <1>4, <1>5, <1>6 DEF m

LEMMA HolderIs ==
    ASSUME OpInv, NEW c \in Context
    PROVE  /\ Holder(c) \in Context /\ FrameOK(frame[c]) /\ FrameOK(frame[Holder(c)])
           /\ ReceiverOf(c) \in Value
           /\ frame[Holder(c)].slots \in Slots /\ frame[Holder(c)].tempsize \in 0 .. FrameSize
<1>1. \A d \in Context : FrameOK(frame[d])
  BY MeIs DEF FramesOK
<1>2. Holder(c) \in Context
  BY <1>1 DEF Holder, FrameOK
<1>3. frame[Holder(c)] \in FrameState
  BY <1>1, <1>2 DEF FrameOK
<1> QED  BY <1>1, <1>2, <1>3, FrameFields DEF ReceiverOf

\* Of how many operands the answer takes the place makes no difference now.
LEMMA DueSet ==
    ASSUME NEW f, FrameOK(f), NEW d \in 0 .. FrameSize, NEW g, g = [f EXCEPT !.due = d]
    PROVE  /\ FrameOK(g) /\ g.due = d /\ g.sp = f.sp /\ Ops(g) = Ops(f) /\ Temps(g) = Temps(f)
           /\ g.kind = f.kind /\ g.receiver = f.receiver /\ g.home = f.home
           /\ g.tempsize = f.tempsize /\ g.slots = f.slots
<1>1. f \in FrameState /\ Sound(f)
  BY DEF FrameOK
<1>2. /\ g \in FrameState /\ g.due = d /\ g.sp = f.sp /\ g.kind = f.kind
      /\ g.receiver = f.receiver /\ g.home = f.home /\ g.tempsize = f.tempsize
      /\ g.slots = f.slots
  BY <1>1 DEF FrameState
<1>3. Sound(g)
  BY <1>1, <1>2 DEF Sound
<1> QED  BY <1>2, <1>3 DEF FrameOK, Ops, Temps

LEMMA PopOK ==
    ASSUME NEW f, FrameOK(f), NEW n \in Nat, n <= Depth(f), NEW g, g = PopN(f, n)
    PROVE  /\ FrameOK(g) /\ SameFrame(g, f) /\ g.sp = f.sp - n /\ Ops(g) = RestOps(f, n)
           /\ Temps(g) = Temps(f)
<1>1. f \in FrameState /\ Sound(f) /\ n <= f.sp - f.tempsize
  BY DEF FrameOK, Depth
<1>2. /\ g \in FrameState /\ Sound(g) /\ SameFrame(g, f)
      /\ g.sp = f.sp - n
      /\ Ops(g) = SubSeq(Ops(f), 1, Len(Ops(f)) - n)
      /\ Temps(g) = Temps(f)
  BY <1>1, PopFrame
<1> QED  BY <1>2 DEF FrameOK, SameFrame, RestOps

LEMMA PushOK ==
    ASSUME NEW f, FrameOK(f), NEW v \in Value, f.sp + 1 <= FrameSize, NEW g, g = Push(f, v)
    PROVE  /\ FrameOK(g) /\ SameFrame(g, f) /\ g.sp = f.sp + 1
           /\ Ops(g) = Append(Ops(f), v) /\ Temps(g) = Temps(f)
<1>1. f \in FrameState /\ Sound(f)
  BY DEF FrameOK
<1>2. /\ g \in FrameState /\ Sound(g) /\ SameFrame(g, f)
      /\ g.sp = f.sp + 1
      /\ Ops(g) = Append(Ops(f), v) /\ Temps(g) = Temps(f)
  BY <1>1, PushFrame
<1> QED  BY <1>2 DEF FrameOK, SameFrame

LEMMA PushAllOK ==
    ASSUME NEW f, FrameOK(f), NEW vs \in Seq(Value), f.sp + Len(vs) <= FrameSize,
           NEW g, g = PushAll(f, vs)
    PROVE  /\ FrameOK(g) /\ SameFrame(g, f) /\ g.sp = f.sp + Len(vs)
           /\ Ops(g) = Ops(f) \o vs /\ Temps(g) = Temps(f)
<1>1. f \in FrameState /\ Sound(f)
  BY DEF FrameOK
<1>2. /\ g \in FrameState /\ Sound(g) /\ SameFrame(g, f)
      /\ g.sp = f.sp + Len(vs)
      /\ Ops(g) = Ops(f) \o vs /\ Temps(g) = Temps(f)
  BY <1>1, PushAllFrame
<1> QED  BY <1>2 DEF FrameOK, SameFrame

\* n operands make way for one.
LEMMA Replaced ==
    ASSUME NEW f, FrameOK(f), NEW n \in Nat, n <= Depth(f), NEW v \in Value,
           f.sp - n + 1 <= FrameSize, NEW g, g = Push(PopN(f, n), v)
    PROVE  /\ FrameOK(g) /\ SameFrame(g, f) /\ g.sp = f.sp - n + 1
           /\ Ops(g) = Append(RestOps(f, n), v) /\ Temps(g) = Temps(f)
<1> DEFINE h == PopN(f, n)
<1>1. g = Push(h, v)
  OBVIOUS
<1>2. /\ FrameOK(h) /\ SameFrame(h, f) /\ h.sp = f.sp - n /\ Ops(h) = RestOps(f, n)
      /\ Temps(h) = Temps(f)
  BY PopOK
<1> HIDE DEF h
<1>3. /\ FrameOK(g) /\ SameFrame(g, h) /\ g.sp = h.sp + 1
      /\ Ops(g) = Append(Ops(h), v) /\ Temps(g) = Temps(h)
  BY <1>1, <1>2, PushOK
<1> QED  BY <1>2, <1>3 DEF SameFrame

\* The running context computes: operands make way for one value, or none.
Computing ==
    /\ stack' = stack
    /\ \E g : /\ frame' = [frame EXCEPT ![Running] = g]
              /\ FrameOK(g) /\ SameFrame(g, Me) /\ Temps(g) = Temps(Me)
              /\ \E n \in 0 .. Len(Ops(Me)) :
                    \/ Ops(g) = RestOps(Me, n)
                    \/ \E v \in Value : Ops(g) = Append(RestOps(Me, n), v)

LEMMA Computes ==
    ASSUME OpInv, NEW g, frame' = [frame EXCEPT ![Running] = g], stack' = stack,
           FrameOK(g), SameFrame(g, Me), Temps(g) = Temps(Me), NEW n \in Nat, n <= Depth(Me),
           \/ Ops(g) = RestOps(Me, n)
           \/ \E v \in Value : Ops(g) = Append(RestOps(Me, n), v)
    PROVE  Computing
<1>1. n \in 0 .. Len(Ops(Me))
  BY MeIs
<1> QED  BY <1>1 DEF Computing

LEMMA PushComputes ==
    ASSUME OpInv, NEW v \in Value, PushValue(v)
    PROVE  Computing
<1> DEFINE g == Push(Me, v)
           m == Me
           n == 0
<1>1. /\ frame' = [frame EXCEPT ![Running] = g] /\ stack' = stack /\ m.sp + 1 <= FrameSize
  BY DEF PushValue, SetFrame, HasRoom
<1>2. FrameOK(m) /\ g = Push(m, v) /\ Ops(m) \in Seq(Value) /\ Depth(m) \in Nat
  BY MeIs
<1> HIDE DEF m
<1>3. /\ FrameOK(g) /\ SameFrame(g, m) /\ Ops(g) = Append(Ops(m), v) /\ Temps(g) = Temps(m)
  BY <1>1, <1>2, PushOK
<1>4. RestOps(m, n) = Ops(m) /\ n \in Nat /\ n <= Depth(m)
  <2>1. Len(Ops(m)) - n = Len(Ops(m))
    BY <1>2
  <2> QED  BY <1>2, <2>1 DEF RestOps
<1> HIDE DEF n, g
<1> QED  BY <1>1, <1>3, <1>4, Computes DEF m

LEMMA ReplaceComputes ==
    ASSUME OpInv, NEW n \in Nat, Takes(n), NEW v \in Value, Me.sp - n + 1 <= FrameSize,
           SetFrame(Push(PopN(Me, n), v)), UNCHANGED stack
    PROVE  Computing
<1> DEFINE g == Push(PopN(Me, n), v)
           m == Me
<1>1. /\ frame' = [frame EXCEPT ![Running] = g] /\ stack' = stack
  BY DEF SetFrame
<1>2. FrameOK(m) /\ g = Push(PopN(m, n), v) /\ n <= Depth(m) /\ m.sp - n + 1 <= FrameSize
  BY MeIs DEF Takes
<1> HIDE DEF m, g
<1>3. /\ FrameOK(g) /\ SameFrame(g, m) /\ Ops(g) = Append(RestOps(m, n), v) /\ Temps(g) = Temps(m)
  BY <1>2, Replaced
<1> QED  BY <1>1, <1>2, <1>3, Computes DEF m

LEMMA PopComputes ==
    ASSUME OpInv, NEW n \in Nat, Takes(n), SetFrame(PopN(Me, n)), UNCHANGED stack
    PROVE  Computing
<1> DEFINE g == PopN(Me, n)
           m == Me
<1>1. /\ frame' = [frame EXCEPT ![Running] = g] /\ stack' = stack
  BY DEF SetFrame
<1>2. FrameOK(m) /\ g = PopN(m, n) /\ n <= Depth(m)
  BY MeIs DEF Takes
<1> HIDE DEF m, g
<1>3. /\ FrameOK(g) /\ SameFrame(g, m) /\ Ops(g) = RestOps(m, n) /\ Temps(g) = Temps(m)
  BY <1>2, PopOK
<1> QED  BY <1>1, <1>2, <1>3, Computes DEF m

--------------------------------------------------------------------------------
(* Values that hold other values.                                            *)

LEMMA ListIs ==
    ASSUME NEW m \in Nat, NEW q \in BoundedSeq(Object, m)
    PROVE  q \in Seq(Value) /\ Len(q) \in 0 .. m
<1>1. PICK k \in 0 .. m : q \in [1 .. k -> Object]
  BY DEF BoundedSeq, SeqOf
<1>2. Object \subseteq Value
  BY Constants
<1>3. q \in Seq(Value) /\ Len(q) = k
  BY <1>1, <1>2
<1> QED  BY <1>1, <1>3

LEMMA ListOf ==
    ASSUME NEW m \in Nat, NEW q \in Seq(Value), Len(q) <= m, ToSet(q) \subseteq Object
    PROVE  q \in BoundedSeq(Object, m)
<1>1. Len(q) \in 0 .. m /\ DOMAIN q = 1 .. Len(q)
  OBVIOUS
<1>2. \A i \in 1 .. Len(q) : q[i] \in Object
  BY <1>1 DEF ToSet
<1> DEFINE k == Len(q)
<1>3. k \in 0 .. m /\ q \in [1 .. k -> Object]
  BY <1>1, <1>2
<1> HIDE DEF k
<1>4. q \in UNION {[1 .. j -> Object] : j \in 0 .. m}
  BY <1>3
<1> QED  BY <1>4 DEF BoundedSeq, SeqOf

LEMMA ArrayIs ==
    ASSUME NEW v \in Array
    PROVE  v.array \in Seq(Value) /\ Len(v.array) \in 0 .. MaxListed
<1>1. v.array \in BoundedSeq(Object, MaxListed)
  BY DEF Array
<1> QED  BY <1>1, ListIs, Constants

LEMMA NewArrayIs ==
    ASSUME NEW q \in Seq(Value), Len(q) <= MaxListed, ToSet(q) \subseteq Object
    PROVE  [array |-> q] \in Value
<1>1. q \in BoundedSeq(Object, MaxListed)
  BY ListOf, Constants
<1>2. [array |-> q] \in Array
  BY <1>1 DEF Array
<1> QED  BY <1>2 DEF Value, Boxed

LEMMA NewMessageIs ==
    ASSUME NEW q \in Seq(Value), Len(q) <= MaxArgs, ToSet(q) \subseteq Object
    PROVE  [message |-> q] \in Value
<1>1. q \in BoundedSeq(Object, MaxArgs)
  BY ListOf, Constants
<1>2. [message |-> q] \in Message
  BY <1>1 DEF Message
<1> QED  BY <1>2 DEF Value, Boxed

LEMMA ClosureIs ==
    ASSUME NEW v \in Closure
    PROVE  /\ v.outer \in Context /\ v.numArgs \in 0 .. MaxListed
           /\ v.copied \in Seq(Value) /\ Len(v.copied) \in 0 .. 1
<1>1. v.outer \in Context /\ v.numArgs \in 0 .. MaxListed /\ v.copied \in BoundedSeq(Object, 1)
  BY DEF Closure
<1> DEFINE o == 1
<1>2. o \in Nat /\ v.copied \in BoundedSeq(Object, o)
  BY <1>1
<1> HIDE DEF o
<1>3. v.copied \in Seq(Value) /\ Len(v.copied) \in 0 .. o
  BY <1>2, ListIs
<1> QED  BY <1>1, <1>3 DEF o

LEMMA RestOfRest ==
    ASSUME NEW q \in Seq(Value), NEW a \in Nat, NEW b \in Nat, b <= a, a <= Len(q)
    PROVE  SubSeq(SubSeq(q, 1, a), 1, b) = SubSeq(q, 1, b)
<1> DEFINE p == SubSeq(q, 1, a)
           r == SubSeq(q, 1, b)
           s == SubSeq(p, 1, b)
<1>1. p \in Seq(Value) /\ Len(p) = a /\ \A i \in 1 .. a : p[i] = q[i]
  <2>1. a \in 0 .. Len(q)
    OBVIOUS
  <2> QED  BY <2>1
<1> HIDE DEF p
<1>2. r \in Seq(Value) /\ Len(r) = b /\ \A i \in 1 .. b : r[i] = q[i]
  <2>1. b \in 0 .. Len(q)
    OBVIOUS
  <2> QED  BY <2>1
<1>3. s \in Seq(Value) /\ Len(s) = b /\ \A i \in 1 .. b : s[i] = p[i]
  <2>1. b \in 0 .. Len(p)
    BY <1>1
  <2> QED  BY <1>1, <2>1
<1> HIDE DEF r, s
<1>4. \A i \in 1 .. Len(s) : s[i] = r[i]
  BY <1>1, <1>2, <1>3
<1> QED  BY <1>2, <1>3, <1>4, SameSequence DEF p, r, s

LEMMA RestOfConcat ==
    ASSUME NEW q \in Seq(Value), NEW vs \in Seq(Value), NEW b \in Nat, b <= Len(q)
    PROVE  SubSeq(q \o vs, 1, b) = SubSeq(q, 1, b)
<1> DEFINE p == q \o vs
           r == SubSeq(q, 1, b)
           s == SubSeq(p, 1, b)
<1>1. p \in Seq(Value) /\ Len(p) = Len(q) + Len(vs) /\ \A i \in 1 .. Len(q) : p[i] = q[i]
  BY ConcatIs
<1>1a. Len(q) \in Nat /\ Len(vs) \in Nat
  OBVIOUS
<1> HIDE DEF p
<1>2. r \in Seq(Value) /\ Len(r) = b /\ \A i \in 1 .. b : r[i] = q[i]
  <2>1. b \in 0 .. Len(q)
    OBVIOUS
  <2> QED  BY <2>1
<1>3. s \in Seq(Value) /\ Len(s) = b /\ \A i \in 1 .. b : s[i] = p[i]
  <2>1. b \in 0 .. Len(p)
    BY <1>1, <1>1a
  <2> QED  BY <1>1, <2>1
<1> HIDE DEF r, s
<1>4. \A i \in 1 .. Len(s) : s[i] = r[i]
  <2>1. \A i \in 1 .. b : i \in 1 .. Len(q)
    BY <1>1a
  <2> QED  BY <1>1, <1>2, <1>3, <2>1
<1> QED  BY <1>2, <1>3, <1>4, SameSequence DEF p, r, s

--------------------------------------------------------------------------------
(* The bytecodes that compute.                                               *)

\* What is below n operands on top, seen from the running context.
LEMMA Operand ==
    ASSUME OpInv, NEW i \in Nat, i + 1 <= Depth(Me)
    PROVE  /\ Peek(Me, i) \in Value
           /\ Ops(Me)[Len(Ops(Me)) - i] = Peek(Me, i)
           /\ TopOps(Me, i + 1)[1] = Peek(Me, i)
<1> DEFINE f == Me
<1>1. f \in FrameState /\ Sound(f) /\ i + 1 <= f.sp - f.tempsize
  BY MeIs DEF Depth
<1> HIDE DEF f
<1>2. /\ Peek(f, i) \in Value
      /\ Ops(f)[Len(Ops(f)) - i] = Peek(f, i)
      /\ TopOps(f, i + 1)[1] = Peek(f, i)
  BY <1>1, PeekIs
<1> QED  BY <1>2 DEF f

LEMMA Operands ==
    ASSUME OpInv, NEW n \in Nat, n <= Depth(Me)
    PROVE  PeekN(Me, n) \in Seq(Value) /\ Len(PeekN(Me, n)) = n /\ PeekN(Me, n) = TopOps(Me, n)
<1> DEFINE f == Me
<1>1. f \in FrameState /\ Sound(f) /\ n <= f.sp - f.tempsize
  BY MeIs DEF Depth
<1> HIDE DEF f
<1>2. PeekN(f, n) \in Seq(Value) /\ Len(PeekN(f, n)) = n /\ PeekN(f, n) = TopOps(f, n)
  BY <1>1, PeekNIs
<1> QED  BY <1>2 DEF f

LEMMA PushTempComputes ==
    ASSUME OpInv, NEW i \in 1 .. FrameSize, PushTemp(i)
    PROVE  Computing
<1> DEFINE v == frame[Holder(Running)].slots[i]
<1>1. v \in Value
  <2>1. frame[Holder(Running)].slots \in Slots
    BY MeIs, HolderIs
  <2> QED  BY <2>1 DEF Slots
<1> HIDE DEF v
<1>2. PushValue(v)
  BY DEF PushTemp, PushValue, v
<1> QED  BY <1>1, <1>2, PushComputes

LEMMA DuplicateComputes ==
    ASSUME OpInv, DuplicateTop
    PROVE  Computing
<1> DEFINE z == 0
           v == Peek(Me, z)
<1>1. z \in Nat /\ z + 1 <= Depth(Me)
  BY DEF DuplicateTop, Takes
<1>2. PushValue(v)
  BY DEF DuplicateTop
<1> HIDE DEF z
<1>3. v \in Value
  BY <1>1, Operand
<1> HIDE DEF v
<1> QED  BY <1>2, <1>3, PushComputes

LEMMA PushNewArrayComputes ==
    ASSUME OpInv, NEW n \in 0 .. MaxListed, NEW popped \in 0 .. 1, PushNewArray(n, popped)
    PROVE  Computing
<1> DEFINE m == popped * n
           q == IF popped = 1 THEN PeekN(Me, n) ELSE [k \in 1 .. n |-> Nil]
           v == [array |-> q]
<1>1. /\ Takes(m) /\ Me.sp + 1 <= FrameSize /\ ToSet(PeekN(Me, m)) \subseteq Object
      /\ SetFrame(Push(PopN(Me, m), v)) /\ UNCHANGED stack
  BY DEF PushNewArray, HasRoom
<1>2. n \in Nat /\ n <= MaxListed
  BY Constants
<1>3. m \in Nat /\ (popped = 1 => m = n)
  <2>1. popped = 0 \/ popped = 1
    OBVIOUS
  <2> QED  BY <1>2, <2>1
<1> HIDE DEF m
<1>4. v \in Value
  <2>1. CASE popped = 1
    <3>1. PeekN(Me, n) \in Seq(Value) /\ Len(PeekN(Me, n)) = n /\ ToSet(PeekN(Me, n)) \subseteq Object
      BY <1>1, <1>2, <1>3, <2>1, Operands DEF Takes
    <3> QED  BY <1>2, <2>1, <3>1, NewArrayIs
  <2>2. CASE popped # 1
    <3> DEFINE nils == [k \in 1 .. n |-> Nil]
    <3>1. nils \in Seq(Value) /\ Len(nils) = n /\ ToSet(nils) \subseteq Object
      BY <1>2, Constants DEF ToSet
    <3> HIDE DEF nils
    <3>2. q = nils
      BY <2>2 DEF nils
    <3> QED  BY <1>2, <3>1, <3>2, NewArrayIs
  <2> QED  BY <2>1, <2>2
<1> HIDE DEF v, q
<1>5. Me.sp - m + 1 <= FrameSize
  BY <1>1, <1>3, MeIs, Constants
<1> QED  BY <1>1, <1>3, <1>4, <1>5, ReplaceComputes

LEMMA PushClosureComputes ==
    ASSUME OpInv, NEW n \in 0 .. MaxListed, NEW m \in 0 .. 1, PushClosureCopyCopiedValues(n, m)
    PROVE  Computing
<1> DEFINE q == PeekN(Me, m)
           v == [outer |-> Running, numArgs |-> n, copied |-> q]
           o == 1
<1>1. /\ Takes(m) /\ Me.sp + 1 <= FrameSize /\ ToSet(q) \subseteq Object
      /\ SetFrame(Push(PopN(Me, m), v)) /\ UNCHANGED stack
  BY DEF PushClosureCopyCopiedValues, HasRoom
<1>2. m \in Nat /\ m <= o /\ o \in Nat
  OBVIOUS
<1>3. q \in Seq(Value) /\ Len(q) = m
  BY <1>1, <1>2, Operands DEF Takes
<1> HIDE DEF q, o
<1>4. q \in BoundedSeq(Object, o)
  BY <1>1, <1>2, <1>3, ListOf
<1>5. v \in Value
  <2>1. v \in Closure
    BY <1>4, MeIs DEF Closure, o
  <2> QED  BY <2>1 DEF Value, Boxed
<1> HIDE DEF v
<1>6. Me.sp - m + 1 <= FrameSize
  BY <1>1, <1>2, MeIs, Constants
<1> QED  BY <1>1, <1>2, <1>5, <1>6, ReplaceComputes

LEMMA CallPrimitiveComputes ==
    ASSUME OpInv, NEW n \in Nat, NEW v \in Value, CallPrimitive(n, v)
    PROVE  Computing
<1> DEFINE m == n + 1
<1>1. m \in Nat /\ Takes(m) /\ SetFrame(Push(PopN(Me, m), v)) /\ UNCHANGED stack
  BY DEF CallPrimitive
<1>2. Me.sp - m + 1 <= FrameSize
  BY MeIs, Constants
<1> HIDE DEF m
<1> QED  BY <1>1, <1>2, ReplaceComputes

--------------------------------------------------------------------------------
(* Sends.                                                                    *)

\* No block belongs to c.
Fresh(c) == \A d \in Context \ {c} : frame[d].home # c

\* A context calls c, whose frame becomes h ...
Leaves(c, h) ==
    /\ c \in Context /\ c \notin Active
    /\ stack' = Append(stack, c)
    /\ \E g : /\ frame' = [frame EXCEPT ![Running] = g, ![c] = h]
              /\ FrameOK(g) /\ HasPlace(g) /\ FrameOK(h)

\* ... and in the call it loses n operands, and nothing else.
Called(c, n, h) ==
    /\ c \in Context /\ c \notin Active
    /\ Fresh(c) \/ h.receiver = frame[c].receiver
    /\ n \in 1 .. Len(Ops(Me))
    /\ stack' = Append(stack, c)
    /\ \E g : /\ frame' = [frame EXCEPT ![Running] = g, ![c] = h]
              /\ FrameOK(g) /\ HasPlace(g) /\ FrameOK(h)
              /\ g.kind = Me.kind /\ g.home = Me.home /\ g.receiver = Me.receiver
              /\ Ops(g) = RestOps(Me, n) /\ Temps(g) = Temps(Me)
              /\ g.sp = g.due

\* An activation of its own begins: its temporaries start with vs.
Begun(c, n, r, vs) ==
    \E h : /\ Called(c, n, h)
           /\ h.kind # "block" /\ h.receiver = r
           /\ Ops(h) = << >> /\ IsPrefix(vs, Temps(h))

\* A block is evaluated: its operands become vs.
Evaluated(c, n, vs) ==
    \E h : /\ Called(c, n, h)
           /\ SameFrame(h, frame[c])
           /\ Ops(h) = vs /\ Temps(h) = Temps(frame[c])

LEMMA UnusedIs ==
    ASSUME OpInv, NEW c \in Context, Unused(c)
    PROVE  c \notin Active /\ Fresh(c)
  BY DEF Unused, Referred, Fresh

LEMMA LeavesWith ==
    ASSUME OpInv, NEW c \in Context, c \notin Active, NEW f, FrameOK(f), HasPlace(f),
           NEW n \in Nat, n <= Me.sp, NEW h, FrameOK(h), StackFrame(c, h, f, n)
    PROVE  Leaves(c, h)
<1> DEFINE d == Me.sp - n
           g == [f EXCEPT !.due = d]
<1>1. d \in 0 .. FrameSize
  BY MeIs, Constants
<1>2. /\ frame' = [frame EXCEPT ![Running] = g, ![c] = h]
      /\ stack' = Append(stack, c)
  BY DEF StackFrame
<1> HIDE DEF d
<1>3. FrameOK(g) /\ g.sp = f.sp
  BY <1>1, DueSet
<1> HIDE DEF g
<1> QED  BY <1>2, <1>3 DEF Leaves, HasPlace

LEMMA CallsWith ==
    ASSUME OpInv, NEW c \in Context, c \notin Active, NEW f, FrameOK(f),
           NEW n \in Nat, 1 <= n, n <= Depth(Me), NEW h, FrameOK(h),
           Fresh(c) \/ h.receiver = frame[c].receiver,
           SameFrame(f, Me), f.sp = Me.sp - n, Ops(f) = RestOps(Me, n), Temps(f) = Temps(Me),
           StackFrame(c, h, f, n)
    PROVE  Called(c, n, h)
<1> DEFINE d == Me.sp - n
           g == [f EXCEPT !.due = d]
<1>1. d \in 0 .. FrameSize /\ d < FrameSize /\ n \in 1 .. Len(Ops(Me))
  BY MeIs, Constants
<1>2. /\ frame' = [frame EXCEPT ![Running] = g, ![c] = h]
      /\ stack' = Append(stack, c)
  BY DEF StackFrame
<1>2a. f.sp = d
  OBVIOUS
<1> HIDE DEF d
<1>3. /\ FrameOK(g) /\ g.due = d /\ g.sp = f.sp /\ Ops(g) = Ops(f) /\ Temps(g) = Temps(f)
      /\ g.kind = f.kind /\ g.receiver = f.receiver /\ g.home = f.home
  BY <1>1, DueSet
<1> HIDE DEF g
<1>4. HasPlace(g) /\ g.sp = g.due
  BY <1>1, <1>2a, <1>3 DEF HasPlace
<1>5. g.kind = Me.kind /\ g.home = Me.home /\ g.receiver = Me.receiver
  BY <1>3 DEF SameFrame
<1>6. Ops(g) = RestOps(Me, n) /\ Temps(g) = Temps(Me)
  BY <1>3
<1> QED  BY <1>1, <1>2, <1>3, <1>4, <1>5, <1>6 DEF Called

\* The operands are taken at once.
LEMMA CallsTaking ==
    ASSUME OpInv, NEW c \in Context, c \notin Active,
           NEW n \in Nat, 1 <= n, n <= Depth(Me), NEW h, FrameOK(h),
           Fresh(c) \/ h.receiver = frame[c].receiver,
           StackFrame(c, h, PopN(Me, n), n)
    PROVE  Called(c, n, h)
<1> DEFINE f == PopN(Me, n)
           m == Me
<1>1. f = PopN(m, n) /\ FrameOK(m) /\ n <= Depth(m)
  BY MeIs
<1>2. StackFrame(c, h, f, n)
  OBVIOUS
<1> HIDE DEF f, m
<1>3. /\ FrameOK(f) /\ SameFrame(f, m) /\ f.sp = m.sp - n /\ Ops(f) = RestOps(m, n)
      /\ Temps(f) = Temps(m)
  BY <1>1, PopOK
<1> QED  BY <1>2, <1>3, CallsWith DEF m

LEMMA CreatedFrame ==
    ASSUME NEW r \in Value, NEW t \in 0 .. MaxTemps, NEW vs \in Seq(Value), Len(vs) <= t,
           NEW h, h = CreateFrame(r, vs, t)
    PROVE  /\ FrameOK(h) /\ h.kind # "block" /\ h.receiver = r
           /\ Ops(h) = << >> /\ IsPrefix(vs, Temps(h))
<1> DEFINE k == "method"
<1>1. t \in 0 .. FrameSize /\ k \in {"method", "closure"}
  BY Constants
<1>2. h = Filled(NewFrame(k, r, t, Nil, 0), 1, vs)
  BY DEF CreateFrame
<1>3. k # "block"
  OBVIOUS
<1> HIDE DEF k
<1>4. /\ h \in FrameState /\ Sound(h) /\ h.kind = k /\ h.receiver = r
      /\ Ops(h) = << >> /\ IsPrefix(vs, Temps(h))
  BY <1>1, <1>2, FilledFrame
<1> QED  BY <1>3, <1>4 DEF FrameOK

LEMMA SendBegins ==
    ASSUME OpInv, NEW c \in Context, NEW k \in Nat, NEW t \in 0 .. MaxTemps, SendMethod(c, k, t)
    PROVE  Begun(c, k + 1, Peek(Me, k), PeekN(Me, k))
<1> DEFINE n == k + 1
           r == Peek(Me, k)
           vs == PeekN(Me, k)
           h == CreateFrame(r, vs, t)
<1>1. n <= Depth(Me) /\ Unused(c) /\ k <= t /\ StackFrame(c, h, PopN(Me, n), n)
  BY DEF SendMethod, Takes
<1>2. n \in Nat /\ 1 <= n /\ k <= Depth(Me) /\ k + 1 <= Depth(Me)
  BY <1>1, MeIs
<1>3. r \in Value /\ vs \in Seq(Value) /\ Len(vs) = k
  BY <1>2, Operand, Operands
<1>4. c \notin Active /\ Fresh(c)
  BY <1>1, UnusedIs
<1> HIDE DEF r, vs, n
<1>5. /\ FrameOK(h) /\ h.kind # "block" /\ h.receiver = r
      /\ Ops(h) = << >> /\ IsPrefix(vs, Temps(h))
  BY <1>1, <1>3, CreatedFrame
<1> HIDE DEF h
<1>6. Called(c, n, h)
  BY <1>1, <1>2, <1>4, <1>5, CallsTaking
<1> QED  BY <1>5, <1>6 DEF Begun, n, r, vs

LEMMA MustBeBooleanBegins ==
    ASSUME OpInv, NEW c \in Context, NEW t \in 0 .. MaxTemps, MustBeBoolean(c, t)
    PROVE  Begun(c, 1, Peek(Me, 0), << >>)
<1> DEFINE n == 1
           z == 0
           r == Peek(Me, z)
           vs == << >>
           h == CreateFrame(r, vs, t)
<1>1. n <= Depth(Me) /\ Unused(c) /\ StackFrame(c, h, PopN(Me, n), n)
  BY DEF MustBeBoolean, Takes
<1>2. n \in Nat /\ 1 <= n /\ z \in Nat /\ z + 1 <= Depth(Me)
  BY <1>1
<1>3. vs \in Seq(Value) /\ Len(vs) <= t
  BY Constants
<1> HIDE DEF z
<1>3a. r \in Value
  BY <1>2, Operand
<1>4. c \notin Active /\ Fresh(c)
  BY <1>1, UnusedIs
<1> HIDE DEF r, vs, n
<1>5. /\ FrameOK(h) /\ h.kind # "block" /\ h.receiver = r
      /\ Ops(h) = << >> /\ IsPrefix(vs, Temps(h))
  BY <1>3, <1>3a, CreatedFrame
<1> HIDE DEF h
<1>6. Called(c, n, h)
  BY <1>1, <1>2, <1>4, <1>5, CallsTaking
<1>7. Begun(c, n, r, vs)
  BY <1>5, <1>6 DEF Begun
<1> QED  BY <1>7 DEF n, r, vs, z

LEMMA OneIs ==
    ASSUME NEW v \in Value
    PROVE  <<v>> \in Seq(Value) /\ Len(<<v>>) = 1
  OBVIOUS

LEMMA NotUnderstoodBegins ==
    ASSUME OpInv, NEW c \in Context, NEW k \in 0 .. MaxArgs, NEW t \in 0 .. MaxTemps,
           DoesNotUnderstand(c, k, t)
    PROVE  Begun(c, k + 1, Peek(Me, k), <<[message |-> PeekN(Me, k)]>>)
<1> DEFINE n == k + 1
           r == Peek(Me, k)
           q == PeekN(Me, k)
           v == [message |-> q]
           vs == <<v>>
           h == CreateFrame(r, vs, t)
<1>0. k \in Nat /\ k <= MaxArgs
  BY Constants
<1>1. /\ n <= Depth(Me) /\ Unused(c) /\ 1 <= t /\ ToSet(q) \subseteq Object
      /\ StackFrame(c, h, PopN(Me, n), n)
  BY DEF DoesNotUnderstand, NotUnderstoodFrom, Takes
<1>2. n \in Nat /\ 1 <= n /\ k <= Depth(Me) /\ k + 1 <= Depth(Me)
  BY <1>0, <1>1, MeIs
<1>3. r \in Value /\ q \in Seq(Value) /\ Len(q) = k
  BY <1>0, <1>2, Operand, Operands
<1> HIDE DEF q, r, n
<1>3a. v \in Value
  BY <1>0, <1>1, <1>3, NewMessageIs
<1> HIDE DEF v
<1>3b. vs \in Seq(Value) /\ Len(vs) <= t
  BY <1>1, <1>3a, OneIs
<1>4. c \notin Active /\ Fresh(c)
  BY <1>1, UnusedIs
<1> HIDE DEF vs
<1>5. /\ FrameOK(h) /\ h.kind # "block" /\ h.receiver = r
      /\ Ops(h) = << >> /\ IsPrefix(vs, Temps(h))
  BY <1>1, <1>3, <1>3b, CreatedFrame
<1> HIDE DEF h
<1>6. Called(c, n, h)
  BY <1>1, <1>2, <1>4, <1>5, CallsTaking
<1>7. Begun(c, n, r, vs)
  BY <1>5, <1>6 DEF Begun
<1> QED  BY <1>7 DEF n, r, vs, v, q

LEMMA OpsIs ==
    ASSUME NEW f, FrameOK(f)
    PROVE  /\ Ops(f) \in Seq(Value) /\ Len(Ops(f)) = Depth(f) /\ Depth(f) \in Nat
           /\ Depth(f) = f.sp - f.tempsize /\ f.sp \in Nat /\ f.tempsize \in Nat
           /\ f.sp <= FrameSize /\ FrameSize \in Nat
<1>1. f \in FrameState /\ Sound(f)
  BY DEF FrameOK
<1>4. /\ f.slots \in Slots /\ f.sp \in Nat /\ f.tempsize \in Nat /\ f.sp <= FrameSize
      /\ f.tempsize <= f.sp /\ FrameSize \in Nat
  BY <1>1, FrameFields, Constants DEF Sound
<1>5. Len(Ops(f)) = f.sp - f.tempsize /\ Ops(f) \in Seq(Value)
  BY <1>4, PartIs DEF Ops
<1> QED  BY <1>4, <1>5 DEF Depth

\* perform:withArguments: with its array taken away, and its arguments pushed.
LEMMA PerformFrames ==
    ASSUME NEW m, FrameOK(m), 3 <= Depth(m), NEW args \in Seq(Value),
           NEW f, f = PopN(m, 2), f.sp + Len(args) <= FrameSize,
           NEW p, p = PushAll(f, args)
    PROVE  /\ FrameOK(f) /\ SameFrame(f, m) /\ f.sp = m.sp - 2 /\ Depth(f) = Depth(m) - 2
           /\ RestOps(f, 1) = RestOps(m, 3) /\ Temps(f) = Temps(m)
           /\ FrameOK(p) /\ SameFrame(p, m) /\ p.sp = f.sp + Len(args)
           /\ Depth(p) = Depth(f) + Len(args) /\ Temps(p) = Temps(m)
           /\ RestOps(p, Len(args) + 1) = RestOps(m, 3)
<1> DEFINE two == 2
           q == Ops(m)
<1>2. /\ q \in Seq(Value) /\ Len(q) = Depth(m) /\ Depth(m) \in Nat
      /\ Depth(m) = m.sp - m.tempsize /\ m.sp \in Nat /\ m.tempsize \in Nat
  BY OpsIs
<1>1. two \in Nat /\ two <= Depth(m) /\ f = PopN(m, two)
  BY <1>2
<1> HIDE DEF two
<1>3. /\ FrameOK(f) /\ SameFrame(f, m) /\ f.sp = m.sp - two /\ Ops(f) = RestOps(m, two)
      /\ Temps(f) = Temps(m)
  BY <1>1, PopOK
<1>4. /\ FrameOK(p) /\ SameFrame(p, f) /\ p.sp = f.sp + Len(args)
      /\ Ops(p) = Ops(f) \o args /\ Temps(p) = Temps(f)
  BY <1>3, PushAllOK
<1>5. /\ Ops(f) \in Seq(Value) /\ Len(Ops(f)) = Depth(f) /\ Depth(f) = f.sp - f.tempsize
      /\ Depth(m) = m.sp - m.tempsize /\ Depth(p) = p.sp - p.tempsize
      /\ Ops(p) \in Seq(Value) /\ Len(Ops(p)) = Depth(p)
  BY <1>3, <1>4, OpsIs
<1>5a. p.tempsize = f.tempsize /\ f.tempsize = m.tempsize /\ Len(args) \in Nat
  BY <1>3, <1>4 DEF SameFrame
<1>6. Depth(f) = Depth(m) - 2
  <2>1. Depth(f) = (m.sp - 2) - m.tempsize
    BY <1>3, <1>5, <1>5a DEF two
  <2> QED  BY <1>2, <2>1
<1>7. Depth(p) = Depth(f) + Len(args)
  <2>1. Depth(p) = ((m.sp - 2) + Len(args)) - m.tempsize
    BY <1>3, <1>4, <1>5, <1>5a DEF two
  <2>2. Depth(f) = (m.sp - 2) - m.tempsize
    BY <1>3, <1>5, <1>5a DEF two
  <2> DEFINE x == m.sp
             y == m.tempsize
             n == Len(args)
  <2>3. x \in Nat /\ y \in Nat /\ n \in Nat
    BY <1>2, <1>5a
  <2> HIDE DEF x, y, n
  <2>4. ((x - 2) + n) - y = ((x - 2) - y) + n
    BY <2>3
  <2> QED  BY <2>1, <2>2, <2>4 DEF x, y, n
<1> DEFINE a == Depth(m) - 2
           b == Depth(m) - 3
<1>8. a \in Nat /\ b \in Nat /\ b <= a /\ a <= Len(q) /\ Depth(f) - 1 = b /\ Len(q) - 3 = b
      /\ Len(q) - two = a /\ b <= Depth(f) /\ Depth(p) - (Len(args) + 1) = b
  <2>1. Len(args) \in Nat
    OBVIOUS
  <2> QED  BY <1>2, <1>6, <1>7, <2>1 DEF two
<1> HIDE DEF a, b, q
<1>9. Ops(f) = SubSeq(q, 1, a) /\ RestOps(m, 3) = SubSeq(q, 1, b)
  BY <1>3, <1>8 DEF RestOps, q
<1>10. SubSeq(Ops(f), 1, b) = SubSeq(q, 1, b)
  BY <1>2, <1>8, <1>9, RestOfRest
<1>11. RestOps(f, 1) = RestOps(m, 3)
  BY <1>5, <1>8, <1>9, <1>10 DEF RestOps
<1>12. SubSeq(Ops(f) \o args, 1, b) = SubSeq(Ops(f), 1, b)
  BY <1>5, <1>8, RestOfConcat
<1>13. RestOps(p, Len(args) + 1) = RestOps(m, 3)
  BY <1>4, <1>5, <1>8, <1>9, <1>10, <1>12 DEF RestOps
<1> QED  BY <1>3, <1>4, <1>6, <1>7, <1>11, <1>13 DEF SameFrame, two

LEMMA PerformPrimitiveComputes ==
    ASSUME OpInv, NEW c \in Context, NEW t \in 0 .. MaxTemps, NEW v \in Value,
           PerformWithArguments(c, "primitive", t, v)
    PROVE  Computing
<1> DEFINE m == Me
           args == Peek(m, 0).array
           f == PopN(m, 2)
           p == PushAll(f, args)
           k == Len(args) + 1
           g == Push(PopN(p, k), v)
           n == 3
<1>1. /\ Takes(3) /\ Peek(m, 0) \in Array /\ f.sp + Len(args) <= FrameSize
      /\ SetFrame(g) /\ stack' = stack
  BY DEF PerformWithArguments
<1>2. args \in Seq(Value) /\ Len(args) \in Nat
  BY <1>1, ArrayIs
<1>3. FrameOK(m) /\ 3 <= Depth(m)
  BY <1>1, MeIs DEF Takes
<1> HIDE DEF m, args
<1> HIDE DEF f
<1> HIDE DEF p
<1>4. /\ FrameOK(f) /\ f.sp = m.sp - 2 /\ Depth(f) = Depth(m) - 2
      /\ FrameOK(p) /\ SameFrame(p, m) /\ p.sp = f.sp + Len(args)
      /\ Depth(p) = Depth(f) + Len(args) /\ Temps(p) = Temps(m)
      /\ RestOps(p, k) = RestOps(m, 3)
  BY <1>1, <1>2, <1>3, PerformFrames DEF f, p
<1>5. k \in Nat /\ k <= Depth(p) /\ p.sp - k + 1 <= FrameSize
  <2>1. /\ Depth(m) \in Nat /\ m.sp \in Nat /\ m.sp <= FrameSize /\ FrameSize \in Nat
    BY <1>3, OpsIs
  <2>2. Depth(p) = (Depth(m) - 2) + Len(args) /\ p.sp = (m.sp - 2) + Len(args)
    BY <1>4
  <2> QED  BY <1>2, <1>3, <2>1, <2>2
<1> HIDE DEF k
<1>5a. g = Push(PopN(p, k), v)
  OBVIOUS
<1> HIDE DEF g
<1>6. /\ FrameOK(g) /\ SameFrame(g, p) /\ Ops(g) = Append(RestOps(p, k), v) /\ Temps(g) = Temps(p)
  BY <1>4, <1>5, <1>5a, Replaced
<1>7. /\ frame' = [frame EXCEPT ![Running] = g]
  BY <1>1 DEF SetFrame
<1>8. n \in Nat /\ n <= Depth(Me) /\ Ops(g) = Append(RestOps(m, n), v)
  BY <1>3, <1>4, <1>6 DEF m
<1>9. SameFrame(g, Me) /\ Temps(g) = Temps(Me)
  BY <1>4, <1>6 DEF SameFrame, m
<1> HIDE DEF n
<1>10. \E w \in Value : Ops(g) = Append(RestOps(Me, n), w)
  BY <1>8 DEF m
<1> QED  BY <1>1, <1>6, <1>7, <1>8, <1>9, <1>10, Computes

LEMMA PerformMethodBegins ==
    ASSUME OpInv, NEW c \in Context, NEW t \in 0 .. MaxTemps, NEW v,
           PerformWithArguments(c, "method", t, v)
    PROVE  /\ Takes(3) /\ Peek(Me, 0) \in Array
           /\ Begun(c, 3, Peek(Me, 2), Peek(Me, 0).array)
<1> DEFINE m == Me
           args == Peek(m, 0).array
           f == PopN(m, 2)
           p == PushAll(f, args)
           o == 1
           e == PopN(f, o)
           n == 3
           two == 2
           r == Peek(Me, two)
           h == CreateFrame(r, args, t)
<1>1. /\ Takes(3) /\ Unused(c) /\ Peek(m, 0) \in Array /\ f.sp + Len(args) <= FrameSize
      /\ Len(args) <= t /\ StackFrame(c, h, e, n)
  BY DEF PerformWithArguments
<1>2. args \in Seq(Value) /\ Len(args) \in Nat
  BY <1>1, ArrayIs
<1>3. FrameOK(m) /\ 3 <= Depth(m) /\ two \in Nat /\ two + 1 <= Depth(Me)
  BY <1>1, MeIs DEF Takes
<1>3a. c \notin Active /\ Fresh(c)
  BY <1>1, UnusedIs
<1> HIDE DEF two
<1>3b. r \in Value
  BY <1>3, Operand
<1> HIDE DEF m, args, r
<1> HIDE DEF f
<1> HIDE DEF p
<1>4. /\ FrameOK(f) /\ SameFrame(f, m) /\ f.sp = m.sp - 2 /\ Depth(f) = Depth(m) - 2
      /\ RestOps(f, 1) = RestOps(m, 3) /\ Temps(f) = Temps(m)
  BY <1>1, <1>2, <1>3, PerformFrames DEF f, p
<1>5. /\ Depth(m) \in Nat /\ m.sp \in Nat /\ o \in Nat /\ o <= Depth(f)
  BY <1>3, <1>4, OpsIs
<1>5a. e = PopN(f, o)
  OBVIOUS
<1> HIDE DEF o, e
<1>6. /\ FrameOK(e) /\ SameFrame(e, f) /\ e.sp = f.sp - o /\ Ops(e) = RestOps(f, o)
      /\ Temps(e) = Temps(f)
  BY <1>4, <1>5, <1>5a, PopOK
<1>7. /\ n \in Nat /\ 1 <= n /\ n <= Depth(Me)
      /\ SameFrame(e, Me) /\ e.sp = Me.sp - n /\ Ops(e) = RestOps(Me, n) /\ Temps(e) = Temps(Me)
  BY <1>3, <1>4, <1>5, <1>6 DEF SameFrame, m, o
<1>8. /\ FrameOK(h) /\ h.kind # "block" /\ h.receiver = r
      /\ Ops(h) = << >> /\ IsPrefix(args, Temps(h))
  BY <1>1, <1>2, <1>3b, CreatedFrame
<1> HIDE DEF h, n
<1>9. Called(c, n, h)
  BY <1>1, <1>3a, <1>6, <1>7, <1>8, CallsWith
<1>10. Begun(c, n, r, args)
  BY <1>8, <1>9 DEF Begun
<1> QED  BY <1>1, <1>10 DEF n, r, args, m, two

\* The other ways that perform:withArguments: can go only leave a frame that is
\* sound.
LEMMA PerformLeaves ==
    ASSUME OpInv, NEW c \in Context, NEW t \in 0 .. MaxTemps, NEW v,
           NEW outcome \in {"failure", "doesNotUnderstand"},
           PerformWithArguments(c, outcome, t, v)
    PROVE  \E h : Leaves(c, h)
<1> DEFINE m == Me
           args == Peek(m, 0).array
           f == PopN(m, 2)
           p == PushAll(f, args)
           n == 3
           two == 2
           r == Peek(Me, two)
<1>1. /\ Takes(3) /\ Unused(c) /\ Peek(m, 0) \in Array /\ f.sp + Len(args) <= FrameSize
      /\ Len(args) <= t
  BY DEF PerformWithArguments
<1>2. args \in Seq(Value) /\ Len(args) \in 0 .. MaxListed
  BY <1>1, ArrayIs
<1>2a. Len(args) \in Nat /\ Len(args) <= MaxArgs
  BY <1>2, Constants
<1>3. FrameOK(m) /\ 3 <= Depth(m) /\ two \in Nat /\ two + 1 <= Depth(Me)
  BY <1>1, MeIs DEF Takes
<1>3a. c \notin Active /\ Fresh(c)
  BY <1>1, UnusedIs
<1> HIDE DEF two
<1>3b. r \in Value
  BY <1>3, Operand
<1>3c. /\ n \in Nat /\ n <= Me.sp
  BY <1>3, MeIs
<1>4. CASE outcome = "failure"
  <2> DEFINE o == 1
             e == PopN(p, o)
             h == CreateFrame(r, args, t)
  <2>1. StackFrame(c, h, e, n)
    BY <1>4 DEF PerformWithArguments, two
  <2> HIDE DEF m, args, r
  <2> HIDE DEF f
  <2>2. /\ FrameOK(f) /\ Depth(f) = Depth(m) - 2
        /\ FrameOK(p) /\ p.sp = f.sp + Len(args)
        /\ Depth(p) = Depth(f) + Len(args)
    BY <1>1, <1>2, <1>3, PerformFrames DEF f
  <2> HIDE DEF p
  <2>3. o \in Nat /\ o <= Depth(p) /\ e = PopN(p, o)
    <3>1. Depth(m) \in Nat
      BY <1>3, OpsIs
    <3> QED  BY <1>2a, <1>3, <2>2, <3>1
  <2> HIDE DEF o, e
  <2>4. FrameOK(e) /\ e.sp = p.sp - o
    BY <2>2, <2>3, PopOK
  <2>5. HasPlace(e)
    <3>1. p.sp \in Nat /\ p.sp <= FrameSize /\ FrameSize \in Nat
      BY <2>2, OpsIs
    <3> QED  BY <2>4, <3>1 DEF HasPlace, o
  <2>6. FrameOK(h)
    BY <1>1, <1>2, <1>3b, CreatedFrame
  <2> HIDE DEF h, n
  <2> QED  BY <1>3a, <1>3c, <2>1, <2>4, <2>5, <2>6, LeavesWith
<1>5. CASE outcome = "doesNotUnderstand"
  <2> DEFINE k == Len(args)
             q == PeekN(f, k)
             w == [message |-> q]
             vs == <<w>>
             h == CreateFrame(r, vs, t)
             o == k + 1
             e == PopN(f, o)
  <2>1. /\ Depth(f) > k /\ 1 <= t /\ ToSet(q) \subseteq Object
        /\ StackFrame(c, h, e, n)
    BY <1>5 DEF PerformWithArguments, NotUnderstoodFrom, two
  <2> HIDE DEF m, args, r
  <2> HIDE DEF f
  <2>2. /\ FrameOK(f) /\ f.sp = m.sp - 2 /\ Depth(f) = Depth(m) - 2
    BY <1>1, <1>2, <1>3, PerformFrames DEF f, p
  <2>3. f \in FrameState /\ Sound(f) /\ k \in Nat /\ k <= f.sp - f.tempsize /\ Depth(f) \in Nat
    BY <1>2a, <2>1, <2>2, OpsIs DEF FrameOK
  <2> HIDE DEF k, q
  <2>4. q \in Seq(Value) /\ Len(q) = k
    BY <2>3, PeekNIs DEF q
  <2>5. w \in Value
    BY <1>2a, <2>1, <2>4, NewMessageIs DEF k
  <2> HIDE DEF w
  <2>6. vs \in Seq(Value) /\ Len(vs) <= t
    BY <2>1, <2>5, OneIs
  <2> HIDE DEF vs
  <2>7. FrameOK(h)
    BY <1>3b, <2>6, CreatedFrame
  <2>8. o \in Nat /\ o <= Depth(f) /\ e = PopN(f, o)
    BY <2>1, <2>3
  <2>9. 1 <= o
    BY <2>3
  <2> HIDE DEF o, e, h, n
  <2>10. FrameOK(e) /\ e.sp = f.sp - o
    BY <2>2, <2>8, PopOK
  <2>11. HasPlace(e)
    <3>1. f.sp \in Nat /\ f.sp <= FrameSize /\ FrameSize \in Nat
      BY <2>2, OpsIs
    <3> QED  BY <2>8, <2>9, <2>10, <3>1 DEF HasPlace
  <2> QED  BY <1>3a, <1>3c, <2>1, <2>7, <2>10, <2>11, LeavesWith
<1> QED  BY <1>4, <1>5

LEMMA WithArgsBegins ==
    ASSUME OpInv, NEW c \in Context, NEW t \in 0 .. MaxTemps, WithArgsExecuteMethod(c, t)
    PROVE  /\ Takes(3) /\ Peek(Me, 1) \in Array
           /\ Begun(c, 3, Peek(Me, 2), Peek(Me, 1).array)
<1> DEFINE n == 3
           two == 2
           r == Peek(Me, two)
           vs == Peek(Me, 1).array
           h == CreateFrame(r, vs, t)
<1>1. /\ Takes(n) /\ Unused(c) /\ Peek(Me, 1) \in Array /\ Len(vs) <= t
      /\ StackFrame(c, h, PopN(Me, n), n)
  BY DEF WithArgsExecuteMethod
<1>2. n \in Nat /\ 1 <= n /\ n <= Depth(Me) /\ two \in Nat /\ two + 1 <= Depth(Me)
  BY <1>1, MeIs DEF Takes
<1>3. vs \in Seq(Value)
  BY <1>1, ArrayIs
<1>4. c \notin Active /\ Fresh(c)
  BY <1>1, UnusedIs
<1>0. Takes(3)
  BY <1>1
<1> HIDE DEF two, n, vs
<1>3a. r \in Value
  BY <1>2, Operand
<1> HIDE DEF r
<1>5. /\ FrameOK(h) /\ h.kind # "block" /\ h.receiver = r
      /\ Ops(h) = << >> /\ IsPrefix(vs, Temps(h))
  BY <1>1, <1>3, <1>3a, CreatedFrame
<1> HIDE DEF h
<1>6. Called(c, n, h)
  BY <1>1, <1>2, <1>4, <1>5, CallsTaking
<1>7. Begun(c, n, r, vs)
  BY <1>5, <1>6 DEF Begun
<1> QED  BY <1>0, <1>1, <1>7 DEF n, r, vs, two

LEMMA BlockFrame ==
    ASSUME NEW f, FrameOK(f), Rested(f), f.kind = "block", NEW vs \in Seq(Value),
           Len(vs) <= FrameSize, NEW h, h = PushAll(f, vs)
    PROVE  /\ f.sp = 0 /\ FrameOK(h) /\ SameFrame(h, f) /\ Ops(h) = vs /\ Temps(h) = Temps(f)
<1>1. f.sp = 0 /\ f.tempsize = 0
  BY DEF Rested, FrameOK
<1>2. Ops(f) \in Seq(Value) /\ Len(Ops(f)) = 0
  BY <1>1, OpsIs
<1>3. Len(vs) \in Nat
  OBVIOUS
<1>4. f.sp + Len(vs) <= FrameSize
  BY <1>1, <1>3
<1>5. FrameOK(h) /\ SameFrame(h, f) /\ Ops(h) = Ops(f) \o vs /\ Temps(h) = Temps(f)
  BY <1>4, PushAllOK
<1>6. Ops(f) = << >>
  BY <1>2
<1>7. << >> \o vs = vs
  OBVIOUS
<1> QED  BY <1>1, <1>5, <1>6, <1>7

LEMMA BlockEvaluated ==
    ASSUME OpInv, NEW n \in Nat, 1 <= n, n <= Depth(Me), NEW c, EvaluableBlock(c),
           NEW h, NEW vs, FrameOK(h), SameFrame(h, frame[c]), Ops(h) = vs, Temps(h) = Temps(frame[c]),
           StackFrame(c, h, PopN(Me, n), n)
    PROVE  Evaluated(c, n, vs)
<1>1. c \in Context /\ c \notin Active /\ h.receiver = frame[c].receiver
  BY DEF EvaluableBlock, SameFrame
<1>2. Called(c, n, h)
  BY <1>1, CallsTaking
<1> QED  BY <1>2 DEF Evaluated

LEMMA EvaluableIs ==
    ASSUME OpInv, NEW c, EvaluableBlock(c)
    PROVE  /\ c \in Context /\ FrameOK(frame[c]) /\ Rested(frame[c]) /\ frame[c].kind = "block"
<1>1. c \in Context /\ c \notin Active /\ frame[c].kind = "block"
  BY DEF EvaluableBlock
<1> QED  BY <1>1, MeIs DEF FramesOK, Active

\* Primitive 81: the operands of a block that is not active are gone anyway.
LEMMA Value0Evaluates ==
    ASSUME OpInv, NEW k \in Nat, Value0(k)
    PROVE  Takes(k + 1) /\ Evaluated(Peek(Me, k), k + 1, PeekN(Me, k))
<1> DEFINE c == Peek(Me, k)
           vs == PeekN(Me, k)
           n == k + 1
           f == frame[c]
           e == PopN(f, f.sp)
           h == PushAll(e, vs)
<1>1. n <= Depth(Me) /\ EvaluableBlock(c) /\ StackFrame(c, h, PopN(Me, n), n)
  BY DEF Value0, Takes
<1>2. n \in Nat /\ 1 <= n /\ k <= Depth(Me) /\ k + 1 <= Depth(Me)
  BY <1>1, MeIs
<1>3. vs \in Seq(Value) /\ Len(vs) = k /\ k <= FrameSize
  BY <1>2, MeIs, Operands, Constants
<1> HIDE DEF c, vs, n
<1>4. FrameOK(f) /\ Rested(f) /\ f.kind = "block"
  BY <1>1, EvaluableIs
<1> DEFINE z == f.sp
<1>5. z \in Nat /\ z <= Depth(f) /\ e = PopN(f, z) /\ z = 0
  <2>1. f.sp = 0 /\ Depth(f) \in Nat
    BY <1>4, OpsIs DEF Rested
  <2> QED  BY <2>1
<1> HIDE DEF f, z
<1>6. FrameOK(e) /\ SameFrame(e, f) /\ e.sp = f.sp - z /\ Temps(e) = Temps(f)
  BY <1>4, <1>5, PopOK
<1>7. e.kind = "block" /\ Rested(e)
  BY <1>4, <1>5, <1>6 DEF SameFrame, Rested, z
<1> HIDE DEF e
<1>8. FrameOK(h) /\ SameFrame(h, e) /\ Ops(h) = vs /\ Temps(h) = Temps(e)
  BY <1>3, <1>6, <1>7, BlockFrame
<1> HIDE DEF h
<1>9. SameFrame(h, frame[c]) /\ Temps(h) = Temps(frame[c])
  BY <1>6, <1>8 DEF SameFrame, f
<1>10. Evaluated(c, n, vs)
  BY <1>1, <1>2, <1>8, <1>9, BlockEvaluated
<1> QED  BY <1>1, <1>10 DEF c, vs, n, Takes

\* Primitive 82 does not empty the block: it is empty.
LEMMA ValueWithArgsEvaluates ==
    ASSUME OpInv, ValueWithArgs
    PROVE  /\ Takes(2) /\ Peek(Me, 0) \in Array
           /\ Evaluated(Peek(Me, 1), 2, Peek(Me, 0).array)
<1> DEFINE c == Peek(Me, 1)
           vs == Peek(Me, 0).array
           n == 2
           f == frame[c]
           h == PushAll(f, vs)
<1>1. /\ Takes(2) /\ n <= Depth(Me) /\ EvaluableBlock(c) /\ StackFrame(c, h, PopN(Me, n), n)
      /\ Peek(Me, 0) \in Array /\ f.eargc = Len(vs) /\ f.sp + f.eargc <= FrameSize
  BY DEF ValueWithArgs, Takes
<1>2. n \in Nat /\ 1 <= n
  OBVIOUS
<1>3. vs \in Seq(Value)
  BY <1>1, ArrayIs
<1> HIDE DEF c, vs, n
<1>4. FrameOK(f) /\ Rested(f) /\ f.kind = "block"
  BY <1>1, EvaluableIs
<1>5. Len(vs) <= FrameSize
  BY <1>1, <1>3, <1>4 DEF Rested
<1> HIDE DEF f
<1>8. FrameOK(h) /\ SameFrame(h, f) /\ Ops(h) = vs /\ Temps(h) = Temps(f)
  BY <1>3, <1>4, <1>5, BlockFrame
<1> HIDE DEF h
<1>9. SameFrame(h, frame[c]) /\ Temps(h) = Temps(frame[c])
  BY <1>8 DEF f
<1>10. Evaluated(c, n, vs)
  BY <1>1, <1>2, <1>8, <1>9, BlockEvaluated
<1> QED  BY <1>1, <1>10 DEF c, vs, n

LEMMA ActivateBegins ==
    ASSUME OpInv, NEW c \in Context, NEW v \in Value, NEW args \in Seq(Value),
           NEW n \in Nat, 1 <= n, n <= Depth(Me), ActivateClosure(c, v, args, n)
    PROVE  v \in Closure /\ Begun(c, n, ReceiverOf(v.outer), args \o v.copied)
<1> DEFINE vs == args \o v.copied
           r == ReceiverOf(v.outer)
           k == "closure"
           t == Len(vs)
           h == Filled(NewFrame(k, r, t, Nil, 0), 1, vs)
<1>1. /\ Unused(c) /\ v \in Closure /\ v.numArgs = Len(args)
      /\ StackFrame(c, h, PopN(Me, n), n)
  BY DEF ActivateClosure
<1>2. /\ v.outer \in Context /\ v.numArgs \in 0 .. MaxListed
      /\ v.copied \in Seq(Value) /\ Len(v.copied) \in 0 .. 1
  BY <1>1, ClosureIs
<1>3. vs \in Seq(Value) /\ t = Len(args) + Len(v.copied)
  BY <1>2, ConcatIs
<1>4. t \in 0 .. FrameSize /\ Len(vs) <= t
  <2> DEFINE x == Len(args)
             y == Len(v.copied)
  <2>1. /\ MaxListed \in Nat /\ FrameSize \in Nat /\ MaxListed < FrameSize
        /\ x \in 0 .. MaxListed /\ y \in 0 .. 1
    BY <1>1, <1>2, Constants
  <2>2. t = x + y
    BY <1>3
  <2> HIDE DEF x, y, vs
  <2> QED  BY <2>1, <2>2
<1>5. r \in Value
  BY <1>2, HolderIs
<1>6. k \in {"method", "closure"} /\ k # "block"
  OBVIOUS
<1>7. c \notin Active /\ Fresh(c)
  BY <1>1, UnusedIs
<1> HIDE DEF k, r, t, vs
<1>8. /\ h \in FrameState /\ Sound(h) /\ h.kind = k /\ h.receiver = r
      /\ Ops(h) = << >> /\ IsPrefix(vs, Temps(h))
  BY <1>3, <1>4, <1>5, <1>6, FilledFrame
<1>9. FrameOK(h)
  BY <1>6, <1>8 DEF FrameOK
<1> HIDE DEF h
<1>10. Called(c, n, h)
  BY <1>1, <1>7, <1>9, CallsTaking
<1>11. Begun(c, n, r, vs)
  BY <1>6, <1>8, <1>10 DEF Begun
<1> QED  BY <1>1, <1>11 DEF r, vs

LEMMA ClosureValueBegins ==
    ASSUME OpInv, NEW c \in Context, NEW k \in Nat, ClosureValue(c, k)
    PROVE  /\ Takes(k + 1) /\ Peek(Me, k) \in Closure
           /\ Begun(c, k + 1, ReceiverOf(Peek(Me, k).outer), PeekN(Me, k) \o Peek(Me, k).copied)
<1> DEFINE v == Peek(Me, k)
           vs == PeekN(Me, k)
           n == k + 1
<1>1. n <= Depth(Me) /\ ActivateClosure(c, v, vs, n)
  BY DEF ClosureValue, Takes
<1>2. n \in Nat /\ 1 <= n /\ k <= Depth(Me) /\ k + 1 <= Depth(Me)
  BY <1>1, MeIs
<1>3. vs \in Seq(Value) /\ v \in Value
  BY <1>2, Operands, Operand
<1> HIDE DEF v, vs, n
<1>4. v \in Closure /\ Begun(c, n, ReceiverOf(v.outer), vs \o v.copied)
  BY <1>1, <1>2, <1>3, ActivateBegins
<1> QED  BY <1>1, <1>4 DEF v, vs, n, Takes

LEMMA ClosureValueWithArgsBegins ==
    ASSUME OpInv, NEW c \in Context, ClosureValueWithArgs(c)
    PROVE  /\ Takes(2) /\ Peek(Me, 0) \in Array /\ Peek(Me, 1) \in Closure
           /\ Begun(c, 2, ReceiverOf(Peek(Me, 1).outer), Peek(Me, 0).array \o Peek(Me, 1).copied)
<1> DEFINE o == 1
           v == Peek(Me, o)
           vs == Peek(Me, 0).array
           n == 2
<1>1. /\ Takes(2) /\ n <= Depth(Me) /\ ActivateClosure(c, v, vs, n) /\ Peek(Me, 0) \in Array
  BY DEF ClosureValueWithArgs, Takes
<1>2. n \in Nat /\ 1 <= n /\ o \in Nat /\ o + 1 <= Depth(Me)
  BY <1>1
<1> HIDE DEF o
<1>3. vs \in Seq(Value) /\ v \in Value
  BY <1>1, <1>2, ArrayIs, Operand
<1> HIDE DEF v, vs, n
<1>4. v \in Closure /\ Begun(c, n, ReceiverOf(v.outer), vs \o v.copied)
  BY <1>1, <1>2, <1>3, ActivateBegins
<1> QED  BY <1>1, <1>4 DEF v, vs, n, o

\* A block is made for the context c.
MakesBlock(c) ==
    /\ c \in Context /\ c \notin Active /\ Fresh(c)
    /\ 2 <= Len(Ops(Me))
    /\ stack' = stack
    /\ \E g, h : /\ frame' = [frame EXCEPT ![Running] = g, ![c] = h]
                 /\ FrameOK(g) /\ FrameOK(h) /\ Rested(h) /\ SameFrame(g, Me)
                 /\ Ops(g) = Append(RestOps(Me, 2), c) /\ Temps(g) = Temps(Me)
                 /\ Ops(h) = << >> /\ Temps(h) = << >>

LEMMA BlockCopyMakes ==
    ASSUME OpInv, NEW c \in Context, NEW e \in 0 .. MaxListed, BlockCopy(c, e)
    PROVE  MakesBlock(c)
<1> DEFINE two == 2
           m == Me
           g == Push(PopN(m, two), c)
           k == "block"
           r == Nil
           t == 0
           x == Holder(Peek(Me, 1))
           h == NewFrame(k, r, t, x, e)
<1>1. /\ two <= Depth(m) /\ Unused(c) /\ Peek(Me, 1) \in Context
      /\ frame' = [frame EXCEPT ![Running] = g, ![c] = h]
      /\ stack' = stack
  BY DEF BlockCopy, Takes
<1>2. c \notin Active /\ Fresh(c)
  BY <1>1, UnusedIs
<1>3. FrameOK(m) /\ m.sp \in Nat /\ m.sp <= FrameSize /\ FrameSize \in Nat
  BY MeIs, Constants
<1>4. two \in Nat /\ c \in Value /\ m.sp - two + 1 <= FrameSize /\ 2 <= Len(Ops(m))
  BY <1>1, <1>3, MeIs, Constants
<1>5. x \in Context /\ x \in Context \union {Nil}
  BY <1>1, HolderIs
<1>6. k \in FrameKinds /\ t \in 0 .. FrameSize /\ r \in Value /\ e \in 0 .. MaxArgs
  BY Constants DEF FrameKinds
<1> HIDE DEF x, k, r, m, t
<1>7. /\ h \in FrameState /\ Sound(h) /\ h.kind = k /\ h.tempsize = t /\ h.home = x /\ h.sp = t
      /\ Ops(h) = << >> /\ Len(Temps(h)) = t /\ Temps(h) \in Seq(Value)
  BY <1>5, <1>6, NewFrameSound
<1> HIDE DEF h
<1>8. FrameOK(h) /\ Rested(h)
  BY <1>5, <1>7 DEF FrameOK, Rested, t
<1>9. Temps(h) = << >>
  BY <1>7 DEF t
<1>10. g = Push(PopN(m, two), c)
  OBVIOUS
<1> HIDE DEF g, two
<1>11. /\ FrameOK(g) /\ SameFrame(g, m)
       /\ Ops(g) = Append(RestOps(m, two), c) /\ Temps(g) = Temps(m)
  BY <1>1, <1>3, <1>4, <1>10, Replaced
<1>12. /\ FrameOK(g) /\ SameFrame(g, Me)
       /\ Ops(g) = Append(RestOps(Me, 2), c) /\ Temps(g) = Temps(Me) /\ 2 <= Len(Ops(Me))
  BY <1>4, <1>11 DEF m, two
<1> QED  BY <1>1, <1>2, <1>7, <1>8, <1>9, <1>12 DEF MakesBlock

--------------------------------------------------------------------------------
(* Stores into temporaries, and into contexts that wait.                     *)

LEMMA TempStored ==
    ASSUME NEW k, FrameOK(k), NEW i \in 1 .. FrameSize, i <= k.tempsize, NEW v \in Value,
           NEW h, h = [k EXCEPT !.slots[i] = v]
    PROVE  /\ FrameOK(h) /\ SameFrame(h, k) /\ h.sp = k.sp /\ Ops(h) = Ops(k)
           /\ i \in DOMAIN Temps(k) /\ Temps(h) = [Temps(k) EXCEPT ![i] = v]
<1> DEFINE old == k.slots
           ss == [old EXCEPT ![i] = v]
           t == k.tempsize
           m == k.sp
<1>1. k \in FrameState /\ Sound(k)
  BY DEF FrameOK
<1>2. /\ old \in Slots /\ m \in Nat /\ t \in Nat /\ m <= FrameSize /\ m \in 0 .. FrameSize
      /\ t <= m /\ t <= FrameSize /\ FrameSize \in Nat /\ i <= t /\ i \in Nat
  BY <1>1, FrameFields, Constants DEF Sound
<1>3. h = With(k, ss, m)
  BY <1>1 DEF With, FrameState
<1>4. /\ ss \in Slots /\ ss[i] = v /\ \A j \in 1 .. FrameSize : j # i => ss[j] = old[j]
  BY <1>2 DEF Slots
<1> HIDE DEF ss, old, m
<1>5. /\ h \in FrameState /\ h.slots = ss /\ h.sp = m /\ SameFrame(h, k)
  <2>1. ss \in Slots /\ m \in 0 .. FrameSize /\ k \in FrameState
    BY <1>1, <1>2, <1>4
  <2> DEFINE w == With(k, ss, m)
  <2>2. w \in FrameState /\ w.slots = ss /\ w.sp = m /\ SameFrame(w, k)
    BY <2>1, Reslotted
  <2>3. h = w
    BY <1>3
  <2> HIDE DEF w
  <2> QED  BY <2>2, <2>3
<1>6. h.tempsize = t
  BY <1>5 DEF SameFrame
<1>7. Sound(h)
  <2>1. \A j \in 1 .. FrameSize : j > m => old[j] = Nil
    BY <1>1 DEF Sound, old, m
  <2>2. \A j \in 1 .. FrameSize : j > m => j # i
    BY <1>2
  <2> QED  BY <1>2, <1>4, <1>5, <1>6, <2>1, <2>2 DEF Sound
<1> HIDE DEF t
<1>8. Part(ss, t, m) = Part(old, t, m)
  <2>1. \A j \in 1 .. FrameSize : t < j /\ j <= m => ss[j] = old[j]
    BY <1>2, <1>4
  <2> QED  BY <1>2, <1>4, <2>1, PartAgrees
<1> DEFINE z == 0
           q == Part(old, z, t)
           r == Part(ss, z, t)
<1>9. z \in Nat /\ z <= t /\ t - z = t
  BY <1>2
<1>9a. \A j \in 1 .. t : z + j = j
  OBVIOUS
<1> HIDE DEF z
<1>10. /\ q = [j \in 1 .. t - z |-> old[z + j]]
       /\ r = [j \in 1 .. t - z |-> ss[z + j]]
  BY <1>2, <1>4, <1>9, PartIs
<1> HIDE DEF q, r
<1>11. /\ q = [j \in 1 .. t |-> old[j]]
       /\ r = [j \in 1 .. t |-> ss[j]]
  BY <1>9, <1>9a, <1>10
<1>12. i \in 1 .. t /\ \A j \in 1 .. t : j \in 1 .. FrameSize
  BY <1>2
<1>13. r = [q EXCEPT ![i] = v] /\ i \in DOMAIN q
  BY <1>4, <1>11, <1>12
<1>14. Temps(k) = q /\ Temps(h) = r /\ Ops(k) = Part(old, t, m) /\ Ops(h) = Part(ss, t, m)
  BY <1>5, <1>6 DEF Temps, Ops, q, r, z, t, m, old
<1>15. FrameOK(h)
  BY <1>5, <1>7 DEF FrameOK, SameFrame
<1> QED  BY <1>5, <1>8, <1>13, <1>14, <1>15 DEF m

\* A frame gets other slots, and stays as large.
LEMMA SizeKeeps ==
    ASSUME NEW s, StackOK(s), NEW fr, FramesOK(fr, s), NEW c \in Context, NEW g, FrameOK(g),
           g.kind = fr[c].kind, g.sp = fr[c].sp, NEW fr2, fr2 = [fr EXCEPT ![c] = g]
    PROVE  FramesOK(fr2, s)
<1>2. g \in FrameState
  BY DEF FrameOK
<1>3. fr \in [Context -> FrameState]
  BY DEF FramesOK
<1>4. /\ fr2 \in [Context -> FrameState] /\ fr2[c] = g
      /\ \A d \in Context : d # c => fr2[d] = fr[d]
  BY <1>2, <1>3
<1>5. \A d \in Context : FrameOK(fr2[d])
  BY <1>4 DEF FramesOK
<1>6. \A d \in Context \ ToSet(s) : Rested(fr2[d])
  <2> SUFFICES ASSUME NEW d \in Context, d \notin ToSet(s) PROVE Rested(fr2[d])
    OBVIOUS
  <2>1. Rested(fr[d])
    BY DEF FramesOK
  <2> QED  BY <1>4, <2>1 DEF Rested
<1>7. \A d \in Above(s) : HasPlace(fr2[d])
  <2> SUFFICES ASSUME NEW d \in Above(s) PROVE HasPlace(fr2[d])
    OBVIOUS
  <2>1. HasPlace(fr[d]) /\ d \in Context
    BY StackIs DEF FramesOK
  <2> QED  BY <1>4, <2>1 DEF HasPlace
<1> QED  BY <1>4, <1>5, <1>6, <1>7 DEF FramesOK

\* A temporary is assigned: one of the running context, or of its home.
Assigned(i, popped) ==
    /\ stack' = stack
    /\ FramesOK(frame', stack)
    /\ 1 <= Len(Ops(Me))
    /\ i \in DOMAIN Temps(frame[Holder(Running)])
    /\ \A d \in Context : SameFrame(frame'[d], frame[d])
    /\ \A d \in Context \ {Running} : frame'[d].sp = frame[d].sp /\ Ops(frame'[d]) = Ops(frame[d])
    /\ Ops(frame'[Running]) = RestOps(Me, popped)
    /\ \A d \in Context \ {Holder(Running)} : Temps(frame'[d]) = Temps(frame[d])
    /\ Temps(frame'[Holder(Running)]) =
          [Temps(frame[Holder(Running)]) EXCEPT ![i] = Peek(Me, 0)]

LEMMA StoreTempAssigns ==
    ASSUME OpInv, NEW i \in 1 .. FrameSize, NEW popped \in 0 .. 1, StoreTemp(i, popped)
    PROVE  Assigned(i, popped)
<1> DEFINE H == Holder(Running)
           m == Me
           z == 0
           v == Peek(m, z)
           g == PopN(m, popped)
           fr1 == [frame EXCEPT ![Running] = g]
           k == fr1[H]
           h == [k EXCEPT !.slots[i] = v]
<1>1. /\ 1 <= Depth(m) /\ i <= frame[H].tempsize
      /\ frame' = [fr1 EXCEPT ![H].slots[i] = v]
      /\ stack' = stack
  BY DEF StoreTemp, Takes
<1>2. /\ Running \in Context /\ FrameOK(m) /\ StackOK(stack) /\ FramesOK(frame, stack)
      /\ Len(Ops(m)) = Depth(m) /\ Depth(m) \in Nat /\ frame \in [Context -> FrameState]
      /\ m = frame[Running]
  BY MeIs DEF Me
<1>3. H \in Context /\ FrameOK(frame[H])
  BY <1>2, HolderIs
<1>4. v \in Value
  <2>1. z \in Nat /\ z + 1 <= Depth(Me)
    BY <1>1
  <2> HIDE DEF z
  <2> QED  BY <2>1, Operand
<1>5. popped \in Nat /\ popped <= Depth(m)
  BY <1>1, <1>2
<1> HIDE DEF m, v, z
<1>6. FrameOK(g) /\ SameFrame(g, m) /\ Ops(g) = RestOps(m, popped) /\ Temps(g) = Temps(m)
  BY <1>2, <1>5, PopOK
<1> HIDE DEF g, H
<1>7. FramesOK(fr1, stack)
  BY <1>2, <1>6, MoveKeeps DEF Running
<1>8. /\ fr1 \in [Context -> FrameState] /\ fr1[Running] = g
      /\ \A d \in Context \ {Running} : fr1[d] = frame[d]
  BY <1>2, <1>6 DEF FrameOK
<1> HIDE DEF fr1
<1>9. FrameOK(k) /\ k.tempsize = frame[H].tempsize /\ Temps(k) = Temps(frame[H])
      /\ SameFrame(k, frame[H])
  <2>1. CASE H = Running
    BY <1>2, <1>6, <1>8, <2>1 DEF SameFrame
  <2>2. CASE H # Running
    BY <1>3, <1>8, <2>2 DEF SameFrame
  <2> QED  BY <2>1, <2>2
<1>10. frame' = [fr1 EXCEPT ![H] = h]
  BY <1>1, <1>3, <1>8
<1>10a. i <= k.tempsize
  BY <1>1, <1>9
<1> HIDE DEF k
<1>11. /\ FrameOK(h) /\ SameFrame(h, k) /\ h.sp = k.sp /\ Ops(h) = Ops(k)
       /\ i \in DOMAIN Temps(k) /\ Temps(h) = [Temps(k) EXCEPT ![i] = v]
  BY <1>4, <1>9, <1>10a, TempStored
<1> HIDE DEF h
<1>12. FramesOK(frame', stack)
  BY <1>2, <1>3, <1>7, <1>10, <1>11, SizeKeeps DEF k, SameFrame
<1>13. /\ frame'[H] = h /\ \A d \in Context \ {H} : frame'[d] = fr1[d]
  BY <1>3, <1>8, <1>10
<1>14. \A d \in Context : SameFrame(frame'[d], frame[d])
  <2> SUFFICES ASSUME NEW d \in Context PROVE SameFrame(frame'[d], frame[d])
    OBVIOUS
  <2>1. CASE d = H
    BY <1>9, <1>11, <1>13, <2>1 DEF SameFrame
  <2>2. CASE d # H /\ d = Running
    BY <1>2, <1>6, <1>8, <1>13, <2>2
  <2>3. CASE d # H /\ d # Running
    BY <1>8, <1>13, <2>3 DEF SameFrame
  <2> QED  BY <2>1, <2>2, <2>3
<1>15. \A d \in Context \ {Running} : frame'[d].sp = frame[d].sp /\ Ops(frame'[d]) = Ops(frame[d])
  BY <1>8, <1>11, <1>13 DEF k
<1>16. Ops(frame'[Running]) = RestOps(m, popped)
  BY <1>2, <1>6, <1>8, <1>11, <1>13 DEF k
<1>17. \A d \in Context \ {H} : Temps(frame'[d]) = Temps(frame[d])
  BY <1>2, <1>6, <1>8, <1>13
<1>18. /\ i \in DOMAIN Temps(frame[H])
       /\ Temps(frame'[H]) = [Temps(frame[H]) EXCEPT ![i] = v]
  BY <1>9, <1>11, <1>13
<1>19. 1 <= Len(Ops(m))
  BY <1>1, <1>2
<1> QED  BY <1>1, <1>12, <1>14, <1>15, <1>16, <1>17, <1>18, <1>19 DEF Assigned, H, m, v, z

\* The stack of a waiting context is made longer or shorter, and it waits with it.
Resized(c) ==
    /\ stack' = stack
    /\ c \in Above(stack)
    /\ \E g : /\ frame' = [frame EXCEPT ![c] = g]
              /\ FrameOK(g) /\ HasPlace(g) /\ g.sp = g.due
              /\ g.kind = frame[c].kind /\ g.home = frame[c].home
              /\ g.receiver = frame[c].receiver /\ Temps(g) = Temps(frame[c])
              /\ \/ \E n \in 0 .. Len(Ops(frame[c])) : Ops(g) = SubSeq(Ops(frame[c]), 1, n)
                 \/ \E n \in 0 .. FrameSize : Ops(g) = Ops(frame[c]) \o [i \in 1 .. n |-> Nil]

LEMMA StoreStackpResizes ==
    ASSUME OpInv, NEW c \in Context, NEW n \in 0 .. FrameSize, StoreStackp(c, n)
    PROVE  Resized(c)
<1> DEFINE f == frame[c]
           e == StoreStackPointer(f, n)
           g == [e EXCEPT !.due = n]
<1>1. /\ c \in Above(stack) /\ f.tempsize <= n /\ n < FrameSize
      /\ frame' = [frame EXCEPT ![c] = g] /\ stack' = stack
  BY DEF StoreStackp, Waiting, Active, Running, Above
<1>2. FrameOK(f)
  BY MeIs DEF FramesOK
<1> HIDE DEF f
<1>3. f \in FrameState /\ Sound(f) /\ n \in Nat /\ n <= FrameSize
  BY <1>2, Constants DEF FrameOK
<1>4. /\ e \in FrameState /\ Sound(e) /\ SameFrame(e, f) /\ e.sp = n
      /\ Temps(e) = Temps(f)
      /\ \/ Ops(e) = SubSeq(Ops(f), 1, n - f.tempsize) /\ n < f.sp
         \/ Ops(e) = Ops(f) \o [i \in 1 .. n - f.sp |-> Nil] /\ n >= f.sp
  BY <1>1, <1>3, StackPointerStored
<1> HIDE DEF e
<1>5. FrameOK(e)
  BY <1>2, <1>4 DEF FrameOK, SameFrame
<1>6. /\ FrameOK(g) /\ g.due = n /\ g.sp = e.sp /\ Ops(g) = Ops(e) /\ Temps(g) = Temps(e)
      /\ g.kind = e.kind /\ g.receiver = e.receiver /\ g.home = e.home
  BY <1>5, DueSet
<1> HIDE DEF g
<1>7. /\ \/ \E j \in 0 .. Len(Ops(f)) : Ops(g) = SubSeq(Ops(f), 1, j)
         \/ \E j \in 0 .. FrameSize : Ops(g) = Ops(f) \o [i \in 1 .. j |-> Nil]
  <2>1. /\ Len(Ops(f)) = f.sp - f.tempsize /\ f.sp \in Nat /\ f.tempsize \in Nat /\ FrameSize \in Nat
    BY <1>2, OpsIs
  <2>2. n < f.sp => n - f.tempsize \in 0 .. Len(Ops(f))
    BY <1>1, <1>3, <2>1
  <2>3. n >= f.sp => n - f.sp \in 0 .. FrameSize
    BY <1>1, <1>3, <2>1
  <2> QED  BY <1>4, <1>6, <2>2, <2>3
<1>8. HasPlace(g) /\ g.sp = g.due
  BY <1>1, <1>4, <1>6 DEF HasPlace
<1>9. g.kind = f.kind /\ g.home = f.home /\ g.receiver = f.receiver /\ Temps(g) = Temps(f)
  BY <1>4, <1>6 DEF SameFrame
<1> QED  BY <1>1, <1>6, <1>7, <1>8, <1>9 DEF Resized, f

\* One slot in use of a waiting context is replaced.
Edited(c) ==
    /\ stack' = stack
    /\ c \in Above(stack)
    /\ \E g : /\ frame' = [frame EXCEPT ![c] = g]
              /\ FrameOK(g) /\ g.sp = frame[c].sp /\ SameFrame(g, frame[c])
              /\ \/ Temps(g) = Temps(frame[c]) /\ \E i \in DOMAIN Ops(frame[c]), v \in Value :
                                    Ops(g) = [Ops(frame[c]) EXCEPT ![i] = v]
                 \/ Ops(g) = Ops(frame[c]) /\ \E i \in DOMAIN Temps(frame[c]), v \in Value :
                                    Temps(g) = [Temps(frame[c]) EXCEPT ![i] = v]

LEMMA OperandStored ==
    ASSUME NEW k, FrameOK(k), NEW i \in 1 .. FrameSize, k.tempsize < i, i <= k.sp,
           NEW v \in Value, NEW h, h = [k EXCEPT !.slots[i] = v]
    PROVE  /\ FrameOK(h) /\ SameFrame(h, k) /\ h.sp = k.sp /\ Temps(h) = Temps(k)
           /\ \E j \in DOMAIN Ops(k) : Ops(h) = [Ops(k) EXCEPT ![j] = v]
<1> DEFINE old == k.slots
           ss == [old EXCEPT ![i] = v]
           t == k.tempsize
           m == k.sp
<1>1. k \in FrameState /\ Sound(k)
  BY DEF FrameOK
<1>2. /\ old \in Slots /\ m \in Nat /\ t \in Nat /\ m <= FrameSize /\ m \in 0 .. FrameSize
      /\ t <= m /\ t <= FrameSize /\ FrameSize \in Nat /\ i <= m /\ i \in Nat /\ t < i
  BY <1>1, FrameFields, Constants DEF Sound
<1>3. h = With(k, ss, m)
  BY <1>1 DEF With, FrameState
<1>4. /\ ss \in Slots /\ ss[i] = v /\ \A j \in 1 .. FrameSize : j # i => ss[j] = old[j]
  BY <1>2 DEF Slots
<1> HIDE DEF ss, old, m
<1>5. /\ h \in FrameState /\ h.slots = ss /\ h.sp = m /\ SameFrame(h, k)
  <2>1. ss \in Slots /\ m \in 0 .. FrameSize /\ k \in FrameState
    BY <1>1, <1>2, <1>4
  <2> DEFINE w == With(k, ss, m)
  <2>2. w \in FrameState /\ w.slots = ss /\ w.sp = m /\ SameFrame(w, k)
    BY <2>1, Reslotted
  <2>3. h = w
    BY <1>3
  <2> HIDE DEF w
  <2> QED  BY <2>2, <2>3
<1>6. h.tempsize = t
  BY <1>5 DEF SameFrame
<1>7. Sound(h)
  <2>1. \A j \in 1 .. FrameSize : j > m => old[j] = Nil
    BY <1>1 DEF Sound, old, m
  <2>2. \A j \in 1 .. FrameSize : j > m => j # i
    BY <1>2
  <2> QED  BY <1>2, <1>4, <1>5, <1>6, <2>1, <2>2 DEF Sound
<1> HIDE DEF t
<1> DEFINE z == 0
<1>8. Part(ss, z, t) = Part(old, z, t)
  <2>1. \A j \in 1 .. FrameSize : z < j /\ j <= t => ss[j] = old[j]
    BY <1>2, <1>4
  <2>2. z \in Nat /\ z <= t
    BY <1>2
  <2> HIDE DEF z
  <2> QED  BY <1>2, <1>4, <2>1, <2>2, PartAgrees
<1> DEFINE q == Part(old, t, m)
           r == Part(ss, t, m)
           n == m - t
           k0 == i - t
<1>10. /\ q = [j \in 1 .. m - t |-> old[t + j]]
       /\ r = [j \in 1 .. m - t |-> ss[t + j]]
  BY <1>2, <1>4, PartIs
<1> HIDE DEF q, r
<1>12. /\ k0 \in 1 .. n /\ t + k0 = i
       /\ \A j \in 1 .. n : t + j \in 1 .. FrameSize /\ (t + j = i => j = k0)
  BY <1>2
<1> HIDE DEF k0
<1>13. r = [q EXCEPT ![k0] = v] /\ k0 \in DOMAIN q
  <2>1. q = [j \in 1 .. n |-> old[t + j]] /\ r = [j \in 1 .. n |-> ss[t + j]]
    BY <1>10
  <2>2. ss[t + k0] = v /\ \A j \in 1 .. n : j # k0 => ss[t + j] = old[t + j]
    BY <1>4, <1>12
  <2> HIDE DEF n
  <2> QED  BY <1>12, <2>1, <2>2
<1>14. Temps(k) = Part(old, z, t) /\ Temps(h) = Part(ss, z, t) /\ Ops(k) = q /\ Ops(h) = r
  BY <1>5, <1>6 DEF Temps, Ops, q, r, z, t, m, old
<1>15. FrameOK(h)
  BY <1>5, <1>7 DEF FrameOK, SameFrame
<1>16. \E j \in DOMAIN Ops(k) : Ops(h) = [Ops(k) EXCEPT ![j] = v]
  BY <1>13, <1>14
<1> QED  BY <1>5, <1>8, <1>14, <1>15, <1>16 DEF m

LEMMA StoreFieldEdits ==
    ASSUME OpInv, NEW c \in Context, NEW i \in 1 .. FrameSize, NEW v \in Value, StoreField(c, i, v)
    PROVE  Edited(c) \/ UNCHANGED vars
<1> DEFINE f == frame[c]
           g == [f EXCEPT !.slots[i] = v]
<1>1. /\ c \in Above(stack) /\ frame' = [frame EXCEPT ![c] = StoreSlot(f, i, v)]
      /\ stack' = stack
  BY DEF StoreField, Waiting, Active, Running, Above
<1>2. FrameOK(f) /\ frame \in [Context -> FrameState]
  BY MeIs DEF FramesOK
<1>2a. f.sp \in Nat /\ f.tempsize \in Nat /\ f.tempsize <= f.sp /\ i \in Nat
  BY <1>2, OpsIs, Constants DEF FrameOK, Sound
<1>3. CASE i <= f.tempsize
  <2>1. StoreSlot(f, i, v) = g
    BY <1>3 DEF StoreSlot
  <2>2. frame' = [frame EXCEPT ![c] = g]
    BY <1>1, <2>1
  <2> HIDE DEF f
  <2>3. /\ FrameOK(g) /\ SameFrame(g, f) /\ g.sp = f.sp /\ Ops(g) = Ops(f)
        /\ i \in DOMAIN Temps(f) /\ Temps(g) = [Temps(f) EXCEPT ![i] = v]
    BY <1>2, <1>3, TempStored
  <2> HIDE DEF g
  <2> QED  BY <1>1, <2>2, <2>3 DEF Edited, f
<1>4. CASE f.tempsize < i /\ i <= f.sp
  <2>1. StoreSlot(f, i, v) = g
    BY <1>4 DEF StoreSlot
  <2>2. frame' = [frame EXCEPT ![c] = g]
    BY <1>1, <2>1
  <2> HIDE DEF f
  <2>3. /\ FrameOK(g) /\ SameFrame(g, f) /\ g.sp = f.sp /\ Temps(g) = Temps(f)
        /\ \E j \in DOMAIN Ops(f) : Ops(g) = [Ops(f) EXCEPT ![j] = v]
    BY <1>2, <1>4, OperandStored
  <2> HIDE DEF g
  <2> QED  BY <1>1, <2>2, <2>3 DEF Edited, f
<1>5. CASE ~ (i <= f.tempsize) /\ ~ (i <= f.sp)
  <2>1. StoreSlot(f, i, v) = f
    BY <1>5 DEF StoreSlot
  <2>2. frame' = [frame EXCEPT ![c] = frame[c]]
    BY <1>1, <2>1
  <2>3. frame' = frame
    BY <1>2, <2>2
  <2> QED  BY <1>1, <2>3 DEF vars
<1> QED  BY <1>2a, <1>3, <1>4, <1>5

--------------------------------------------------------------------------------
(* Returns.                                                                  *)

Caller == Last(Front(stack))

Returned(v) ==
    /\ Len(stack) > 1
    /\ stack' = Front(stack)
    /\ frame' \in [Context -> FrameState]
    /\ LET g == frame'[Caller]
       IN  /\ FrameOK(g) /\ g.kind = frame[Caller].kind /\ g.home = frame[Caller].home
           /\ g.receiver = frame[Caller].receiver /\ Temps(g) = Temps(frame[Caller])
           /\ Ops(g) = Append(Ops(frame[Caller]), v)
    /\ FrameOK(frame'[Running]) /\ Rested(frame'[Running])
    /\ \A d \in Context \ {Caller, Running} : frame'[d] = frame[d]
    /\ Fresh(Running) \/ frame'[Running].receiver = Me.receiver

LEMMA EmptyIs ==
    FrameOK(Empty) /\ Empty.kind = "free"
<1> DEFINE k == "free"
           r == Nil
           t == 0
           x == Nil
           e == 0
           f == NewFrame(k, r, t, x, e)
<1>1. /\ k \in FrameKinds /\ r \in Value /\ t \in 0 .. FrameSize /\ x \in Context \union {Nil}
      /\ e \in 0 .. MaxArgs
  BY Constants DEF FrameKinds
<1>2. f = Empty /\ k # "block"
  BY DEF Empty
<1> HIDE DEF k, r, t, x, e
<1>3. f \in FrameState /\ Sound(f) /\ f.kind = k
  BY <1>1, NewFrameSound
<1> HIDE DEF f
<1>4. FrameOK(f)
  BY <1>2, <1>3 DEF FrameOK
<1> QED  BY <1>2, <1>3, <1>4 DEF k

LEMMA ReturnsValue ==
    ASSUME OpInv, NEW v \in Value, NEW popped \in 0 .. 1, popped <= Depth(Me),
           Me.kind = "block" => popped = 1 /\ Depth(Me) = 1,
           ReturnValue(v, popped)
    PROVE  Returned(v)
<1> DEFINE s == Caller
           x == Running
           m == Me
           f == frame[s]
           z == 0
           e == [f EXCEPT !.due = z]
           g == Push(e, v)
           h == PopN(m, popped)
           fr == [frame EXCEPT ![s] = g, ![x] = h]
<1>1. /\ StackOK(stack) /\ FramesOK(frame, stack) /\ frame \in [Context -> FrameState]
      /\ x \in Context /\ FrameOK(m) /\ m = frame[x] /\ x = Last(stack)
      /\ FrameSize \in Nat
  BY MeIs, Constants DEF Me, Running
<1>2. Len(stack) > 1 /\ stack' = Front(stack)
  BY DEF ReturnValue
<1>3. s \in Context /\ s # x /\ s \in Above(stack)
  <2> DEFINE t == Front(stack)
  <2>1. t = Front(stack)
    OBVIOUS
  <2> HIDE DEF t
  <2>2. Last(t) \in Above(stack) /\ Last(t) # Last(stack) /\ Last(t) \in Context
    BY <1>1, <1>2, <2>1, StackShrinks
  <2> QED  BY <1>1, <2>1, <2>2 DEF Caller
<1>4. fr = [frame EXCEPT ![Last(Front(stack))] = Push([@ EXCEPT !.due = 0], v),
                         ![Running] = PopN(@, popped)]
  <2>1. \A w : [frame EXCEPT ![s] = w][x] = m
    BY <1>1, <1>3
  <2> QED  BY <1>1, <1>3, <2>1 DEF Caller
<1>5. frame' = [fr EXCEPT ![x] = IF Referred(fr, x) THEN @ ELSE Empty]
  BY <1>4 DEF ReturnValue
<1>6. FrameOK(f) /\ HasPlace(f) /\ z \in 0 .. FrameSize
  BY <1>1, <1>3, Constants DEF FramesOK
<1>6a. f.sp \in Nat
  BY <1>6, OpsIs
<1> HIDE DEF f, z, s
<1>7. /\ FrameOK(e) /\ e.sp = f.sp /\ Ops(e) = Ops(f) /\ Temps(e) = Temps(f)
      /\ e.kind = f.kind /\ e.receiver = f.receiver /\ e.home = f.home
  BY <1>6, DueSet
<1> HIDE DEF e
<1>8. e.sp + 1 <= FrameSize
  BY <1>1, <1>6, <1>6a, <1>7 DEF HasPlace
<1>9. /\ FrameOK(g) /\ SameFrame(g, e) /\ Ops(g) = Append(Ops(e), v) /\ Temps(g) = Temps(e)
  BY <1>7, <1>8, PushOK
<1> HIDE DEF g
<1>10. popped \in Nat /\ popped <= Depth(m)
  OBVIOUS
<1>10a. m.kind = "block" => popped = 1 /\ Depth(m) = 1
  OBVIOUS
<1> HIDE DEF m, x
<1>11. FrameOK(h) /\ SameFrame(h, m) /\ h.sp = m.sp - popped
  BY <1>1, <1>10, PopOK
<1> HIDE DEF h
<1>12. Rested(h)
  <2> SUFFICES ASSUME h.kind = "block" PROVE h.sp = 0
    BY DEF Rested
  <2>1. m.kind = "block" /\ m.tempsize = 0
    BY <1>1, <1>11 DEF SameFrame, FrameOK
  <2>2. m.sp \in Nat /\ Depth(m) = m.sp - m.tempsize
    BY <1>1, OpsIs
  <2>3. popped = 1 /\ Depth(m) = 1
    BY <1>10a, <2>1
  <2> QED  BY <1>11, <2>1, <2>2, <2>3
<1>13. /\ fr \in [Context -> FrameState] /\ fr[s] = g /\ fr[x] = h
       /\ \A d \in Context \ {s, x} : fr[d] = frame[d]
  BY <1>1, <1>3, <1>9, <1>11 DEF FrameOK
<1>14. \A d \in Context : fr[d].home = frame[d].home
  BY <1>1, <1>7, <1>9, <1>11, <1>13 DEF SameFrame, f
<1> HIDE DEF fr
<1>15. FrameOK(Empty) /\ Rested(Empty) /\ Empty \in FrameState
  BY EmptyIs DEF Rested, FrameOK
<1>16. /\ frame' \in [Context -> FrameState]
       /\ frame'[x] = h \/ (frame'[x] = Empty /\ ~ Referred(fr, x))
       /\ \A d \in Context \ {x} : frame'[d] = fr[d]
  BY <1>1, <1>5, <1>13, <1>15
<1>17. Fresh(x) \/ frame'[x].receiver = m.receiver
  <2>1. CASE frame'[x] = h
    BY <1>11, <2>1 DEF SameFrame
  <2>2. CASE ~ Referred(fr, x)
    BY <1>14, <2>2 DEF Referred, Fresh
  <2> QED  BY <1>16, <2>1, <2>2
<1>18. FrameOK(frame'[x]) /\ Rested(frame'[x])
  BY <1>11, <1>12, <1>15, <1>16
<1>19. frame'[s] = g /\ \A d \in Context \ {s, x} : frame'[d] = frame[d]
  BY <1>3, <1>13, <1>16
<1>20. /\ g.kind = f.kind /\ g.home = f.home /\ g.receiver = f.receiver /\ Temps(g) = Temps(f)
       /\ Ops(g) = Append(Ops(f), v)
  BY <1>7, <1>9 DEF SameFrame
<1> QED  BY <1>2, <1>9, <1>16, <1>17, <1>18, <1>19, <1>20 DEF Returned, s, x, m, f

LEMMA ReturnReturns ==
    ASSUME OpInv, NEW v \in Value, Return(v)
    PROVE  Returned(v)
<1> DEFINE p == 0
<1>1. p \in 0 .. 1 /\ p <= Depth(Me) /\ Me.kind # "block" /\ ReturnValue(v, p)
  BY MeIs DEF Return
<1> HIDE DEF p
<1> QED  BY <1>1, ReturnsValue

LEMMA ReturnTopReturns ==
    ASSUME OpInv, ReturnTop
    PROVE  Returned(Peek(Me, 0)) /\ Peek(Me, 0) \in Value
<1> DEFINE p == 1
           z == 0
           v == Peek(Me, z)
<1>1. /\ p \in 0 .. 1 /\ p <= Depth(Me) /\ (Me.kind = "block" => p = 1 /\ Depth(Me) = 1)
      /\ ReturnValue(v, p) /\ z \in Nat /\ z + 1 <= Depth(Me)
  BY DEF ReturnTop, Takes
<1> HIDE DEF z
<1>2. v \in Value
  BY <1>1, Operand
<1> HIDE DEF v, p
<1>3. Returned(v)
  BY <1>1, <1>2, ReturnsValue
<1> QED  BY <1>2, <1>3 DEF v, z

--------------------------------------------------------------------------------
(* What every step is.                                                       *)

\* A message is sent, with its arguments, with a message that was not understood
\* or with a list of arguments, to a block or to a closure.
MessageSent(c) ==
    \/ \E k \in 0 .. MaxArgs : Begun(c, k + 1, Peek(Me, k), PeekN(Me, k))
    \/ \E k \in 0 .. MaxArgs : Begun(c, k + 1, Peek(Me, k), <<[message |-> PeekN(Me, k)]>>)
    \/ Peek(Me, 0) \in Array /\ Begun(c, 3, Peek(Me, 2), Peek(Me, 0).array)
    \/ Peek(Me, 1) \in Array /\ Begun(c, 3, Peek(Me, 2), Peek(Me, 1).array)
    \/ \E k \in 0 .. MaxArgs : /\ c = Peek(Me, k)
                               /\ Evaluated(c, k + 1, PeekN(Me, k))
    \/ /\ Peek(Me, 0) \in Array /\ c = Peek(Me, 1)
       /\ Evaluated(c, 2, Peek(Me, 0).array)
    \/ \E k \in 0 .. MaxArgs :
          /\ Peek(Me, k) \in Closure
          /\ Begun(c, k + 1, ReceiverOf(Peek(Me, k).outer), PeekN(Me, k) \o Peek(Me, k).copied)
    \/ /\ Peek(Me, 0) \in Array /\ Peek(Me, 1) \in Closure
       /\ Begun(c, 2, ReceiverOf(Peek(Me, 1).outer), Peek(Me, 0).array \o Peek(Me, 1).copied)

\* perform:withArguments: fails, or is not understood.
Unlisted == ~ (PerformOutcome \subseteq {"primitive", "method"})

AStep ==
    \/ Computing
    \/ \E i \in 1 .. FrameSize, popped \in 0 .. 1 : Assigned(i, popped)
    \/ \E c \in Context : MakesBlock(c) \/ Resized(c) \/ Edited(c) \/ MessageSent(c)
    \/ \E v \in Value : Returned(v)
    \/ \E c \in Context, h \in FrameState : Unlisted /\ Leaves(c, h)
    \/ UNCHANGED vars

LEMMA PerformIs ==
    ASSUME OpInv, NEW c \in Context, NEW t \in 0 .. MaxTemps, NEW outcome \in PerformOutcome,
           PerformWithArguments(c, outcome, t, True)
    PROVE  AStep
<1>1. outcome \in {"primitive", "failure", "method", "doesNotUnderstand"}
  BY OperandStacksAssumption
<1>2. CASE outcome = "primitive"
  <2>1. Computing
    BY <1>2, PerformPrimitiveComputes, Constants
  <2> QED  BY <2>1 DEF AStep
<1>3. CASE outcome = "method"
  <2>1. MessageSent(c)
    BY <1>3, PerformMethodBegins DEF MessageSent
  <2> QED  BY <2>1 DEF AStep
<1>4. CASE outcome \in {"failure", "doesNotUnderstand"}
  <2>1. PICK h : Leaves(c, h)
    BY <1>4, PerformLeaves
  <2>2. h \in FrameState
    BY <2>1 DEF Leaves, FrameOK
  <2>3. Unlisted
    BY <1>4 DEF Unlisted
  <2> QED  BY <2>1, <2>2, <2>3 DEF AStep
<1> QED  BY <1>1, <1>2, <1>3, <1>4

LEMMA BoundsInNat ==
    /\ \A k \in 0 .. MaxArgs : k \in Nat
    /\ \A k \in 0 .. MaxListed : k \in Nat /\ k \in 0 .. MaxArgs
    /\ 0 \in 0 .. MaxArgs
  BY Constants

LEMMA JumpComputes ==
    ASSUME OpInv, JumpConditional \/ PopTop
    PROVE  Computing
<1> DEFINE n == 1
<1>1. n \in Nat /\ Takes(n) /\ SetFrame(PopN(Me, n)) /\ UNCHANGED stack
  BY DEF JumpConditional, PopTop
<1> HIDE DEF n
<1> QED  BY <1>1, PopComputes

LEMMA NextIs ==
    ASSUME OpInv, Next
    PROVE  AStep
<1>1. ASSUME NEW v \in Object, PushValue(v) PROVE AStep
  BY <1>1, PushComputes, Constants DEF AStep
<1>2. ASSUME NEW v \in Object, Return(v) PROVE AStep
  BY <1>2, ReturnReturns, Constants DEF AStep
<1>3. ASSUME NEW i \in 1 .. FrameSize, PushTemp(i) PROVE AStep
  BY <1>3, PushTempComputes DEF AStep
<1>4. ASSUME NEW i \in 1 .. FrameSize, NEW popped \in 0 .. 1, StoreTemp(i, popped) PROVE AStep
  BY <1>4, StoreTempAssigns DEF AStep
<1>5. ASSUME PushReceiver PROVE AStep
  <2>1. ReceiverOf(Running) \in Value
    BY MeIs, HolderIs
  <2> QED  BY <1>5, <2>1, PushComputes DEF PushReceiver, AStep
<1>6. ASSUME PushActiveContext PROVE AStep
  <2>1. Running \in Value
    BY MeIs, Constants
  <2> QED  BY <1>6, <2>1, PushComputes DEF PushActiveContext, AStep
<1>7. ASSUME DuplicateTop PROVE AStep
  BY <1>7, DuplicateComputes DEF AStep
<1>8. ASSUME PopTop \/ JumpConditional PROVE AStep
  BY <1>8, JumpComputes DEF AStep
<1>9. ASSUME NEW n \in 0 .. MaxListed, NEW popped \in 0 .. 1, PushNewArray(n, popped) PROVE AStep
  BY <1>9, PushNewArrayComputes DEF AStep
<1>10. ASSUME NEW n \in 0 .. MaxListed, NEW m \in 0 .. 1, PushClosureCopyCopiedValues(n, m)
       PROVE AStep
  BY <1>10, PushClosureComputes DEF AStep
<1>11. ASSUME NEW n \in 0 .. MaxArgs, CallPrimitive(n, True) PROVE AStep
  BY <1>11, CallPrimitiveComputes, BoundsInNat, Constants DEF AStep
<1>12. ASSUME NEW c \in Context, NEW t \in 0 .. MaxTemps, NEW n \in 0 .. MaxArgs, SendMethod(c, n, t)
       PROVE AStep
  <2>1. Begun(c, n + 1, Peek(Me, n), PeekN(Me, n))
    BY <1>12, SendBegins, BoundsInNat
  <2> QED  BY <2>1 DEF AStep, MessageSent
<1>13. ASSUME NEW c \in Context, NEW t \in 0 .. MaxTemps, NEW n \in 0 .. MaxArgs,
              DoesNotUnderstand(c, n, t)
       PROVE AStep
  <2>1. Begun(c, n + 1, Peek(Me, n), <<[message |-> PeekN(Me, n)]>>)
    BY <1>13, NotUnderstoodBegins
  <2> QED  BY <2>1 DEF AStep, MessageSent
<1>14. ASSUME NEW c \in Context, NEW t \in 0 .. MaxTemps, MustBeBoolean(c, t) PROVE AStep
  <2>1. Begun(c, 1, Peek(Me, 0), << >>)
    BY <1>14, MustBeBooleanBegins
  <2>2. PeekN(Me, 0) = << >>
    BY DEF PeekN
  <2>3. Begun(c, 0 + 1, Peek(Me, 0), PeekN(Me, 0))
    BY <2>1, <2>2
  <2>4. MessageSent(c)
    BY <2>3, BoundsInNat DEF MessageSent
  <2> QED  BY <2>4 DEF AStep
<1>15. ASSUME NEW c \in Context, NEW t \in 0 .. MaxTemps, WithArgsExecuteMethod(c, t) PROVE AStep
  BY <1>15, WithArgsBegins DEF AStep, MessageSent
<1>16. ASSUME NEW c \in Context, NEW t \in 0 .. MaxTemps, NEW outcome \in PerformOutcome,
              PerformWithArguments(c, outcome, t, True)
       PROVE AStep
  BY <1>16, PerformIs
<1>17. ASSUME NEW c \in Context, NEW n \in 0 .. MaxListed, BlockCopy(c, n) PROVE AStep
  BY <1>17, BlockCopyMakes DEF AStep
<1>18. ASSUME NEW c \in Context, NEW n \in 0 .. MaxListed, ClosureValue(c, n) PROVE AStep
  <2>1. MessageSent(c)
    BY <1>18, ClosureValueBegins, BoundsInNat DEF MessageSent
  <2> QED  BY <2>1 DEF AStep
<1>19. ASSUME NEW n \in 0 .. MaxListed, Value0(n) PROVE AStep
  <2> DEFINE c == Peek(Me, n)
  <2>1. c \in Context
    BY <1>19, EvaluableIs DEF Value0
  <2>2. Evaluated(c, n + 1, PeekN(Me, n))
    BY <1>19, Value0Evaluates, BoundsInNat
  <2>3. MessageSent(c)
    BY <2>2, BoundsInNat DEF MessageSent
  <2> HIDE DEF c
  <2> QED  BY <2>1, <2>3 DEF AStep
<1>20. ASSUME ValueWithArgs PROVE AStep
  <2> DEFINE c == Peek(Me, 1)
  <2>1. c \in Context
    BY <1>20, EvaluableIs DEF ValueWithArgs
  <2>2. Peek(Me, 0) \in Array /\ Evaluated(c, 2, Peek(Me, 0).array)
    BY <1>20, ValueWithArgsEvaluates
  <2>3. MessageSent(c)
    BY <2>2 DEF MessageSent
  <2> HIDE DEF c
  <2> QED  BY <2>1, <2>3 DEF AStep
<1>21. ASSUME ReturnTop PROVE AStep
  BY <1>21, ReturnTopReturns DEF AStep
<1>22. ASSUME NEW c \in Context, ClosureValueWithArgs(c) PROVE AStep
  BY <1>22, ClosureValueWithArgsBegins DEF AStep, MessageSent
<1>23. ASSUME NEW c \in Context, NEW n \in 0 .. FrameSize, StoreStackp(c, n) PROVE AStep
  BY <1>23, StoreStackpResizes DEF AStep
<1>24. ASSUME NEW c \in Context, NEW i \in 1 .. FrameSize, StoreField(c, i, True) PROVE AStep
  BY <1>24, StoreFieldEdits, Constants DEF AStep
<1> QED
  BY <1>1, <1>2, <1>3, <1>4, <1>5, <1>6, <1>7, <1>8, <1>9, <1>10, <1>11, <1>12, <1>13, <1>14,
     <1>15, <1>16, <1>17, <1>18, <1>19, <1>20, <1>21, <1>22, <1>23, <1>24 DEF Next

--------------------------------------------------------------------------------
(* The invariant holds.                                                      *)

\* A context that waits has as many slots in use as its answer was promised.
DueInv(fr, s) == \A c \in Above(s) : fr[c].sp = fr[c].due

LEMMA ComputingKeeps ==
    ASSUME OpInv, Computing
    PROVE  OpInv' /\ (DueInv(frame, stack) => DueInv(frame', stack'))
<1>1. PICK g : frame' = [frame EXCEPT ![Running] = g] /\ FrameOK(g)
  BY DEF Computing
<1>2. /\ StackOK(stack) /\ FramesOK(frame, stack) /\ frame \in [Context -> FrameState]
  BY MeIs
<1>3. stack' = stack
  BY DEF Computing
<1>4. FramesOK(frame', stack)
  BY <1>1, <1>2, MoveKeeps DEF Running
<1>5. \A c \in Above(stack) : frame'[c] = frame[c]
  BY <1>1, <1>2, StackIs DEF Above, Running
<1> QED  BY <1>2, <1>3, <1>4, <1>5 DEF OpInv, DueInv

LEMMA AssignedKeeps ==
    ASSUME OpInv, NEW i, NEW popped, Assigned(i, popped)
    PROVE  OpInv' /\ (DueInv(frame, stack) => DueInv(frame', stack'))
<1>1. /\ StackOK(stack) /\ FramesOK(frame', stack) /\ stack' = stack
  BY MeIs DEF Assigned
<1>2. \A c \in Above(stack) : c \in Context /\ c # Running
  BY <1>1, StackIs DEF Above, Running
<1>3. \A c \in Above(stack) : frame'[c].sp = frame[c].sp /\ frame'[c].due = frame[c].due
  BY <1>2 DEF Assigned, SameFrame
<1> QED  BY <1>1, <1>3 DEF OpInv, DueInv

LEMMA MakesBlockKeeps ==
    ASSUME OpInv, NEW c, MakesBlock(c)
    PROVE  OpInv' /\ (DueInv(frame, stack) => DueInv(frame', stack'))
<1>1. PICK g, h : /\ frame' = [frame EXCEPT ![Running] = g, ![c] = h]
                  /\ FrameOK(g) /\ FrameOK(h) /\ Rested(h)
  BY DEF MakesBlock
<1>2. /\ StackOK(stack) /\ FramesOK(frame, stack) /\ frame \in [Context -> FrameState]
      /\ Running \in Context /\ Running \in Active
  BY MeIs
<1>3. stack' = stack /\ c \in Context /\ c \notin Active /\ c # Running
  BY <1>2 DEF MakesBlock
<1> DEFINE fr == [frame EXCEPT ![Running] = g]
<1>4. FramesOK(fr, stack)
  BY <1>1, <1>2, MoveKeeps DEF Running
<1>5. /\ frame' \in [Context -> FrameState] /\ frame'[c] = h
      /\ \A d \in Context \ {c} : frame'[d] = fr[d]
  BY <1>1, <1>2, <1>3 DEF FrameOK
<1>6. \A d \in Context \ {Running, c} : frame'[d] = frame[d]
  BY <1>1, <1>2, <1>3
<1> HIDE DEF fr
<1>7. \A d \in Above(stack) : d \in Context /\ d # Running /\ d # c /\ d \in ToSet(stack)
  BY <1>2, <1>3, StackIs DEF Above, Running, Active
<1>8. FramesOK(frame', stack)
  <2>1. \A d \in Context : FrameOK(frame'[d])
    BY <1>1, <1>4, <1>5 DEF FramesOK
  <2>2. \A d \in Context \ ToSet(stack) : Rested(frame'[d])
    BY <1>1, <1>4, <1>5 DEF FramesOK
  <2>3. \A d \in Above(stack) : HasPlace(frame'[d])
    BY <1>4, <1>5, <1>7 DEF FramesOK
  <2> QED  BY <1>5, <2>1, <2>2, <2>3 DEF FramesOK
<1>9. \A d \in Above(stack) : frame'[d] = frame[d]
  BY <1>6, <1>7
<1> QED  BY <1>2, <1>3, <1>8, <1>9 DEF OpInv, DueInv

LEMMA ResizedKeeps ==
    ASSUME OpInv, NEW c, Resized(c)
    PROVE  OpInv' /\ (DueInv(frame, stack) => DueInv(frame', stack'))
<1>1. PICK g : frame' = [frame EXCEPT ![c] = g] /\ FrameOK(g) /\ HasPlace(g) /\ g.sp = g.due
  BY DEF Resized
<1>2. /\ StackOK(stack) /\ FramesOK(frame, stack) /\ frame \in [Context -> FrameState]
      /\ stack' = stack /\ c \in Above(stack)
  BY MeIs DEF Resized
<1>3. FramesOK(frame', stack)
  BY <1>1, <1>2, WaitKeeps
<1>4. c \in Context
  BY <1>2, StackIs
<1>5. frame'[c] = g /\ \A d \in Context \ {c} : frame'[d] = frame[d]
  BY <1>1, <1>2, <1>4
<1>6. ASSUME DueInv(frame, stack), NEW d \in Above(stack) PROVE frame'[d].sp = frame'[d].due
  <2>1. d \in Context
    BY <1>2, StackIs
  <2> QED  BY <1>1, <1>5, <1>6, <2>1 DEF DueInv
<1> QED  BY <1>2, <1>3, <1>6 DEF OpInv, DueInv

LEMMA EditedKeeps ==
    ASSUME OpInv, NEW c, Edited(c)
    PROVE  OpInv' /\ (DueInv(frame, stack) => DueInv(frame', stack'))
<1>1. PICK g : /\ frame' = [frame EXCEPT ![c] = g] /\ FrameOK(g) /\ g.sp = frame[c].sp
               /\ SameFrame(g, frame[c])
  BY DEF Edited
<1>2. /\ StackOK(stack) /\ FramesOK(frame, stack) /\ frame \in [Context -> FrameState]
      /\ stack' = stack /\ c \in Above(stack)
  BY MeIs DEF Edited
<1>4. c \in Context /\ g.kind = frame[c].kind /\ g.due = frame[c].due
  BY <1>1, <1>2, StackIs DEF SameFrame
<1>3. FramesOK(frame', stack)
  BY <1>1, <1>2, <1>4, SizeKeeps
<1>5. frame'[c] = g /\ \A d \in Context \ {c} : frame'[d] = frame[d]
  BY <1>1, <1>2, <1>4
<1>6. ASSUME DueInv(frame, stack), NEW d \in Above(stack) PROVE frame'[d].sp = frame'[d].due
  <2>1. d \in Context
    BY <1>2, StackIs
  <2> QED  BY <1>1, <1>4, <1>5, <1>6, <2>1 DEF DueInv
<1> QED  BY <1>2, <1>3, <1>6 DEF OpInv, DueInv

LEMMA LeavesKeeps ==
    ASSUME OpInv, NEW c, NEW h, Leaves(c, h)
    PROVE  OpInv'
<1>1. PICK g : /\ frame' = [frame EXCEPT ![Running] = g, ![c] = h]
               /\ FrameOK(g) /\ HasPlace(g) /\ FrameOK(h)
  BY DEF Leaves
<1>2. /\ StackOK(stack) /\ FramesOK(frame, stack)
      /\ stack' = Append(stack, c) /\ c \in Context /\ c \notin ToSet(stack)
  BY MeIs DEF Leaves, Active
<1> DEFINE s == stack
           t == stack'
           fr == frame
           fr2 == frame'
<1>3. fr2 = WithBoth(fr, Last(s), g, c, h) /\ t = Append(s, c)
  BY <1>1, <1>2 DEF Running, WithBoth
<1>4. StackOK(s) /\ FramesOK(fr, s) /\ c \in Context /\ c \notin ToSet(s)
  BY <1>2
<1> HIDE DEF s, t, fr, fr2
<1>5. StackOK(t) /\ FramesOK(fr2, t)
  BY <1>1, <1>3, <1>4, CallKeeps
<1> QED  BY <1>5 DEF OpInv, t, fr2

LEMMA CalledKeeps ==
    ASSUME OpInv, NEW c, NEW n, NEW h, Called(c, n, h)
    PROVE  OpInv' /\ (DueInv(frame, stack) => DueInv(frame', stack'))
<1>1. PICK g : /\ frame' = [frame EXCEPT ![Running] = g, ![c] = h]
               /\ FrameOK(g) /\ HasPlace(g) /\ FrameOK(h) /\ g.sp = g.due
  BY DEF Called
<1>2. /\ StackOK(stack) /\ FramesOK(frame, stack)
      /\ stack' = Append(stack, c) /\ c \in Context /\ c \notin ToSet(stack)
  BY MeIs DEF Called, Active
<1>3. /\ StackOK(stack') /\ FramesOK(frame', stack')
      /\ frame'[Last(stack)] = g
      /\ \A d \in Context \ {c, Last(stack)} : frame'[d] = frame[d]
  <2> DEFINE s == stack
             t == stack'
             fr == frame
             fr2 == frame'
  <2>3. fr2 = WithBoth(fr, Last(s), g, c, h) /\ t = Append(s, c)
    BY <1>1, <1>2 DEF Running, WithBoth
  <2>4. StackOK(s) /\ FramesOK(fr, s) /\ c \in Context /\ c \notin ToSet(s)
    BY <1>2
  <2> HIDE DEF s, t, fr, fr2
  <2>5. /\ StackOK(t) /\ FramesOK(fr2, t)
        /\ fr2[Last(s)] = g
        /\ \A d \in Context \ {c, Last(s)} : fr2[d] = fr[d]
    BY <1>1, <2>3, <2>4, CallKeeps
  <2> QED  BY <2>5 DEF s, t, fr, fr2
<1>4. Above(stack') = ToSet(stack)
  BY <1>2, StackGrows
<1>5. ASSUME DueInv(frame, stack), NEW d \in ToSet(stack) PROVE frame'[d].sp = frame'[d].due
  <2>1. d \in Context /\ d # c
    BY <1>2, StackIs
  <2>2. CASE d = Last(stack)
    BY <1>1, <1>3, <2>2
  <2>3. CASE d # Last(stack)
    BY <1>3, <1>5, <2>1, <2>3 DEF DueInv, Above
  <2> QED  BY <2>2, <2>3
<1> QED  BY <1>3, <1>4, <1>5 DEF OpInv, DueInv

LEMMA SentIsCalled ==
    ASSUME NEW c, MessageSent(c)
    PROVE  \E n, h : Called(c, n, h)
  BY DEF MessageSent, Begun, Evaluated

LEMMA ReturnedKeeps ==
    ASSUME OpInv, NEW v, Returned(v)
    PROVE  OpInv' /\ (DueInv(frame, stack) => DueInv(frame', stack'))
<1>1. StackOK(stack) /\ FramesOK(frame, stack) /\ Len(stack) > 1 /\ stack' = Front(stack)
  BY MeIs DEF Returned
<1>2. /\ frame' \in [Context -> FrameState]
      /\ FrameOK(frame'[Last(stack')]) /\ FrameOK(frame'[Last(stack)])
      /\ Rested(frame'[Last(stack)])
      /\ \A d \in Context \ {Last(stack'), Last(stack)} : frame'[d] = frame[d]
  BY <1>1 DEF Returned, Caller, Running
<1>3. StackOK(stack') /\ FramesOK(frame', stack')
  BY <1>1, <1>2, ReturnKeeps
<1>4. Above(stack') = Above(stack) \ {Last(stack')}
  BY <1>1, StackShrinks
<1>5. \A d \in Above(stack') : d \in Above(stack) /\ frame'[d] = frame[d]
  BY <1>1, <1>2, <1>4, StackIs DEF Above
<1> QED  BY <1>3, <1>5 DEF OpInv, DueInv

LEMMA NextKeeps ==
    ASSUME OpInv, [Next]_vars
    PROVE  /\ OpInv'
           /\ ~ Unlisted /\ DueInv(frame, stack) => DueInv(frame', stack')
<1>1. CASE UNCHANGED vars
  BY <1>1 DEF vars, OpInv, DueInv
<1>2. CASE Next
  <2>1. AStep
    BY <1>2, NextIs
  <2>2. ASSUME NEW c \in Context, MessageSent(c)
        PROVE  OpInv' /\ (DueInv(frame, stack) => DueInv(frame', stack'))
    BY <2>2, SentIsCalled, CalledKeeps
  <2>3. ASSUME NEW c \in Context, NEW h \in FrameState, Unlisted, Leaves(c, h)
        PROVE  OpInv' /\ Unlisted
    BY <2>3, LeavesKeeps
  <2> QED
    BY <1>1, <2>1, <2>2, <2>3, ComputingKeeps, AssignedKeeps, MakesBlockKeeps, ResizedKeeps,
       EditedKeeps, ReturnedKeeps DEF AStep
<1> QED  BY <1>1, <1>2

\* copy_from: a frame is taken over from the image.
LEMMA CopiedFrame ==
    ASSUME NEW f, FrameOK(f), NEW n \in Nat, f.tempsize <= n, n <= FrameSize,
           NEW raw \in [1 .. FrameSize -> Object], NEW h, h = CopyFrom(f, n, raw)
    PROVE  FrameOK(h) /\ h.kind = f.kind
<1> DEFINE g == StoreStackPointer(f, n)
           ss == [i \in 1 .. FrameSize |-> StoreSlot(g, i, raw[i]).slots[i]]
<1>1. f \in FrameState /\ Sound(f)
  BY DEF FrameOK
<1>2. g \in FrameState /\ Sound(g) /\ SameFrame(g, f) /\ g.sp = n
  BY <1>1, StackPointerStored
<1>3. h = [g EXCEPT !.slots = ss]
  BY DEF CopyFrom
<1> HIDE DEF g
<1>4. \A i \in 1 .. FrameSize : StoreSlot(g, i, raw[i]).slots[i] \in Value
  <2> SUFFICES ASSUME NEW i \in 1 .. FrameSize
               PROVE  StoreSlot(g, i, raw[i]).slots[i] \in Value
    OBVIOUS
  <2>1. raw[i] \in Value
    BY Constants
  <2> DEFINE v == raw[i]
             e == StoreSlot(g, i, v)
  <2> HIDE DEF v
  <2>2. e \in FrameState
    BY <1>2, <2>1, SlotStored DEF v
  <2> HIDE DEF e
  <2>3. e.slots[i] \in Value
    BY <2>2, FrameFields DEF Slots
  <2> QED  BY <2>3 DEF e, v
<1>5. \A i \in 1 .. FrameSize : i > n => StoreSlot(g, i, raw[i]).slots[i] = Nil
  <2> SUFFICES ASSUME NEW i \in 1 .. FrameSize, i > n
               PROVE  StoreSlot(g, i, raw[i]).slots[i] = Nil
    OBVIOUS
  <2>1. g.tempsize = f.tempsize /\ f.tempsize \in Nat /\ i \in Nat /\ n \in Nat
    BY <1>2, OpsIs, Constants DEF SameFrame
  <2>2. ~ (i <= g.tempsize) /\ ~ (i <= g.sp)
    BY <1>2, <2>1
  <2>3. StoreSlot(g, i, raw[i]) = g
    BY <2>2 DEF StoreSlot
  <2> QED  BY <1>2, <2>3 DEF Sound
<1>6. ss \in Slots /\ \A i \in 1 .. FrameSize : i > n => ss[i] = Nil
  BY <1>4, <1>5 DEF Slots
<1> HIDE DEF ss
<1>7. /\ h \in FrameState /\ h.slots = ss /\ h.sp = g.sp /\ h.tempsize = g.tempsize
      /\ h.kind = g.kind /\ h.home = g.home
  BY <1>2, <1>3, <1>6 DEF FrameState
<1>8. Sound(h)
  BY <1>2, <1>6, <1>7 DEF Sound, SameFrame
<1> QED  BY <1>2, <1>7, <1>8 DEF FrameOK, SameFrame

LEMMA InitHolds ==
    ASSUME Init
    PROVE  OpInv /\ DueInv(frame, stack)
<1>1. PICK c \in Context, t \in 0 .. MaxTemps, raw \in [1 .. FrameSize -> Object] :
        \E n \in t .. FrameSize :
            /\ frame = [d \in Context |->
                           IF d = c THEN CopyFrom(NewFrame("method", Nil, t, Nil, 0), n, raw)
                           ELSE Empty]
            /\ stack = <<c>>
  BY DEF Init
<1>2. PICK n \in t .. FrameSize :
            /\ frame = [d \in Context |->
                           IF d = c THEN CopyFrom(NewFrame("method", Nil, t, Nil, 0), n, raw)
                           ELSE Empty]
            /\ stack = <<c>>
  BY <1>1
<1> DEFINE k == "method"
           r == Nil
           x == Nil
           e == 0
           f == NewFrame(k, r, t, x, e)
           h == CopyFrom(f, n, raw)
<1>3. /\ k \in FrameKinds /\ r \in Value /\ t \in 0 .. FrameSize /\ x \in Context \union {Nil}
      /\ e \in 0 .. MaxArgs
  BY Constants DEF FrameKinds
<1>4. frame = [d \in Context |-> IF d = c THEN h ELSE Empty] /\ k # "block"
  BY <1>2
<1> HIDE DEF k, r, x, e
<1>5a. f = NewFrame(k, r, t, x, e)
  OBVIOUS
<1> HIDE DEF f
<1>5. f \in FrameState /\ Sound(f) /\ f.kind = k /\ f.tempsize = t
  BY <1>3, <1>5a, NewFrameSound
<1>6. FrameOK(f)
  BY <1>4, <1>5 DEF FrameOK
<1>7. n \in Nat /\ f.tempsize <= n /\ n <= FrameSize
  BY <1>5, Constants
<1>8. FrameOK(h) /\ h.kind = k
  BY <1>5, <1>6, <1>7, CopiedFrame
<1> HIDE DEF h
<1>9. FrameOK(Empty) /\ Rested(Empty)
  BY EmptyIs DEF Rested
<1>10. /\ frame \in [Context -> FrameState] /\ \A d \in Context : FrameOK(frame[d])
       /\ \A d \in Context : Rested(frame[d])
  BY <1>4, <1>8, <1>9 DEF FrameOK, Rested
<1>11. /\ stack \in Seq(Context) /\ Len(stack) = 1 /\ stack[1] = c /\ stack # << >>
       /\ DOMAIN stack = 1 .. 1
  BY <1>2
<1>12. StackOK(stack)
  BY <1>11 DEF StackOK, Injective
<1>13. Above(stack) = {}
  <2>1. ToSet(stack) = {c}
    BY <1>11 DEF ToSet
  <2>2. Last(stack) = c
    BY <1>11 DEF Last
  <2> QED  BY <2>1, <2>2 DEF Above
<1> QED  BY <1>10, <1>12, <1>13 DEF OpInv, FramesOK, DueInv

\* The invariant is inductive: whatever bytecode, return or store of the image
\* comes next, no context is on the stack twice, every frame has its shape, a
\* block that does not run has no operands, and what waits has room for an answer.
THEOREM OpInvHolds == Spec => []OpInv
<1>1. Init => OpInv
  BY InitHolds
<1>2. OpInv /\ [Next]_vars => OpInv'
  BY NextKeeps
<1> QED  BY <1>1, <1>2, PTL DEF Spec

LEMMA OpInvSound ==
    ASSUME OpInv
    PROVE  SlotsSound
<1>1. stack \in Seq(Context) /\ stack # << >>
  BY DEF OpInv, StackOK
<1>2. ASSUME NEW c \in Context
      PROVE  LET f == frame[c]
             IN  /\ f.kind \in {"free", "method", "closure", "block"}
                 /\ f.receiver \in Value
                 /\ f.slots \in [1 .. FrameSize -> Value]
                 /\ f.tempsize \in 0 .. FrameSize /\ f.sp \in f.tempsize .. FrameSize
                 /\ f.home \in Context \union {Nil}
                 /\ f.eargc \in 0 .. MaxArgs
                 /\ \A i \in 1 .. FrameSize : i > f.sp => f.slots[i] = Nil
  <2> DEFINE f == frame[c]
  <2>1. f \in FrameState /\ Sound(f)
    BY MeIs DEF FramesOK, FrameOK
  <2> HIDE DEF f
  <2>2. /\ f.kind \in FrameKinds /\ f.receiver \in Value /\ f.slots \in Slots
        /\ f.sp \in 0 .. FrameSize /\ f.tempsize \in 0 .. FrameSize
        /\ f.home \in Context \union {Nil} /\ f.eargc \in 0 .. MaxArgs
    BY <2>1, FrameFields
  <2>3. /\ f.tempsize <= f.sp /\ \A i \in 1 .. FrameSize : i > f.sp => f.slots[i] = Nil
    BY <2>1 DEF Sound
  <2>4. f.sp \in f.tempsize .. FrameSize
    BY <2>2, <2>3, Constants
  <2> QED  BY <2>2, <2>3, <2>4 DEF f, FrameKinds, Slots
<1>3. TypeOK
  BY <1>1, <1>2 DEF TypeOK
<1>4. NothingAboveStackPointer
  BY <1>2 DEF NothingAboveStackPointer
<1> QED  BY <1>3, <1>4 DEF SlotsSound

\* In every reachable state the slots of every context are its temporaries, then
\* its operands, and then nothing but nil: store_stackpointer, push, pop and
\* copy_from keep it so, whatever the bytecodes and the image do.
THEOREM SlotsStaySound == Spec => []SlotsSound
  BY OpInvHolds, OpInvSound, PTL

\* If a message sent by perform:withArguments: neither fails nor is not understood,
\* a context that waits has lost exactly the receiver and the arguments of the
\* message that it waits for, however its slots were edited and whatever has been
\* called and has answered meanwhile (interpreter_bytecodes.py 310-330, stack_frame).
THEOREM ExactlyArgumentsPopped ==
    ASSUME PerformOutcome \subseteq {"primitive", "method"}
    PROVE  Spec => []ReceiverAndArgumentsPopped
<1>1. ~ Unlisted
  BY DEF Unlisted
<1> DEFINE Due == DueInv(frame, stack)
<1>2. Init => OpInv /\ Due
  BY InitHolds
<1>3. OpInv /\ Due /\ [Next]_vars => OpInv' /\ Due'
  BY <1>1, NextKeeps
<1>4. Due => ReceiverAndArgumentsPopped
  BY DEF DueInv, ReceiverAndArgumentsPopped, Waiting, Active, Running, Above
<1> HIDE DEF Due
<1> QED  BY <1>2, <1>3, <1>4, PTL DEF Spec

--------------------------------------------------------------------------------
(* The refinement.                                                           *)

LEMMA SameNames ==
    /\ Machine!Running = Running /\ Machine!Active = Active
    /\ \A s : Machine!Last(s) = Last(s) /\ Machine!Front(s) = Front(s)
    /\ \A p, q : Machine!IsPrefix(p, q) <=> IsPrefix(p, q)
  BY DEF Machine!Running, Running, Machine!Active, Active, Machine!Last, Last, Machine!Front, Front,
         Machine!IsPrefix, IsPrefix, Machine!ToSet, ToSet

LEMMA Mapped ==
    /\ \A c \in Context : /\ ActivationOperands(c) = Ops(frame[c])
                          /\ ActivationTemps(c) = Temps(frame[c])
    /\ \A c \in Context : /\ ActivationOperands(c)' = Ops(frame'[c])
                          /\ ActivationTemps(c)' = Temps(frame'[c])
<1>1. 0 + 1 = 1
  OBVIOUS
<1> QED  BY <1>1 DEF ActivationOperands, ActivationTemps, Ops, Temps, Part

\* What a context receives for is not disturbed by another context that no block
\* belongs to.
LEMMA ReceiversKept ==
    ASSUME OpInv, NEW c \in Context,
           \A d \in Context \ {c} : /\ frame'[d].kind = frame[d].kind
                                    /\ frame'[d].home = frame[d].home
                                    /\ frame'[d].receiver = frame[d].receiver,
           Fresh(c) \/ frame'[c].receiver = frame[c].receiver
    PROVE  \A d \in Context \ {c} : ReceiverOf(d)' = ReceiverOf(d)
<1> SUFFICES ASSUME NEW d \in Context \ {c} PROVE ReceiverOf(d)' = ReceiverOf(d)
  OBVIOUS
<1>1. Holder(d) \in Context
  BY HolderIs
<1>2. Holder(d)' = Holder(d)
  BY DEF Holder
<1>3. frame'[Holder(d)].receiver = frame[Holder(d)].receiver
  <2>1. CASE Holder(d) = c
    <3>1. frame[d].home = c
      BY <2>1 DEF Holder
    <3> QED  BY <2>1, <3>1 DEF Fresh
  <2>2. CASE Holder(d) # c
    BY <1>1, <2>2
  <2> QED  BY <2>1, <2>2
<1> QED  BY <1>2, <1>3 DEF ReceiverOf

LEMMA AllReceiversKept ==
    ASSUME OpInv,
           \A d \in Context : /\ frame'[d].kind = frame[d].kind
                              /\ frame'[d].home = frame[d].home
                              /\ frame'[d].receiver = frame[d].receiver
    PROVE  \A d \in Context : ReceiverOf(d)' = ReceiverOf(d)
<1> SUFFICES ASSUME NEW d \in Context PROVE ReceiverOf(d)' = ReceiverOf(d)
  OBVIOUS
<1>1. Holder(d) \in Context
  BY HolderIs
<1>2. Holder(d)' = Holder(d)
  BY DEF Holder
<1> QED  BY <1>1, <1>2 DEF ReceiverOf

\* Operands that lose n, and may gain one.
LEMMA LosesAndGains ==
    ASSUME NEW q \in Seq(Value), NEW n \in 0 .. Len(q), NEW p, p = SubSeq(q, 1, Len(q) - n),
           NEW v \in Value, NEW r, r = p \/ r = Append(p, v)
    PROVE  IsPrefix(p, r) /\ Len(r) <= Len(q) - n + 1
<1> DEFINE k == Len(q) - n
<1>1. k \in 0 .. Len(q) /\ k \in Nat
  OBVIOUS
<1> HIDE DEF k
<1>2. p \in Seq(Value) /\ Len(p) = k
  BY <1>1 DEF k
<1> HIDE DEF k
<1>3. r \in Seq(Value) /\ Len(r) \in {k, k + 1} /\ \A i \in 1 .. k : p[i] = r[i]
  <2>1. CASE r = p
    BY <1>2, <2>1
  <2>2. CASE r = Append(p, v)
    <3> DEFINE s == Append(p, v)
    <3>1. s \in Seq(Value) /\ Len(s) = k + 1 /\ \A i \in 1 .. k : p[i] = s[i]
      BY <1>1, <1>2
    <3> HIDE DEF s
    <3>2. r = s
      BY <2>2 DEF s
    <3> QED  BY <3>1, <3>2
  <2> QED  BY <2>1, <2>2
<1>4. Len(p) <= Len(r) /\ \A i \in 1 .. Len(p) : p[i] = r[i]
  BY <1>1, <1>2, <1>3
<1>5. IsPrefix(p, r)
  BY <1>2, <1>3, <1>4, PrefixIs
<1>6. Len(r) <= k + 1
  BY <1>1, <1>3
<1> QED  BY <1>5, <1>6 DEF k

LEMMA ComputingRefines ==
    ASSUME OpInv, Computing
    PROVE  Machine!Compute
<1>1. PICK g : /\ frame' = [frame EXCEPT ![Running] = g]
               /\ FrameOK(g) /\ SameFrame(g, Me) /\ Temps(g) = Temps(Me)
               /\ \E n \in 0 .. Len(Ops(Me)) :
                    \/ Ops(g) = RestOps(Me, n)
                    \/ \E v \in Value : Ops(g) = Append(RestOps(Me, n), v)
  BY DEF Computing
<1>2. /\ Running \in Context /\ frame \in [Context -> FrameState] /\ Ops(Me) \in Seq(Value)
      /\ Me = frame[Running] /\ stack' = stack
  BY MeIs DEF Me, Computing
<1>3. frame'[Running] = g /\ \A d \in Context \ {Running} : frame'[d] = frame[d]
  BY <1>1, <1>2
<1>4. \A d \in Context : Temps(frame'[d]) = Temps(frame[d]) /\ SameFrame(frame'[d], frame[d])
  BY <1>1, <1>2, <1>3 DEF SameFrame
<1>5. \A d \in Context : ReceiverOf(d)' = ReceiverOf(d)
  BY <1>4, AllReceiversKept DEF SameFrame
<1>6. PICK n \in 0 .. Len(Ops(Me)) :
          \/ Ops(g) = RestOps(Me, n)
          \/ \E v \in Value : Ops(g) = Append(RestOps(Me, n), v)
  BY <1>1
<1>7. IsPrefix(RestOps(Me, n), Ops(g)) /\ Len(Ops(g)) <= Len(Ops(Me)) - n + 1
  <2> DEFINE q == Ops(Me)
             p == RestOps(Me, n)
             r == Ops(g)
  <2>1. q \in Seq(Value) /\ n \in 0 .. Len(q) /\ p = SubSeq(q, 1, Len(q) - n)
    BY <1>2 DEF RestOps
  <2>2. PICK v \in Value : r = p \/ r = Append(p, v)
    BY <1>6, Constants
  <2> HIDE DEF q, p, r
  <2>3. IsPrefix(p, r) /\ Len(r) <= Len(q) - n + 1
    BY <2>1, <2>2, LosesAndGains
  <2> QED  BY <2>3 DEF p, q, r
<1> PICK x \in Context : x = Running
  BY <1>2
<1>8. /\ \A d \in Context \ {x} : ActivationOperands(d)' = ActivationOperands(d)
      /\ \A d \in Context : ActivationTemps(d)' = ActivationTemps(d)
      /\ ActivationOperands(x) = Ops(Me) /\ ActivationOperands(x)' = Ops(g)
  <2>1. \A d \in Context : /\ ActivationOperands(d) = Ops(frame[d])
                            /\ ActivationTemps(d) = Temps(frame[d])
                            /\ ActivationOperands(d)' = Ops(frame'[d])
                            /\ ActivationTemps(d)' = Temps(frame'[d])
    BY Mapped
  <2> QED  BY <1>2, <1>3, <1>4, <2>1
<1>9. /\ n \in 0 .. Len(ActivationOperands(x))
      /\ IsPrefix(SubSeq(ActivationOperands(x), 1, Len(ActivationOperands(x)) - n),
                  ActivationOperands(x)')
      /\ Len(ActivationOperands(x)') <= Len(ActivationOperands(x)) - n + 1
  BY <1>7, <1>8 DEF RestOps
<1>10. x = Machine!Running /\ \A p, q : Machine!IsPrefix(p, q) <=> IsPrefix(p, q)
  BY SameNames
<1> QED
  BY <1>2, <1>5, <1>8, <1>9, <1>10 DEF Machine!Compute, Machine!Rest

LEMMA SentIs ==
    ASSUME OpInv, NEW n
    PROVE  /\ Machine!Sent(n) = TopOps(Me, n)
           /\ Machine!Receiver(n) = TopOps(Me, n + 1)[1]
           /\ Machine!Listed(n) = TopOps(Me, n)[1]
           /\ [c \in Context |-> ActivationOperands(c)][Machine!Running] = Ops(Me)
<1>1. [c \in Context |-> ActivationOperands(c)][Machine!Running] = Ops(Me)
  <2>1. Running \in Context /\ Me = frame[Running] /\ Machine!Running = Running
    BY MeIs, SameNames DEF Me
  <2>2. ActivationOperands(Running) = Ops(Me)
    BY <2>1, Mapped
  <2> QED  BY <2>1, <2>2
<1> QED
  BY <1>1 DEF Machine!Sent, Machine!Receiver, Machine!Listed, Machine!Top, TopOps

LEMMA CalledRefines ==
    ASSUME OpInv, NEW c, NEW n, NEW h, Called(c, n, h)
    PROVE  /\ Machine!Call(c, n) /\ c \in Context
           /\ ActivationOperands(c)' = Ops(h) /\ ActivationTemps(c)' = Temps(h)
           /\ Len(stack') > Len(stack) /\ Machine!Last(stack') = c
           /\ h.kind # "block" => ReceiverOf(c)' = h.receiver
           /\ SameFrame(h, frame[c]) => ReceiverOf(c)' = ReceiverOf(c)
<1>1. PICK g : /\ frame' = [frame EXCEPT ![Running] = g, ![c] = h]
               /\ g.kind = Me.kind /\ g.home = Me.home /\ g.receiver = Me.receiver
               /\ Ops(g) = RestOps(Me, n) /\ Temps(g) = Temps(Me)
  BY DEF Called
<1>2. /\ StackOK(stack) /\ frame \in [Context -> FrameState] /\ Me = frame[Running]
      /\ Running \in Context /\ Running \in Active /\ c \in Context /\ c \notin Active
      /\ stack' = Append(stack, c)
      /\ Fresh(c) \/ h.receiver = frame[c].receiver
      /\ n \in 1 .. Len(Ops(Me)) /\ Len(Ops(Me)) \in Nat
  BY MeIs DEF Called, Me
<1> PICK x \in Context : x = Running
  BY <1>2
<1>3. /\ frame'[x] = g /\ frame'[c] = h /\ x # c
      /\ \A d \in Context \ {c, x} : frame'[d] = frame[d]
  BY <1>1, <1>2
<1>4. \A d \in Context : /\ ActivationOperands(d) = Ops(frame[d])
                        /\ ActivationTemps(d) = Temps(frame[d])
                        /\ ActivationOperands(d)' = Ops(frame'[d])
                        /\ ActivationTemps(d)' = Temps(frame'[d])
  BY Mapped
<1>5. \A d \in Context \ {c} : /\ frame'[d].kind = frame[d].kind
                              /\ frame'[d].home = frame[d].home
                              /\ frame'[d].receiver = frame[d].receiver
  BY <1>1, <1>2, <1>3
<1>6. Fresh(c) \/ frame'[c].receiver = frame[c].receiver
  BY <1>2, <1>3
<1>7. \A d \in Context \ {c} : ReceiverOf(d)' = ReceiverOf(d)
  BY <1>2, <1>5, <1>6, ReceiversKept
<1>8. \A d \in Context \ {c, x} : /\ ActivationOperands(d)' = ActivationOperands(d)
                                 /\ ActivationTemps(d)' = ActivationTemps(d)
  BY <1>3, <1>4
<1>9. /\ ActivationOperands(x) = Ops(Me) /\ ActivationOperands(x)' = RestOps(Me, n)
      /\ ActivationTemps(x)' = ActivationTemps(x)
  BY <1>1, <1>2, <1>3, <1>4
<1>10. Machine!Running = x /\ Machine!Active = Active
  BY SameNames
<1>11. Machine!Call(c, n)
  <2>1. /\ stack' = Append(stack, c) /\ c \notin Machine!Active
        /\ n <= Len(ActivationOperands(x))
        /\ ActivationOperands(x)' = SubSeq(ActivationOperands(x), 1, Len(ActivationOperands(x)) - n)
        /\ ActivationTemps(x)' = ActivationTemps(x)
        /\ ReceiverOf(x)' = ReceiverOf(x)
    BY <1>2, <1>3, <1>7, <1>9, <1>10 DEF RestOps
  <2>2. \A d \in Context \ {c, x} : /\ ActivationTemps(d)' = ActivationTemps(d)
                                   /\ ActivationOperands(d)' = ActivationOperands(d)
                                   /\ ReceiverOf(d)' = ReceiverOf(d)
    BY <1>7, <1>8
  <2> QED
    BY <1>10, <2>1, <2>2 DEF Machine!Call, Machine!Rest, Machine!Others, Machine!Untouched
<1>12. Len(stack') > Len(stack) /\ Machine!Last(stack') = c
  <2> DEFINE s == stack
             t == stack'
  <2>1. StackOK(s) /\ c \in Context /\ c \notin ToSet(s) /\ t = Append(s, c)
    BY <1>2 DEF Active
  <2> HIDE DEF s, t
  <2>2. Last(t) = c /\ Len(t) > Len(s)
    BY <2>1, StackGrows
  <2> QED  BY <2>2, SameNames DEF s, t
<1>13. ASSUME h.kind # "block" PROVE ReceiverOf(c)' = h.receiver
  BY <1>3, <1>13 DEF ReceiverOf, Holder
<1>14. ASSUME SameFrame(h, frame[c]) PROVE ReceiverOf(c)' = ReceiverOf(c)
  <2>1. \A d \in Context : /\ frame'[d].kind = frame[d].kind
                          /\ frame'[d].home = frame[d].home
                          /\ frame'[d].receiver = frame[d].receiver
    BY <1>2, <1>3, <1>5, <1>14 DEF SameFrame
  <2> QED  BY <1>2, <2>1, AllReceiversKept
<1> QED  BY <1>2, <1>3, <1>4, <1>11, <1>12, <1>13, <1>14

LEMMA BegunRefines ==
    ASSUME OpInv, NEW c, NEW n, NEW r, NEW vs, Begun(c, n, r, vs)
    PROVE  /\ Machine!Call(c, n) /\ Machine!Begins(c, vs) /\ c \in Context
           /\ [d \in Context |-> ReceiverOf(d)]'[c] = r
           /\ Len(stack') > Len(stack) /\ Machine!Last(stack') = c
           /\ n \in 1 .. Len(Ops(Me)) /\ Len(Ops(Me)) <= FrameSize /\ Len(Ops(Me)) \in Nat
<1>1. PICK h : /\ Called(c, n, h)
               /\ h.kind # "block" /\ h.receiver = r
               /\ Ops(h) = << >> /\ IsPrefix(vs, Temps(h))
  BY DEF Begun
<1>2. /\ Machine!Call(c, n) /\ c \in Context
      /\ ActivationOperands(c)' = Ops(h) /\ ActivationTemps(c)' = Temps(h)
      /\ Len(stack') > Len(stack) /\ Machine!Last(stack') = c
      /\ ReceiverOf(c)' = h.receiver
  BY <1>1, CalledRefines
<1>3. Machine!IsPrefix(vs, Temps(h))
  BY <1>1, SameNames
<1>4. Machine!Begins(c, vs)
  BY <1>1, <1>2, <1>3 DEF Machine!Begins
<1>5. n \in 1 .. Len(Ops(Me)) /\ Len(Ops(Me)) <= FrameSize /\ Len(Ops(Me)) \in Nat
  BY <1>1, MeIs, Constants DEF Called
<1> QED  BY <1>1, <1>2, <1>4, <1>5

LEMMA EvaluatedRefines ==
    ASSUME OpInv, NEW c, NEW n, NEW vs, Evaluated(c, n, vs)
    PROVE  /\ Machine!Call(c, n) /\ c \in Context
           /\ ActivationOperands(c)' = vs /\ ActivationTemps(c)' = ActivationTemps(c)
           /\ ReceiverOf(c)' = ReceiverOf(c)
           /\ Len(stack') > Len(stack) /\ Machine!Last(stack') = c
           /\ n \in 1 .. Len(Ops(Me)) /\ Len(Ops(Me)) <= FrameSize /\ Len(Ops(Me)) \in Nat
<1>1. PICK h : /\ Called(c, n, h)
               /\ SameFrame(h, frame[c])
               /\ Ops(h) = vs /\ Temps(h) = Temps(frame[c])
  BY DEF Evaluated
<1>2. /\ Machine!Call(c, n) /\ c \in Context
      /\ ActivationOperands(c)' = Ops(h) /\ ActivationTemps(c)' = Temps(h)
      /\ Len(stack') > Len(stack) /\ Machine!Last(stack') = c
      /\ ReceiverOf(c)' = ReceiverOf(c)
  BY <1>1, CalledRefines
<1>3. ActivationTemps(c) = Temps(frame[c])
  BY <1>2, Mapped
<1>5. n \in 1 .. Len(Ops(Me)) /\ Len(Ops(Me)) <= FrameSize /\ Len(Ops(Me)) \in Nat
  BY <1>1, MeIs, Constants DEF Called
<1> QED  BY <1>1, <1>2, <1>3, <1>5

\* What is sent, as the operands on top.
LEMMA SentPeeked ==
    ASSUME OpInv, NEW k \in Nat, k + 1 <= Len(Ops(Me))
    PROVE  /\ Machine!Sent(k) = PeekN(Me, k)
           /\ Machine!Receiver(k) = Peek(Me, k)
           /\ k < Len([c \in Context |-> ActivationOperands(c)][Machine!Running])
           /\ Machine!Listed(k + 1) = Peek(Me, k)
<1>1. k + 1 <= Depth(Me) /\ k <= Depth(Me)
  BY MeIs
<1>2. PeekN(Me, k) = TopOps(Me, k) /\ TopOps(Me, k + 1)[1] = Peek(Me, k)
  BY <1>1, Operand, Operands
<1>3. /\ Machine!Sent(k) = TopOps(Me, k)
      /\ Machine!Receiver(k) = TopOps(Me, k + 1)[1]
      /\ [c \in Context |-> ActivationOperands(c)][Machine!Running] = Ops(Me)
  BY SentIs
<1>4. Machine!Listed(k + 1) = TopOps(Me, k + 1)[1]
  BY SentIs
<1>5. k < Len(Ops(Me))
  BY MeIs
<1> QED  BY <1>2, <1>3, <1>4, <1>5

\* The operands that a call takes are there.
LEMMA Taken ==
    ASSUME OpInv, NEW k \in Nat, k + 1 \in 1 .. Len(Ops(Me)), Len(Ops(Me)) <= FrameSize,
           Len(Ops(Me)) \in Nat
    PROVE  /\ k \in 0 .. FrameSize
           /\ Machine!Sent(k) = PeekN(Me, k)
           /\ Machine!Receiver(k) = Peek(Me, k)
           /\ Machine!Listed(k + 1) = Peek(Me, k)
           /\ k < Len([c \in Context |-> ActivationOperands(c)][Machine!Running])
           /\ k + 1 <= Len([c \in Context |-> ActivationOperands(c)][Machine!Running])
<1> DEFINE n == Len(Ops(Me))
<1>1. n \in Nat /\ k + 1 <= n /\ n <= FrameSize
  OBVIOUS
<1>2. [c \in Context |-> ActivationOperands(c)][Machine!Running] = Ops(Me)
  BY SentIs
<1>3. k \in 0 .. FrameSize
  <2> HIDE DEF n
  <2> QED  BY <1>1, Constants
<1>4. k + 1 <= Len(Ops(Me))
  BY <1>1
<1> QED  BY <1>2, <1>3, <1>4, SentPeeked

LEMMA SendRefines ==
    ASSUME OpInv, NEW c, NEW k \in 0 .. MaxArgs
    PROVE  /\ Begun(c, k + 1, Peek(Me, k), PeekN(Me, k))
                => Machine!Send(c, k) /\ k \in 0 .. FrameSize
           /\ Begun(c, k + 1, Peek(Me, k), <<[message |-> PeekN(Me, k)]>>)
                => Machine!NotUnderstood(c, k) /\ k \in 0 .. FrameSize
           /\ c = Peek(Me, k) /\ Evaluated(c, k + 1, PeekN(Me, k))
                => Machine!CallBlock(c, k, Machine!Sent(k)) /\ k \in 0 .. FrameSize
<1>0. k \in Nat
  BY Constants
<1> DEFINE r == Peek(Me, k)
           vs == PeekN(Me, k)
           m == <<[message |-> PeekN(Me, k)]>>
           n == k + 1
<1>1. r = Peek(Me, k) /\ vs = PeekN(Me, k) /\ m = <<[message |-> PeekN(Me, k)]>> /\ n = k + 1
  OBVIOUS
<1> HIDE DEF r, vs, m, n
<1>2. ASSUME Begun(c, n, r, vs)
      PROVE  Machine!Send(c, k) /\ k \in 0 .. FrameSize
  <2>1. /\ Machine!Call(c, n) /\ Machine!Begins(c, vs)
        /\ [d \in Context |-> ReceiverOf(d)]'[c] = r
        /\ n \in 1 .. Len(Ops(Me)) /\ Len(Ops(Me)) <= FrameSize /\ Len(Ops(Me)) \in Nat
    BY <1>2, BegunRefines
  <2>2. /\ k \in 0 .. FrameSize /\ Machine!Sent(k) = vs /\ Machine!Receiver(k) = r
        /\ k < Len([d \in Context |-> ActivationOperands(d)][Machine!Running])
    BY <1>0, <1>1, <2>1, Taken
  <2> QED  BY <1>1, <2>1, <2>2 DEF Machine!Send
<1>3. ASSUME Begun(c, n, r, m)
      PROVE  Machine!NotUnderstood(c, k) /\ k \in 0 .. FrameSize
  <2>1. /\ Machine!Call(c, n) /\ Machine!Begins(c, m)
        /\ [d \in Context |-> ReceiverOf(d)]'[c] = r
        /\ n \in 1 .. Len(Ops(Me)) /\ Len(Ops(Me)) <= FrameSize /\ Len(Ops(Me)) \in Nat
    BY <1>3, BegunRefines
  <2>2. /\ k \in 0 .. FrameSize /\ Machine!Sent(k) = vs /\ Machine!Receiver(k) = r
        /\ k < Len([d \in Context |-> ActivationOperands(d)][Machine!Running])
    BY <1>0, <1>1, <2>1, Taken
  <2>3. m = <<[message |-> Machine!Sent(k)]>>
    BY <1>1, <2>2
  <2> QED  BY <1>1, <2>1, <2>2, <2>3 DEF Machine!NotUnderstood
<1>4. ASSUME c = r, Evaluated(c, n, vs)
      PROVE  Machine!CallBlock(c, k, Machine!Sent(k)) /\ k \in 0 .. FrameSize
  <2>1. /\ Machine!Call(c, n) /\ c \in Context
        /\ ActivationOperands(c)' = vs /\ ActivationTemps(c)' = ActivationTemps(c)
        /\ ReceiverOf(c)' = ReceiverOf(c)
        /\ n \in 1 .. Len(Ops(Me)) /\ Len(Ops(Me)) <= FrameSize /\ Len(Ops(Me)) \in Nat
    BY <1>4, EvaluatedRefines
  <2>2. /\ k \in 0 .. FrameSize /\ Machine!Sent(k) = vs /\ Machine!Receiver(k) = r
        /\ k < Len([d \in Context |-> ActivationOperands(d)][Machine!Running])
    BY <1>0, <1>1, <2>1, Taken
  <2> QED  BY <1>1, <1>4, <2>1, <2>2 DEF Machine!CallBlock
<1> QED  BY <1>1, <1>2, <1>3, <1>4

LEMMA ClosureRefines ==
    ASSUME OpInv, NEW c, NEW k \in Nat, NEW vs, Peek(Me, k) \in Closure,
           Begun(c, k + 1, ReceiverOf(Peek(Me, k).outer), vs \o Peek(Me, k).copied)
    PROVE  Machine!CallClosure(c, k, vs) /\ k \in 0 .. FrameSize
<1> DEFINE f == Peek(Me, k)
           r == ReceiverOf(f.outer)
           ws == vs \o f.copied
           n == k + 1
<1>1. f = Peek(Me, k) /\ r = ReceiverOf(f.outer) /\ ws = vs \o f.copied /\ n = k + 1
  OBVIOUS
<1>2. f \in Closure /\ Begun(c, n, r, ws)
  OBVIOUS
<1> HIDE DEF f, r, ws, n
<1>3. /\ Machine!Call(c, n) /\ Machine!Begins(c, ws)
      /\ [d \in Context |-> ReceiverOf(d)]'[c] = r
      /\ n \in 1 .. Len(Ops(Me)) /\ Len(Ops(Me)) <= FrameSize /\ Len(Ops(Me)) \in Nat
  BY <1>2, BegunRefines
<1>4. /\ k \in 0 .. FrameSize /\ Machine!Receiver(k) = f
      /\ k < Len([d \in Context |-> ActivationOperands(d)][Machine!Running])
  BY <1>1, <1>3, Taken
<1>5. f.outer \in Context
  BY <1>2, ClosureIs
<1>6. [d \in Context |-> ReceiverOf(d)][f.outer] = r
  BY <1>1, <1>5
<1> QED  BY <1>1, <1>2, <1>3, <1>4, <1>6 DEF Machine!CallClosure

LEMMA ListRefines ==
    ASSUME OpInv, NEW c, NEW vs
    PROVE  /\ Begun(c, 3, Peek(Me, 2), vs)
                => Machine!SendList(c, 2, vs) /\ Machine!Listed(1) = Peek(Me, 0)
                   /\ Machine!Listed(2) = Peek(Me, 1)
                   /\ 2 <= Len([d \in Context |-> ActivationOperands(d)][Machine!Running])
           /\ c = Peek(Me, 1) /\ Evaluated(c, 2, vs)
                => Machine!CallBlock(c, 1, vs) /\ Machine!Listed(1) = Peek(Me, 0)
                   /\ 1 <= Len([d \in Context |-> ActivationOperands(d)][Machine!Running])
           /\ Peek(Me, 1) \in Closure
              /\ Begun(c, 2, ReceiverOf(Peek(Me, 1).outer), vs \o Peek(Me, 1).copied)
                => Machine!Listed(1) = Peek(Me, 0)
                   /\ 1 <= Len([d \in Context |-> ActivationOperands(d)][Machine!Running])
<1> DEFINE n == Len([d \in Context |-> ActivationOperands(d)][Machine!Running])
           z == 0
           o == 1
           t == 2
           h == 3
<1>1. n = Len(Ops(Me))
  BY SentIs
<1>2. z \in Nat /\ o \in Nat /\ t \in Nat /\ z + 1 = o /\ o + 1 = t /\ t + 1 = h
  OBVIOUS
<1>3. /\ z = 0 /\ o = 1 /\ t = 2 /\ h = 3
  OBVIOUS
<1> HIDE DEF z, o, t, h
<1>4. ASSUME h \in 1 .. Len(Ops(Me)), Len(Ops(Me)) <= FrameSize, Len(Ops(Me)) \in Nat
      PROVE  /\ Machine!Listed(o) = Peek(Me, z) /\ Machine!Listed(t) = Peek(Me, o)
             /\ Machine!Receiver(t) = Peek(Me, t) /\ t < n /\ t <= n
  <2>1. o \in 1 .. Len(Ops(Me)) /\ t \in 1 .. Len(Ops(Me))
    BY <1>3, <1>4
  <2>2. Machine!Listed(z + 1) = Peek(Me, z)
    BY <1>2, <1>4, <2>1, Taken
  <2>3. Machine!Listed(o + 1) = Peek(Me, o)
    BY <1>2, <1>4, <2>1, Taken
  <2>4. Machine!Receiver(t) = Peek(Me, t)
    BY <1>2, <1>4, Taken
  <2> HIDE DEF n
  <2>5. t < n /\ t <= n
    BY <1>1, <1>3, <1>4
  <2> QED  BY <1>2, <2>2, <2>3, <2>4, <2>5
<1>5. ASSUME t \in 1 .. Len(Ops(Me)), Len(Ops(Me)) <= FrameSize, Len(Ops(Me)) \in Nat
      PROVE  /\ Machine!Listed(o) = Peek(Me, z)
             /\ Machine!Receiver(o) = Peek(Me, o) /\ o < n /\ o <= n
  <2>1. o \in 1 .. Len(Ops(Me))
    BY <1>3, <1>5
  <2>2. Machine!Listed(z + 1) = Peek(Me, z)
    BY <1>2, <1>5, <2>1, Taken
  <2>4. Machine!Receiver(o) = Peek(Me, o)
    BY <1>2, <1>5, Taken
  <2> HIDE DEF n
  <2>5. o < n /\ o <= n
    BY <1>1, <1>3, <1>5
  <2> QED  BY <1>2, <2>2, <2>4, <2>5
<1>6. ASSUME Begun(c, h, Peek(Me, t), vs)
      PROVE  /\ Machine!SendList(c, t, vs) /\ Machine!Listed(o) = Peek(Me, z)
             /\ Machine!Listed(t) = Peek(Me, o) /\ t <= n
  <2>1. /\ Machine!Call(c, h) /\ Machine!Begins(c, vs)
        /\ [d \in Context |-> ReceiverOf(d)]'[c] = Peek(Me, t)
        /\ h \in 1 .. Len(Ops(Me)) /\ Len(Ops(Me)) <= FrameSize /\ Len(Ops(Me)) \in Nat
    BY <1>6, BegunRefines
  <2> QED  BY <1>2, <1>4, <2>1 DEF Machine!SendList
<1>7. ASSUME c = Peek(Me, o), Evaluated(c, t, vs)
      PROVE  Machine!CallBlock(c, o, vs) /\ Machine!Listed(o) = Peek(Me, z) /\ o <= n
  <2>1. /\ Machine!Call(c, t) /\ c \in Context
        /\ ActivationOperands(c)' = vs /\ ActivationTemps(c)' = ActivationTemps(c)
        /\ ReceiverOf(c)' = ReceiverOf(c)
        /\ t \in 1 .. Len(Ops(Me)) /\ Len(Ops(Me)) <= FrameSize /\ Len(Ops(Me)) \in Nat
    BY <1>7, EvaluatedRefines
  <2> QED  BY <1>2, <1>5, <1>7, <2>1 DEF Machine!CallBlock
<1>8. ASSUME NEW r, NEW ws, Begun(c, t, r, ws)
      PROVE  Machine!Listed(o) = Peek(Me, z) /\ o <= n
  <2>1. t \in 1 .. Len(Ops(Me)) /\ Len(Ops(Me)) <= FrameSize /\ Len(Ops(Me)) \in Nat
    BY <1>8, BegunRefines
  <2> QED  BY <1>5, <2>1
<1> HIDE DEF n
<1>9. Begun(c, 3, Peek(Me, 2), vs)
                => Machine!SendList(c, 2, vs) /\ Machine!Listed(1) = Peek(Me, 0)
                   /\ Machine!Listed(2) = Peek(Me, 1) /\ 2 <= n
  BY <1>3, <1>6
<1>10. c = Peek(Me, 1) /\ Evaluated(c, 2, vs)
                => Machine!CallBlock(c, 1, vs) /\ Machine!Listed(1) = Peek(Me, 0) /\ 1 <= n
  BY <1>3, <1>7
<1>11. Begun(c, 2, ReceiverOf(Peek(Me, 1).outer), vs \o Peek(Me, 1).copied)
                => Machine!Listed(1) = Peek(Me, 0) /\ 1 <= n
  BY <1>3, <1>8
<1> QED  BY <1>9, <1>10, <1>11 DEF n

LEMMA SentRefines ==
    ASSUME OpInv, NEW c \in Context, MessageSent(c)
    PROVE  Len(stack') > Len(stack) /\ Machine!Calls(Machine!Last(stack'))
<1>1. ASSUME NEW n, NEW r, NEW vs, Begun(c, n, r, vs)
      PROVE  Len(stack') > Len(stack) /\ Machine!Last(stack') = c
  BY <1>1, BegunRefines
<1>2. ASSUME NEW n, NEW vs, Evaluated(c, n, vs)
      PROVE  Len(stack') > Len(stack) /\ Machine!Last(stack') = c
  BY <1>2, EvaluatedRefines
<1>3. Len(stack') > Len(stack) /\ Machine!Last(stack') = c
  BY <1>1, <1>2 DEF MessageSent
<1>4. ASSUME NEW k \in 0 .. MaxArgs, Begun(c, k + 1, Peek(Me, k), PeekN(Me, k))
      PROVE  Machine!Calls(c)
  BY <1>4, SendRefines DEF Machine!Calls
<1>5. ASSUME NEW k \in 0 .. MaxArgs, Begun(c, k + 1, Peek(Me, k), <<[message |-> PeekN(Me, k)]>>)
      PROVE  Machine!Calls(c)
  BY <1>5, SendRefines DEF Machine!Calls
<1>6. ASSUME NEW k \in 0 .. MaxArgs, c = Peek(Me, k), Evaluated(c, k + 1, PeekN(Me, k))
      PROVE  Machine!Calls(c)
  BY <1>6, SendRefines DEF Machine!Calls
<1>7. ASSUME NEW k \in 0 .. MaxArgs, Peek(Me, k) \in Closure,
             Begun(c, k + 1, ReceiverOf(Peek(Me, k).outer), PeekN(Me, k) \o Peek(Me, k).copied)
      PROVE  Machine!Calls(c)
  <2>0. k \in Nat
    BY Constants
  <2>1. k + 1 \in 1 .. Len(Ops(Me)) /\ Len(Ops(Me)) <= FrameSize /\ Len(Ops(Me)) \in Nat
    <3> DEFINE n == k + 1
               r == ReceiverOf(Peek(Me, k).outer)
               ws == PeekN(Me, k) \o Peek(Me, k).copied
    <3>1. Begun(c, n, r, ws)
      BY <1>7
    <3> HIDE DEF n, r, ws
    <3>2. n \in 1 .. Len(Ops(Me)) /\ Len(Ops(Me)) <= FrameSize /\ Len(Ops(Me)) \in Nat
      BY <3>1, BegunRefines
    <3> QED  BY <3>2 DEF n
  <2>2. Machine!Sent(k) = PeekN(Me, k)
    BY <2>0, <2>1, Taken
  <2>3. Machine!CallClosure(c, k, Machine!Sent(k)) /\ k \in 0 .. FrameSize
    BY <1>7, <2>0, <2>2, ClosureRefines
  <2> QED  BY <2>3 DEF Machine!Calls
<1>8. ASSUME Peek(Me, 0) \in Array, Begun(c, 3, Peek(Me, 2), Peek(Me, 0).array)
      PROVE  Machine!Calls(c)
  <2> DEFINE vs == Peek(Me, 0).array
  <2>1. vs = Peek(Me, 0).array /\ Begun(c, 3, Peek(Me, 2), vs)
    BY <1>8
  <2> HIDE DEF vs
  <2>2. Machine!SendList(c, 2, vs) /\ Machine!Listed(1) = Peek(Me, 0)
        /\ 2 <= Len([d \in Context |-> ActivationOperands(d)][Machine!Running])
    BY <2>1, ListRefines
  <2>3. 1 <= Len([d \in Context |-> ActivationOperands(d)][Machine!Running])
    <3> DEFINE n == Len([d \in Context |-> ActivationOperands(d)][Machine!Running])
    <3>1. n = Len(Ops(Me)) /\ Len(Ops(Me)) \in Nat
      BY SentIs, MeIs
    <3> HIDE DEF n
    <3> QED  BY <2>2, <3>1 DEF n
  <2> QED  BY <1>8, <2>1, <2>2, <2>3 DEF Machine!Calls
<1>9. ASSUME Peek(Me, 1) \in Array, Begun(c, 3, Peek(Me, 2), Peek(Me, 1).array)
      PROVE  Machine!Calls(c)
  <2> DEFINE vs == Peek(Me, 1).array
  <2>1. vs = Peek(Me, 1).array /\ Begun(c, 3, Peek(Me, 2), vs)
    BY <1>9
  <2> HIDE DEF vs
  <2>2. Machine!SendList(c, 2, vs) /\ Machine!Listed(2) = Peek(Me, 1)
        /\ 2 <= Len([d \in Context |-> ActivationOperands(d)][Machine!Running])
    BY <2>1, ListRefines
  <2> QED  BY <1>9, <2>1, <2>2 DEF Machine!Calls
<1>10. ASSUME Peek(Me, 0) \in Array, c = Peek(Me, 1), Evaluated(c, 2, Peek(Me, 0).array)
       PROVE  Machine!Calls(c)
  <2> DEFINE vs == Peek(Me, 0).array
  <2>1. vs = Peek(Me, 0).array /\ Evaluated(c, 2, vs)
    BY <1>10
  <2> HIDE DEF vs
  <2>2. Machine!CallBlock(c, 1, vs) /\ Machine!Listed(1) = Peek(Me, 0)
        /\ 1 <= Len([d \in Context |-> ActivationOperands(d)][Machine!Running])
    BY <1>10, <2>1, ListRefines
  <2> QED  BY <1>10, <2>1, <2>2 DEF Machine!Calls
<1>11. ASSUME Peek(Me, 0) \in Array, Peek(Me, 1) \in Closure,
              Begun(c, 2, ReceiverOf(Peek(Me, 1).outer), Peek(Me, 0).array \o Peek(Me, 1).copied)
       PROVE  Machine!Calls(c)
  <2> DEFINE vs == Peek(Me, 0).array
             o == 1
             t == 2
  <2>1. vs = Peek(Me, 0).array
        /\ Begun(c, 2, ReceiverOf(Peek(Me, 1).outer), vs \o Peek(Me, 1).copied)
        /\ Begun(c, t, ReceiverOf(Peek(Me, o).outer), vs \o Peek(Me, o).copied)
        /\ Peek(Me, o) \in Closure
    BY <1>11
  <2>2. o \in Nat /\ o + 1 = t /\ o = 1
    OBVIOUS
  <2> HIDE DEF vs, o, t
  <2>3. Machine!Listed(1) = Peek(Me, 0)
        /\ 1 <= Len([d \in Context |-> ActivationOperands(d)][Machine!Running])
    BY <1>11, <2>1, ListRefines
  <2>4. Machine!CallClosure(c, o, vs)
    BY <2>1, <2>2, ClosureRefines
  <2> QED  BY <1>11, <2>1, <2>2, <2>3, <2>4 DEF Machine!Calls
<1>12. Machine!Calls(c)
  BY <1>4, <1>5, <1>6, <1>7, <1>8, <1>9, <1>10, <1>11 DEF MessageSent
<1> QED  BY <1>3, <1>12

LEMMA TopIs ==
    ASSUME OpInv, 1 <= Len(Ops(Me))
    PROVE  Machine!Last(Ops(Me)) = Peek(Me, 0)
<1> DEFINE q == Ops(Me)
           n == Len(q)
           z == 0
           v == Peek(Me, z)
<1>1. q \in Seq(Value) /\ n \in Nat /\ 1 <= n /\ n = Depth(Me)
  BY MeIs
<1>2. z \in Nat /\ z + 1 <= Depth(Me) /\ n - z = n
  BY <1>1
<1>3. q[n - z] = v
  <2> HIDE DEF z
  <2> QED  BY <1>2, Operand DEF v, q, n
<1>4. Last(q) = q[n]
  BY DEF Last
<1>5. Last(q) = v
  <2> HIDE DEF q, v, n, z
  <2> QED  BY <1>2, <1>3, <1>4
<1> QED  BY <1>5, SameNames

LEMMA AssignedRefines ==
    ASSUME OpInv, NEW i, NEW taken, Assigned(i, taken)
    PROVE  \E c \in Context : Machine!Assign(c, i, taken)
<1>1. Running \in Context /\ Me = frame[Running] /\ Holder(Running) \in Context
  BY MeIs, HolderIs DEF Me
<1> PICK x \in Context : x = Running
  BY <1>1
<1> PICK h \in Context : h = Holder(Running)
  BY <1>1
<1>2. /\ stack' = stack /\ 1 <= Len(Ops(Me))
      /\ i \in DOMAIN Temps(frame[h])
      /\ \A d \in Context : SameFrame(frame'[d], frame[d])
      /\ \A d \in Context \ {x} : Ops(frame'[d]) = Ops(frame[d])
      /\ Ops(frame'[x]) = RestOps(Me, taken)
      /\ \A d \in Context \ {h} : Temps(frame'[d]) = Temps(frame[d])
      /\ Temps(frame'[h]) = [Temps(frame[h]) EXCEPT ![i] = Peek(Me, 0)]
  BY DEF Assigned
<1>3. \A d \in Context : ReceiverOf(d)' = ReceiverOf(d)
  BY <1>2, AllReceiversKept DEF SameFrame
<1>4. /\ \A d \in Context : /\ ActivationOperands(d) = Ops(frame[d])
                           /\ ActivationTemps(d) = Temps(frame[d])
      /\ \A d \in Context : /\ ActivationOperands(d)' = Ops(frame'[d])
                           /\ ActivationTemps(d)' = Temps(frame'[d])
  BY Mapped
<1>5. Machine!Last(Ops(Me)) = Peek(Me, 0) /\ Machine!Running = x
  BY <1>2, TopIs, SameNames
<1> DEFINE tt == [d \in Context |-> ActivationTemps(d)]
           oo == [d \in Context |-> ActivationOperands(d)]
<1>6. tt[h] = Temps(frame[h]) /\ oo[x] = Ops(Me)
  BY <1>1, <1>4
<1>7. [d \in Context |-> ActivationTemps(d)'] = [tt EXCEPT ![h][i] = Machine!Last(oo[x])]
  <2> DEFINE u == [Temps(frame[h]) EXCEPT ![i] = Peek(Me, 0)]
  <2>1. \A d \in Context : ActivationTemps(d)' = IF d = h THEN u ELSE ActivationTemps(d)
    BY <1>2, <1>4
  <2>2. u = [tt[h] EXCEPT ![i] = Machine!Last(oo[x])]
    BY <1>5, <1>6
  <2> HIDE DEF u
  <2>3. [d \in Context |-> ActivationTemps(d)'] = [tt EXCEPT ![h] = u]
    BY <2>1
  <2> HIDE DEF tt, oo
  <2> QED  BY <2>2, <2>3
<1>8. [d \in Context |-> ActivationOperands(d)']
        = [oo EXCEPT ![x] = SubSeq(@, 1, Len(@) - taken)]
  <2> DEFINE u == RestOps(Me, taken)
  <2>1. \A d \in Context : ActivationOperands(d)' = IF d = x THEN u ELSE ActivationOperands(d)
    BY <1>2, <1>4
  <2>2. u = SubSeq(oo[x], 1, Len(oo[x]) - taken)
    BY <1>6 DEF RestOps
  <2> HIDE DEF u
  <2>3. [d \in Context |-> ActivationOperands(d)'] = [oo EXCEPT ![x] = u]
    BY <2>1
  <2> HIDE DEF oo
  <2> QED  BY <2>2, <2>3
<1>9. i \in DOMAIN tt[h] /\ 1 <= Len(oo[x])
  BY <1>2, <1>6
<1>10. [d \in Context |-> ReceiverOf(d)'] = [d \in Context |-> ReceiverOf(d)]
  BY <1>3
<1>11. Machine!Assign(h, i, taken)
  BY <1>2, <1>5, <1>7, <1>8, <1>9, <1>10 DEF Machine!Assign, Machine!Rest
<1> QED  BY <1>11

LEMMA MakesBlockRefines ==
    ASSUME OpInv, NEW c, MakesBlock(c)
    PROVE  c \in Context /\ Machine!NewBlock(c)
<1>1. /\ Running \in Context /\ Running \in Active /\ Me = frame[Running]
      /\ frame \in [Context -> FrameState]
  BY MeIs DEF Me
<1>2. /\ c \in Context /\ c \notin Active /\ Fresh(c) /\ 2 <= Len(Ops(Me)) /\ stack' = stack
  BY DEF MakesBlock
<1> PICK x \in Context : x = Running
  BY <1>1
<1>3. PICK g, k : /\ frame' = [frame EXCEPT ![Running] = g, ![c] = k]
                  /\ SameFrame(g, Me)
                  /\ Ops(g) = Append(RestOps(Me, 2), c) /\ Temps(g) = Temps(Me)
                  /\ Ops(k) = << >> /\ Temps(k) = << >>
  BY DEF MakesBlock
<1>4. /\ x # c /\ frame'[x] = g /\ frame'[c] = k
      /\ \A d \in Context \ {c, x} : frame'[d] = frame[d]
  BY <1>1, <1>2, <1>3
<1>5. \A d \in Context \ {c} : ReceiverOf(d)' = ReceiverOf(d)
  <2>1. \A d \in Context \ {c} : /\ frame'[d].kind = frame[d].kind
                                /\ frame'[d].home = frame[d].home
                                /\ frame'[d].receiver = frame[d].receiver
    BY <1>1, <1>3, <1>4 DEF SameFrame
  <2> QED  BY <1>2, <2>1, ReceiversKept
<1>6. /\ \A d \in Context : /\ ActivationOperands(d) = Ops(frame[d])
                           /\ ActivationTemps(d) = Temps(frame[d])
      /\ \A d \in Context : /\ ActivationOperands(d)' = Ops(frame'[d])
                           /\ ActivationTemps(d)' = Temps(frame'[d])
  BY Mapped
<1> DEFINE tt == [d \in Context |-> ActivationTemps(d)]
           oo == [d \in Context |-> ActivationOperands(d)]
           u  == Append(RestOps(Me, 2), c)
<1>7. oo[x] = Ops(Me)
  BY <1>1, <1>6
<1>8. [d \in Context |-> ActivationTemps(d)'] = [tt EXCEPT ![c] = << >>]
  <2>1. \A d \in Context : ActivationTemps(d)' = IF d = c THEN << >> ELSE ActivationTemps(d)
    BY <1>1, <1>3, <1>4, <1>6
  <2> QED  BY <2>1
<1>9. [d \in Context |-> ActivationOperands(d)'] = [oo EXCEPT ![x] = u, ![c] = << >>]
  <2>1. \A d \in Context : ActivationOperands(d)' = IF d = c THEN << >> ELSE
                                                    IF d = x THEN u ELSE ActivationOperands(d)
    BY <1>3, <1>4, <1>6
  <2> HIDE DEF u
  <2> QED  BY <1>2, <1>4, <2>1
<1>10. u = Append(SubSeq(oo[x], 1, Len(oo[x]) - 2), c) /\ 2 <= Len(oo[x])
  BY <1>2, <1>7 DEF RestOps
<1> HIDE DEF u
<1>11. \A d \in Context \ {c} : [e \in Context |-> ReceiverOf(e)]'[d] = [e \in Context |-> ReceiverOf(e)][d]
  BY <1>5
<1>12. Machine!Running = x /\ Machine!Active = Active
  BY SameNames
<1>13. Machine!NewBlock(c)
  BY <1>2, <1>8, <1>9, <1>10, <1>11, <1>12 DEF Machine!NewBlock, Machine!Rest
<1> QED  BY <1>2, <1>13

LEMMA ResizedRefines ==
    ASSUME OpInv, NEW c, Resized(c)
    PROVE  c \in Machine!Active \ {Machine!Running} /\ Machine!Resize(c)
<1>1. /\ StackOK(stack) /\ frame \in [Context -> FrameState] /\ Active \subseteq Context
      /\ \A d \in Context : FrameOK(frame[d])
  BY MeIs DEF FramesOK
<1>2. PICK g : /\ frame' = [frame EXCEPT ![c] = g] /\ FrameOK(g)
               /\ g.kind = frame[c].kind /\ g.home = frame[c].home
               /\ g.receiver = frame[c].receiver /\ Temps(g) = Temps(frame[c])
               /\ \/ \E n \in 0 .. Len(Ops(frame[c])) : Ops(g) = SubSeq(Ops(frame[c]), 1, n)
                  \/ \E n \in 0 .. FrameSize : Ops(g) = Ops(frame[c]) \o [i \in 1 .. n |-> Nil]
  BY DEF Resized
<1>3. stack' = stack /\ c \in Active /\ c # Running /\ c \in Context
  BY <1>1 DEF Resized, Above, Active, Running
<1>4. frame'[c] = g /\ \A d \in Context \ {c} : frame'[d] = frame[d]
  BY <1>1, <1>2, <1>3
<1>5. \A d \in Context : ReceiverOf(d)' = ReceiverOf(d)
  <2>1. \A d \in Context : /\ frame'[d].kind = frame[d].kind
                          /\ frame'[d].home = frame[d].home
                          /\ frame'[d].receiver = frame[d].receiver
    BY <1>2, <1>3, <1>4
  <2> QED  BY <2>1, AllReceiversKept
<1>6. /\ \A d \in Context : ActivationTemps(d)' = ActivationTemps(d)
      /\ \A d \in Context \ {c} : ActivationOperands(d)' = ActivationOperands(d)
      /\ ActivationOperands(c) = Ops(frame[c]) /\ ActivationOperands(c)' = Ops(g)
  <2>1. /\ \A d \in Context : /\ ActivationOperands(d) = Ops(frame[d])
                             /\ ActivationTemps(d) = Temps(frame[d])
        /\ \A d \in Context : /\ ActivationOperands(d)' = Ops(frame'[d])
                             /\ ActivationTemps(d)' = Temps(frame'[d])
    BY Mapped
  <2> QED  BY <1>2, <1>3, <1>4, <2>1
<1> DEFINE q == Ops(frame[c])
           r == Ops(g)
<1>7. \/ Machine!IsPrefix(r, q)
      \/ \E n \in 1 .. FrameSize : r = q \o [i \in 1 .. n |-> Nil]
  <2> DEFINE f == frame[c]
  <2>1. FrameOK(f) /\ FrameOK(g) /\ q = Ops(f)
    BY <1>1, <1>2, <1>3
  <2> HIDE DEF f
  <2>2. q \in Seq(Value) /\ r \in Seq(Value)
    BY <2>1, OpsIs
  <2>3. \/ \E n \in 0 .. Len(q) : r = SubSeq(q, 1, n)
        \/ \E n \in 0 .. FrameSize : r = q \o [i \in 1 .. n |-> Nil]
    BY <1>2
  <2> HIDE DEF q, r
  <2>4. ASSUME NEW n \in 0 .. Len(q), r = SubSeq(q, 1, n) PROVE IsPrefix(r, q)
    <3>1. Len(r) = n /\ Len(q) \in Nat /\ \A i \in 1 .. n : r[i] = q[i]
      BY <2>2, <2>4
    <3>2. Len(r) <= Len(q) /\ \A i \in 1 .. Len(r) : r[i] = q[i]
      BY <3>1
    <3> QED  BY <2>2, <3>2, PrefixIs
  <2>5. ASSUME NEW n \in 0 .. FrameSize, n = 0, r = q \o [i \in 1 .. n |-> Nil]
        PROVE  IsPrefix(r, q)
    <3>1. [i \in 1 .. n |-> Nil] = << >>
      BY <2>5
    <3>2. r = q
      BY <2>2, <2>5, <3>1
    <3>3. Len(r) <= Len(q) /\ \A i \in 1 .. Len(r) : r[i] = q[i]
      BY <2>2, <3>2
    <3> QED  BY <2>2, <3>3, PrefixIs
  <2>6. ASSUME NEW n \in 0 .. FrameSize, n # 0 PROVE n \in 1 .. FrameSize
    BY <2>6, Constants
  <2> QED  BY <2>3, <2>4, <2>5, <2>6, SameNames
<1>8. Machine!Running = Running /\ Machine!Active = Active
  BY SameNames
<1>9. Machine!Resize(c)
  <2>1. \A d \in Context \ {c} : ActivationOperands(d)' = ActivationOperands(d)
    BY <1>6
  <2>2. /\ [d \in Context |-> ActivationTemps(d)'] = [d \in Context |-> ActivationTemps(d)]
        /\ [d \in Context |-> ReceiverOf(d)'] = [d \in Context |-> ReceiverOf(d)]
    BY <1>5, <1>6
  <2>3. ActivationOperands(c) = q /\ ActivationOperands(c)' = r
    BY <1>6
  <2> HIDE DEF q, r
  <2> QED  BY <1>3, <1>7, <2>1, <2>2, <2>3 DEF Machine!Resize
<1> QED  BY <1>3, <1>8, <1>9

LEMMA OneIsReplaced ==
    ASSUME NEW q, NEW r, NEW i \in DOMAIN q, NEW v, r = [q EXCEPT ![i] = v]
    PROVE  Machine!OneReplaced(q, r)
  BY DEF Machine!OneReplaced

LEMMA EditedRefines ==
    ASSUME OpInv, NEW c, Edited(c)
    PROVE  c \in Machine!Active \ {Machine!Running} /\ Machine!Edit(c)
<1>1. /\ StackOK(stack) /\ frame \in [Context -> FrameState] /\ Active \subseteq Context
  BY MeIs
<1>2. PICK g : /\ frame' = [frame EXCEPT ![c] = g]
               /\ SameFrame(g, frame[c])
               /\ \/ Temps(g) = Temps(frame[c]) /\ \E i \in DOMAIN Ops(frame[c]), v \in Value :
                                    Ops(g) = [Ops(frame[c]) EXCEPT ![i] = v]
                  \/ Ops(g) = Ops(frame[c]) /\ \E i \in DOMAIN Temps(frame[c]), v \in Value :
                                    Temps(g) = [Temps(frame[c]) EXCEPT ![i] = v]
  BY DEF Edited
<1>3. stack' = stack /\ c \in Active /\ c # Running /\ c \in Context
  BY <1>1 DEF Edited, Above, Active, Running
<1>4. frame'[c] = g /\ \A d \in Context \ {c} : frame'[d] = frame[d]
  BY <1>1, <1>2, <1>3
<1>5. \A d \in Context : ReceiverOf(d)' = ReceiverOf(d)
  <2>1. \A d \in Context : /\ frame'[d].kind = frame[d].kind
                          /\ frame'[d].home = frame[d].home
                          /\ frame'[d].receiver = frame[d].receiver
    BY <1>2, <1>3, <1>4 DEF SameFrame
  <2> QED  BY <2>1, AllReceiversKept
<1>6. /\ \A d \in Context \ {c} : /\ ActivationOperands(d)' = ActivationOperands(d)
                                 /\ ActivationTemps(d)' = ActivationTemps(d)
      /\ ActivationOperands(c) = Ops(frame[c]) /\ ActivationOperands(c)' = Ops(g)
      /\ ActivationTemps(c) = Temps(frame[c]) /\ ActivationTemps(c)' = Temps(g)
  <2>1. /\ \A d \in Context : /\ ActivationOperands(d) = Ops(frame[d])
                             /\ ActivationTemps(d) = Temps(frame[d])
        /\ \A d \in Context : /\ ActivationOperands(d)' = Ops(frame'[d])
                             /\ ActivationTemps(d)' = Temps(frame'[d])
    BY Mapped
  <2> QED  BY <1>3, <1>4, <2>1
<1>7. \/ /\ Machine!OneReplaced(ActivationOperands(c), ActivationOperands(c)')
         /\ ActivationTemps(c)' = ActivationTemps(c)
      \/ /\ Machine!OneReplaced(ActivationTemps(c), ActivationTemps(c)')
         /\ ActivationOperands(c)' = ActivationOperands(c)
  <2> DEFINE p == Ops(frame[c])
             q == Ops(g)
             t == Temps(frame[c])
             u == Temps(g)
  <2>1. \/ u = t /\ \E i \in DOMAIN p, v \in Value : q = [p EXCEPT ![i] = v]
        \/ q = p /\ \E i \in DOMAIN t, v \in Value : u = [t EXCEPT ![i] = v]
    BY <1>2
  <2> HIDE DEF p, q, t, u
  <2>2. ASSUME NEW i \in DOMAIN p, NEW v, q = [p EXCEPT ![i] = v]
        PROVE  Machine!OneReplaced(p, q)
    BY <2>2, OneIsReplaced
  <2>3. ASSUME NEW i \in DOMAIN t, NEW v, u = [t EXCEPT ![i] = v]
        PROVE  Machine!OneReplaced(t, u)
    BY <2>3, OneIsReplaced
  <2>4. \/ u = t /\ Machine!OneReplaced(p, q)
        \/ q = p /\ Machine!OneReplaced(t, u)
    <3>1. CASE u = t /\ \E i \in DOMAIN p, v \in Value : q = [p EXCEPT ![i] = v]
      <4>1. PICK i \in DOMAIN p, v \in Value : q = [p EXCEPT ![i] = v]
        BY <3>1, Zenon
      <4>2. Machine!OneReplaced(p, q)
        BY <2>2, <4>1
      <4>3. u = t
        BY <3>1, Zenon
      <4> QED  BY <4>2, <4>3
    <3>2. CASE q = p /\ \E i \in DOMAIN t, v \in Value : u = [t EXCEPT ![i] = v]
      <4>1. PICK i \in DOMAIN t, v \in Value : u = [t EXCEPT ![i] = v]
        BY <3>2, Zenon
      <4>2. Machine!OneReplaced(t, u)
        BY <2>3, <4>1
      <4> QED  BY <3>2, <4>2, Zenon
    <3> QED  BY <2>1, <3>1, <3>2, Zenon
  <2> QED  BY <1>6, <2>4 DEF p, q, t, u
<1>8. Machine!Running = Running /\ Machine!Active = Active
  BY SameNames
<1>9. [d \in Context |-> ReceiverOf(d)'] = [d \in Context |-> ReceiverOf(d)]
  BY <1>5
<1>10. Machine!Edit(c)
  BY <1>3, <1>6, <1>7, <1>9 DEF Machine!Edit
<1> QED  BY <1>3, <1>8, <1>10

LEMMA ReturnedRefines ==
    ASSUME OpInv, NEW v \in Value, Returned(v)
    PROVE  Machine!Return
<1>1. /\ StackOK(stack) /\ FramesOK(frame, stack) /\ frame \in [Context -> FrameState]
      /\ Running \in Context /\ Me = frame[Running] /\ Len(stack) > 1 /\ stack' = Front(stack)
  BY MeIs DEF Me, Returned
<1>2. Caller \in Context /\ Caller # Running
  BY <1>1, StackShrinks DEF Caller, Running
<1> PICK x \in Context : x = Running
  BY <1>1
<1> PICK s \in Context : s = Caller
  BY <1>2
<1>3. /\ FrameOK(frame[s]) /\ s # x
      /\ frame'[s].kind = frame[s].kind /\ frame'[s].home = frame[s].home
      /\ frame'[s].receiver = frame[s].receiver /\ Temps(frame'[s]) = Temps(frame[s])
      /\ Ops(frame'[s]) = Append(Ops(frame[s]), v)
      /\ \A d \in Context \ {s, x} : frame'[d] = frame[d]
      /\ Fresh(x) \/ frame'[x].receiver = frame[x].receiver
  BY <1>1, <1>2 DEF Returned, FramesOK
<1>4. \A d \in Context \ {x} : ReceiverOf(d)' = ReceiverOf(d)
  <2>1. \A d \in Context \ {x} : /\ frame'[d].kind = frame[d].kind
                                /\ frame'[d].home = frame[d].home
                                /\ frame'[d].receiver = frame[d].receiver
    BY <1>3
  <2> QED  BY <1>3, <2>1, ReceiversKept
<1>5. /\ \A d \in Context : /\ ActivationOperands(d) = Ops(frame[d])
                           /\ ActivationTemps(d) = Temps(frame[d])
      /\ \A d \in Context : /\ ActivationOperands(d)' = Ops(frame'[d])
                           /\ ActivationTemps(d)' = Temps(frame'[d])
  BY Mapped
<1>6. /\ \A d \in Context \ {s, x} : /\ ActivationOperands(d)' = ActivationOperands(d)
                                    /\ ActivationTemps(d)' = ActivationTemps(d)
      /\ ActivationTemps(s)' = ActivationTemps(s)
      /\ ActivationOperands(s)' = Append(ActivationOperands(s), v)
  BY <1>3, <1>5
<1>7. Machine!Last(ActivationOperands(s)') = v
  <2> DEFINE q == Ops(frame[s])
             r == Append(q, v)
  <2>1. q \in Seq(Value)
    BY <1>3, OpsIs
  <2> HIDE DEF q
  <2>2. r[Len(r)] = v
    BY <2>1
  <2>3. ActivationOperands(s)' = r
    BY <1>3, <1>5 DEF q
  <2>4. Last(r) = v
    BY <2>2 DEF Last
  <2> HIDE DEF r
  <2> QED  BY <2>3, <2>4, SameNames
<1>8. s = Machine!Last(Machine!Front(stack)) /\ Machine!Running = x /\ Machine!Front(stack) = Front(stack)
  BY SameNames DEF Caller
<1> DEFINE last == Machine!Last(ActivationOperands(s)')
<1>9. \E w \in {last} : ActivationOperands(s)' = Append(ActivationOperands(s), w)
  BY <1>6, <1>7
<1>10. \A d \in Context \ {s, x} : ReceiverOf(d)' = ReceiverOf(d)
  BY <1>4
<1>11. ReceiverOf(s)' = ReceiverOf(s)
  BY <1>3, <1>4
<1> QED
  BY <1>1, <1>6, <1>8, <1>9, <1>10, <1>11
  DEF Machine!Return, Machine!Others, Machine!Untouched

LEMMA InitRefines ==
    ASSUME Init
    PROVE  Machine!Init
<1>1. PICK c \in Context : stack = <<c>>
  BY DEF Init
<1> QED  BY <1>1 DEF Machine!Init

LEMMA StepRefines ==
    ASSUME ~ Unlisted, OpInv, [Next]_vars
    PROVE  [Machine!Next]_(Machine!evars)
<1>1. ASSUME UNCHANGED vars PROVE UNCHANGED Machine!evars
  <2>1. frame' = frame /\ stack' = stack
    BY <1>1 DEF vars
  <2>2. /\ \A d \in Context : /\ ActivationOperands(d)' = ActivationOperands(d)
                             /\ ActivationTemps(d)' = ActivationTemps(d)
    BY <2>1 DEF ActivationOperands, ActivationTemps
  <2>3. \A d \in Context : ReceiverOf(d)' = ReceiverOf(d)
    BY <2>1 DEF ReceiverOf, Holder
  <2> QED  BY <2>1, <2>2, <2>3 DEF Machine!evars
<1>2. ASSUME Computing PROVE Machine!Next
  BY <1>2, ComputingRefines DEF Machine!Next
<1>3. ASSUME NEW i \in 1 .. FrameSize, NEW popped \in 0 .. 1, Assigned(i, popped)
      PROVE  Machine!Next
  BY <1>3, AssignedRefines DEF Machine!Next
<1>4. ASSUME NEW c \in Context, MakesBlock(c) PROVE Machine!Next
  BY <1>4, MakesBlockRefines DEF Machine!Next
<1>5. ASSUME NEW c \in Context, Resized(c) PROVE Machine!Next
  BY <1>5, ResizedRefines DEF Machine!Next
<1>6. ASSUME NEW c \in Context, Edited(c) PROVE Machine!Next
  BY <1>6, EditedRefines DEF Machine!Next
<1>7. ASSUME NEW c \in Context, MessageSent(c) PROVE Machine!Next
  BY <1>7, SentRefines DEF Machine!Next
<1>8. ASSUME NEW v \in Value, Returned(v) PROVE Machine!Next
  BY <1>8, ReturnedRefines DEF Machine!Next
<1>9. CASE UNCHANGED vars
  BY <1>1, <1>9
<1>10. CASE Next
  <2>1. AStep
    BY <1>10, NextIs
  <2> QED
    BY <1>1, <1>2, <1>3, <1>4, <1>5, <1>6, <1>7, <1>8, <2>1 DEF AStep
<1> QED  BY <1>9, <1>10

\* The bytecodes, the sends and the returns of interpreter_bytecodes.py do what
\* the evaluation of methods promises: a context's temporaries and operands are
\* one array below a stack pointer, and a send still takes its receiver and its
\* arguments, and nothing else, and in the end leaves its result in their place.
THEOREM ContextsEvaluate ==
    ASSUME PerformOutcome \subseteq {"primitive", "method"}
    PROVE  Spec => ImplementsEvaluation
<1>1. ~ Unlisted
  BY DEF Unlisted
<1>2. Init => Machine!Init
  BY InitRefines
<1>3. OpInv /\ [Next]_vars => [Machine!Next]_(Machine!evars)
  BY <1>1, StepRefines
<1> QED  BY <1>2, <1>3, OpInvHolds, PTL DEF Spec, ImplementsEvaluation, Machine!Spec
================================================================================
