----------------------------- MODULE StorageProofs -----------------------------
(***************************************************************************)
(* Theorems about the storages of pointers objects, for any number of       *)
(* objects, fields and values: they stay sound, and they implement arrays.   *)
(***************************************************************************)
EXTENDS Storage, FiniteSetTheorems, TLAPS

-----------------------------------------------------------------------------
(* Representations.                                                          *)

\* The data that a strategy may hold.
Data(k) ==
    CASE k = "AllNil"   -> {Nil}
      [] k \in Tagging  -> ContainedType(k)
      [] k = "WeakList" -> Value \union {Dead}
      [] OTHER          -> Value

Arrays(S)   == UNION {[1 .. n -> S] : n \in 0 .. MaxSize}
Shadows(k)  == [kind : {k}, self : Object, data : Arrays(Data(k))]
ShadowType  == UNION {Shadows(k) : k \in Kind}

LEMMA KindIs == Kind = {"SmallIntegerOrNil", "FloatOrNil", "AllNil", "List", "WeakList"}
  BY DEF Kind, Tagging

\* What a strategy can hold comes back as it was.
LEMMA WrapUnwraps ==
    ASSUME NEW k \in Kind, NEW v \in Value, CheckCanHandle(k, v)
    PROVE  Unwrap(k, v) \in Data(k) /\ Wrap(k, Unwrap(k, v)) = v
<1>1. CASE k \in Tagging
  <2>1. k = "SmallIntegerOrNil" \/ k = "FloatOrNil"
    BY <1>1 DEF Tagging
  <2> QED
    BY <1>1, <2>1, StorageAssumption
    DEF Tagging, CheckCanHandle, Unwrap, Wrap, Data, ContainedType, UnwrappedTaggedValue, Value
<1>2. CASE k = "AllNil"
  BY <1>2 DEF Tagging, CheckCanHandle, Unwrap, Wrap, Data
<1>3. CASE k = "List"
  BY <1>3 DEF Tagging, CheckCanHandle, Unwrap, Wrap, Data
<1>4. CASE k = "WeakList"
  BY <1>4, StorageAssumption DEF Tagging, CheckCanHandle, Unwrap, Wrap, Data, Value
<1> QED  BY <1>1, <1>2, <1>3, <1>4, KindIs DEF Tagging

\* Whatever a strategy holds is a value to the image.
LEMMA WrapsValues ==
    ASSUME NEW k \in Kind, NEW d \in Data(k)
    PROVE  Wrap(k, d) \in Value
<1>1. CASE k \in Tagging
  <2>1. k = "SmallIntegerOrNil" \/ k = "FloatOrNil"
    BY <1>1 DEF Tagging
  <2> QED
    BY <1>1, <2>1, StorageAssumption DEF Tagging, Wrap, Data, ContainedType, UnwrappedTaggedValue, Value
<1>2. CASE k = "AllNil"
  BY <1>2 DEF Tagging, Wrap, Data, Value
<1>3. CASE k = "List"
  BY <1>3 DEF Tagging, Wrap, Data
<1>4. CASE k = "WeakList"
  BY <1>4 DEF Tagging, Wrap, Data, Value
<1> QED  BY <1>1, <1>2, <1>3, <1>4, KindIs DEF Tagging

\* Every strategy can hold nil.
LEMMA NilIsHandled == \A k \in Kind : CheckCanHandle(k, Nil)
  BY KindIs DEF CheckCanHandle, Tagging

\* The storage chosen for an object of the image can hold what it was chosen for.
LEMMA ChosenHandlesAll ==
    ASSUME NEW vs
    PROVE  /\ FirstFor(Strategies, vs) \in Kind \ {"WeakList"}
           /\ \A v \in vs : CheckCanHandle(FirstFor(Strategies, vs), v)
<1> DEFINE First(n) == /\ \A v \in vs : CheckCanHandle(Strategies[n], v)
                       /\ \A m \in 1 .. (n - 1) : \E v \in vs : ~CheckCanHandle(Strategies[m], v)
           Holds(n) == \A v \in vs : CheckCanHandle(Strategies[n], v)
<1>1. DOMAIN Strategies = 1 .. 4
  BY DEF Strategies
<1>2. Strategies[1] = "AllNil" /\ Strategies[2] = "SmallIntegerOrNil"
      /\ Strategies[3] = "FloatOrNil" /\ Strategies[4] = "List"
  BY DEF Strategies
<1>3. Holds(4)
  BY <1>2 DEF CheckCanHandle, Tagging
<1>4. \E n \in DOMAIN Strategies : First(n)
  <2>1. CASE Holds(1)
    BY <2>1, <1>1
  <2>2. CASE ~Holds(1) /\ Holds(2)
    BY <2>2, <1>1
  <2>3. CASE ~Holds(1) /\ ~Holds(2) /\ Holds(3)
    BY <2>3, <1>1
  <2>4. CASE ~Holds(1) /\ ~Holds(2) /\ ~Holds(3)
    BY <2>4, <1>3, <1>1
  <2> QED  BY <2>1, <2>2, <2>3, <2>4
<1>5. PICK n \in DOMAIN Strategies : First(n) /\ FirstFor(Strategies, vs) = Strategies[n]
  BY <1>4 DEF FirstFor
<1> QED  BY <1>1, <1>2, <1>5, KindIs

\* So can the one that replaces a strategy which cannot, and it is not a tagging
\* one in the place of another.
LEMMA GeneralizationHandles ==
    ASSUME NEW k \in Kind, NEW v, ~CheckCanHandle(k, v)
    PROVE  /\ FirstFor(Generalizations(k), {v}) \in Kind \ {"AllNil", "WeakList"}
           /\ CheckCanHandle(FirstFor(Generalizations(k), {v}), v)
           /\ k # "AllNil" => FirstFor(Generalizations(k), {v}) = "List"
           /\ k \in Tagging \union {"AllNil"}
<1> DEFINE ks == Generalizations(k)
           First(n) == /\ \A w \in {v} : CheckCanHandle(ks[n], w)
                       /\ \A m \in 1 .. (n - 1) : \E w \in {v} : ~CheckCanHandle(ks[m], w)
<1>0. k \in Tagging \union {"AllNil"}
  BY KindIs DEF CheckCanHandle, Tagging
<1>1. CASE k = "AllNil"
  <2>1. /\ DOMAIN ks = 1 .. 3
        /\ ks[1] = "SmallIntegerOrNil" /\ ks[2] = "FloatOrNil" /\ ks[3] = "List"
    BY <1>1 DEF Generalizations
  <2>2. CheckCanHandle("List", v)
    BY DEF CheckCanHandle, Tagging
  <2>3. \E n \in DOMAIN ks : First(n)
    <3>1. CASE CheckCanHandle(ks[1], v)
      BY <3>1, <2>1
    <3>2. CASE ~CheckCanHandle(ks[1], v) /\ CheckCanHandle(ks[2], v)
      BY <3>2, <2>1
    <3>3. CASE ~CheckCanHandle(ks[1], v) /\ ~CheckCanHandle(ks[2], v)
      BY <3>3, <2>1, <2>2
    <3> QED  BY <3>1, <3>2, <3>3
  <2>4. PICK n \in DOMAIN ks : First(n) /\ FirstFor(ks, {v}) = ks[n]
    BY <2>3 DEF FirstFor
  <2> QED  BY <1>0, <1>1, <2>1, <2>4, KindIs
<1>2. CASE k # "AllNil"
  <2>1. DOMAIN ks = {1} /\ ks[1] = "List"
    BY <1>2 DEF Generalizations
  <2>2. CheckCanHandle("List", v)
    BY DEF CheckCanHandle, Tagging
  <2>3. First(1)
    BY <2>1, <2>2
  <2>4. FirstFor(ks, {v}) = "List"
    BY <2>1, <2>3 DEF FirstFor
  <2> QED  BY <1>0, <1>2, <2>2, <2>4, KindIs
<1> QED  BY <1>1, <1>2
-----------------------------------------------------------------------------
(* Shadows.                                                                  *)

LEMMA ShadowParts ==
    ASSUME NEW s \in ShadowType
    PROVE  /\ s.kind \in Kind /\ s.self \in Object
           /\ \E n \in 0 .. MaxSize : /\ Fields(s) = 1 .. n
                                      /\ Cardinality(Fields(s)) = n
                                      /\ s.data \in [1 .. n -> Data(s.kind)]
           /\ \A i \in Fields(s) : Fetch(s, i) \in Value
<1>1. PICK k \in Kind : s \in Shadows(k)
  BY DEF ShadowType
<1>2. PICK n \in 0 .. MaxSize : s.data \in [1 .. n -> Data(k)]
  BY <1>1 DEF Shadows, Arrays
<1>3. s.kind = k /\ s.self \in Object
  BY <1>1 DEF Shadows
<1>4. Fields(s) = 1 .. n
  BY <1>2 DEF Fields
<1>5. Cardinality(1 .. n) = n
  BY <1>2, FS_Interval, StorageAssumption
<1>6. \A i \in Fields(s) : Fetch(s, i) \in Value
  BY <1>2, <1>3, <1>4, WrapsValues DEF Fetch
<1> QED  BY <1>2, <1>3, <1>4, <1>5, <1>6

LEMMA MakesShadow ==
    ASSUME NEW k \in Kind, NEW o \in Object, NEW n \in 0 .. MaxSize,
           NEW d \in [1 .. n -> Data(k)]
    PROVE  [kind |-> k, self |-> o, data |-> d] \in ShadowType
<1>1. d \in Arrays(Data(k))
  BY DEF Arrays
<1>2. [kind |-> k, self |-> o, data |-> d] \in Shadows(k)
  BY <1>1 DEF Shadows
<1> QED  BY <1>2 DEF ShadowType

\* A new object is full of nil.
LEMMA NewIsNil ==
    ASSUME NEW k \in Kind, NEW o \in Object, NEW n \in 0 .. MaxSize
    PROVE  /\ NewShadow(k, o, n) \in ShadowType
           /\ NewShadow(k, o, n).kind = k
           /\ NewShadow(k, o, n).self = o
           /\ Fields(NewShadow(k, o, n)) = 1 .. n
           /\ \A i \in 1 .. n : Fetch(NewShadow(k, o, n), i) = Nil
<1>1. Unwrap(k, Nil) \in Data(k) /\ Wrap(k, Unwrap(k, Nil)) = Nil
  BY NilIsHandled, WrapUnwraps DEF Value
<1>2. [i \in 1 .. n |-> Unwrap(k, Nil)] \in [1 .. n -> Data(k)]
  BY <1>1
<1>3. NewShadow(k, o, n) \in ShadowType
  BY <1>2, MakesShadow DEF NewShadow
<1> QED  BY <1>1, <1>3 DEF NewShadow, Fields, Fetch

\* What it means that s2 holds what s holds, except v at i.
Holding(s2, s, i, v) ==
    /\ s2 \in ShadowType
    /\ s2.self = s.self
    /\ Fields(s2) = Fields(s)
    /\ \A j \in Fields(s) : Fetch(s2, j) = IF j = i THEN v ELSE Fetch(s, j)
    /\ s2.kind = "WeakList" <=> s.kind = "WeakList"

\* A value that the strategy can hold is put where it belongs.
LEMMA StoresInPlace ==
    ASSUME NEW s \in ShadowType, NEW i \in Fields(s), NEW v \in Value,
           CheckCanHandle(s.kind, v)
    PROVE  Holding([s EXCEPT !.data[i] = Unwrap(s.kind, v)], s, i, v)
<1> DEFINE d == [s.data EXCEPT ![i] = Unwrap(s.kind, v)]
           s2 == [s EXCEPT !.data[i] = Unwrap(s.kind, v)]
<1>1. PICK n \in 0 .. MaxSize : Fields(s) = 1 .. n /\ s.data \in [1 .. n -> Data(s.kind)]
  BY ShadowParts
<1>2. Unwrap(s.kind, v) \in Data(s.kind) /\ Wrap(s.kind, Unwrap(s.kind, v)) = v
  BY WrapUnwraps, ShadowParts
<1>3. d \in [1 .. n -> Data(s.kind)]
  BY <1>1, <1>2
<1>4. s = [kind |-> s.kind, self |-> s.self, data |-> s.data]
  BY DEF ShadowType, Shadows
<1>5. s2 = [kind |-> s.kind, self |-> s.self, data |-> d]
  BY <1>4
<1> HIDE DEF s2
<1>6. s2.kind = s.kind /\ s2.self = s.self /\ s2.data = d
  BY <1>5
<1>7. s2 \in ShadowType
  BY <1>3, <1>5, MakesShadow, ShadowParts
<1>8. Fields(s2) = Fields(s)
  BY <1>1, <1>3, <1>6 DEF Fields
<1>9. \A j \in Fields(s) : Fetch(s2, j) = IF j = i THEN v ELSE Fetch(s, j)
  BY <1>1, <1>2, <1>6 DEF Fetch
<1> QED  BY <1>6, <1>7, <1>8, <1>9 DEF Holding, s2

\* So is a value that makes the strategy give way to another one.
LEMMA StoresSwitching ==
    ASSUME NEW s \in ShadowType, NEW i \in Fields(s), NEW v \in Value,
           ~CheckCanHandle(s.kind, v),
           NEW k, k = FirstFor(Generalizations(s.kind), {v}),
           NEW s2, s2 = [kind |-> k, self |-> s.self,
                         data |-> [[j \in Fields(s) |-> Unwrap(k, Fetch(s, j))]
                                      EXCEPT ![i] = Unwrap(k, v)]]
    PROVE  Holding(s2, s, i, v)
<1>1. PICK n \in 0 .. MaxSize : Fields(s) = 1 .. n /\ s.data \in [1 .. n -> Data(s.kind)]
  BY ShadowParts
<1>2. s.kind \in Kind /\ \A j \in Fields(s) : Fetch(s, j) \in Value
  BY ShadowParts
<1>3. /\ k \in Kind \ {"AllNil", "WeakList"}
      /\ CheckCanHandle(k, v)
      /\ s.kind # "AllNil" => k = "List"
      /\ s.kind \in Tagging \union {"AllNil"}
  BY <1>2, GeneralizationHandles
<1>4. \A j \in Fields(s) : CheckCanHandle(k, Fetch(s, j))
  <2>1. CASE s.kind = "AllNil"
    <3>1. \A j \in Fields(s) : Fetch(s, j) = Nil
      BY <2>1 DEF Fetch, Wrap, Tagging
    <3> QED  BY <3>1, <1>3, NilIsHandled
  <2>2. CASE s.kind # "AllNil"
    BY <2>2, <1>3 DEF CheckCanHandle, Tagging
  <2> QED  BY <2>1, <2>2
<1>5. \A j \in Fields(s) : /\ Unwrap(k, Fetch(s, j)) \in Data(k)
                           /\ Wrap(k, Unwrap(k, Fetch(s, j))) = Fetch(s, j)
  BY <1>2, <1>3, <1>4, WrapUnwraps
<1>6. Unwrap(k, v) \in Data(k) /\ Wrap(k, Unwrap(k, v)) = v
  BY <1>3, WrapUnwraps
<1> DEFINE d == [[j \in Fields(s) |-> Unwrap(k, Fetch(s, j))] EXCEPT ![i] = Unwrap(k, v)]
<1>7. d \in [1 .. n -> Data(k)]
  BY <1>1, <1>5, <1>6
<1>8. s2 \in ShadowType
  BY <1>3, <1>7, MakesShadow, ShadowParts
<1>9. Fields(s2) = Fields(s) /\ s2.self = s.self /\ s2.kind = k
  BY DEF Fields
<1>10. \A j \in Fields(s) : Fetch(s2, j) = IF j = i THEN v ELSE Fetch(s, j)
  BY <1>5, <1>6 DEF Fetch
<1>11. s.kind # "WeakList" /\ k # "WeakList"
  BY <1>3 DEF Tagging
<1> QED  BY <1>8, <1>9, <1>10, <1>11 DEF Holding

LEMMA DatumChanged ==
    ASSUME NEW k, NEW x, NEW d, NEW i, NEW e
    PROVE  [[kind |-> k, self |-> x, data |-> d] EXCEPT !.data[i] = e]
             = [kind |-> k, self |-> x, data |-> [d EXCEPT ![i] = e]]
OBVIOUS

LEMMA DataChanged ==
    ASSUME NEW k, NEW x, NEW d, NEW e
    PROVE  [[kind |-> k, self |-> x, data |-> d] EXCEPT !.data = e]
             = [kind |-> k, self |-> x, data |-> e]
OBVIOUS

\* In a memory where each shadow knows its object, a store changes one field.
LEMMA StoresOneField ==
    ASSUME NEW sh \in [Object -> ShadowType], \A o \in Object : sh[o].self = o,
           NEW o \in Object, NEW i \in Fields(sh[o]), NEW v \in Value
    PROVE  /\ Stored(sh, o, i, v) \in [Object -> ShadowType]
           /\ \A p \in Object \ {o} : Stored(sh, o, i, v)[p] = sh[p]
           /\ Holding(Stored(sh, o, i, v)[o], sh[o], i, v)
           /\ CheckCanHandle(sh[o].kind, v) => Stored(sh, o, i, v)[o].kind = sh[o].kind
<1> DEFINE s  == sh[o]
           k  == FirstFor(Generalizations(s.kind), {v})
           s2 == [kind |-> k, self |-> s.self,
                  data |-> [[j \in Fields(s) |-> Unwrap(k, Fetch(s, j))] EXCEPT ![i] = Unwrap(k, v)]]
<1>1. CASE CheckCanHandle(s.kind, v) /\ s.kind = "AllNil"
  <2>1. v = Nil /\ \A j \in Fields(s) : Fetch(s, j) = Nil
    BY <1>1 DEF CheckCanHandle, Fetch, Wrap, Tagging
  <2>2. Stored(sh, o, i, v) = sh
    BY <1>1 DEF Stored
  <2> QED  BY <2>1, <2>2 DEF Holding
<1>2. CASE CheckCanHandle(s.kind, v) /\ s.kind # "AllNil"
  <2>1. Stored(sh, o, i, v) = [sh EXCEPT ![o] = [s EXCEPT !.data[i] = Unwrap(s.kind, v)]]
    BY <1>2 DEF Stored
  <2>2. Holding([s EXCEPT !.data[i] = Unwrap(s.kind, v)], s, i, v)
    BY <1>2, StoresInPlace
  <2>3. [s EXCEPT !.data[i] = Unwrap(s.kind, v)] \in ShadowType
    BY <2>2 DEF Holding
  <2>4. [s EXCEPT !.data[i] = Unwrap(s.kind, v)].kind = s.kind
    BY DEF ShadowType, Shadows
  <2> QED  BY <2>1, <2>2, <2>3, <2>4
<1>3. CASE ~CheckCanHandle(s.kind, v)
  <2> DEFINE s1 == [kind |-> k, self |-> s.self,
                    data |-> [j \in Fields(s) |-> Unwrap(k, Fetch(s, j))]]
  <2>a. SwitchStrategy(sh, s, k) = [sh EXCEPT ![o] = s1]
    <3>1. [NewShadow(k, s.self, 0) EXCEPT !.data = [j \in Fields(s) |-> Unwrap(k, Fetch(s, j))]] = s1
      <4> HIDE DEF k
      <4> DEFINE d == [j \in Fields(s) |-> Unwrap(k, Fetch(s, j))]
                 d0 == [j \in 1 .. 0 |-> Unwrap(k, Nil)]
      <4> HIDE DEF d, d0
      <4>1. [[kind |-> k, self |-> s.self, data |-> d0] EXCEPT !.data = d]
               = [kind |-> k, self |-> s.self, data |-> d]
        BY DataChanged
      <4> QED  BY <4>1 DEF NewShadow, d, d0
    <3> QED  BY <3>1 DEF SwitchStrategy
  <2>b. [[sh EXCEPT ![o] = s1] EXCEPT ![o].data[i] = Unwrap(k, v)] = [sh EXCEPT ![o] = s2]
    <3>1. [[sh EXCEPT ![o] = s1] EXCEPT ![o].data[i] = Unwrap(k, v)]
            = [sh EXCEPT ![o] = [s1 EXCEPT !.data[i] = Unwrap(k, v)]]
      OBVIOUS
    <3>2. [s1 EXCEPT !.data[i] = Unwrap(k, v)] = s2
      <4> HIDE DEF k
      <4> DEFINE d == [j \in Fields(s) |-> Unwrap(k, Fetch(s, j))]
                 e == Unwrap(k, v)
      <4> HIDE DEF d, e
      <4>1. [[kind |-> k, self |-> s.self, data |-> d] EXCEPT !.data[i] = e]
               = [kind |-> k, self |-> s.self, data |-> [d EXCEPT ![i] = e]]
        BY DatumChanged
      <4> QED  BY <4>1 DEF d, e
    <3> QED  BY <3>1, <3>2
  <2>1. Stored(sh, o, i, v) = [sh EXCEPT ![o] = s2]
    BY <1>3, <2>a, <2>b DEF Stored
  <2>2. Holding(s2, s, i, v)
    BY <1>3, StoresSwitching
  <2>3. s2 \in ShadowType
    BY <2>2 DEF Holding
  <2> QED  BY <1>3, <2>1, <2>2, <2>3
<1> QED  BY <1>1, <1>2, <1>3
-----------------------------------------------------------------------------
(* The invariant: the objects, and what the primitive under way relies on.     *)

ObjectsInv ==
    /\ class \in [Object -> Class \union {Nil}]
    /\ shadow \in [Object -> ShadowType]
    /\ ShadowsKnowTheirObjects
    /\ NamedFieldsExist
    /\ \A o \in Object \ Made : Fields(shadow[o]) = {}

FillInv ==
    task.op = "fill" =>
        /\ task = [op |-> "fill", to |-> task.to, values |-> task.values,
                   chosen |-> task.chosen, next |-> task.next]
        /\ task.to \in Made
        /\ task.next \in Nat \ {0}
        /\ DOMAIN task.values = Fields(shadow[task.to])
        /\ \A i \in DOMAIN task.values : task.values[i] \in Value
        /\ \A i \in DOMAIN task.values : i < task.next => Fetch(shadow[task.to], i) = task.values[i]
        /\ task.chosen # "AllNil" =>
              /\ shadow[task.to].kind = task.chosen
              /\ \A i \in DOMAIN task.values : CheckCanHandle(task.chosen, task.values[i])

\* The field that index n0 of an object stands for.
FieldOf(o, n0) == n0 + instsize[class[o]] + 1

ReplaceInv ==
    task.op = "replace" =>
        /\ task = [op |-> "replace", to |-> task.to, from |-> task.from, start |-> task.start,
                   i0 |-> task.i0, stop |-> task.stop, off |-> task.off]
        /\ task.to \in Made /\ task.from \in Made
        /\ task.start \in Int /\ task.i0 \in Int /\ task.stop \in Int /\ task.off \in Int
        /\ 0 <= task.start /\ 0 <= task.off + task.start /\ task.start <= task.i0
        /\ task.i0 <= task.stop + 1
        /\ task.stop < Size(task.to) - instsize[class[task.to]]
        /\ task.off + task.stop < Size(task.from) - instsize[class[task.from]]
        /\ task.from # task.to =>
              \A i \in task.start .. (task.i0 - 1) :
                  Fetch(shadow[task.to], FieldOf(task.to, i))
                    = Fetch(shadow[task.from], FieldOf(task.from, task.off + i))

BecomeInv ==
    task.op = "become" =>
        /\ task = [op |-> "become", lefts |-> task.lefts, rights |-> task.rights,
                   next |-> task.next, failed |-> task.failed, was |-> task.was]
        /\ task.lefts \in Seq(Value) /\ task.rights \in Seq(Value)
        /\ Len(task.lefts) <= Len(task.rights)
        /\ task.next \in Nat \ {0}
        /\ task.failed \in BOOLEAN
        /\ \A i \in 1 .. Len(task.lefts) :
              /\ task.lefts[i] \in Object => task.lefts[i] \in Made
              /\ task.rights[i] \in Object => task.rights[i] \in Made
        /\ task.failed => \A i \in 1 .. Len(task.lefts) : CanBecome(task.lefts[i], task.rights[i])
        /\ \A i \in 1 .. Len(task.lefts) : i < task.next => CanBecome(task.lefts[i], task.rights[i])

TaskInv ==
    /\ task.op = "none" => task = Idle
    /\ task.op \in {"none", "fill", "replace", "become"}
    /\ FillInv /\ ReplaceInv /\ BecomeInv

Inv == ObjectsInv /\ TaskInv

LEMMA IdleInv == task' = Idle => TaskInv'
  BY DEF Idle, TaskInv, FillInv, ReplaceInv, BecomeInv

LEMMA SizeIs ==
    ASSUME shadow \in [Object -> ShadowType], NEW o \in Object
    PROVE  Size(o) \in 0 .. MaxSize /\ Fields(shadow[o]) = 1 .. Size(o)
<1>1. shadow[o] \in ShadowType
  OBVIOUS
<1> QED  BY <1>1, ShadowParts DEF Size

LEMMA InstsizeIs == \A c \in Class : instsize[c] \in Nat
  BY StorageAssumption

LEMMA MadeHasClass ==
    ASSUME ObjectsInv, NEW o \in Made
    PROVE  o \in Object /\ class[o] \in Class /\ instsize[class[o]] \in Nat
  BY InstsizeIs DEF Made, ObjectsInv

\* A store changes one field and nothing else.
LEMMA StoreKeeps ==
    ASSUME ObjectsInv, UNCHANGED class,
           NEW o \in Made, NEW i \in Fields(shadow[o]), NEW v \in Value, StoreField(o, i, v)
    PROVE  /\ ObjectsInv'
           /\ Made' = Made
           /\ \A p \in Object \ {o} : shadow'[p] = shadow[p]
           /\ Holding(shadow'[o], shadow[o], i, v)
           /\ CheckCanHandle(shadow[o].kind, v) => shadow'[o].kind = shadow[o].kind
<1>1. o \in Object /\ shadow \in [Object -> ShadowType] /\ \A p \in Object : shadow[p].self = p
  BY DEF Made, ObjectsInv, ShadowsKnowTheirObjects
<1>2. /\ shadow' \in [Object -> ShadowType]
      /\ \A p \in Object \ {o} : shadow'[p] = shadow[p]
      /\ Holding(shadow'[o], shadow[o], i, v)
      /\ CheckCanHandle(shadow[o].kind, v) => shadow'[o].kind = shadow[o].kind
  <2>1. shadow' = Stored(shadow, o, i, v)
    BY DEF StoreField
  <2>2. /\ Stored(shadow, o, i, v) \in [Object -> ShadowType]
        /\ \A p \in Object \ {o} : Stored(shadow, o, i, v)[p] = shadow[p]
        /\ Holding(Stored(shadow, o, i, v)[o], shadow[o], i, v)
        /\ CheckCanHandle(shadow[o].kind, v) => Stored(shadow, o, i, v)[o].kind = shadow[o].kind
    BY <1>1, StoresOneField
  <2> QED  BY <2>1, <2>2
<1>3. Made' = Made
  BY DEF Made
<1>4. \A p \in Object : shadow'[p].self = p /\ Fields(shadow'[p]) = Fields(shadow[p])
  BY <1>1, <1>2 DEF Holding
<1>5. ObjectsInv'
  <2>1. NamedFieldsExist'
    BY <1>3, <1>4 DEF ObjectsInv, NamedFieldsExist, Size, Made
  <2>2. \A p \in Object \ Made' : Fields(shadow'[p]) = {}
    BY <1>3, <1>4 DEF ObjectsInv
  <2> QED  BY <1>2, <1>4, <2>1, <2>2 DEF ObjectsInv, ShadowsKnowTheirObjects
<1> QED  BY <1>2, <1>3, <1>5

\* A new object has the fields it was made with, all nil.
LEMMA AllocateKeeps ==
    ASSUME ObjectsInv, NEW o \in Object, NEW c \in Class, NEW k \in Kind,
           NEW n \in 0 .. MaxSize, instsize[c] <= n, Allocate(o, c, k, n)
    PROVE  /\ ObjectsInv'
           /\ o \notin Made /\ Made' = Made \union {o}
           /\ class' = [class EXCEPT ![o] = c]
           /\ \A p \in Object \ {o} : shadow'[p] = shadow[p]
           /\ shadow'[o].kind = k
           /\ Fields(shadow'[o]) = 1 .. n
           /\ \A i \in 1 .. n : Fetch(shadow'[o], i) = Nil
<1>1. /\ o \notin Made /\ class' = [class EXCEPT ![o] = c]
      /\ shadow' = [shadow EXCEPT ![o] = NewShadow(k, o, n)]
  BY DEF Allocate
<1>2. class' \in [Object -> Class \union {Nil}] /\ class'[o] = c /\ c # Nil
  BY <1>1, StorageAssumption DEF ObjectsInv
<1>3. Made' = Made \union {o}
  BY <1>1, <1>2 DEF Made, ObjectsInv
<1>4. /\ shadow' \in [Object -> ShadowType]
      /\ shadow'[o] = NewShadow(k, o, n)
      /\ \A p \in Object \ {o} : shadow'[p] = shadow[p]
  BY <1>1, NewIsNil DEF ObjectsInv
<1>5. /\ shadow'[o].self = o /\ shadow'[o].kind = k /\ Fields(shadow'[o]) = 1 .. n
      /\ \A i \in 1 .. n : Fetch(shadow'[o], i) = Nil
  BY <1>4, NewIsNil
<1>6. Cardinality(Fields(shadow'[o])) = n
  BY <1>5, FS_Interval, StorageAssumption
<1>7. \A p \in Made' : Cardinality(Fields(shadow'[p])) >= instsize[class'[p]]
  <2> SUFFICES ASSUME NEW p \in Made'  PROVE Cardinality(Fields(shadow'[p])) >= instsize[class'[p]]
    OBVIOUS
  <2>1. CASE p = o
    BY <2>1, <1>2, <1>6, InstsizeIs
  <2>2. CASE p # o
    <3>1. p \in Made /\ p \in Object /\ shadow'[p] = shadow[p] /\ class'[p] = class[p]
      BY <2>2, <1>1, <1>3, <1>4 DEF Made, ObjectsInv
    <3> QED  BY <3>1 DEF ObjectsInv, NamedFieldsExist, Size
  <2> QED  BY <2>1, <2>2
<1>8. ObjectsInv'
  <2>1. ShadowsKnowTheirObjects'
    BY <1>4, <1>5 DEF ObjectsInv, ShadowsKnowTheirObjects
  <2>2. NamedFieldsExist'
    BY <1>7 DEF NamedFieldsExist, Size
  <2>3. \A p \in Object \ Made' : Fields(shadow'[p]) = {}
    BY <1>3, <1>4 DEF ObjectsInv
  <2> QED  BY <1>2, <1>4, <2>1, <2>2, <2>3 DEF ObjectsInv
<1> QED  BY <1>1, <1>3, <1>4, <1>5, <1>8

\* become: exchanges what belongs to two objects.
LEMMA ExchangeKeeps ==
    ASSUME ObjectsInv, NEW l \in Made, NEW r \in Made, l # r, Exchange(l, r)
    PROVE  /\ ObjectsInv'
           /\ Made' = Made
           /\ \A p \in Object \ {l, r} : shadow'[p] = shadow[p]
           /\ shadow'[l] = [shadow[r] EXCEPT !.self = l]
           /\ shadow'[r] = [shadow[l] EXCEPT !.self = r]
           /\ class' = [class EXCEPT ![l] = class[r], ![r] = class[l]]
<1>1. l \in Object /\ r \in Object /\ class[l] # Nil /\ class[r] # Nil
  BY DEF Made
<1>2. /\ class' = [class EXCEPT ![l] = class[r], ![r] = class[l]]
      /\ shadow' = [shadow EXCEPT ![l] = [shadow[r] EXCEPT !.self = l],
                                  ![r] = [shadow[l] EXCEPT !.self = r]]
  BY DEF Exchange, BecomeShadows
<1>3. /\ class' \in [Object -> Class \union {Nil}]
      /\ class'[l] = class[r] /\ class'[r] = class[l]
      /\ \A p \in Object \ {l, r} : class'[p] = class[p]
  BY <1>1, <1>2 DEF ObjectsInv
<1>4. Made' = Made
  BY <1>1, <1>3 DEF Made
<1>5. /\ shadow'[l] = [shadow[r] EXCEPT !.self = l]
      /\ shadow'[r] = [shadow[l] EXCEPT !.self = r]
      /\ \A p \in Object \ {l, r} : shadow'[p] = shadow[p]
  BY <1>1, <1>2 DEF ObjectsInv
<1>6. \A s \in ShadowType, x \in Object :
        /\ [s EXCEPT !.self = x] \in ShadowType
        /\ [s EXCEPT !.self = x].self = x
        /\ [s EXCEPT !.self = x].kind = s.kind
        /\ [s EXCEPT !.self = x].data = s.data
  BY DEF ShadowType, Shadows
<1>7. /\ shadow' \in [Object -> ShadowType]
      /\ \A p \in Object : shadow'[p].self = p
      /\ Fields(shadow'[l]) = Fields(shadow[r]) /\ Fields(shadow'[r]) = Fields(shadow[l])
  <2>1. shadow[l] \in ShadowType /\ shadow[r] \in ShadowType
    BY <1>1 DEF ObjectsInv
  <2>2. shadow'[l] \in ShadowType /\ shadow'[r] \in ShadowType
    BY <2>1, <1>1, <1>5, <1>6
  <2>3. shadow' \in [Object -> ShadowType]
    BY <1>2, <1>1, <2>1, <1>6 DEF ObjectsInv
  <2>4. \A p \in Object : shadow'[p].self = p
    <3>1. shadow'[l].self = l /\ shadow'[r].self = r
      BY <1>1, <1>5, <1>6, <2>1
    <3>2. \A p \in Object \ {l, r} : shadow'[p].self = p
      BY <1>5 DEF ObjectsInv, ShadowsKnowTheirObjects
    <3> QED  BY <3>1, <3>2
  <2> QED  BY <2>1, <2>3, <2>4, <1>1, <1>5, <1>6 DEF Fields
<1>8. NamedFieldsExist'
  BY <1>1, <1>3, <1>4, <1>5, <1>7 DEF ObjectsInv, NamedFieldsExist, Size, Made
<1>9. \A p \in Object \ Made' : Fields(shadow'[p]) = {}
  BY <1>4, <1>5 DEF ObjectsInv
<1> QED  BY <1>2, <1>3, <1>4, <1>5, <1>7, <1>8, <1>9 DEF ObjectsInv, ShadowsKnowTheirObjects
\* The collector frees objects and clears weak fields.
LEMMA SweptIs ==
    ASSUME NEW s \in ShadowType, NEW gone \in SUBSET Value
    PROVE  /\ Swept(s, gone) \in ShadowType
           /\ Swept(s, gone).self = s.self /\ Swept(s, gone).kind = s.kind
           /\ Fields(Swept(s, gone)) = Fields(s)
           /\ \A i \in Fields(s) :
                \/ Fetch(Swept(s, gone), i) = Fetch(s, i)
                      /\ (s.kind = "WeakList" => Fetch(s, i) = Nil \/ Fetch(s, i) \notin gone)
                \/ /\ s.kind = "WeakList"
                   /\ Fetch(Swept(s, gone), i) = Nil
                   /\ Fetch(s, i) \in gone
<1>1. CASE s.kind # "WeakList"
  BY <1>1 DEF Swept
<1>2. CASE s.kind = "WeakList"
  <2> DEFINE d == [i \in Fields(s) |-> IF s.data[i] \in gone THEN Dead ELSE s.data[i]]
  <2>1. PICK n \in 0 .. MaxSize : Fields(s) = 1 .. n /\ s.data \in [1 .. n -> Data("WeakList")]
    BY <1>2, ShadowParts
  <2>2. Data("WeakList") = Value \union {Dead}
    BY DEF Data, Tagging
  <2>3. d \in [1 .. n -> Data("WeakList")]
    BY <2>1, <2>2
  <2>4. s = [kind |-> s.kind, self |-> s.self, data |-> s.data] /\ s.self \in Object
    BY DEF ShadowType, Shadows
  <2> HIDE DEF d
  <2>5. Swept(s, gone) = [s EXCEPT !.data = d]
    BY <1>2 DEF Swept, d
  <2>6. Swept(s, gone) = [kind |-> "WeakList", self |-> s.self, data |-> d]
    BY <1>2, <2>4, <2>5
  <2>7. Swept(s, gone) \in ShadowType
    BY <2>3, <2>4, <2>6, MakesShadow, KindIs
  <2>8. Fields(Swept(s, gone)) = Fields(s)
    BY <2>6 DEF Fields, d
  <2>9. \A i \in Fields(s) : /\ Fetch(s, i) = IF s.data[i] = Dead THEN Nil ELSE s.data[i]
                             /\ Fetch(Swept(s, gone), i) = IF d[i] = Dead THEN Nil ELSE d[i]
    BY <1>2, <2>6 DEF Fetch, Wrap, Tagging
  <2>10. \A i \in Fields(s) : d[i] = IF s.data[i] \in gone THEN Dead ELSE s.data[i]
    BY DEF d
  <2>11. Dead \notin gone
    BY StorageAssumption DEF Value
  <2>12. \A i \in Fields(s) :
            \/ Fetch(Swept(s, gone), i) = Fetch(s, i) /\ (Fetch(s, i) = Nil \/ Fetch(s, i) \notin gone)
            \/ Fetch(Swept(s, gone), i) = Nil /\ Fetch(s, i) \in gone
    <3> SUFFICES ASSUME NEW i \in Fields(s)
                 PROVE \/ Fetch(Swept(s, gone), i) = Fetch(s, i) /\ (Fetch(s, i) = Nil \/ Fetch(s, i) \notin gone)
                       \/ Fetch(Swept(s, gone), i) = Nil /\ Fetch(s, i) \in gone
      OBVIOUS
    <3>1. CASE s.data[i] \in gone
      BY <3>1, <2>9, <2>10, <2>11
    <3>2. CASE s.data[i] \notin gone
      BY <3>2, <2>9, <2>10
    <3> QED  BY <3>1, <3>2
  <2> QED  BY <1>2, <2>6, <2>7, <2>8, <2>12
<1> QED  BY <1>1, <1>2

LEMMA CollectKeeps ==
    ASSUME ObjectsInv, NEW dead \in SUBSET Made, NEW boxes \in SUBSET Boxes,
           Collect(dead, boxes)
    PROVE  /\ ObjectsInv'
           /\ Made' = Made \ dead
           /\ \A o \in dead : Fields(shadow'[o]) = {}
           /\ \A o \in Object \ dead :
                /\ Fields(shadow'[o]) = Fields(shadow[o])
                /\ shadow'[o].kind = shadow[o].kind
                /\ \A i \in Fields(shadow[o]) :
                     \/ Fetch(shadow'[o], i) = Fetch(shadow[o], i)
                          /\ (shadow[o].kind = "WeakList" => Fetch(shadow[o], i) \notin dead)
                     \/ /\ shadow[o].kind = "WeakList"
                        /\ Fetch(shadow'[o], i) = Nil
                        /\ Fetch(shadow[o], i) \in dead \union SmallInteger \union Float
<1> DEFINE gone == dead \union boxes
<1>0. dead \subseteq Object /\ gone \subseteq Value /\ boxes \subseteq SmallInteger \union Float
      /\ Nil \notin dead
  BY StorageAssumption DEF Made, Value, Boxes
<1>1. /\ class' = [o \in Object |-> IF o \in dead THEN Nil ELSE class[o]]
      /\ shadow' = [o \in Object |-> IF o \in dead THEN NewShadow("List", o, 0)
                                     ELSE Swept(shadow[o], gone)]
  BY DEF Collect
<1>2. class' \in [Object -> Class \union {Nil}] /\ Made' = Made \ dead
  BY <1>0, <1>1 DEF ObjectsInv, Made
<1>3. \A o \in dead : /\ shadow'[o] \in ShadowType /\ shadow'[o].self = o
                      /\ Fields(shadow'[o]) = {}
  <2>1. 0 \in 0 .. MaxSize /\ "List" \in Kind
    BY StorageAssumption, KindIs
  <2> QED  BY <2>1, <1>0, <1>1, NewIsNil
<1>4. \A o \in Object \ dead :
        /\ shadow'[o] = Swept(shadow[o], gone)
        /\ shadow'[o] \in ShadowType /\ shadow'[o].self = o
        /\ Fields(shadow'[o]) = Fields(shadow[o]) /\ shadow'[o].kind = shadow[o].kind
  BY <1>0, <1>1, SweptIs DEF ObjectsInv, ShadowsKnowTheirObjects
<1>5. shadow' \in [Object -> ShadowType] /\ ShadowsKnowTheirObjects'
  <2>1. DOMAIN shadow' = Object /\ shadow' = [o \in Object |-> shadow'[o]]
    BY <1>1
  <2> QED  BY <2>1, <1>3, <1>4 DEF ShadowsKnowTheirObjects
<1>6. NamedFieldsExist'
  <2>1. \A o \in Made' : /\ o \in Object \ dead /\ o \in Made /\ class'[o] = class[o]
    BY <1>1, <1>2 DEF Made
  <2> QED  BY <2>1, <1>4 DEF NamedFieldsExist, ObjectsInv, Size
<1>7. \A o \in Object \ Made' : Fields(shadow'[o]) = {}
  BY <1>2, <1>3, <1>4 DEF ObjectsInv
<1>8. ASSUME NEW o \in Object \ dead, NEW i \in Fields(shadow[o])
      PROVE  \/ Fetch(shadow'[o], i) = Fetch(shadow[o], i)
                   /\ (shadow[o].kind = "WeakList" => Fetch(shadow[o], i) \notin dead)
             \/ /\ shadow[o].kind = "WeakList"
                /\ Fetch(shadow'[o], i) = Nil
                /\ Fetch(shadow[o], i) \in dead \union SmallInteger \union Float
  <2>1. shadow[o] \in ShadowType
    BY DEF ObjectsInv
  <2>2. \/ Fetch(shadow'[o], i) = Fetch(shadow[o], i)
             /\ (shadow[o].kind = "WeakList" => Fetch(shadow[o], i) = Nil \/ Fetch(shadow[o], i) \notin gone)
        \/ /\ shadow[o].kind = "WeakList"
           /\ Fetch(shadow'[o], i) = Nil
           /\ Fetch(shadow[o], i) \in gone
    BY <2>1, <1>0, <1>4, SweptIs
  <2> QED  BY <2>2, <1>0
<1> QED  BY <1>2, <1>3, <1>4, <1>5, <1>6, <1>7, <1>8 DEF ObjectsInv
-----------------------------------------------------------------------------
(* Each step keeps the invariant, and is a step of the abstract memory or one *)
(* that does not show.                                                        *)

MSlots == [o \in Object |-> Contents(o)]

LEMMA StoreIsStore ==
    ASSUME ObjectsInv, UNCHANGED class,
           NEW o \in Made, NEW i \in Fields(shadow[o]), NEW v \in Value, StoreField(o, i, v)
    PROVE  [Memory!Next]_(Memory!ovars)
<1>1. o \in Object /\ Made' = Made
  BY DEF Made
<1>2. /\ \A p \in Object \ {o} : shadow'[p] = shadow[p]
      /\ Holding(shadow'[o], shadow[o], i, v)
  BY StoreKeeps
<1>3. \A p \in Object \ {o} : Contents(p)' = Contents(p)
  BY <1>2 DEF Contents
<1>4. Contents(o)' = [Contents(o) EXCEPT ![i] = v] /\ Contents(o)'[i] = v
  BY <1>2 DEF Contents, Holding
<1>5. \A p \in Object : shadow'[p].kind = "WeakList" <=> shadow[p].kind = "WeakList"
  BY <1>2 DEF Holding
<1>6. {p \in Made : shadow[p].kind = "WeakList"}' = {p \in Made : shadow[p].kind = "WeakList"}
  BY <1>1, <1>5 DEF Made
<1>7. /\ \A p \in Object : MSlots[p] = Contents(p) /\ MSlots'[p] = Contents(p)'
      /\ i \in DOMAIN MSlots[o]
  BY <1>1 DEF MSlots, Contents
<1>8. Memory!Store(o, i)
  BY <1>1, <1>3, <1>4, <1>6, <1>7 DEF Memory!Store, Memory!Made, Memory!Value, Made, Value, MSlots
<1> QED  BY <1>1, <1>7, <1>8 DEF Memory!Next, Memory!Made, Made, MSlots

LEMMA AllocateIsCreate ==
    ASSUME ObjectsInv, NEW o \in Object, NEW c \in Class, NEW k \in Kind,
           NEW n \in 0 .. MaxSize, instsize[c] <= n, Allocate(o, c, k, n)
    PROVE  [Memory!Next]_(Memory!ovars)
<1>1. /\ o \notin Made /\ Made' = Made \union {o}
      /\ class' = [class EXCEPT ![o] = c]
      /\ \A p \in Object \ {o} : shadow'[p] = shadow[p]
      /\ shadow'[o].kind = k
      /\ Fields(shadow'[o]) = 1 .. n
      /\ \A i \in 1 .. n : Fetch(shadow'[o], i) = Nil
  BY AllocateKeeps
<1>2. \A p \in Object \ {o} : Contents(p)' = Contents(p)
  BY <1>1 DEF Contents
<1>3. Contents(o)' = [i \in 1 .. n |-> Nil]
  BY <1>1 DEF Contents
<1>4. MSlots' = [MSlots EXCEPT ![o] = [i \in 1 .. n |-> Nil]]
  BY <1>2, <1>3 DEF MSlots
<1>5. {p \in Made : shadow[p].kind = "WeakList"}'
        = IF k = "WeakList" THEN {p \in Made : shadow[p].kind = "WeakList"} \union {o}
          ELSE {p \in Made : shadow[p].kind = "WeakList"}
  BY <1>1 DEF Made
<1>6. Memory!Create(o, c, n, k = "WeakList")
  BY <1>1, <1>4, <1>5 DEF Memory!Create, Memory!Made, Made, MSlots
<1>7. (k = "WeakList") \in BOOLEAN
  OBVIOUS
<1> QED  BY <1>6, <1>7 DEF Memory!Next

LEMMA ExchangeIsExchange ==
    ASSUME ObjectsInv, NEW l \in Made, NEW r \in Made, l # r, Exchange(l, r)
    PROVE  [Memory!Next]_(Memory!ovars)
<1>1. /\ l \in Object /\ r \in Object
      /\ Made' = Made
      /\ \A p \in Object \ {l, r} : shadow'[p] = shadow[p]
      /\ shadow'[l] = [shadow[r] EXCEPT !.self = l]
      /\ shadow'[r] = [shadow[l] EXCEPT !.self = r]
      /\ class' = [class EXCEPT ![l] = class[r], ![r] = class[l]]
  BY ExchangeKeeps DEF Made
<1>2. /\ shadow'[l].kind = shadow[r].kind /\ shadow'[l].data = shadow[r].data
      /\ shadow'[r].kind = shadow[l].kind /\ shadow'[r].data = shadow[l].data
  <2>1. shadow[l] \in ShadowType /\ shadow[r] \in ShadowType
    BY <1>1 DEF ObjectsInv
  <2> QED  BY <2>1, <1>1 DEF ShadowType, Shadows
<1>3. /\ Contents(l)' = Contents(r) /\ Contents(r)' = Contents(l)
      /\ \A p \in Object \ {l, r} : Contents(p)' = Contents(p)
  BY <1>1, <1>2 DEF Contents, Fields, Fetch
<1>4. MSlots' = [MSlots EXCEPT ![l] = MSlots[r], ![r] = MSlots[l]]
  BY <1>1, <1>3 DEF MSlots
<1> DEFINE W == {p \in Made : shadow[p].kind = "WeakList"}
<1>5. W' = (W \ {l, r}) \union {q \in {l} : r \in W} \union {q \in {r} : l \in W}
  BY <1>1, <1>2 DEF Made
<1>6. Memory!Exchange(l, r)
  BY <1>1, <1>4, <1>5 DEF Memory!Exchange, Memory!Made, Made, MSlots
<1> QED  BY <1>1, <1>6 DEF Memory!Next

LEMMA CollectIsCollect ==
    ASSUME ObjectsInv, NEW dead \in SUBSET Made, NEW boxes \in SUBSET Boxes,
           Collect(dead, boxes)
    PROVE  [Memory!Next]_(Memory!ovars)
<1> DEFINE W == {p \in Made : shadow[p].kind = "WeakList"}
<1>0. dead \subseteq Object
  BY DEF Made
<1>1. /\ ObjectsInv'
      /\ Made' = Made \ dead
      /\ \A o \in dead : Fields(shadow'[o]) = {}
      /\ \A o \in Object \ dead :
           /\ Fields(shadow'[o]) = Fields(shadow[o])
           /\ shadow'[o].kind = shadow[o].kind
           /\ \A i \in Fields(shadow[o]) :
                \/ Fetch(shadow'[o], i) = Fetch(shadow[o], i)
                     /\ (shadow[o].kind = "WeakList" => Fetch(shadow[o], i) \notin dead)
                \/ /\ shadow[o].kind = "WeakList"
                   /\ Fetch(shadow'[o], i) = Nil
                   /\ Fetch(shadow[o], i) \in dead \union SmallInteger \union Float
  BY CollectKeeps
<1>2. class' = [o \in Object |-> IF o \in dead THEN Nil ELSE class[o]]
  BY DEF Collect
<1>3. \A o \in (Made \ dead) \ W : \A i \in DOMAIN MSlots[o] : MSlots[o][i] \notin dead
  <2> SUFFICES ASSUME NEW o \in (Made \ dead) \ W, NEW i \in DOMAIN MSlots[o]
               PROVE  MSlots[o][i] \notin dead
    OBVIOUS
  <2>1. o \in Object /\ shadow[o].kind # "WeakList"
    BY DEF Made
  <2>2. MSlots[o] = Contents(o) /\ DOMAIN Contents(o) = Fields(shadow[o])
    BY <2>1 DEF MSlots, Contents
  <2>3. Contents(o)[i] \in Strong(o)
    BY <2>1, <2>2 DEF Strong
  <2>4. Strong(o) \intersect dead = {}
    BY DEF Collect
  <2> QED  BY <2>2, <2>3, <2>4
<1>4. MSlots' \in [Object -> UNION {[1 .. n -> Value] : n \in 0 .. MaxSize}]
  <2> SUFFICES ASSUME NEW o \in Object
               PROVE  Contents(o)' \in UNION {[1 .. n -> Value] : n \in 0 .. MaxSize}
    BY DEF MSlots
  <2>1. shadow'[o] \in ShadowType
    BY <1>1 DEF ObjectsInv
  <2>2. PICK n \in 0 .. MaxSize : Fields(shadow'[o]) = 1 .. n
    BY <2>1, ShadowParts
  <2>3. Contents(o)' \in [1 .. n -> Value]
    BY <2>1, <2>2, ShadowParts DEF Contents
  <2> QED  BY <2>3
<1>5. \A o \in Object : IF o \in dead THEN MSlots'[o] = <<>>
        ELSE /\ DOMAIN MSlots'[o] = DOMAIN MSlots[o]
             /\ \A i \in DOMAIN MSlots[o] :
                  \/ MSlots'[o][i] = MSlots[o][i] /\ MSlots[o][i] \notin dead
                  \/ /\ o \in W
                     /\ MSlots'[o][i] = Nil
                     /\ MSlots[o][i] \in dead \union SmallInteger \union Float
  <2> TAKE o \in Object
  <2>1. MSlots'[o] = Contents(o)' /\ MSlots[o] = Contents(o)
    BY DEF MSlots
  <2>2. CASE o \in dead
    <3>1. Fields(shadow'[o]) = {}
      BY <1>1, <2>2
    <3>2. Contents(o)' = [i \in {} |-> Fetch(shadow'[o], i)]
      BY <3>1 DEF Contents
    <3>3. [i \in {} |-> Fetch(shadow'[o], i)] = <<>>
      OBVIOUS
    <3> QED  BY <2>1, <2>2, <3>2, <3>3
  <2>3. CASE o \notin dead
    <3>1. DOMAIN Contents(o)' = DOMAIN Contents(o) /\ DOMAIN Contents(o) = Fields(shadow[o])
      BY <1>1, <2>3 DEF Contents
    <3>2. ASSUME NEW i \in Fields(shadow[o])
          PROVE  \/ Contents(o)'[i] = Contents(o)[i] /\ Contents(o)[i] \notin dead
                 \/ /\ o \in W
                    /\ Contents(o)'[i] = Nil
                    /\ Contents(o)[i] \in dead \union SmallInteger \union Float
      <4>1. Contents(o)'[i] = Fetch(shadow'[o], i) /\ Contents(o)[i] = Fetch(shadow[o], i)
        BY <1>1, <2>3 DEF Contents
      <4>2. o \in Made
        BY DEF ObjectsInv
      <4>3. CASE shadow[o].kind = "WeakList"
        BY <1>1, <2>3, <4>1, <4>2, <4>3
      <4>4. CASE shadow[o].kind # "WeakList"
        <5>1. MSlots[o][i] \notin dead
          BY <1>3, <2>1, <2>3, <3>1, <4>2, <4>4
        <5> QED  BY <1>1, <2>1, <2>3, <4>1, <4>4, <5>1
      <4> QED  BY <4>3, <4>4
    <3> QED  BY <2>1, <2>3, <3>1, <3>2
  <2> QED  BY <2>2, <2>3
<1>6. W' = W \ dead
  BY <1>1 DEF Made
<1>7. Memory!Collect(dead)
  BY <1>2, <1>3, <1>4, <1>5, <1>6
  DEF Memory!Collect, Memory!Made, Memory!Slots, Memory!Value, Made, Value, MSlots
<1> QED  BY <1>0, <1>7 DEF Memory!Next
-----------------------------------------------------------------------------
(* The actions, one by one.                                                   *)

Step == Inv' /\ [Memory!Next]_(Memory!ovars)

LEMMA InitIdle == task = Idle => TaskInv
  BY DEF Idle, TaskInv, FillInv, ReplaceInv, BecomeInv

LEMMA Unseen ==
    ASSUME ObjectsInv, UNCHANGED <<class, shadow>>
    PROVE  ObjectsInv' /\ [Memory!Next]_(Memory!ovars)
<1>1. ObjectsInv'
  BY DEF ObjectsInv, ShadowsKnowTheirObjects, NamedFieldsExist, Size, Made
<1>2. UNCHANGED Memory!ovars
  BY DEF Memory!ovars, Contents, Made
<1> QED  BY <1>1, <1>2

LEMMA KnownIsValue == Known \subseteq Value /\ \A v \in Known : v \in Object => v \in Made
  BY StorageAssumption DEF Known, Value, Made

LEMMA NewStep ==
    ASSUME Inv, NEW o \in Object, NEW c \in Class, NEW n \in 0 .. MaxSize, New(o, c, n)
    PROVE  Step
<1> DEFINE k == IF isweak[c] THEN "WeakList" ELSE "AllNil"
           m == instsize[c] + n
<1>1. k \in Kind /\ m \in 0 .. MaxSize /\ instsize[c] <= m /\ Allocate(o, c, k, m)
  BY KindIs, InstsizeIs, StorageAssumption DEF New
<1>2. TaskInv'
  BY IdleInv DEF New, Free
<1>3. ObjectsInv' /\ [Memory!Next]_(Memory!ovars)
  <2> HIDE DEF k, m
  <2> QED  BY <1>1, AllocateKeeps, AllocateIsCreate DEF Inv
<1> QED  BY <1>2, <1>3 DEF Step, Inv
LEMMA StoresStep ==
    ASSUME Inv, NEW o \in Made, NEW v \in Known, NEW n0 \in 0 .. MaxSize,
           AtPut(o, n0, v) \/ InstVarAtPut(o, n0, v)
    PROVE  Step
<1>1. /\ o \in Object /\ instsize[class[o]] \in Nat
      /\ Size(o) \in Nat /\ Fields(shadow[o]) = 1 .. Size(o)
      /\ instsize[class[o]] <= Size(o)
  BY MadeHasClass, SizeIs, StorageAssumption DEF Inv, ObjectsInv, NamedFieldsExist
<1>2. PICK i \in Fields(shadow[o]) : StoreField(o, i, v) /\ UNCHANGED class
  <2>1. CASE AtPut(o, n0, v)
    <3>1. n0 + instsize[class[o]] + 1 \in 1 .. Size(o)
      BY <1>1, <2>1, StorageAssumption DEF AtPut
    <3> QED  BY <1>1, <2>1, <3>1 DEF AtPut
  <2>2. CASE InstVarAtPut(o, n0, v)
    <3>1. n0 + 1 \in 1 .. Size(o)
      BY <1>1, <2>2, StorageAssumption DEF InstVarAtPut
    <3> QED  BY <1>1, <2>2, <3>1 DEF InstVarAtPut
  <2> QED  BY <2>1, <2>2
<1>3. TaskInv'
  BY IdleInv DEF AtPut, InstVarAtPut, Free, Idle
<1>4. v \in Value
  BY KnownIsValue
<1>5. ObjectsInv' /\ [Memory!Next]_(Memory!ovars)
  BY <1>2, <1>4, StoreKeeps, StoreIsStore DEF Inv
<1> QED  BY <1>3, <1>5 DEF Step, Inv

\* The start of a bulk store to a new object.
LEMMA FillStarts ==
    ASSUME Inv, NEW p \in Object, NEW c \in Class, NEW k \in Kind, NEW n \in 0 .. MaxSize,
           NEW values \in [1 .. n -> Value], NEW chosen,
           instsize[c] <= n, Allocate(p, c, k, n),
           chosen # "AllNil" => k = chosen /\ \A i \in 1 .. n : CheckCanHandle(k, values[i]),
           task' = FillTask(p, values, chosen)
    PROVE  Step
<1>1. /\ ObjectsInv'
      /\ Made' = Made \union {p}
      /\ shadow'[p].kind = k
      /\ Fields(shadow'[p]) = 1 .. n
  BY AllocateKeeps DEF Inv
<1>2. task' = [op |-> "fill", to |-> p, values |-> values, chosen |-> chosen, next |-> 1]
  BY DEF FillTask
<1>3. \A i \in 1 .. n : ~(i < 1)
  OBVIOUS
<1>4. FillInv'
  <2>1. task'.to = p /\ task'.values = values /\ task'.chosen = chosen /\ task'.next = 1
    BY <1>2
  <2> QED  BY <1>1, <1>2, <1>3, <2>1 DEF FillInv
<1>5. TaskInv'
  BY <1>2, <1>4 DEF TaskInv, ReplaceInv, BecomeInv
<1> QED  BY <1>1, <1>5, AllocateIsCreate DEF Step, Inv

LEMMA CloneStep ==
    ASSUME Inv, NEW o \in Made, NEW p \in Object, Clone(o, p)
    PROVE  Step
<1>1. /\ o \in Object /\ class[o] \in Class
      /\ Size(o) \in 0 .. MaxSize /\ Fields(shadow[o]) = 1 .. Size(o)
      /\ instsize[class[o]] <= Size(o)
  BY MadeHasClass, SizeIs, InstsizeIs, StorageAssumption DEF Inv, ObjectsInv, NamedFieldsExist
<1>2. Contents(o) \in [1 .. Size(o) -> Value]
  <2>1. \A i \in Fields(shadow[o]) : Fetch(shadow[o], i) \in Value
    BY <1>1, ShadowParts DEF Inv, ObjectsInv
  <2> QED  BY <1>1, <2>1 DEF Contents
<1>3. Allocate(p, class[o], "AllNil", Size(o)) /\ task' = FillTask(p, Contents(o), "AllNil")
  BY DEF Clone
<1> HIDE DEF Size, Contents, Allocate, FillTask
<1> QED  BY <1>1, <1>2, <1>3, FillStarts, KindIs

LEMMA FillInStep ==
    ASSUME Inv, NEW p \in Object, NEW c \in Class, NEW n \in instsize[c] .. MaxSize,
           NEW values \in Values(n), FillIn(p, c, values)
    PROVE  Step
<1> DEFINE k == IF isweak[c] THEN "WeakList" ELSE StrategyTypeFor(values)
<1>1. n \in 0 .. MaxSize /\ instsize[c] <= n
  BY InstsizeIs, StorageAssumption
<1>2. values \in [1 .. n -> Value] /\ DOMAIN values = 1 .. n
  BY KnownIsValue DEF Values
<1>3. Cardinality(DOMAIN values) = n
  BY <1>1, <1>2, FS_Interval, StorageAssumption
<1>4. k \in Kind /\ \A i \in 1 .. n : CheckCanHandle(k, values[i])
  <2>1. CASE isweak[c]
    BY <2>1, KindIs DEF CheckCanHandle, Tagging
  <2>2. CASE ~isweak[c]
    BY <2>2, <1>2, ChosenHandlesAll DEF StrategyTypeFor
  <2> QED  BY <2>1, <2>2
<1>5. Allocate(p, c, k, n) /\ task' = FillTask(p, values, k)
  BY <1>3 DEF FillIn
<1> HIDE DEF k
<1> QED  BY <1>1, <1>2, <1>4, <1>5, FillStarts

LEMMA FillNextStep ==
    ASSUME Inv, FillNext
    PROVE  Step
<1> DEFINE o == task.to
           i == task.next
           v == task.values[task.next]
<1>1. task.op = "fill" /\ FillInv /\ UNCHANGED class /\ ObjectsInv
  BY DEF FillNext, Inv, TaskInv
<1>2. CASE i \notin DOMAIN task.values
  <2>1. task' = Idle /\ UNCHANGED <<class, shadow>>
    BY <1>2 DEF FillNext
  <2> QED  BY <2>1, IdleInv, Unseen DEF Step, Inv
<1>3. CASE i \in DOMAIN task.values
  <2>1. /\ o \in Made /\ i \in Fields(shadow[o]) /\ v \in Value
        /\ i \in Nat \ {0}
        /\ StoreField(o, i, v) /\ task' = [task EXCEPT !.next = i + 1]
    BY <1>1, <1>3 DEF FillNext, FillInv
  <2>2. /\ ObjectsInv' /\ Made' = Made
        /\ Holding(shadow'[o], shadow[o], i, v)
        /\ CheckCanHandle(shadow[o].kind, v) => shadow'[o].kind = shadow[o].kind
        /\ [Memory!Next]_(Memory!ovars)
    <3> HIDE DEF o, i, v
    <3> QED  BY <1>1, <2>1, StoreKeeps, StoreIsStore
  <2>3. task' = [op |-> "fill", to |-> o, values |-> task.values,
                 chosen |-> task.chosen, next |-> i + 1]
    BY <1>1, <2>1 DEF FillInv
  <2>4. /\ task'.op = "fill" /\ task'.to = o /\ task'.values = task.values
        /\ task'.chosen = task.chosen /\ task'.next = i + 1
    BY <2>3
  <2>5. Fields(shadow'[o]) = Fields(shadow[o]) /\ DOMAIN task.values = Fields(shadow[o])
        /\ \A j \in Fields(shadow[o]) : j \in Nat
    <3>1. shadow[o] \in ShadowType
      BY <2>1 DEF ObjectsInv, Inv, Made
    <3> QED  BY <1>1, <2>2, <3>1, ShadowParts DEF Holding, FillInv
  <2>6. \A j \in DOMAIN task.values : j < i + 1 => Fetch(shadow'[o], j) = task.values[j]
    <3> SUFFICES ASSUME NEW j \in DOMAIN task.values, j < i + 1
                 PROVE  Fetch(shadow'[o], j) = task.values[j]
      OBVIOUS
    <3>1. Fetch(shadow'[o], j) = IF j = i THEN v ELSE Fetch(shadow[o], j)
      BY <2>2, <2>5 DEF Holding
    <3>2. j = i \/ j < i
      BY <2>1, <2>5
    <3> QED  BY <1>1, <3>1, <3>2 DEF FillInv
  <2>7. task.chosen # "AllNil" =>
              /\ shadow'[o].kind = task.chosen
              /\ \A j \in DOMAIN task.values : CheckCanHandle(task.chosen, task.values[j])
    BY <1>1, <1>3, <2>2 DEF FillInv
  <2>8. FillInv'
    <3>1. \A j \in DOMAIN task.values : task.values[j] \in Value
      BY <1>1 DEF FillInv
    <3>2. i + 1 \in Nat \ {0} /\ o \in Made'
      BY <2>1, <2>2
    <3>3. /\ task' = [op |-> "fill", to |-> task'.to, values |-> task'.values,
                      chosen |-> task'.chosen, next |-> task'.next]
          /\ task'.to \in Made' /\ task'.next \in Nat \ {0}
          /\ DOMAIN task'.values = Fields(shadow'[task'.to])
      BY <2>3, <2>4, <2>5, <3>2
    <3>4. /\ \A j \in DOMAIN task'.values : task'.values[j] \in Value
          /\ \A j \in DOMAIN task'.values :
                j < task'.next => Fetch(shadow'[task'.to], j) = task'.values[j]
          /\ task'.chosen # "AllNil" =>
              /\ shadow'[task'.to].kind = task'.chosen
              /\ \A j \in DOMAIN task'.values : CheckCanHandle(task'.chosen, task'.values[j])
      BY <2>4, <2>6, <2>7, <3>1
    <3> QED  BY <3>3, <3>4 DEF FillInv
  <2>9. TaskInv'
    BY <2>4, <2>8 DEF TaskInv, ReplaceInv, BecomeInv
  <2> QED  BY <2>2, <2>9 DEF Step, Inv
<1> QED  BY <1>2, <1>3

\* ReplaceInv, told of what the task names.
ReplaceFacts(o, p, start, i0, stop, off) ==
    /\ o \in Made /\ p \in Made
    /\ start \in Int /\ i0 \in Int /\ stop \in Int /\ off \in Int
    /\ 0 <= start /\ 0 <= off + start /\ start <= i0 /\ i0 <= stop + 1
    /\ stop < Size(o) - instsize[class[o]]
    /\ off + stop < Size(p) - instsize[class[p]]
    /\ p # o => \A i \in start .. (i0 - 1) :
                    Fetch(shadow[o], FieldOf(o, i)) = Fetch(shadow[p], FieldOf(p, off + i))

LEMMA ReplaceGives ==
    ASSUME ReplaceInv, task.op = "replace"
    PROVE  \E o, p, start, i0, stop, off :
              /\ task = [op |-> "replace", to |-> o, from |-> p, start |-> start, i0 |-> i0,
                         stop |-> stop, off |-> off]
              /\ ReplaceFacts(o, p, start, i0, stop, off)
<1>1. task = [op |-> "replace", to |-> task.to, from |-> task.from, start |-> task.start,
              i0 |-> task.i0, stop |-> task.stop, off |-> task.off]
  BY DEF ReplaceInv
<1>2. ReplaceFacts(task.to, task.from, task.start, task.i0, task.stop, task.off)
  BY DEF ReplaceInv, ReplaceFacts
<1> QED  BY <1>1, <1>2

LEMMA ReplaceKept ==
    ASSUME NEW o, NEW p, NEW start, NEW i0, NEW stop, NEW off,
           task' = [op |-> "replace", to |-> o, from |-> p, start |-> start, i0 |-> i0,
                    stop |-> stop, off |-> off],
           ReplaceFacts(o, p, start, i0, stop, off)'
    PROVE  TaskInv'
<1>1. /\ task'.op = "replace" /\ task'.to = o /\ task'.from = p /\ task'.start = start
      /\ task'.i0 = i0 /\ task'.stop = stop /\ task'.off = off
  OBVIOUS
<1>2. ReplaceInv'
  BY <1>1 DEF ReplaceInv, ReplaceFacts, FieldOf, Size
<1> QED  BY <1>1, <1>2 DEF TaskInv, FillInv, BecomeInv

LEMMA ReplaceStep ==
    ASSUME Inv, NEW o \in Made, NEW p \in Made, NEW t \in Spans, Replace(o, t[1], t[2], p, t[3])
    PROVE  Step
<1>1. /\ t[1] \in Int /\ t[2] \in Int /\ t[3] \in Int
      /\ Size(o) \in Nat /\ Size(p) \in Nat
      /\ instsize[class[o]] \in Nat /\ instsize[class[p]] \in Nat
  BY ArgumentAssumption, MadeHasClass, SizeIs, StorageAssumption DEF Inv, ObjectsInv
<1>2. /\ UNCHANGED <<class, shadow>>
      /\ t[1] >= 0 /\ t[1] - 1 <= t[2] /\ t[3] >= 0
      /\ Size(o) - instsize[class[o]] > t[2]
      /\ Size(p) - instsize[class[p]] > t[3] + (t[2] - t[1])
      /\ task' = [op |-> "replace", to |-> o, from |-> p, start |-> t[1], i0 |-> t[1],
                  stop |-> t[2], off |-> t[3] - t[1]]
  BY DEF Replace
<1>3. Made' = Made /\ Size(o)' = Size(o) /\ Size(p)' = Size(p)
      /\ class'[o] = class[o] /\ class'[p] = class[p]
  BY <1>2 DEF Made, Size
<1>4. /\ t[3] - t[1] \in Int /\ t[1] <= t[2] + 1
      /\ 0 <= (t[3] - t[1]) + t[1]
      /\ t[2] < Size(o) - instsize[class[o]]
      /\ (t[3] - t[1]) + t[2] < Size(p) - instsize[class[p]]
      /\ t[1] .. (t[1] - 1) = {}
  <2> HIDE DEF Size
  <2> QED  BY <1>1, <1>2
<1>5. ReplaceFacts(o, p, t[1], t[1], t[2], t[3] - t[1])'
  BY <1>1, <1>2, <1>3, <1>4 DEF ReplaceFacts
<1>6. TaskInv'
  BY <1>2, <1>5, ReplaceKept
<1> QED  BY <1>2, <1>6, Unseen DEF Step, Inv

LEMMA FieldInRange ==
    ASSUME NEW i \in Int, NEW a \in Nat, NEW z \in Nat, NEW stop \in Int,
           0 <= i, i <= stop, stop < z - a
    PROVE  i + a + 1 \in 1 .. z
OBVIOUS

LEMMA ReplaceNextStep ==
    ASSUME Inv, ReplaceNext
    PROVE  Step
<1>1. task.op = "replace" /\ ReplaceInv /\ UNCHANGED class /\ ObjectsInv
  BY DEF ReplaceNext, Inv, TaskInv
<1>2. PICK o, p, start, i0, stop, off :
              /\ task = [op |-> "replace", to |-> o, from |-> p, start |-> start, i0 |-> i0,
                         stop |-> stop, off |-> off]
              /\ ReplaceFacts(o, p, start, i0, stop, off)
  BY <1>1, ReplaceGives
<1>3. /\ task.to = o /\ task.from = p /\ task.start = start
      /\ task.i0 = i0 /\ task.stop = stop /\ task.off = off
  BY <1>2
<1>4. CASE ~(i0 <= stop)
  <2>1. task' = Idle /\ UNCHANGED <<class, shadow>>
    BY <1>3, <1>4 DEF ReplaceNext
  <2> QED  BY <2>1, IdleInv, Unseen DEF Step, Inv
<1>5. CASE i0 <= stop
  <2> DEFINE n == i0 + instsize[class[o]] + 1
             m == off + i0 + instsize[class[p]] + 1
             v == Fetch(shadow[p], m)
  <2>1. /\ o \in Made /\ p \in Made /\ o \in Object /\ p \in Object
        /\ start \in Int /\ i0 \in Int /\ stop \in Int /\ off \in Int
        /\ 0 <= start /\ 0 <= off + start /\ start <= i0
        /\ stop < Size(o) - instsize[class[o]]
        /\ off + stop < Size(p) - instsize[class[p]]
    BY <1>2 DEF ReplaceFacts, Made
  <2>2. /\ instsize[class[o]] \in Nat /\ instsize[class[p]] \in Nat
        /\ Size(o) \in Nat /\ Size(p) \in Nat
        /\ Fields(shadow[o]) = 1 .. Size(o) /\ Fields(shadow[p]) = 1 .. Size(p)
    BY <1>1, <2>1, MadeHasClass, SizeIs, StorageAssumption DEF ObjectsInv
  <2>3. \A i \in start .. i0 : i + instsize[class[o]] + 1 \in Fields(shadow[o])
    <3> SUFFICES ASSUME NEW i \in start .. i0
                 PROVE  i + instsize[class[o]] + 1 \in Fields(shadow[o])
      OBVIOUS
    <3>1. i \in Int /\ 0 <= i /\ i <= stop
      BY <1>5, <2>1
    <3>2. i + instsize[class[o]] + 1 \in 1 .. Size(o)
      BY <2>1, <2>2, <3>1, FieldInRange
    <3> QED  BY <2>2, <3>2
  <2>4. n \in Fields(shadow[o]) /\ m \in Fields(shadow[p])
    <3>1. off + i0 \in Int /\ 0 <= off + i0 /\ off + i0 <= off + stop /\ off + stop \in Int
          /\ i0 \in start .. i0
      BY <1>5, <2>1
    <3>2. off + i0 + instsize[class[p]] + 1 \in 1 .. Size(p)
      BY <2>1, <2>2, <3>1, FieldInRange
    <3> QED  BY <2>2, <2>3, <3>1, <3>2
  <2>5. v \in Value
    BY <1>1, <2>1, <2>4, ShadowParts DEF ObjectsInv
  <2>6. StoreField(o, n, v) /\ task' = [task EXCEPT !.i0 = i0 + 1]
    <3>1. Contents(p)[m] = v
      BY <2>4 DEF Contents
    <3> QED  BY <1>3, <1>5, <3>1 DEF ReplaceNext
  <2>7. task' = [op |-> "replace", to |-> o, from |-> p, start |-> start,
                 i0 |-> i0 + 1, stop |-> stop, off |-> off]
    BY <1>2, <2>6
  <2>8. /\ ObjectsInv' /\ Made' = Made
        /\ \A q \in Object \ {o} : shadow'[q] = shadow[q]
        /\ Holding(shadow'[o], shadow[o], n, v)
        /\ [Memory!Next]_(Memory!ovars)
    <3> HIDE DEF n, v
    <3> QED  BY <1>1, <2>1, <2>4, <2>5, <2>6, StoreKeeps, StoreIsStore
  <2>9. Size(o)' = Size(o) /\ Size(p)' = Size(p)
    BY <2>1, <2>8 DEF Size, Holding
  <2>10. p # o => \A i \in start .. i0 :
                    Fetch(shadow'[o], FieldOf(o, i)) = Fetch(shadow'[p], FieldOf(p, off + i))
    <3> SUFFICES ASSUME p # o, NEW i \in start .. i0
                 PROVE  Fetch(shadow'[o], FieldOf(o, i)) = Fetch(shadow'[p], FieldOf(p, off + i))
      OBVIOUS
    <3>1. FieldOf(o, i) \in Fields(shadow[o])
      BY <2>3 DEF FieldOf
    <3>2. Fetch(shadow'[o], FieldOf(o, i))
            = IF FieldOf(o, i) = n THEN v ELSE Fetch(shadow[o], FieldOf(o, i))
      BY <2>8, <3>1 DEF Holding
    <3>3. shadow'[p] = shadow[p]
      BY <2>1, <2>8
    <3>4. CASE i = i0
      BY <3>2, <3>3, <3>4 DEF FieldOf
    <3>5. CASE i # i0
      <4>1. i \in start .. (i0 - 1)
        BY <2>1, <3>5
      <4>2. FieldOf(o, i) # n
        BY <2>1, <2>2, <3>5 DEF FieldOf
      <4>3. Fetch(shadow[o], FieldOf(o, i)) = Fetch(shadow[p], FieldOf(p, off + i))
        BY <1>2, <4>1 DEF ReplaceFacts
      <4> QED  BY <3>2, <3>3, <4>2, <4>3
    <3> QED  BY <3>4, <3>5
  <2>11. ReplaceFacts(o, p, start, i0 + 1, stop, off)'
    <3>1. i0 + 1 \in Int /\ start <= i0 + 1 /\ i0 + 1 <= stop + 1 /\ (i0 + 1) - 1 = i0
      BY <1>5, <2>1
    <3>2. class'[o] = class[o] /\ class'[p] = class[p] /\ \A q, i : FieldOf(q, i)' = FieldOf(q, i)
      BY <1>1 DEF FieldOf
    <3> HIDE DEF n, m, v, Size, FieldOf, Fetch, Made
    <3> QED  BY <2>1, <2>8, <2>9, <2>10, <3>1, <3>2 DEF ReplaceFacts
  <2>12. TaskInv'
    BY <2>7, <2>11, ReplaceKept
  <2> QED  BY <2>8, <2>12 DEF Step, Inv
<1> QED  BY <1>4, <1>5
\* BecomeInv, told of what the task names.
BecomeFacts(lefts, rights, next, failed) ==
    /\ lefts \in Seq(Value) /\ rights \in Seq(Value)
    /\ Len(lefts) <= Len(rights)
    /\ next \in Nat \ {0}
    /\ failed \in BOOLEAN
    /\ \A i \in 1 .. Len(lefts) :
          /\ lefts[i] \in Object => lefts[i] \in Made
          /\ rights[i] \in Object => rights[i] \in Made
    /\ failed => \A i \in 1 .. Len(lefts) : CanBecome(lefts[i], rights[i])
    /\ \A i \in 1 .. Len(lefts) : i < next => CanBecome(lefts[i], rights[i])

LEMMA BecomeGives ==
    ASSUME BecomeInv, task.op = "become"
    PROVE  \E lefts, rights, next, failed, was :
              /\ task = [op |-> "become", lefts |-> lefts, rights |-> rights, next |-> next,
                         failed |-> failed, was |-> was]
              /\ BecomeFacts(lefts, rights, next, failed)
<1>1. task = [op |-> "become", lefts |-> task.lefts, rights |-> task.rights,
              next |-> task.next, failed |-> task.failed, was |-> task.was]
  BY DEF BecomeInv
<1>2. BecomeFacts(task.lefts, task.rights, task.next, task.failed)
  BY DEF BecomeInv, BecomeFacts
<1> QED  BY <1>1, <1>2

LEMMA BecomeKept ==
    ASSUME NEW lefts, NEW rights, NEW next, NEW failed, NEW was,
           task' = [op |-> "become", lefts |-> lefts, rights |-> rights, next |-> next,
                    failed |-> failed, was |-> was],
           BecomeFacts(lefts, rights, next, failed)'
    PROVE  TaskInv'
<1>1. /\ task'.op = "become" /\ task'.lefts = lefts /\ task'.rights = rights
      /\ task'.next = next /\ task'.failed = failed /\ task'.was = was
  OBVIOUS
<1>2. BecomeInv'
  BY <1>1 DEF BecomeInv, BecomeFacts
<1> QED  BY <1>1, <1>2 DEF TaskInv, FillInv, ReplaceInv

LEMMA BecomeStep ==
    ASSUME Inv, NEW arrays \in BecomeArrays, Become(arrays[1], arrays[2])
    PROVE  Step
<1> DEFINE ls == arrays[1]
           rs == arrays[2]
           was == [o \in Made |-> Contents(o)]
<1>1. ls \in Seq(Value) /\ rs \in Seq(Value) /\ Len(ls) = Len(rs)
  BY ArgumentAssumption DEF Exchangeable, Value
<1>2. /\ UNCHANGED <<class, shadow>>
      /\ task' = [op |-> "become", lefts |-> ls, rights |-> rs, next |-> 1,
                  failed |-> FALSE, was |-> was]
      /\ \A i \in DOMAIN ls : {ls[i], rs[i]} \subseteq Known
  BY DEF Become
<1>3. Made' = Made
  BY <1>2 DEF Made
<1>4. \A i \in 1 .. Len(ls) : /\ ls[i] \in Object => ls[i] \in Made
                              /\ rs[i] \in Object => rs[i] \in Made
  BY <1>1, <1>2, KnownIsValue
<1>5. Len(ls) <= Len(rs) /\ \A i \in 1 .. Len(ls) : ~(i < 1)
  BY <1>1
<1> HIDE DEF ls, rs, was
<1>6. BecomeFacts(ls, rs, 1, FALSE)'
  BY <1>1, <1>3, <1>4, <1>5 DEF BecomeFacts, CanBecome
<1>7. TaskInv'
  BY <1>2, <1>6, BecomeKept
<1> QED  BY <1>2, <1>7, Unseen DEF Step, Inv

\* One pair of objects, exchanged or exchanged back.
LEMMA PairStep ==
    ASSUME Inv, NEW lefts, NEW rights, NEW next, NEW failed, NEW was,
           task = [op |-> "become", lefts |-> lefts, rights |-> rights, next |-> next,
                   failed |-> failed, was |-> was],
           BecomeFacts(lefts, rights, next, failed),
           next <= Len(lefts), CanBecome(lefts[next], rights[next]),
           Exchange(lefts[next], rights[next]), task' = [task EXCEPT !.next = @ + 1]
    PROVE  Step
<1> DEFINE l == lefts[next]
           r == rights[next]
<1>1. next \in 1 .. Len(lefts) /\ l \in Object /\ r \in Object /\ l # r
  BY DEF BecomeFacts, CanBecome
<1>2. l \in Made /\ r \in Made
  BY <1>1 DEF BecomeFacts
<1>3. ObjectsInv' /\ Made' = Made /\ [Memory!Next]_(Memory!ovars)
  BY <1>1, <1>2, ExchangeKeeps, ExchangeIsExchange DEF Inv
<1>4. task' = [op |-> "become", lefts |-> lefts, rights |-> rights, next |-> next + 1,
               failed |-> failed, was |-> was]
  OBVIOUS
<1>5. BecomeFacts(lefts, rights, next + 1, failed)'
  <2>1. next + 1 \in Nat \ {0}
    BY DEF BecomeFacts
  <2>2. \A i \in 1 .. Len(lefts) : i < next + 1 => CanBecome(lefts[i], rights[i])
    <3> SUFFICES ASSUME NEW i \in 1 .. Len(lefts), i < next + 1
                 PROVE  CanBecome(lefts[i], rights[i])
      OBVIOUS
    <3>1. i < next \/ i = next
      BY <1>1
    <3> QED  BY <3>1 DEF BecomeFacts
  <2> QED  BY <1>3, <2>1, <2>2 DEF BecomeFacts, CanBecome
<1>6. TaskInv'
  BY <1>4, <1>5, BecomeKept
<1> QED  BY <1>3, <1>6 DEF Step, Inv

LEMMA BecomeNextStep ==
    ASSUME Inv, BecomeNext \/ BecomeUndo
    PROVE  Step
<1>1. task.op = "become" /\ BecomeInv
  BY DEF BecomeNext, BecomeUndo, Inv, TaskInv
<1>2. PICK lefts, rights, next, failed, was :
              /\ task = [op |-> "become", lefts |-> lefts, rights |-> rights, next |-> next,
                         failed |-> failed, was |-> was]
              /\ BecomeFacts(lefts, rights, next, failed)
  BY <1>1, BecomeGives
<1>3. /\ task.lefts = lefts /\ task.rights = rights /\ task.next = next
      /\ task.failed = failed /\ task.was = was
  BY <1>2
<1>4. /\ next \in Nat \ {0} /\ Len(lefts) \in Nat
      /\ lefts \in Seq(Value) /\ rights \in Seq(Value) /\ Len(lefts) <= Len(rights)
  BY <1>2 DEF BecomeFacts
<1>5. CASE next > Len(lefts)
  <2>1. task' = Idle /\ UNCHANGED <<class, shadow>>
    BY <1>3, <1>5 DEF BecomeNext, BecomeUndo
  <2> QED  BY <2>1, IdleInv, Unseen DEF Step, Inv
<1>6. CASE next <= Len(lefts) /\ (BecomeUndo \/ CanBecome(lefts[next], rights[next]))
  <2>1. next \in 1 .. Len(lefts) /\ ~(next > Len(lefts))
    BY <1>4, <1>6
  <2>2. /\ Exchange(lefts[next], rights[next]) /\ task' = [task EXCEPT !.next = @ + 1]
        /\ CanBecome(lefts[next], rights[next])
    <3>1. CASE BecomeUndo
      BY <1>2, <1>3, <2>1, <3>1 DEF BecomeUndo, BecomeFacts
    <3>2. CASE ~BecomeUndo
      BY <1>3, <1>6, <2>1, <3>2 DEF BecomeNext
    <3> QED  BY <3>1, <3>2
  <2> QED  BY <1>2, <1>6, <2>2, PairStep
<1>7. CASE next <= Len(lefts) /\ ~BecomeUndo /\ ~CanBecome(lefts[next], rights[next])
  <2> DEFINE done == [i \in 1 .. (next - 1) |-> lefts[i]]
  <2>0. ~(next > Len(lefts))
    BY <1>4, <1>7
  <2>1. /\ task' = [task EXCEPT !.failed = TRUE, !.next = 1, !.lefts = done]
        /\ UNCHANGED <<class, shadow>>
    BY <1>3, <1>7, <2>0 DEF BecomeNext
  <2>2. next - 1 \in Nat /\ \A i \in 1 .. (next - 1) : i \in 1 .. Len(lefts) /\ lefts[i] \in Value
    BY <1>4, <1>7
  <2>3. done \in Seq(Value) /\ Len(done) = next - 1 /\ \A i \in 1 .. (next - 1) : done[i] = lefts[i]
    BY <2>2
  <2> HIDE DEF done
  <2>4. task' = [op |-> "become", lefts |-> done, rights |-> rights, next |-> 1,
                 failed |-> TRUE, was |-> was]
    BY <1>2, <2>1
  <2>5. Made' = Made
    BY <2>1 DEF Made
  <2>6. \A i \in 1 .. Len(done) : /\ CanBecome(done[i], rights[i])
                                  /\ done[i] \in Object => done[i] \in Made
                                  /\ rights[i] \in Object => rights[i] \in Made
    <3> SUFFICES ASSUME NEW i \in 1 .. Len(done)
                 PROVE  /\ CanBecome(done[i], rights[i])
                        /\ done[i] \in Object => done[i] \in Made
                        /\ rights[i] \in Object => rights[i] \in Made
      OBVIOUS
    <3>1. i \in 1 .. Len(lefts) /\ i < next /\ done[i] = lefts[i]
      BY <1>4, <2>2, <2>3
    <3> QED  BY <1>2, <3>1 DEF BecomeFacts
  <2>7. Len(done) <= Len(rights)
    BY <1>4, <1>7, <2>3
  <2>8. BecomeFacts(done, rights, 1, TRUE)'
    BY <1>4, <2>3, <2>5, <2>6, <2>7 DEF BecomeFacts, CanBecome
  <2>9. TaskInv'
    BY <2>4, <2>8, BecomeKept
  <2> QED  BY <2>1, <2>9, Unseen DEF Step, Inv
<1> QED  BY <1>4, <1>5, <1>6, <1>7
LEMMA CollectStep ==
    ASSUME Inv, NEW dead \in SUBSET Made, NEW boxes \in SUBSET Boxes, Collect(dead, boxes)
    PROVE  Step
<1>1. TaskInv'
  BY IdleInv DEF Collect, Free, Idle
<1> QED  BY <1>1, CollectKeeps, CollectIsCollect DEF Step, Inv

-----------------------------------------------------------------------------
(* The theorems.                                                              *)

LEMMA Initially == Init => Inv /\ Memory!Init
<1> SUFFICES ASSUME Init  PROVE Inv /\ Memory!Init
  OBVIOUS
<1>1. 0 \in 0 .. MaxSize /\ "List" \in Kind
  BY StorageAssumption, KindIs
<1>2. Made = {}
  BY DEF Init, Made
<1>3. \A o \in Object : /\ shadow[o] = NewShadow("List", o, 0)
                        /\ shadow[o] \in ShadowType /\ shadow[o].self = o
                        /\ Fields(shadow[o]) = {}
  BY <1>1, NewIsNil DEF Init
<1>4. shadow \in [Object -> ShadowType]
  <2>1. shadow = [o \in Object |-> shadow[o]]
    BY DEF Init
  <2> QED  BY <1>3, <2>1
<1>5. ObjectsInv
  BY <1>2, <1>3, <1>4 DEF Init, ObjectsInv, ShadowsKnowTheirObjects, NamedFieldsExist
<1>6. TaskInv
  BY InitIdle DEF Init
<1>7. \A o \in Object : Contents(o) = <<>>
  <2> TAKE o \in Object
  <2>1. Contents(o) = [i \in {} |-> Fetch(shadow[o], i)]
    BY <1>3 DEF Contents
  <2>2. [i \in {} |-> Fetch(shadow[o], i)] = <<>>
    OBVIOUS
  <2> QED  BY <2>1, <2>2
<1>8. Memory!Init
  BY <1>2, <1>7 DEF Memory!Init, Init
<1> QED  BY <1>5, <1>6, <1>8 DEF Inv

LEMMA NextSteps == Inv /\ [Next]_vars => Step
<1> SUFFICES ASSUME Inv, [Next]_vars  PROVE Step
  OBVIOUS
<1>1. CASE \E o \in Object, c \in Class, n \in 0 .. MaxSize : New(o, c, n)
  BY <1>1, NewStep
<1>2. CASE \E o \in Made, v \in Known, n0 \in 0 .. MaxSize : AtPut(o, n0, v) \/ InstVarAtPut(o, n0, v)
  BY <1>2, StoresStep
<1>3. CASE \E o \in Made, p \in Object : Clone(o, p)
  BY <1>3, CloneStep
<1>4. CASE \E p \in Object, c \in Class : \E n \in instsize[c] .. MaxSize :
             \E values \in Values(n) : (n = instsize[c] \/ isvariable[c]) /\ FillIn(p, c, values)
  BY <1>4, FillInStep
<1>5. CASE \E o, p \in Made, t \in Spans : Replace(o, t[1], t[2], p, t[3])
  BY <1>5, ReplaceStep
<1>6. CASE \E arrays \in BecomeArrays : Become(arrays[1], arrays[2])
  BY <1>6, BecomeStep
<1>7. CASE \E dead \in SUBSET Made, boxes \in SUBSET Boxes : Collect(dead, boxes)
  BY <1>7, CollectStep
<1>8. CASE FillNext
  BY <1>8, FillNextStep
<1>9. CASE ReplaceNext
  BY <1>9, ReplaceNextStep
<1>10. CASE BecomeNext \/ BecomeUndo
  BY <1>10, BecomeNextStep
<1>11. CASE UNCHANGED vars
  <2>1. UNCHANGED <<class, shadow, task>>
    BY <1>11 DEF vars
  <2>2. TaskInv'
    BY <2>1 DEF Inv, TaskInv, FillInv, ReplaceInv, BecomeInv, FieldOf, Size, Made
  <2> QED  BY <2>1, <2>2, Unseen DEF Step, Inv
<1> QED
  BY <1>1, <1>2, <1>3, <1>4, <1>5, <1>6, <1>7, <1>8, <1>9, <1>10, <1>11 DEF Next

THEOREM InvariantHolds == Spec => []Inv
<1>1. Init => Inv
  BY Initially
<1>2. Inv /\ [Next]_vars => Inv'
  BY NextSteps DEF Step
<1> QED  BY <1>1, <1>2, PTL DEF Spec

LEMMA InvGivesTypes == Inv => TypeOK
<1> SUFFICES ASSUME Inv  PROVE TypeOK
  OBVIOUS
<1>1. ASSUME NEW o \in Object
      PROVE  /\ shadow[o].kind \in Kind
             /\ shadow[o].self \in Object
             /\ shadow[o].data \in [Fields(shadow[o]) -> Value \union {Dead}]
             /\ \A i \in Fields(shadow[o]) : Contents(o)[i] \in Value
  <2>1. shadow[o] \in ShadowType
    BY DEF Inv, ObjectsInv
  <2>2. PICK n \in 0 .. MaxSize : /\ Fields(shadow[o]) = 1 .. n
                                  /\ shadow[o].data \in [1 .. n -> Data(shadow[o].kind)]
    BY <2>1, ShadowParts
  <2>3. shadow[o].kind \in Kind
    BY <2>1, ShadowParts
  <2>4. Data(shadow[o].kind) \subseteq Value \union {Dead}
    BY <2>3, KindIs DEF Data, ContainedType, Value, Tagging
  <2> QED  BY <2>1, <2>2, <2>3, <2>4, ShadowParts DEF Contents
<1> QED  BY <1>1 DEF TypeOK, Inv, ObjectsInv

\* Each storage belongs to its object, has its fields and, where it was chosen for
\* an object of the image, the kind that was chosen for it, whatever is stored,
\* copied, exchanged and collected (storage.py, rstrategies.py).
THEOREM StoragesStaySound == Spec => []StoragesSound
<1>1. Inv => StoragesSound
  BY InvGivesTypes
  DEF StoragesSound, Inv, ObjectsInv, TaskInv, FillInv, ChosenStrategyFits
<1> QED  BY <1>1, InvariantHolds, PTL

\* Bulk stores lose nothing, however often the object changes its strategy on
\* the way (primitives.py 753-777, model.py 628-640).
THEOREM BulkStoresAlwaysArrive == Spec => []BulkStoresArrive
<1>1. Inv => FillsArrive
  BY DEF Inv, ObjectsInv, TaskInv, FillInv, FillsArrive, Contents
<1>2. Inv => ReplacedAsBefore
  <2> SUFFICES ASSUME Inv, task.op = "replace", task.from # task.to,
                      NEW i \in task.start .. (task.i0 - 1)
               PROVE  Contents(task.to)[i + instsize[class[task.to]] + 1]
                        = Contents(task.from)[task.off + i + instsize[class[task.from]] + 1]
    BY DEF ReplacedAsBefore
  <2>1. PICK o, p, start, i0, stop, off :
              /\ task = [op |-> "replace", to |-> o, from |-> p, start |-> start, i0 |-> i0,
                         stop |-> stop, off |-> off]
              /\ ReplaceFacts(o, p, start, i0, stop, off)
    BY ReplaceGives DEF Inv, TaskInv
  <2>2. task.to = o /\ task.from = p /\ task.off = off /\ i \in start .. (i0 - 1) /\ p # o
    BY <2>1
  <2>3. /\ start \in Int /\ i0 \in Int /\ stop \in Int /\ off \in Int
        /\ 0 <= start /\ 0 <= off + start /\ i0 <= stop + 1
        /\ stop < Size(o) - instsize[class[o]]
        /\ off + stop < Size(p) - instsize[class[p]]
        /\ o \in Made /\ p \in Made
        /\ Fetch(shadow[o], FieldOf(o, i)) = Fetch(shadow[p], FieldOf(p, off + i))
    BY <2>1, <2>2 DEF ReplaceFacts
  <2>4. /\ instsize[class[o]] \in Nat /\ instsize[class[p]] \in Nat
        /\ Size(o) \in Nat /\ Size(p) \in Nat
        /\ Fields(shadow[o]) = 1 .. Size(o) /\ Fields(shadow[p]) = 1 .. Size(p)
    BY <2>3, MadeHasClass, SizeIs, StorageAssumption DEF Inv, ObjectsInv
  <2>5. /\ i \in Int /\ 0 <= i /\ i <= stop
        /\ off + i \in Int /\ 0 <= off + i /\ off + i <= off + stop /\ off + stop \in Int
    BY <2>2, <2>3
  <2>6. i + instsize[class[o]] + 1 \in Fields(shadow[o])
    BY <2>3, <2>4, <2>5, FieldInRange
  <2>7. off + i + instsize[class[p]] + 1 \in Fields(shadow[p])
    BY <2>3, <2>4, <2>5, FieldInRange
  <2> QED  BY <2>2, <2>3, <2>6, <2>7 DEF Contents, FieldOf
<1> QED  BY <1>1, <1>2, InvariantHolds, PTL DEF BulkStoresArrive

\* To the image a pointers object is an array of what was stored in it: how it is
\* represented, and when that changes, is not to be seen (rstrategies.py).
THEOREM StoragesImplementArrays == Spec => ImplementsMemory
<1>1. Init => Memory!Init
  BY Initially
<1>2. Inv /\ [Next]_vars => [Memory!Next]_(Memory!ovars)
  BY NextSteps DEF Step
<1> QED  BY <1>1, <1>2, InvariantHolds, PTL DEF Spec, Memory!Spec, ImplementsMemory

-----------------------------------------------------------------------------
(* A become: of arrays, taken back. The pairs are taken back in the order in    *)
(* which they were exchanged; that this restores every object is because no    *)
(* object is in two of them, which Apart says of the arguments: of <<a, b>> and *)
(* <<a, c>>, exchanged and taken back in that order, something else is left.    *)

\* The objects of pair i are in no other pair that can be exchanged.
PairsApart(lefts, rights) ==
    \A i, j \in 1 .. Len(lefts) :
        i # j /\ CanBecome(lefts[i], rights[i]) /\ CanBecome(lefts[j], rights[j])
            => {lefts[i], rights[i]} \intersect {lefts[j], rights[j]} = {}

Apart == \A arrays \in BecomeArrays : PairsApart(arrays[1], arrays[2])

\* The pairs that are exchanged at present: those already done or, when they are being
\* taken back, those not yet done.
Exchanged(lefts, next, failed) ==
    {i \in 1 .. Len(lefts) : IF failed THEN next <= i ELSE i < next}

\* Exchanged objects hold what their partners held, all others what they held.
UndoFacts(lefts, rights, next, failed, was) ==
    /\ PairsApart(lefts, rights)
    /\ \A i \in Exchanged(lefts, next, failed) :
          Contents(lefts[i]) = was[rights[i]] /\ Contents(rights[i]) = was[lefts[i]]
    /\ \A o \in Made :
          (\A i \in Exchanged(lefts, next, failed) : o \notin {lefts[i], rights[i]})
              => Contents(o) = was[o]

UndoInv ==
    task.op = "become" =>
        UndoFacts(task.lefts, task.rights, task.next, task.failed, task.was)

LEMMA OtherTasks == task'.op # "become" => UndoInv'
  BY DEF UndoInv

LEMMA UndoKept ==
    ASSUME NEW lefts, NEW rights, NEW next, NEW failed, NEW was,
           task' = [op |-> "become", lefts |-> lefts, rights |-> rights, next |-> next,
                    failed |-> failed, was |-> was],
           UndoFacts(lefts, rights, next, failed, was)'
    PROVE  UndoInv'
<1>1. /\ task'.lefts = lefts /\ task'.rights = rights
      /\ task'.next = next /\ task'.failed = failed /\ task'.was = was
  OBVIOUS
<1> QED  BY <1>1 DEF UndoInv, UndoFacts, PairsApart, Exchanged

LEMMA ExchangesContents ==
    ASSUME ObjectsInv, NEW l \in Made, NEW r \in Made, l # r, Exchange(l, r)
    PROVE  /\ Made' = Made
           /\ Contents(l)' = Contents(r) /\ Contents(r)' = Contents(l)
           /\ \A p \in Object \ {l, r} : Contents(p)' = Contents(p)
<1>1. /\ l \in Object /\ r \in Object
      /\ Made' = Made
      /\ \A p \in Object \ {l, r} : shadow'[p] = shadow[p]
      /\ shadow'[l] = [shadow[r] EXCEPT !.self = l]
      /\ shadow'[r] = [shadow[l] EXCEPT !.self = r]
  BY ExchangeKeeps DEF Made
<1>2. /\ shadow'[l].kind = shadow[r].kind /\ shadow'[l].data = shadow[r].data
      /\ shadow'[r].kind = shadow[l].kind /\ shadow'[r].data = shadow[l].data
  <2>1. shadow[l] \in ShadowType /\ shadow[r] \in ShadowType
    BY <1>1 DEF ObjectsInv
  <2> QED  BY <2>1, <1>1 DEF ShadowType, Shadows
<1> QED  BY <1>1, <1>2 DEF Contents, Fields, Fetch

LEMMA BecomeStartsUndone ==
    ASSUME Apart, NEW arrays \in BecomeArrays, Become(arrays[1], arrays[2])
    PROVE  UndoInv'
<1>0. PICK ls, rs, was : ls = arrays[1] /\ rs = arrays[2] /\ was = [o \in Made |-> Contents(o)]
  OBVIOUS
<1>1. /\ UNCHANGED <<class, shadow>>
      /\ task' = [op |-> "become", lefts |-> ls, rights |-> rs, next |-> 1,
                  failed |-> FALSE, was |-> was]
  BY <1>0 DEF Become
<1>2. Made' = Made /\ \A o \in Made : Contents(o)' = was[o]
  BY <1>0, <1>1 DEF Made, Contents
<1>3. PairsApart(ls, rs)
  BY <1>0 DEF Apart
<1>4. Len(ls) \in Nat
  BY <1>0, ArgumentAssumption
<1>5. Exchanged(ls, 1, FALSE) = {}
  BY <1>4 DEF Exchanged
<1>6. UndoFacts(ls, rs, 1, FALSE, was)'
  BY <1>2, <1>3, <1>5 DEF UndoFacts, PairsApart, Exchanged, CanBecome
<1> QED  BY <1>1, <1>6, UndoKept

\* One pair, exchanged or taken back: next was not exchanged before and is after, or
\* was before and is not after.
LEMMA PairKeepsUndo ==
    ASSUME Inv, NEW lefts, NEW rights, NEW next, NEW failed, NEW was,
           task = [op |-> "become", lefts |-> lefts, rights |-> rights, next |-> next,
                   failed |-> failed, was |-> was],
           BecomeFacts(lefts, rights, next, failed),
           UndoFacts(lefts, rights, next, failed, was),
           next <= Len(lefts), CanBecome(lefts[next], rights[next]),
           Exchange(lefts[next], rights[next]), task' = [task EXCEPT !.next = @ + 1]
    PROVE  UndoInv'
<1> DEFINE l == lefts[next]
           r == rights[next]
           before == Exchanged(lefts, next, failed)
           after  == Exchanged(lefts, next + 1, failed)
<1>1. /\ next \in 1 .. Len(lefts) /\ next \in Nat /\ Len(lefts) \in Nat /\ failed \in BOOLEAN
      /\ l \in Object /\ r \in Object /\ l # r
  BY DEF BecomeFacts, CanBecome
<1>2. l \in Made /\ r \in Made
  BY <1>1 DEF BecomeFacts
<1>3. /\ Made' = Made
      /\ Contents(l)' = Contents(r) /\ Contents(r)' = Contents(l)
      /\ \A p \in Object \ {l, r} : Contents(p)' = Contents(p)
  BY <1>1, <1>2, ExchangesContents DEF Inv
<1>4. /\ failed => next \in before /\ after = before \ {next}
      /\ ~failed => next \notin before /\ after = before \union {next}
      /\ before \subseteq 1 .. Len(lefts)
  BY <1>1 DEF Exchanged
<1>5. ASSUME NEW i \in before, i # next
      PROVE  /\ lefts[i] \in Object \ {l, r} /\ rights[i] \in Object \ {l, r}
  <2>1. i \in 1 .. Len(lefts) /\ (failed \/ i < next)
    BY <1>5 DEF Exchanged
  <2>2. CanBecome(lefts[i], rights[i])
    BY <2>1 DEF BecomeFacts
  <2>3. {lefts[i], rights[i]} \intersect {l, r} = {}
    BY <1>1, <1>5, <2>1, <2>2 DEF UndoFacts, PairsApart
  <2> QED  BY <2>2, <2>3 DEF CanBecome
<1>6. /\ failed => Contents(l) = was[r] /\ Contents(r) = was[l]
      /\ ~failed => Contents(l) = was[l] /\ Contents(r) = was[r]
  <2>1. failed => Contents(l) = was[r] /\ Contents(r) = was[l]
    BY <1>4 DEF UndoFacts
  <2>2. ~failed => \A i \in before : l \notin {lefts[i], rights[i]} /\ r \notin {lefts[i], rights[i]}
    BY <1>4, <1>5
  <2> HIDE DEF l, r
  <2> QED  BY <1>2, <2>1, <2>2 DEF UndoFacts
<1>7. ASSUME NEW i \in after
      PROVE  Contents(lefts[i])' = was[rights[i]] /\ Contents(rights[i])' = was[lefts[i]]
  <2>1. CASE i = next
    <3>1. ~failed
      BY <1>4, <1>7, <2>1
    <3> QED  BY <1>3, <1>6, <2>1, <3>1
  <2>2. CASE i # next
    <3>1. i \in before
      BY <1>1, <1>4, <1>7, <2>2
    <3>2. Contents(lefts[i]) = was[rights[i]] /\ Contents(rights[i]) = was[lefts[i]]
      BY <3>1 DEF UndoFacts
    <3> QED  BY <1>3, <1>5, <2>2, <3>1, <3>2
  <2> QED  BY <2>1, <2>2
<1>8. ASSUME NEW o \in Made, \A i \in after : o \notin {lefts[i], rights[i]}
      PROVE  Contents(o)' = was[o]
  <2>1. CASE o \in {l, r}
    <3>1. failed
      BY <1>1, <1>4, <1>8, <2>1
    <3> QED  BY <1>3, <1>6, <2>1, <3>1
  <2>2. CASE o \notin {l, r}
    <3>1. \A i \in before : o \notin {lefts[i], rights[i]}
      BY <1>1, <1>4, <1>8, <2>2
    <3>2. Contents(o) = was[o] /\ o \in Object \ {l, r}
      BY <1>8, <2>2, <3>1 DEF UndoFacts, Made
    <3> QED  BY <1>3, <3>2
  <2> QED  BY <2>1, <2>2
<1>9. task' = [op |-> "become", lefts |-> lefts, rights |-> rights, next |-> next + 1,
               failed |-> failed, was |-> was]
  OBVIOUS
<1>10. UndoFacts(lefts, rights, next + 1, failed, was)'
  <2>1. PairsApart(lefts, rights)
    BY DEF UndoFacts
  <2> QED  BY <1>3, <1>7, <1>8, <2>1 DEF UndoFacts, PairsApart, Exchanged, CanBecome
<1> QED  BY <1>9, <1>10, UndoKept

LEMMA BecomeKeepsUndo ==
    ASSUME Inv, UndoInv, BecomeNext \/ BecomeUndo
    PROVE  UndoInv'
<1>1. task.op = "become" /\ BecomeInv
  BY DEF BecomeNext, BecomeUndo, Inv, TaskInv
<1>2. PICK lefts, rights, next, failed, was :
              /\ task = [op |-> "become", lefts |-> lefts, rights |-> rights, next |-> next,
                         failed |-> failed, was |-> was]
              /\ BecomeFacts(lefts, rights, next, failed)
  BY <1>1, BecomeGives
<1>3. /\ task.lefts = lefts /\ task.rights = rights /\ task.next = next
      /\ task.failed = failed /\ task.was = was
  BY <1>2
<1>4. UndoFacts(lefts, rights, next, failed, was)
  BY <1>1, <1>3 DEF UndoInv
<1>5. /\ next \in Nat \ {0} /\ Len(lefts) \in Nat /\ lefts \in Seq(Value)
  BY <1>2 DEF BecomeFacts
<1>6. CASE next > Len(lefts)
  <2>1. task' = Idle
    BY <1>3, <1>6 DEF BecomeNext, BecomeUndo
  <2> QED  BY <2>1, OtherTasks DEF Idle
<1>7. CASE next <= Len(lefts) /\ (BecomeUndo \/ CanBecome(lefts[next], rights[next]))
  <2>1. next \in 1 .. Len(lefts) /\ ~(next > Len(lefts))
    BY <1>5, <1>7
  <2>2. /\ Exchange(lefts[next], rights[next]) /\ task' = [task EXCEPT !.next = @ + 1]
        /\ CanBecome(lefts[next], rights[next])
    <3>1. CASE BecomeUndo
      BY <1>2, <1>3, <2>1, <3>1 DEF BecomeUndo, BecomeFacts
    <3>2. CASE ~BecomeUndo
      BY <1>3, <1>7, <2>1, <3>2 DEF BecomeNext
    <3> QED  BY <3>1, <3>2
  <2> QED  BY <1>2, <1>4, <1>7, <2>2, PairKeepsUndo
<1>8. CASE next <= Len(lefts) /\ ~BecomeUndo /\ ~CanBecome(lefts[next], rights[next])
  <2> DEFINE done == [i \in 1 .. (next - 1) |-> lefts[i]]
  <2>1. ~(next > Len(lefts)) /\ ~failed /\ BecomeNext
    BY <1>3, <1>5, <1>8 DEF BecomeNext
  <2>2. /\ task' = [task EXCEPT !.failed = TRUE, !.next = 1, !.lefts = done]
        /\ UNCHANGED <<class, shadow>>
    BY <1>3, <1>8, <2>1 DEF BecomeNext
  <2>3. /\ Len(done) = next - 1 /\ 1 .. (next - 1) \subseteq 1 .. Len(lefts)
        /\ \A i \in 1 .. (next - 1) : done[i] = lefts[i]
    BY <1>5, <1>8
  <2> HIDE DEF done
  <2>4. task' = [op |-> "become", lefts |-> done, rights |-> rights, next |-> 1,
                 failed |-> TRUE, was |-> was]
    BY <1>2, <2>2
  <2>5. /\ Exchanged(done, 1, TRUE) = 1 .. (next - 1)
        /\ Exchanged(lefts, next, failed) = 1 .. (next - 1)
    BY <1>5, <1>8, <2>1, <2>3 DEF Exchanged
  <2>6. PairsApart(done, rights)
    <3> SUFFICES ASSUME NEW i \in 1 .. (next - 1), NEW j \in 1 .. (next - 1), i # j,
                        CanBecome(done[i], rights[i]), CanBecome(done[j], rights[j])
                 PROVE  {done[i], rights[i]} \intersect {done[j], rights[j]} = {}
      BY <2>3 DEF PairsApart
    <3>1. done[i] = lefts[i] /\ done[j] = lefts[j] /\ i \in 1 .. Len(lefts) /\ j \in 1 .. Len(lefts)
      BY <2>3
    <3> QED  BY <1>4, <3>1 DEF UndoFacts, PairsApart
  <2>7. Made' = Made /\ \A o : Contents(o)' = Contents(o)
    BY <2>2 DEF Made, Contents
  <2>8. UndoFacts(done, rights, 1, TRUE, was)
    BY <1>4, <2>3, <2>5, <2>6 DEF UndoFacts
  <2>9. UndoFacts(done, rights, 1, TRUE, was)'
    BY <2>7, <2>8 DEF UndoFacts, PairsApart, Exchanged, CanBecome
  <2> QED  BY <2>4, <2>9, UndoKept
<1> QED  BY <1>5, <1>6, <1>7, <1>8

LEMMA FillingIsNoBecome == Inv /\ FillNext => task'.op # "become"
<1> SUFFICES ASSUME Inv, FillNext  PROVE task'.op # "become"
  OBVIOUS
<1>1. task.op = "fill" /\ (task' = Idle \/ task' = [task EXCEPT !.next = @ + 1])
  BY DEF FillNext
<1>2. task = [op |-> "fill", to |-> task.to, values |-> task.values,
              chosen |-> task.chosen, next |-> task.next]
  BY <1>1 DEF Inv, TaskInv, FillInv
<1> QED  BY <1>1, <1>2 DEF Idle

LEMMA ReplacingIsNoBecome == Inv /\ ReplaceNext => task'.op # "become"
<1> SUFFICES ASSUME Inv, ReplaceNext  PROVE task'.op # "become"
  OBVIOUS
<1>1. task.op = "replace" /\ (task' = Idle \/ task' = [task EXCEPT !.i0 = @ + 1])
  BY DEF ReplaceNext
<1>2. task = [op |-> "replace", to |-> task.to, from |-> task.from, start |-> task.start,
              i0 |-> task.i0, stop |-> task.stop, off |-> task.off]
  BY <1>1 DEF Inv, TaskInv, ReplaceInv
<1> QED  BY <1>1, <1>2 DEF Idle

LEMMA NextKeepsUndo == Apart /\ Inv /\ UndoInv /\ [Next]_vars => UndoInv'
<1> SUFFICES ASSUME Apart, Inv, UndoInv, [Next]_vars  PROVE UndoInv'
  OBVIOUS
<1>1. CASE \E o \in Object, c \in Class, n \in 0 .. MaxSize : New(o, c, n)
  BY <1>1, OtherTasks DEF New, Free, Idle
<1>2. CASE \E o \in Made, v \in Known, n0 \in 0 .. MaxSize : AtPut(o, n0, v) \/ InstVarAtPut(o, n0, v)
  BY <1>2, OtherTasks DEF AtPut, InstVarAtPut, Free, Idle
<1>3. CASE \E o \in Made, p \in Object : Clone(o, p)
  BY <1>3, OtherTasks DEF Clone, FillTask
<1>4. CASE \E p \in Object, c \in Class : \E n \in instsize[c] .. MaxSize :
             \E values \in Values(n) : (n = instsize[c] \/ isvariable[c]) /\ FillIn(p, c, values)
  BY <1>4, OtherTasks DEF FillIn, FillTask
<1>5. CASE \E o, p \in Made, t \in Spans : Replace(o, t[1], t[2], p, t[3])
  BY <1>5, OtherTasks DEF Replace
<1>6. CASE \E arrays \in BecomeArrays : Become(arrays[1], arrays[2])
  BY <1>6, BecomeStartsUndone
<1>7. CASE \E dead \in SUBSET Made, boxes \in SUBSET Boxes : Collect(dead, boxes)
  BY <1>7, OtherTasks DEF Collect, Free, Idle
<1>8. CASE FillNext
  BY <1>8, FillingIsNoBecome, OtherTasks
<1>9. CASE ReplaceNext
  BY <1>9, ReplacingIsNoBecome, OtherTasks
<1>10. CASE BecomeNext \/ BecomeUndo
  BY <1>10, BecomeKeepsUndo
<1>11. CASE UNCHANGED vars
  <2>1. task' = task /\ Made' = Made /\ \A o : Contents(o)' = Contents(o)
    BY <1>11 DEF vars, Made, Contents
  <2>2. task.op = "become" =>
            UndoFacts(task.lefts, task.rights, task.next, task.failed, task.was)'
    BY <2>1 DEF UndoInv, UndoFacts, PairsApart, Exchanged, CanBecome
  <2> QED  BY <2>1, <2>2 DEF UndoInv
<1> QED
  BY <1>1, <1>2, <1>3, <1>4, <1>5, <1>6, <1>7, <1>8, <1>9, <1>10, <1>11 DEF Next

\* A become: of arrays that fails has changed nothing, when no object is in two of its
\* pairs: each object, exchanged or not, holds again what it held when the primitive
\* began (primitives.py 997-1016).
THEOREM FailedBecomesLeaveNothing ==
    ASSUME Apart
    PROVE  Spec => []FailedBecomeUndone
<1>1. Init => UndoInv
  BY DEF Init, Idle, UndoInv
<1>2. Inv /\ UndoInv /\ [Next]_vars => UndoInv'
  BY NextKeepsUndo
<1>3. Inv /\ UndoInv => FailedBecomeUndone
  <2> SUFFICES ASSUME Inv, UndoInv, task.op = "become", task.failed, task.next > Len(task.lefts),
                      NEW o \in Made
               PROVE  Contents(o) = task.was[o]
    BY DEF FailedBecomeUndone
  <2>1. task.next \in Nat /\ Len(task.lefts) \in Nat
    BY DEF Inv, TaskInv, BecomeInv
  <2>2. Exchanged(task.lefts, task.next, task.failed) = {}
    BY <2>1 DEF Exchanged
  <2> QED  BY <2>2 DEF UndoInv, UndoFacts
<1> QED  BY <1>1, <1>2, <1>3, InvariantHolds, PTL DEF Spec
================================================================================
