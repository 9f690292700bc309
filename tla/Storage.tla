-------------------------------- MODULE Storage --------------------------------
(***************************************************************************)
(* The storage strategies of pointers objects: rstrategies.py and           *)
(* spyvm/storage.py, and the parts of spyvm/model.py and                    *)
(* spyvm/primitives.py that use them.                                       *)
(*                                                                         *)
(* A pointers object holds its fields in a shadow. The shadow chooses a      *)
(* representation for what has been stored so far; when a value does not    *)
(* fit it makes a more general shadow, puts it in its own place and copies  *)
(* the fields. One action is one store or one exchange of objects: the      *)
(* primitives that make several of them are in task while they are under    *)
(* way, and nothing else runs meanwhile.                                    *)
(***************************************************************************)
EXTENDS Integers, FiniteSets, Sequences

CONSTANTS
    Object,        \* pointers objects that may exist at a time
    Class,         \* their classes
    SmallInteger,  \* values of W_SmallInteger, those of W_Float
    Float,
    MaxInt,        \* constants.MAXINT and sys.float_info.max, which stand for
    MaxFloat,      \*   nil where small integers or floats are held unwrapped
    Nil,
    Dead,          \* a weak reference to what is no more
    instsize,      \* the named fields of a class's instances, whether they have
    isvariable,    \*   indexed fields, and whether their references are weak
    isweak,
    MaxSize,       \* bound on the size of an object
    Spans,         \* arguments of replaceFrom:to:with:startingAt:, triples
    BecomeArrays   \* arguments of become:, pairs of sequences of values

ASSUME StorageAssumption ==
    /\ MaxInt \in SmallInteger
    /\ MaxFloat \in Float
    /\ SmallInteger \intersect Float = {}
    /\ (SmallInteger \union Float) \intersect Object = {}
    /\ {Nil, Dead} \intersect (SmallInteger \union Float \union Object) = {}
    /\ Nil # Dead
    /\ Nil \notin Class
    /\ MaxSize \in Nat
    /\ instsize \in [Class -> 0 .. MaxSize]
    /\ isvariable \in [Class -> BOOLEAN]
    /\ isweak \in [Class -> BOOLEAN]

Value == {Nil} \union SmallInteger \union Float \union Object

\* become: fails at once for arrays of different sizes. No image exchanges nil, which is
\* a pointers object like any other, or floats, whose boxes have no identity here.
Exchangeable == SmallInteger \union Object

ASSUME ArgumentAssumption ==
    /\ \A t \in Spans : t[1] \in Int /\ t[2] \in Int /\ t[3] \in Int
    /\ \A arrays \in BecomeArrays :
        /\ arrays[1] \in Seq(Exchangeable) /\ arrays[2] \in Seq(Exchangeable)
        /\ Len(arrays[1]) = Len(arrays[2])

VARIABLES
    class,   \* w_class of each object, Nil for memory that is not in use
    shadow,  \* its shadow: how the fields are represented, and the object that
             \*   the shadow takes for its own (_w_self)
    task     \* the primitive that is under way

vars == <<class, shadow, task>>

Made == {o \in Object : class[o] # Nil}

--------------------------------------------------------------------------------
(* Strategies: what they can hold, and how.                                 *)

Tagging == {"SmallIntegerOrNil", "FloatOrNil"}
Kind    == Tagging \union {"AllNil", "List", "WeakList"}

ContainedType(k) == IF k = "FloatOrNil" THEN Float ELSE SmallInteger

UnwrappedTaggedValue(k) == IF k = "FloatOrNil" THEN MaxFloat ELSE MaxInt

\* Mutant: the value that serves as the tag is held like the others.
CanHandleTag(k, v) ==
    CASE k = "AllNil"  -> v = Nil
      [] k \in Tagging -> v = Nil \/ v \in ContainedType(k)
      [] OTHER         -> TRUE
CheckCanHandle(k, v) ==
    CASE k = "AllNil"  -> v = Nil
      [] k \in Tagging -> \/ v = Nil
                          \/ v \in ContainedType(k) \ {UnwrappedTaggedValue(k)}
      [] OTHER         -> TRUE

Unwrap(k, v) == IF k \in Tagging /\ v = Nil THEN UnwrappedTaggedValue(k) ELSE v

Wrap(k, d) ==
    CASE k = "AllNil"   -> Nil
      [] k \in Tagging  -> IF d = UnwrappedTaggedValue(k) THEN Nil ELSE d
      [] k = "WeakList" -> IF d = Dead THEN Nil ELSE d
      [] OTHER          -> d

Fields(s)   == DOMAIN s.data
Fetch(s, i) == Wrap(s.kind, s.data[i])

NewShadow(k, o, n) ==
    [kind |-> k, self |-> o, data |-> [i \in 1 .. n |-> Unwrap(k, Nil)]]

\* The order of StrategyFactory.strategies: the least general ones first.
Strategies == <<"AllNil", "SmallIntegerOrNil", "FloatOrNil", "List">>

Generalizations(k) ==
    IF k = "AllNil" THEN <<"SmallIntegerOrNil", "FloatOrNil", "List">> ELSE <<"List">>

\* The first strategy of ks that can hold all values of vs.
FirstFor(ks, vs) ==
    ks[CHOOSE n \in DOMAIN ks :
        /\ \A v \in vs : CheckCanHandle(ks[n], v)
        /\ \A m \in 1 .. (n - 1) : \E v \in vs : ~CheckCanHandle(ks[m], v)]

StrategyTypeFor(values) == FirstFor(Strategies, {values[i] : i \in DOMAIN values})

\* Shadow s makes way for one of another kind, which takes over its fields. It
\* is put in the place of the object that s says it belongs to.
\* Mutant: a field that was nil keeps the raw value that stood for it.
CopyRawFields(sh, s, k) ==
    [sh EXCEPT ![s.self] =
        [NewShadow(k, s.self, 0) EXCEPT !.data = [i \in Fields(s) |-> s.data[i]]]]
SwitchStrategy(sh, s, k) ==
    [sh EXCEPT ![s.self] =
        [NewShadow(k, s.self, 0) EXCEPT !.data = [i \in Fields(s) |-> Unwrap(k, Fetch(s, i))]]]

\* store: a value that the strategy cannot hold makes the object change its strategy.
Stored(sh, o, i, v) ==
    IF CheckCanHandle(sh[o].kind, v)
    THEN IF sh[o].kind = "AllNil" THEN sh
         ELSE [sh EXCEPT ![o].data[i] = Unwrap(sh[o].kind, v)]
    ELSE LET k == FirstFor(Generalizations(sh[o].kind), {v})
         IN  [SwitchStrategy(sh, sh[o], k) EXCEPT ![sh[o].self].data[i] = Unwrap(k, v)]

\* W_PointersObject._become: the shadows change places and are told so.
\* Mutant: only one of the shadows is told.
HalfBecome(sh, o, p) ==
    [sh EXCEPT ![o] = [sh[p] EXCEPT !.self = o], ![p] = sh[o]]
BecomeShadows(sh, o, p) ==
    [sh EXCEPT ![o] = [sh[p] EXCEPT !.self = o], ![p] = [sh[o] EXCEPT !.self = p]]

--------------------------------------------------------------------------------
(* What the image sees of an object.                                        *)

Contents(o) == [i \in Fields(shadow[o]) |-> Fetch(shadow[o], i)]
Size(o)     == Cardinality(Fields(shadow[o]))

\* What the image can come by.
Known == {Nil} \union SmallInteger \union Float \union Made

Idle == [op |-> "none"]
Free == task = Idle

Init ==
    /\ class = [o \in Object |-> Nil]
    /\ shadow = [o \in Object |-> NewShadow("List", o, 0)]
    /\ task = Idle

--------------------------------------------------------------------------------
(* Primitives 70, 71: an instance of c with n indexed fields. The shadow of a  *)
(* weak object is never exchanged for another.                              *)

Allocate(o, c, k, n) ==
    /\ o \notin Made
    /\ class' = [class EXCEPT ![o] = c]
    /\ shadow' = [shadow EXCEPT ![o] = NewShadow(k, o, n)]

New(o, c, n) ==
    /\ Free
    /\ n > 0 => isvariable[c]
    /\ instsize[c] + n <= MaxSize
    /\ Allocate(o, c, IF isweak[c] THEN "WeakList" ELSE "AllNil", instsize[c] + n)
    /\ UNCHANGED task

StoreField(o, i, v) == shadow' = Stored(shadow, o, i, v)

\* Primitives 61 and 74, indices from 0. A primitive that fails changes nothing.
AtPut(o, n0, v) ==
    /\ Free
    /\ {o, v} \subseteq Known
    /\ 0 <= n0 /\ n0 < Size(o) - instsize[class[o]]
    /\ StoreField(o, n0 + instsize[class[o]] + 1, v)
    /\ UNCHANGED <<class, task>>

InstVarAtPut(o, n0, v) ==
    /\ Free
    /\ {o, v} \subseteq Known
    /\ 0 <= n0 /\ n0 < instsize[class[o]]
    /\ StoreField(o, n0 + 1, v)
    /\ UNCHANGED <<class, task>>

--------------------------------------------------------------------------------
(* Primitives that store several fields. store_all takes a list of values; a  *)
(* clone is never weak. replaceFrom:to:with:startingAt: fetches each value    *)
(* when it is its turn, which matters when an object is copied to itself.   *)

\* chosen: the representation that the object starts with.
FillTask(p, values, k) == [op |-> "fill", to |-> p, values |-> values, chosen |-> k, next |-> 1]

Clone(o, p) ==
    /\ Free
    /\ o \in Made
    /\ Allocate(p, class[o], "AllNil", Size(o))
    /\ task' = FillTask(p, Contents(o), "AllNil")

\* W_PointersObject.fillin: an object of the image file gets a storage for
\* the values it is going to hold.
FillIn(p, c, values) ==
    /\ Free
    /\ LET k == IF isweak[c] THEN "WeakList" ELSE StrategyTypeFor(values)
       IN  /\ Allocate(p, c, k, Cardinality(DOMAIN values))
           /\ task' = FillTask(p, values, k)

FillNext ==
    /\ task.op = "fill"
    /\ IF task.next \in DOMAIN task.values
       THEN /\ StoreField(task.to, task.next, task.values[task.next])
            /\ task' = [task EXCEPT !.next = @ + 1]
       ELSE /\ task' = Idle
            /\ UNCHANGED shadow
    /\ UNCHANGED class

Replace(o, start, stop, p, rep) ==
    /\ Free
    /\ {o, p} \subseteq Made
    /\ start >= 0 /\ start - 1 <= stop /\ rep >= 0
    /\ Size(o) - instsize[class[o]] > stop
    /\ Size(p) - instsize[class[p]] > rep + (stop - start)
    /\ task' = [op |-> "replace", to |-> o, from |-> p, start |-> start, i0 |-> start, stop |-> stop,
                off |-> rep - start]
    /\ UNCHANGED <<class, shadow>>

ReplaceNext ==
    /\ task.op = "replace"
    /\ IF task.i0 <= task.stop
       THEN /\ StoreField(task.to, task.i0 + instsize[class[task.to]] + 1,
                   Contents(task.from)[task.off + task.i0 + instsize[class[task.from]] + 1])
            /\ task' = [task EXCEPT !.i0 = @ + 1]
       ELSE /\ task' = Idle
            /\ UNCHANGED shadow
    /\ UNCHANGED class

--------------------------------------------------------------------------------
(* Primitive 128: become: of two arrays of objects, pair by pair. When a pair   *)
(* cannot be exchanged the primitive exchanges those before it back, the first *)
(* one first, and fails. The arrays themselves are not among the objects.    *)

\* Of what the arguments can hold: small integers become nothing, and two pointers
\* objects, which are of one class of the VM, each other.
CanBecome(l, r) == {l, r} \subseteq Object /\ l # r

Become(lefts, rights) ==
    /\ Free
    /\ \A i \in DOMAIN lefts : {lefts[i], rights[i]} \subseteq Known
    /\ task' = [op |-> "become", lefts |-> lefts, rights |-> rights, next |-> 1,
                failed |-> FALSE, was |-> [o \in Made |-> Contents(o)]]
    /\ UNCHANGED <<class, shadow>>

Exchange(l, r) ==
    /\ shadow' = BecomeShadows(shadow, l, r)
    /\ class' = [class EXCEPT ![l] = class[r], ![r] = class[l]]

\* Mutant: the primitive fails without undoing what it has done.
BecomeNoUndo ==
    /\ task.op = "become"
    /\ ~task.failed
    /\ IF task.next > Len(task.lefts)
       THEN task' = Idle /\ UNCHANGED <<class, shadow>>
       ELSE LET l == task.lefts[task.next]
                r == task.rights[task.next]
            IN  IF CanBecome(l, r)
                THEN Exchange(l, r) /\ task' = [task EXCEPT !.next = @ + 1]
                ELSE /\ task' = [task EXCEPT !.failed = TRUE, !.lefts = <<>>, !.next = 1]
                     /\ UNCHANGED <<class, shadow>>
BecomeNext ==
    /\ task.op = "become"
    /\ ~task.failed
    /\ IF task.next > Len(task.lefts)
       THEN task' = Idle /\ UNCHANGED <<class, shadow>>
       ELSE LET l == task.lefts[task.next]
                r == task.rights[task.next]
            IN  IF CanBecome(l, r)
                THEN Exchange(l, r) /\ task' = [task EXCEPT !.next = @ + 1]
                ELSE /\ task' = [task EXCEPT !.failed = TRUE, !.next = 1,
                                    !.lefts = [i \in 1 .. (task.next - 1) |-> @[i]]]
                     /\ UNCHANGED <<class, shadow>>

BecomeUndo ==
    /\ task.op = "become"
    /\ task.failed
    /\ IF task.next > Len(task.lefts)
       THEN task' = Idle /\ UNCHANGED <<class, shadow>>
       ELSE /\ Exchange(task.lefts[task.next], task.rights[task.next])
            /\ task' = [task EXCEPT !.next = @ + 1]

--------------------------------------------------------------------------------
(* The collector frees what nothing in use refers to, except weakly, and the  *)
(* weak references to it. Small integers and floats are boxes made for the    *)
(* occasion: a weak reference does not keep the box.                         *)

Strong(o) == IF shadow[o].kind = "WeakList" THEN {}
             ELSE {Contents(o)[i] : i \in Fields(shadow[o])}

Swept(s, dead) ==
    IF s.kind # "WeakList" THEN s
    ELSE [s EXCEPT !.data = [i \in Fields(s) |-> IF s.data[i] \in dead THEN Dead ELSE s.data[i]]]

Boxes == (SmallInteger \union Float) \intersect
         UNION {{shadow[o].data[i] : i \in Fields(shadow[o])} : o \in Made}

Collect(dead, boxes) ==
    /\ Free
    /\ \A o \in Made \ dead : Strong(o) \intersect dead = {}
    /\ class' = [o \in Object |-> IF o \in dead THEN Nil ELSE class[o]]
    /\ shadow' = [o \in Object |-> IF o \in dead THEN NewShadow("List", o, 0)
                                   ELSE Swept(shadow[o], dead \union boxes)]
    /\ UNCHANGED task

Values(n) == [1 .. n -> Known]

Next ==
    \/ \E o \in Object, c \in Class, n \in 0 .. MaxSize : New(o, c, n)
    \/ \E o \in Made, v \in Known, n0 \in 0 .. MaxSize :
        AtPut(o, n0, v) \/ InstVarAtPut(o, n0, v)
    \/ \E o \in Made, p \in Object : Clone(o, p)
    \/ \E p \in Object, c \in Class : \E n \in instsize[c] .. MaxSize :
        \E values \in Values(n) : (n = instsize[c] \/ isvariable[c]) /\ FillIn(p, c, values)
    \/ \E o, p \in Made, t \in Spans : Replace(o, t[1], t[2], p, t[3])
    \/ \E arrays \in BecomeArrays : Become(arrays[1], arrays[2])
    \/ \E dead \in SUBSET Made, boxes \in SUBSET Boxes : Collect(dead, boxes)
    \/ FillNext \/ ReplaceNext \/ BecomeNext \/ BecomeUndo

Spec == Init /\ [][Next]_vars

--------------------------------------------------------------------------------
(* Properties.                                                               *)

\* The variables have their types, and the image never comes by a dead reference.
TypeOK ==
    /\ class \in [Object -> Class \union {Nil}]
    /\ \A o \in Object :
        /\ shadow[o].kind \in Kind
        /\ shadow[o].self \in Object
        /\ shadow[o].data \in [Fields(shadow[o]) -> Value \union {Dead}]
        /\ \A i \in Fields(shadow[o]) : Contents(o)[i] \in Value

\* A shadow belongs to the object it believes to belong to. Where it does not, the
\* next value that makes it generalise puts the storage into another object:
\* become: exchanges shadows (model.py 740-748).
ShadowsKnowTheirObjects == \A o \in Object : shadow[o].self = o

\* An object has room for the named fields of its class, whose methods access
\* them without a check of the index (rstrategies.py 367-373).
NamedFieldsExist == \A o \in Made : Size(o) >= instsize[class[o]]

\* What a bulk store has stored so far is there, across every change of the
\* representation on the way (model.py 628-640).
FillsArrive ==
    task.op = "fill" =>
        \A i \in DOMAIN task.values : i < task.next => Contents(task.to)[i] = task.values[i]

\* An object that is filled in from the image keeps the storage that was chosen
\* for its values: none of them is a surprise (storage.py 124-131).
ChosenStrategyFits ==
    task.op = "fill" /\ task.chosen # "AllNil" => shadow[task.to].kind = task.chosen

\* The storages belong where they are: each to its object, with the fields that its
\* class needs, of the kind that was chosen for its values.
StoragesSound ==
    TypeOK /\ ShadowsKnowTheirObjects /\ NamedFieldsExist /\ ChosenStrategyFits

\* replaceFrom:to:with:startingAt: between two objects copies what the other held
\* at the start (primitives.py 753-777).
ReplacedAsBefore ==
    task.op = "replace" /\ task.from # task.to =>
        \A i \in task.start .. (task.i0 - 1) :
            Contents(task.to)[i + instsize[class[task.to]] + 1]
              = Contents(task.from)[task.off + i + instsize[class[task.from]] + 1]

\* A bulk store loses nothing on the way, neither of the values that it stores nor of
\* those that it reads while it stores.
BulkStoresArrive == FillsArrive /\ ReplacedAsBefore

\* A become: that fails has changed nothing (primitives.py 1013-1016).
FailedBecomeUndone ==
    task.op = "become" /\ task.failed /\ task.next > Len(task.lefts) =>
        \A o \in Made : Contents(o) = task.was[o]

\* The storages implement arrays: each step changes one field of one object,
\* exchanges two objects or frees some, and a change of representation is not
\* seen.
Memory == INSTANCE ObjectMemory WITH
    slots <- [o \in Object |-> Contents(o)],
    weak  <- {o \in Made : shadow[o].kind = "WeakList"}
ImplementsMemory == Memory!Spec
================================================================================
