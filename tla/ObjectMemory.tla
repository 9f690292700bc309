----------------------------- MODULE ObjectMemory ------------------------------
(***************************************************************************)
(* What the storages of spyvm/storage.py promise to the image: a pointers   *)
(* object is an array that holds what was stored in it. How an array is     *)
(* represented, and when its representation changes, is not to be seen.     *)
(***************************************************************************)
EXTENDS Naturals, FiniteSets

CONSTANTS Object, Class, SmallInteger, Float, Nil, MaxSize

Value == {Nil} \union SmallInteger \union Float \union Object

\* The contents of an object of n slots.
Slots(n) == [1 .. n -> Value]

VARIABLES class,  \* the class of each object, Nil for memory that is not in use
          slots,  \* its contents
          weak    \* the objects that do not keep alive what they refer to

ovars == <<class, slots, weak>>

Init ==
    /\ class = [o \in Object |-> Nil]
    /\ slots = [o \in Object |-> <<>>]
    /\ weak = {}

Made == {o \in Object : class[o] # Nil}

\* A new object is filled with nil.
Create(o, c, n, w) ==
    /\ o \notin Made
    /\ class' = [class EXCEPT ![o] = c]
    /\ slots' = [slots EXCEPT ![o] = [i \in 1 .. n |-> Nil]]
    /\ weak' = IF w THEN weak \union {o} ELSE weak

\* Others are not to change, nor are the other slots.
Store(o, i) ==
    /\ o \in Made
    /\ UNCHANGED <<class, weak>>
    /\ \A p \in Object \ {o} : slots'[p] = slots[p]
    /\ \E v \in {slots'[o][i]} \intersect Value : slots'[o] = [slots[o] EXCEPT ![i] = v]

\* become: exchanges two objects in everything but the references to them.
Exchange(o, p) ==
    /\ {o, p} \subseteq Made
    /\ o # p
    /\ class' = [class EXCEPT ![o] = class[p], ![p] = class[o]]
    /\ slots' = [slots EXCEPT ![o] = slots[p], ![p] = slots[o]]
    /\ weak' = (weak \ {o, p}) \union {q \in {o} : p \in weak}
                               \union {q \in {p} : o \in weak}

\* Objects die, except those that a surviving object refers to from a slot
\* that is not weak; weak slots lose what has died, and any number.
Collect(dead) ==
    /\ dead \subseteq Made
    /\ \A o \in (Made \ dead) \ weak : \A i \in DOMAIN slots[o] : slots[o][i] \notin dead
    /\ class' = [o \in Object |-> IF o \in dead THEN Nil ELSE class[o]]
    /\ slots' \in [Object -> UNION {Slots(n) : n \in 0 .. MaxSize}]
    /\ \A o \in Object :
        IF o \in dead THEN slots'[o] = <<>>
        ELSE /\ DOMAIN slots'[o] = DOMAIN slots[o]
             /\ \A i \in DOMAIN slots[o] :
                  \/ slots'[o][i] = slots[o][i] /\ slots[o][i] \notin dead
                  \/ /\ o \in weak
                     /\ slots'[o][i] = Nil
                     /\ slots[o][i] \in dead \union SmallInteger \union Float
    /\ weak' = weak \ dead

Next ==
    \/ \E o \in Object, c \in Class, n \in 0 .. MaxSize, w \in BOOLEAN : Create(o, c, n, w)
    \/ \E o \in Made : \E i \in DOMAIN slots[o] : Store(o, i)
    \/ \E o, p \in Object : Exchange(o, p)
    \/ \E dead \in SUBSET Object : Collect(dead)

Spec == Init /\ [][Next]_ovars
================================================================================
