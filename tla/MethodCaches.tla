---------------------------- MODULE MethodCaches ----------------------------
(***************************************************************************)
(* Method dictionaries of an image and what the VM keeps of them           *)
(* (spyvm/storage_classes.py, util/version.py).  A dictionary is an object *)
(* with keys in its own fields and the methods in an array of its own; the *)
(* VM copies both into a table in the dictionary's storage, is told of     *)
(* stores to the array and marks the table as invalid on stores of keys.   *)
(* Compiled code keeps results of lookups until the class changes version. *)
(*                                                                         *)
(* The image changes a dictionary in several bytecodes (protocols of       *)
(* Squeak's MethodDictionary), between which other processes send          *)
(* messages.  Calls in the VM nest, so its operations are operators from   *)
(* heap to heap and an action applies one of them.                         *)
(***************************************************************************)
EXTENDS Naturals, FiniteSets, SequencesExt

CONSTANTS Classes, Selectors, Methods,
          Updaters,     \* the processes that change dictionaries
          ImageDoes,    \* which unusual things the image does
          MaxMade,      \* bound: objects and storages made after the start
          Nil

ASSUME ClassesAssumption ==
    IsFiniteSet(Classes) /\ Nil \notin Classes \cup Nat /\ Classes \cap Nat = {}
ASSUME MethodsAssumption == Nil \notin Methods /\ MaxMade \in Nat
ASSUME ImageDoesAssumption ==
    /\ ImageDoes \subseteq {"grow",     \* dictionaries fill up and grow
                            "share"}    \* one method in several dictionaries

VARIABLES heap,     \* what the VM knows, see TypeOK
          pending   \* per updater: what is left of its change

vars == <<heap, pending>>

\* Names of objects, storages and arrays.  What is made together has one name; those of
\* the first dictionary of a class are named like the class.
Ids == Classes \cup 1..MaxMade

\* A storage of a dictionary: a plain list, or a MethodDictionaryShadow.
Storage == [is_methoddict: BOOLEAN, w_self: Ids, names: SUBSET Selectors, w_values: Ids,
            invalid: BOOLEAN, s_class: Classes \cup {Nil},
            methoddict: [Selectors -> Methods \cup {Nil}]]

\* One step of a change: the call, the dictionary, and a key, a method or a copy.
Step == [call: {"name", "value", "values", "names", "grow", "flush"},
         o: Ids \cup {Nil}, k: Selectors \cup {Nil}, v: Methods \cup Ids \cup {Nil}]

-----------------------------------------------------------------------------
(* Reading.                                                                *)

\* c and its superclasses, from the inside out.
Chain(h, c) ==
    LET up[n \in 0..Cardinality(Classes)] ==
            IF n = 0 THEN <<c>>
            ELSE LET above == h.s_superclass[Last(up[n - 1])]
                 IN  IF above = Nil THEN up[n - 1] ELSE Append(up[n - 1], above)
    IN  up[Cardinality(Classes)]

\* The first answer along the chain of c, given the answer of each class.
FirstFound(h, c, answer) ==
    LET chain == Chain(h, c)
        hits == {n \in 1..Len(chain) : answer[chain[n]] # Nil}
    IN  IF hits = {} THEN Nil ELSE answer[chain[Min(hits)]]

find_selector(d, k) == IF d.invalid THEN Nil ELSE d.methoddict[k]

\* What a send of k to an instance of c finds.
lookup(h, c, k) ==
    FirstFound(h, c, [d \in Classes |-> find_selector(h.storage[h.s_methoddict[d]], k)])

\* What the image's own dictionaries say.
ImageMethod(h, c, k) ==
    LET d == h.storage[h.shadow[h.w_methoddict[c]]]
    IN  IF k \in d.names THEN h.array[d.w_values][k] ELSE Nil

ImageLookup(h, c, k) == FirstFound(h, c, [d \in Classes |-> ImageMethod(h, d, k)])

-----------------------------------------------------------------------------
(* The VM's operations.                                                    *)

\* c and everything below it.
Below(h, c) ==
    LET down[n \in 0..Cardinality(Classes)] ==
            IF n = 0 THEN {c}
            ELSE down[n - 1] \cup UNION {h.subclass_s[d] : d \in down[n - 1]}
    IN  down[Cardinality(Classes)]

\* Mutant: the new version does not reach the subclasses.
changedAlone(h, c) == [h EXCEPT !.compiled[c] = [k \in Selectors |-> Nil]]

\* A new version: code compiled for the classes below is not used any more.
changed(h, c) ==
    [h EXCEPT !.compiled = [d \in Classes |-> IF d \in Below(h, c)
                                              THEN [k \in Selectors |-> Nil]
                                              ELSE h.compiled[d]]]

\* The table is copied from the keys of the object and the array of the storage.
sync_method_cache(h, s) ==
    LET d == h.storage[s]
        keys == h.storage[h.shadow[d.w_self]].names
        values == h.array[d.w_values]
        g == [h EXCEPT
                !.storage[s].methoddict = [k \in Selectors |->
                                             IF k \in keys THEN values[k] ELSE Nil],
                !.storage[s].invalid = FALSE,
                !.lookup_class = [m \in Methods |-> IF \E k \in keys : values[k] = m
                                                    THEN d.s_class ELSE @[m]]]
    IN  IF \E k \in keys : values[k] = Nil THEN [h EXCEPT !.error = "ClassShadowError"]
        ELSE IF d.s_class # Nil THEN changed(g, d.s_class)
        ELSE IF keys # {} THEN [h EXCEPT !.error = "AttributeError"]
        ELSE g

\* Mutant: tables that are valid are copied again, invalid ones are not.
flush_method_cache_valid(h, s) == IF h.storage[s].invalid THEN h ELSE sync_method_cache(h, s)

flush_method_cache(h, s) == IF h.storage[s].invalid THEN sync_method_cache(h, s) ELSE h

\* One class after the other, from c upwards.
flush_method_caches(h, c) ==
    LET chain == Chain(h, c)
        flushed[n \in 0..Len(chain)] ==
            IF n = 0 THEN h
            ELSE flush_method_cache(flushed[n - 1], flushed[n - 1].s_methoddict[chain[n]])
    IN  flushed[Len(chain)]

\* Primitive 116 for a method: the class is the one it was last copied for.
FlushMethod(h, m) ==
    IF h.lookup_class[m] = Nil THEN h ELSE flush_method_caches(h, h.lookup_class[m])

\* The storage s watches its array.
setup_notification(h, s) ==
    LET a == h.storage[s].w_values
    IN  IF h.dependent[a] \notin {Nil, s} THEN [h EXCEPT !.error = "RuntimeError"]
        ELSE [h EXCEPT !.dependent[a] = s]

\* Mutants of the two stores: the table is updated at once; the new array is not watched.
StoreNamesUpdates(h, o, names) ==
    LET s == h.shadow[o]
        g == [h EXCEPT !.storage[s].names = names]
    IN  IF h.storage[s].is_methoddict THEN sync_method_cache(g, s) ELSE g

\* Stores to a dictionary object: of a key (or of all), and of the array.
StoreNames(h, o, names) ==
    LET s == h.shadow[o]
        d == h.storage[s]
    IN  [h EXCEPT !.storage[s] = [d EXCEPT !.names = names,
                                           !.invalid = d.invalid \/ d.is_methoddict]]

StoreValues(h, o, a) ==
    LET s == h.shadow[o]
        g == [h EXCEPT !.storage[s].w_values = a]
    IN  IF h.storage[s].is_methoddict THEN setup_notification(g, s) ELSE g

\* A store to an array; a watching storage is updated.
StoreInArray(h, a, k, m) ==
    LET g == [h EXCEPT !.array[a][k] = m]
    IN  IF h.dependent[a] = Nil THEN g ELSE sync_method_cache(g, h.dependent[a])

\* The storage as_methoddict_get_shadow(o) answers, and what it does.  A new storage goes
\* into the object that the old storage refers back to.
MethodDictOf(h, o) == IF h.storage[h.shadow[o]].is_methoddict THEN h.shadow[o] ELSE h.made + 1

as_methoddict_get_shadow(h, o) ==
    LET old == h.storage[h.shadow[o]]
        new == h.made + 1
    IN  IF old.is_methoddict THEN h
        ELSE setup_notification(
                [h EXCEPT !.made = new,
                          !.shadow[old.w_self] = new,
                          !.storage[new] = [old EXCEPT !.is_methoddict = TRUE,
                                                       !.invalid = TRUE]],
                new)

store_s_methoddict(h, c, s) ==
    [sync_method_cache([h EXCEPT !.storage[s].s_class = c], s) EXCEPT !.s_methoddict[c] = s]

\* A class stores another dictionary in its field.
store_w_methoddict(h, c, o) ==
    LET s == MethodDictOf(h, o)
        g == [as_methoddict_get_shadow(h, o) EXCEPT !.w_methoddict[c] = o]
        detached == [g EXCEPT !.storage[g.s_methoddict[c]].s_class = Nil]
    IN  changed(IF s = g.s_methoddict[c] THEN g ELSE store_s_methoddict(detached, c, s), c)

\* Mutant: the class stays among the subclasses of its old superclass.
store_w_superclass_attached(h, c, super) ==
    changed([h EXCEPT !.s_superclass[c] = super,
                      !.subclass_s = [d \in Classes |-> IF d = super THEN @[d] \cup {c}
                                                                    ELSE @[d]]], c)

store_w_superclass(h, c, super) ==
    LET old == h.s_superclass[c]
        g == [h EXCEPT !.s_superclass[c] = super,
                       !.subclass_s = [d \in Classes |->
                            IF d = super THEN @[d] \cup {c}
                            ELSE IF d = old THEN @[d] \ {c} ELSE @[d]]]
    IN  changed(g, c)

\* AbstractShadow._s_become
SwapSelf(h, s, x, t, y) == [h EXCEPT !.storage[s].w_self = x, !.storage[t].w_self = y]

\* MethodDictionaryShadow._s_become: s now belongs to x; whatever y has becomes a
\* MethodDictionaryShadow, and the two exchange their classes.
SwapMethodDicts(h, s, x, y) ==
    LET t == MethodDictOf(h, y)
        g == SwapSelf(as_methoddict_get_shadow(h, y), s, x, t, y)
        swapped == [g EXCEPT !.storage[s].s_class = g.storage[t].s_class,
                             !.storage[t].s_class = g.storage[s].s_class]
        Inform(f, u) == LET c == f.storage[u].s_class
                        IN  IF c = Nil THEN f ELSE store_s_methoddict(f, c, u)
    IN  Inform(Inform(swapped, s), t)

\* W_PointersObject._become and the s_become it calls.
become(h, x, y) ==
    LET s == h.shadow[y]    \* the storage that x gets
        t == h.shadow[x]
        g == [h EXCEPT !.shadow[x] = s, !.shadow[y] = t]
    IN  IF h.storage[s].is_methoddict THEN SwapMethodDicts(g, s, x, y)
        ELSE IF h.storage[t].is_methoddict THEN SwapMethodDicts(g, t, y, x)
        ELSE SwapSelf(g, t, y, s, x)

\* MethodDictionary>>copy, of the given keys: a plain object with an array of its own.
Copy(h, o, keys) ==
    LET d == h.storage[h.shadow[o]]
        n == h.made + 1
    IN  [h EXCEPT !.made = n,
                  !.shadow[n] = n,
                  !.storage[n] = [@ EXCEPT !.w_self = n, !.w_values = n,
                                           !.names = d.names \cap keys],
                  !.array[n] = [k \in Selectors |-> IF k \in keys THEN h.array[d.w_values][k]
                                                                  ELSE Nil]]

-----------------------------------------------------------------------------
(* The image is loaded: classes without superclasses, each with its empty  *)
(* dictionary, all of them known to the VM.                                *)

Init ==
    /\ heap = [shadow |-> [i \in Ids |-> i],
               storage |-> [i \in Ids |->
                    [is_methoddict |-> i \in Classes, w_self |-> i, names |-> {},
                     w_values |-> i, invalid |-> FALSE,
                     s_class |-> IF i \in Classes THEN i ELSE Nil,
                     methoddict |-> [k \in Selectors |-> Nil]]],
               array |-> [i \in Ids |-> [k \in Selectors |-> Nil]],
               dependent |-> [i \in Ids |-> IF i \in Classes THEN i ELSE Nil],
               w_methoddict |-> [c \in Classes |-> c],
               s_methoddict |-> [c \in Classes |-> c],
               s_superclass |-> [c \in Classes |-> Nil],
               subclass_s |-> [c \in Classes |-> {}],
               lookup_class |-> [m \in Methods |-> Nil],
               compiled |-> [c \in Classes |-> [k \in Selectors |-> Nil]],
               made |-> 0,
               error |-> Nil]
    /\ pending = [p \in Updaters |-> <<>>]

Call(call, o, k, v) == [call |-> call, o |-> o, k |-> k, v |-> v]
CallIf(test, call) == IF test THEN <<call>> ELSE <<>>

Installed(m) == \E c \in Classes, k \in Selectors : ImageMethod(heap, c, k) = m
MayInstall(m) == "share" \in ImageDoes \/ ~Installed(m)

\* An updater that is not in the middle of a change starts one.
Starts(p, steps) ==
    /\ pending[p] = <<>>
    /\ pending' = [pending EXCEPT ![p] = steps]

\* basicAddSelector:withMethod: with a new key; the dictionary may be full with it.
AddSelector(p, c, k, m, grows) ==
    LET o == heap.w_methoddict[c]
        inherited == ImageLookup(heap, c, k)
    IN  /\ ImageMethod(heap, c, k) = Nil
        /\ MayInstall(m)
        /\ grows => "grow" \in ImageDoes
        /\ Starts(p, <<Call("name", o, k, Nil), Call("value", o, k, m)>>
                     \o CallIf(grows, Call("grow", o, Nil, Nil))
                     \o CallIf(inherited # Nil, Call("flush", Nil, Nil, inherited)))
        /\ UNCHANGED heap

\* basicAddSelector:withMethod: with a key that is there: both at:put: and it flush.
ReplaceMethod(p, c, k, m) ==
    LET o == heap.w_methoddict[c]
        old == ImageMethod(heap, c, k)
    IN  /\ old # Nil
        /\ MayInstall(m)
        /\ Starts(p, <<Call("flush", Nil, Nil, old), Call("value", o, k, m),
                       Call("flush", Nil, Nil, old)>>)
        /\ UNCHANGED heap

\* basicRemoveSelector: removes in a copy and copies that back, the array before the keys.
RemoveSelector(p, c, k) ==
    LET o == heap.w_methoddict[c]
        old == ImageMethod(heap, c, k)
        copy == heap.made + 1
    IN  /\ old # Nil
        /\ copy <= MaxMade
        /\ Starts(p, <<Call("values", o, Nil, copy), Call("names", o, Nil, copy),
                       Call("flush", Nil, Nil, old)>>)
        /\ heap' = Copy(heap, o, Selectors \ {k})

\* aClass methodDict: aClass methodDict copy
SetMethodDict(p, c) ==
    /\ heap.made + 2 <= MaxMade
    /\ Starts(p, <<>>)
    /\ heap' = store_w_methoddict(Copy(heap, heap.w_methoddict[c], Selectors), c,
                                  heap.made + 1)

\* aClass superclass: super, which makes no cycles.
SetSuperclass(p, c, super) ==
    /\ super \in Classes => c \notin Range(Chain(heap, super))
    /\ Starts(p, <<>>)
    /\ heap' = store_w_superclass(heap, c, super)

\* The next step of a change; other processes may have run before it.
Continue(p, call) ==
    /\ pending[p] # <<>>
    /\ Head(pending[p]).call = call
    /\ pending' = [pending EXCEPT ![p] = Tail(@)]

DoName(p) ==
    /\ Continue(p, "name")
    /\ LET step == Head(pending[p])
       IN  heap' = StoreNames(heap, step.o,
                              heap.storage[heap.shadow[step.o]].names \cup {step.k})

DoValue(p) ==
    /\ Continue(p, "value")
    /\ LET step == Head(pending[p])
       IN  heap' = StoreInArray(heap, heap.storage[heap.shadow[step.o]].w_values,
                                step.k, step.v)

DoValues(p) ==
    /\ Continue(p, "values")
    /\ LET step == Head(pending[p])
       IN  heap' = StoreValues(heap, step.o, heap.storage[step.v].w_values)

DoNames(p) ==
    /\ Continue(p, "names")
    /\ LET step == Head(pending[p])
       IN  heap' = StoreNames(heap, step.o, heap.storage[step.v].names)

\* grow: a larger copy is filled and becomes the dictionary.
DoGrow(p) ==
    /\ Continue(p, "grow")
    /\ heap.made + 2 <= MaxMade
    /\ LET o == Head(pending[p]).o
       IN  heap' = become(Copy(heap, o, Selectors), o, heap.made + 1)

DoFlush(p) ==
    /\ Continue(p, "flush")
    /\ heap' = FlushMethod(heap, Head(pending[p]).v)

\* The compiler keeps the result of a lookup in the code, for this version of the class.
Compile(c, k) ==
    /\ heap.compiled[c][k] = Nil
    /\ lookup(heap, c, k) # Nil
    /\ heap' = [heap EXCEPT !.compiled[c][k] = lookup(heap, c, k)]
    /\ UNCHANGED pending

Update(p) ==
    \/ \E c \in Classes, k \in Selectors, m \in Methods, grows \in BOOLEAN :
            AddSelector(p, c, k, m, grows)
    \/ \E c \in Classes, k \in Selectors, m \in Methods : ReplaceMethod(p, c, k, m)
    \/ \E c \in Classes, k \in Selectors : RemoveSelector(p, c, k)
    \/ \E c \in Classes : SetMethodDict(p, c)
    \/ \E c \in Classes, super \in Classes \cup {Nil} : SetSuperclass(p, c, super)
    \/ DoName(p) \/ DoValue(p) \/ DoValues(p) \/ DoNames(p) \/ DoGrow(p) \/ DoFlush(p)

\* An exception of a class shadow ends the VM.
Next ==
    /\ heap.error = Nil
    /\ \/ \E p \in Updaters : Update(p)
       \/ \E c \in Classes, k \in Selectors : Compile(c, k)

Spec == Init /\ [][Next]_vars

-----------------------------------------------------------------------------
(* Properties.                                                             *)

\* The heap holds names of what there is, a change has steps of its kinds.
TypeOK ==
    /\ heap \in [shadow: [Ids -> Ids], storage: [Ids -> Storage],
                 array: [Ids -> [Selectors -> Methods \cup {Nil}]],
                 dependent: [Ids -> Ids \cup {Nil}],
                 w_methoddict: [Classes -> Ids], s_methoddict: [Classes -> Ids],
                 s_superclass: [Classes -> Classes \cup {Nil}],
                 subclass_s: [Classes -> SUBSET Classes],
                 lookup_class: [Methods -> Classes \cup {Nil}],
                 compiled: [Classes -> [Selectors -> Methods \cup {Nil}]],
                 made: 0..MaxMade,
                 error: {Nil, "ClassShadowError", "AttributeError", "RuntimeError"}]
    /\ pending \in [Updaters -> Seq(Step)]

\* The class's method dictionary is the storage of the object in the class's field.
Linked(c) == heap.shadow[heap.w_methoddict[c]] = heap.s_methoddict[c]

\* A dictionary the VM uses for a class refers back to its object, knows the class and is
\* told of stores to its array: without any of these, a change would go unnoticed
\* (setup_notification, store_s_methoddict, _s_become).
DictionariesWatched ==
    \A c \in Classes : Linked(c) =>
        LET s == heap.s_methoddict[c]
        IN  /\ heap.storage[s].is_methoddict
            /\ heap.storage[s].w_self = heap.w_methoddict[c]
            /\ heap.storage[s].s_class = c
            /\ heap.dependent[heap.storage[s].w_values] = s

\* When no change is under way, a send finds the method that the image's dictionaries give,
\* in every class whose dictionaries (its own, the inherited ones) have never grown: each
\* way of changing one brings the VM's copy up to date (sync_method_cache,
\* flush_method_caches).
SendsFindCurrentMethods ==
    (heap.error = Nil /\ \A p \in Updaters : pending[p] = <<>>) =>
        \A c \in Classes : (\A d \in Range(Chain(heap, c)) : Linked(d)) =>
            \A k \in Selectors : lookup(heap, c, k) = ImageLookup(heap, c, k)

\* Compiled code calls the method that a lookup finds, unless a dictionary that the lookup
\* passes is invalid at the moment: no table is replaced, no superclass stored, without a
\* new version for all classes below (changed, superclass_changed).
CompiledSendsCurrent ==
    \A c \in Classes, k \in Selectors :
        heap.compiled[c][k] \in {Nil, lookup(heap, c, k)}
        \/ \E d \in Range(Chain(heap, c)) : heap.storage[heap.s_methoddict[d]].invalid

\* subclass_s is the inverse of the superclasses, so that a new version reaches exactly the
\* classes below (attach_s_class, detach_s_class).
SubclassesAttached ==
    \A c, d \in Classes : (d \in heap.subclass_s[c]) <=> (heap.s_superclass[d] = c)

\* What a change needs to reach all that is to know of it: the way from an array to
\* the dictionary, from there to the class, and from there to the classes below.
ChangesAreNoticed == TypeOK /\ DictionariesWatched /\ SubclassesAttached

\* The VM never copies a half-changed dictionary, nor one without a class, nor watches an
\* array for two dictionaries: the exceptions of storage_classes.py 339 and storage.py 218,
\* and the attribute of None in storage_classes.py 344, do not occur.
NoClassShadowError == heap.error = Nil
=============================================================================
