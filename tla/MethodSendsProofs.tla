--------------------------- MODULE MethodSendsProofs ---------------------------
(***************************************************************************)
(* Theorems about what sends find in the copies of method dictionaries,    *)
(* and about the exceptions of the copying: for any number of classes,     *)
(* selectors and methods, and dictionaries that grow, if one process       *)
(* changes dictionaries and no dictionary takes the methods of another.    *)
(*                                                                         *)
(* A class is looked at through its View: what its method dictionary has,  *)
(* and what the storage has that the VM knows for it.  Base says for all   *)
(* views that they are apart and linked; a step changes the view of one    *)
(* class and leaves the others (Else).  The updater's pending calls are in *)
(* a Phase that says which views are not Settled yet, and how the pending  *)
(* calls will settle them: before or after a key or a method is stored, a  *)
(* method is replaced, or the selectors and methods that are left after a  *)
(* removal are copied.  Now is both together, and each operation of the    *)
(* updater leads from phase to phase.                                      *)
(***************************************************************************)
EXTENDS MethodCachesProofs

-----------------------------------------------------------------------------
(* What sends find.  The rest is about one updater, and methods that are   *)
(* in one dictionary each.                                                 *)

\* What the image and the VM have of the methods of c: the object in the class's field, its
\* storage and array, and the storage that the VM knows for the class.
View(h, c) ==
    LET o == h.w_methoddict[c]
        z == h.shadow[o]
        a == h.storage[z].w_values
        u == h.s_methoddict[c]
    IN  [object |-> o, storage |-> z, keys |-> h.storage[z].names,
         is_methoddict |-> h.storage[z].is_methoddict,
         values |-> a, methods |-> h.array[a], dependent |-> h.dependent[a],
         known |-> u, w_self |-> h.storage[u].w_self, w_values |-> h.storage[u].w_values,
         invalid |-> h.storage[u].invalid, methoddict |-> h.storage[u].methoddict]
Views(h) == [c \in Classes |-> View(h, c)]

LEMMA ViewsIs == \A h : \A c \in Classes : Views(h)[c] = View(h, c)
BY DEF Views

\* The fields of a view: of which storages, and what of them.
Refers(v, h, c) ==
    /\ v.object = h.w_methoddict[c] /\ v.storage = h.shadow[v.object]
    /\ v.known = h.s_methoddict[c]

ShowsDictionary(v, s, h) ==
    /\ v.keys = s.names /\ v.is_methoddict = s.is_methoddict /\ v.values = s.w_values
    /\ v.methods = h.array[v.values] /\ v.dependent = h.dependent[v.values]

ShowsTable(v, s) ==
    /\ v.w_self = s.w_self /\ v.w_values = s.w_values
    /\ v.invalid = s.invalid /\ v.methoddict = s.methoddict

Shows(v, h, c) == /\ Refers(v, h, c) /\ ShowsDictionary(v, h.storage[v.storage], h)
                  /\ ShowsTable(v, h.storage[v.known])

LEMMA ViewShows == \A h, c : Shows(View(h, c), h, c)
BY DEF View, Shows, Refers, ShowsDictionary, ShowsTable

\* A view is the same if all that it shows is.
LEMMA ViewSame ==
    ASSUME NEW h, NEW c, NEW v, v = View(h, c), NEW g, Shows(v, g, c)
    PROVE  View(g, c) = v
<1>1. View(g, c) =
        [object |-> v.object, storage |-> v.storage, keys |-> v.keys,
         is_methoddict |-> v.is_methoddict,
         values |-> v.values, methods |-> v.methods, dependent |-> v.dependent,
         known |-> v.known, w_self |-> v.w_self, w_values |-> v.w_values,
         invalid |-> v.invalid, methoddict |-> v.methoddict]
  <2>1. /\ g.w_methoddict[c] = v.object /\ g.shadow[v.object] = v.storage
        /\ g.storage[v.storage].names = v.keys
        /\ g.storage[v.storage].is_methoddict = v.is_methoddict
        /\ g.storage[v.storage].w_values = v.values
        /\ g.array[v.values] = v.methods /\ g.dependent[v.values] = v.dependent
        /\ g.s_methoddict[c] = v.known /\ g.storage[v.known].w_self = v.w_self
        /\ g.storage[v.known].w_values = v.w_values
        /\ g.storage[v.known].invalid = v.invalid
        /\ g.storage[v.known].methoddict = v.methoddict
    BY DEF Shows, Refers, ShowsDictionary, ShowsTable
  <2> QED BY <2>1, ZenonT(40) DEF View
<1>2. v = [object |-> v.object, storage |-> v.storage, keys |-> v.keys,
         is_methoddict |-> v.is_methoddict,
         values |-> v.values, methods |-> v.methods, dependent |-> v.dependent,
         known |-> v.known, w_self |-> v.w_self, w_values |-> v.w_values,
         invalid |-> v.invalid, methoddict |-> v.methoddict]
  BY Zenon DEF View
<1> QED BY <1>1, <1>2

ViewTyped(v) ==
    /\ v.object \in Ids /\ v.storage \in Ids /\ v.values \in Ids /\ v.known \in Ids
    /\ v.keys \in SUBSET Selectors /\ v.is_methoddict \in BOOLEAN /\ v.invalid \in BOOLEAN
    /\ v.methods \in [Selectors -> Methods \cup {Nil}]
    /\ v.methoddict \in [Selectors -> Methods \cup {Nil}]
    /\ v.dependent \in Ids \cup {Nil} /\ v.w_self \in Ids /\ v.w_values \in Ids

LEMMA ViewType ==
    ASSUME NEW h \in HeapType, NEW c \in Classes, NEW v, v = View(h, c)
    PROVE  ViewTyped(v)
<1>1. Shows(v, h, c)
  BY ViewShows
<1>2. v.object \in Ids /\ v.known \in Ids
  <2>1. h.w_methoddict \in [Classes -> Ids] /\ h.s_methoddict \in [Classes -> Ids]
    BY HeapFields
  <2>2. v.object = h.w_methoddict[c] /\ v.known = h.s_methoddict[c]
    BY <1>1 DEF Shows, Refers
  <2> QED BY <2>1, <2>2
<1>3. v.storage \in Ids
  <2>1. h.shadow \in [Ids -> Ids]
    BY HeapFields
  <2>2. v.storage = h.shadow[v.object]
    BY <1>1 DEF Shows, Refers
  <2> QED BY <1>2, <2>1, <2>2
<1> PICK x \in Storage : x = h.storage[v.storage]
  BY <1>3, HeapFields
<1> PICK y \in Storage : y = h.storage[v.known]
  BY <1>2, HeapFields
<1>4. /\ x.names \in SUBSET Selectors /\ x.is_methoddict \in BOOLEAN /\ x.w_values \in Ids
      /\ y.w_self \in Ids /\ y.w_values \in Ids /\ y.invalid \in BOOLEAN
      /\ y.methoddict \in [Selectors -> Methods \cup {Nil}]
  BY DEF Storage
<1>5. /\ v.keys = x.names /\ v.is_methoddict = x.is_methoddict /\ v.values = x.w_values
      /\ v.w_self = y.w_self /\ v.w_values = y.w_values /\ v.invalid = y.invalid
      /\ v.methoddict = y.methoddict
  BY <1>1 DEF Shows, Refers, ShowsDictionary, ShowsTable
<1>6. v.methods \in [Selectors -> Methods \cup {Nil}] /\ v.dependent \in Ids \cup {Nil}
  <2>1. v.methods = h.array[v.values] /\ v.dependent = h.dependent[v.values]
    BY <1>1, Zenon DEF Shows, ShowsDictionary
  <2>2. v.values \in Ids
    BY <1>4, <1>5
  <2> QED BY <2>1, <2>2, HeapFields
<1> QED BY <1>2, <1>3, <1>4, <1>5, <1>6 DEF ViewTyped

\* All of it is made.
LEMMA ViewMade ==
    ASSUME NEW h, Shape(h), NEW c \in Classes, NEW v, v = View(h, c)
    PROVE  /\ v.object \in Made(h) /\ v.storage \in Made(h) /\ v.values \in Made(h)
           /\ v.known \in Made(h) /\ v.w_self \in Made(h) /\ v.w_values \in Made(h)
<1>1. Shows(v, h, c)
  BY ViewShows
<1>2. v.object \in Made(h) /\ v.known \in Made(h)
  BY <1>1, Zenon DEF Shows, Refers, ShowsDictionary, ShowsTable, Shape
<1>3. v.storage \in Made(h)
  BY <1>1, <1>2, Zenon DEF Shows, Refers, ShowsDictionary, ShowsTable, Shape
<1> QED BY <1>1, <1>2, <1>3, Zenon DEF Shows, Refers, ShowsDictionary, ShowsTable, Shape

InUse(v) == v.storage = v.known

\* The known storage refers back to the object; if it is told of stores to the dictionary's
\* array at all, then that array is its own; a key is there before its method.
Linking(v) ==
    /\ v.w_self = v.object
    /\ v.dependent \in {Nil, v.known}
    /\ v.dependent = v.known => v.w_values = v.values
    /\ InUse(v) => v.is_methoddict /\ v.dependent = v.known
    /\ ~ InUse(v) => v.is_methoddict = FALSE /\ v.invalid = FALSE
    /\ \A k \in Selectors : v.methods[k] # Nil => k \in v.keys

\* Primitive 116 finds the class by the method.
Learnt(v, c, L) == InUse(v) => \A k \in Selectors : v.methods[k] # Nil => L[v.methods[k]] = c

\* Nothing of w is in the view of a class other than c.
OwnOf(V, c, w) ==
    \A d \in Classes : d # c =>
        /\ w.object # V[d].object /\ w.storage # V[d].storage /\ w.values # V[d].values
        /\ \A j, k \in Selectors : w.methods[j] = V[d].methods[k] => w.methods[j] = Nil

Base(V, L) ==
    \A c \in Classes : OwnOf(V, c, V[c]) /\ Linking(V[c]) /\ Learnt(V[c], c, L)

\* All keys but those in K have methods; the table is up to date.
Whole(v, K) == \A k \in v.keys : v.methods[k] # Nil \/ k \in K
Current(v) == InUse(v) => v.invalid = FALSE /\ v.methoddict = v.methods
Settled(v) == Whole(v, {}) /\ Current(v)
AllSettled(V) == \A c \in Classes : Settled(V[c])
OthersSettled(V, c) == \A d \in Classes : d # c => Settled(V[d])

Agree(V, W, c) == \A d \in Classes : d # c => W[d] = V[d]
Learns(L, M, c, w) ==
    \A m \in Methods : M[m] = L[m] \/ (M[m] = c /\ \E k \in Selectors : w.methods[k] = m)

\* A change of one dictionary.
LEMMA BaseKept ==
    ASSUME NEW V, NEW L, Base(V, L), NEW c \in Classes, NEW W, NEW M, Agree(V, W, c),
           \A d \in Classes : ViewTyped(V[d]) /\ ViewTyped(W[d]),
           OwnOf(V, c, W[c]), Linking(W[c]), Learnt(W[c], c, M), Learns(L, M, c, W[c])
    PROVE  Base(W, M)
<1> SUFFICES ASSUME NEW d \in Classes
             PROVE  OwnOf(W, d, W[d]) /\ Linking(W[d]) /\ Learnt(W[d], d, M)
  BY DEF Base
<1>1. CASE d = c
  <2>1. OwnOf(W, c, W[c])
    BY DEF OwnOf, Agree
  <2> QED BY <1>1, <2>1
<1>2. CASE d # c
  <2>1. W[d] = V[d] /\ OwnOf(V, d, V[d]) /\ Linking(V[d]) /\ Learnt(V[d], d, L)
    BY <1>2 DEF Agree, Base
  <2>2. /\ W[d].object # W[c].object /\ W[d].storage # W[c].storage
        /\ W[d].values # W[c].values
    BY <1>2, <2>1 DEF OwnOf
  <2>3. \A j, k \in Selectors : W[d].methods[j] = W[c].methods[k] => W[d].methods[j] = Nil
    BY <1>2, <2>1 DEF OwnOf
  <2>4. OwnOf(W, d, W[d])
    <3> SUFFICES ASSUME NEW e \in Classes, e # d
                 PROVE  /\ W[d].object # W[e].object /\ W[d].storage # W[e].storage
                        /\ W[d].values # W[e].values
                        /\ \A j, k \in Selectors : W[d].methods[j] = W[e].methods[k]
                                                       => W[d].methods[j] = Nil
      BY DEF OwnOf
    <3>1. CASE e = c
      BY <3>1, <2>2, <2>3
    <3>2. CASE e # c
      BY <3>2, <2>1 DEF OwnOf, Agree
    <3> QED BY <3>1, <3>2
  <2>5. ASSUME InUse(W[d]), NEW k \in Selectors, W[d].methods[k] # Nil
        PROVE  M[W[d].methods[k]] = d
    <3> PICK m : m = W[d].methods[k]
      OBVIOUS
    <3>1. m \in Methods
      BY <2>5 DEF ViewTyped
    <3>2. L[m] = d
      BY <2>1, <2>5 DEF Learnt
    <3>3. \A j \in Selectors : W[c].methods[j] # m
      BY <2>3, <2>5
    <3> QED BY <3>1, <3>2, <3>3 DEF Learns
  <2> QED BY <2>1, <2>4, <2>5 DEF Learnt
<1> QED BY <1>1, <1>2

\* The parts of the views of two classes that are not the same.
LEMMA Separate ==
    ASSUME NEW h, Owned(h), NEW L, Base(Views(h), L), NEW c \in Classes, NEW d \in Classes,
           d # c, NEW v, v = View(h, c), NEW w, w = View(h, d), ViewTyped(v), ViewTyped(w)
    PROVE  /\ w.object # v.object /\ w.storage # v.storage /\ w.values # v.values
           /\ w.known # v.known /\ w.known # v.storage /\ w.storage # v.known
<1>1. Shows(v, h, c) /\ Shows(w, h, d)
  BY ViewShows
<1>2. Views(h)[c] = v /\ Views(h)[d] = w
  BY ViewsIs
<1>3. Linking(v) /\ Linking(w) /\ OwnOf(Views(h), d, w)
  BY <1>2 DEF Base
<1>4. w.object # v.object /\ w.storage # v.storage /\ w.values # v.values
  BY <1>2, <1>3 DEF OwnOf
<1>5. w.known # v.known
  <2>1. v.known = h.s_methoddict[c] /\ w.known = h.s_methoddict[d] /\ v.known \in Ids
    BY <1>1, Zenon DEF Shows, Refers, ShowsDictionary, ShowsTable, ViewTyped
  <2>2. h.storage[h.s_methoddict[c]].s_class = c
    BY <2>1 DEF Owned
  <2> QED BY <2>1, <2>2 DEF Owned
<1>6. h.storage[v.known].is_methoddict /\ h.storage[w.known].is_methoddict
  BY <1>1, Zenon DEF Shows, Refers, ShowsDictionary, ShowsTable, Owned
<1>7. w.known # v.storage
  BY <1>1, <1>3, <1>5, <1>6, Zenon DEF Linking, InUse, Shows, Refers, ShowsDictionary, ShowsTable
<1>8. w.storage # v.known
  BY <1>1, <1>3, <1>5, <1>6, Zenon DEF Linking, InUse, Shows, Refers, ShowsDictionary, ShowsTable
<1> QED BY <1>4, <1>5, <1>7, <1>8

-----------------------------------------------------------------------------
(* What the operations do to the views *)

\* Views of the same dictionary, which differ in the table at most.
SameDictionary(v, w) ==
    /\ w.object = v.object /\ w.storage = v.storage /\ w.keys = v.keys
    /\ w.is_methoddict = v.is_methoddict /\ w.values = v.values /\ w.methods = v.methods
    /\ w.dependent = v.dependent /\ w.known = v.known /\ w.w_self = v.w_self
    /\ w.w_values = v.w_values

\* What is known of a heap before each operation.
Ready(h) == h \in HeapType /\ Shape(h) /\ Owned(h) /\ Base(Views(h), h.lookup_class)

LEMMA ReadyParts ==
    ASSUME NEW h, Ready(h)
    PROVE  /\ h \in HeapType /\ Shape(h) /\ Owned(h) /\ Base(Views(h), h.lookup_class)
           /\ \A c \in Classes : /\ ViewTyped(View(h, c)) /\ Linking(View(h, c))
                                 /\ Learnt(View(h, c), c, h.lookup_class)
                                 /\ OwnOf(Views(h), c, View(h, c))
<1>1. h \in HeapType
  BY DEF Ready
<1>2. \A c \in Classes : ViewTyped(View(h, c))
  BY <1>1, ViewType
<1> QED BY <1>2, ViewsIs DEF Ready, Base

\* The table of c alone is brought up to date.
Refreshed(h, c, g) ==
    /\ \A d \in Classes : d # c => View(g, d) = View(h, d)
    /\ SameDictionary(View(h, c), View(g, c))
    /\ View(g, c).invalid = FALSE /\ View(g, c).methoddict = View(h, c).methods
    /\ Learns(h.lookup_class, g.lookup_class, c, View(h, c))
    /\ \A k \in Selectors : View(h, c).methods[k] # Nil =>
           g.lookup_class[View(h, c).methods[k]] = c
    /\ g.error = h.error

\* A class's table is copied when its dictionary is whole.
LEMMA SyncRefreshes ==
    ASSUME NEW h, h \in HeapType, Owned(h), NEW c \in Classes, NEW v, v = View(h, c),
           \A d \in Classes : d # c => View(h, d).known # v.known /\ View(h, d).storage # v.known,
           v.w_self = v.object, v.w_values = v.values, Whole(v, {}),
           \A k \in Selectors : v.methods[k] # Nil => k \in v.keys,
           NEW g, g = sync_method_cache(h, v.known)
    PROVE  Refreshed(h, c, g)
<1> PICK s : s = v.known
  OBVIOUS
<1>1. Shows(v, h, c) /\ ViewTyped(v)
  BY ViewShows, ViewType
<1>2. s \in Ids /\ h.storage[s].s_class = c
  <2>1. s \in Ids /\ s = h.s_methoddict[c]
    BY <1>1, Zenon DEF ViewTyped, Shows, Refers, ShowsDictionary, ShowsTable
  <2> QED BY <2>1 DEF Owned
<1>3. /\ h.storage[h.shadow[h.storage[s].w_self]].names = v.keys
      /\ h.array[h.storage[s].w_values] = v.methods
  <2>1. h.storage[s].w_self = v.w_self /\ h.storage[s].w_values = v.w_values
    BY <1>1, Zenon DEF Shows, Refers, ShowsTable
  <2>2. /\ h.shadow[v.object] = v.storage /\ h.storage[v.storage].names = v.keys
        /\ h.array[v.values] = v.methods
    BY <1>1, Zenon DEF Shows, Refers, ShowsDictionary
  <2> QED BY <2>1, <2>2
<1>4. ~ HalfChanged(h, s)
  BY <1>3 DEF HalfChanged, Whole
<1>5. Copied(h, s) = v.methods
  <2>1. Copied(h, s) = [k \in Selectors |-> IF k \in v.keys THEN v.methods[k] ELSE Nil]
    BY <1>3 DEF Copied
  <2>2. v.methods \in [Selectors -> Methods \cup {Nil}]
    BY <1>1 DEF ViewTyped
  <2> QED BY <2>1, <2>2
<1>6. Learned(h, s) = [m \in Methods |-> IF \E k \in v.keys : v.methods[k] = m
                                         THEN c ELSE h.lookup_class[m]]
  BY <1>2, <1>3 DEF Learned
<1>7. Renewed(h, s, g)
  BY <1>2, <1>4, SyncRenews
<1>8. /\ g.shadow = h.shadow /\ g.array = h.array /\ g.dependent = h.dependent
      /\ g.w_methoddict = h.w_methoddict /\ g.s_methoddict = h.s_methoddict
      /\ \A t \in Ids : Alike(h.storage[t], g.storage[t])
  BY <1>7 DEF Renewed, SameObjects
<1>9. ASSUME NEW d \in Classes, d # c PROVE View(g, d) = View(h, d)
  <2> PICK w : w = View(h, d)
    OBVIOUS
  <2>1. Shows(w, h, d) /\ w.known # s /\ w.storage # s /\ w.known \in Ids /\ w.storage \in Ids
    BY <1>9, ViewShows, ViewType DEF ViewTyped
  <2>2. g.storage[w.known] = h.storage[w.known] /\ g.storage[w.storage] = h.storage[w.storage]
    BY <1>7, <2>1 DEF Renewed
  <2>3. Refers(w, g, d)
    BY <1>8, <2>1 DEF Shows, Refers
  <2>4. ShowsDictionary(w, g.storage[w.storage], g)
    BY <1>8, <2>1, <2>2 DEF Shows, ShowsDictionary
  <2>5. ShowsTable(w, g.storage[w.known])
    BY <2>1, <2>2 DEF Shows
  <2> QED BY <2>3, <2>4, <2>5, ViewSame DEF Shows
<1> PICK w : w = View(g, c)
  OBVIOUS
<1>10. Shows(w, g, c)
  BY ViewShows
<1>11. SameDictionary(v, w)
  <2>1. v.storage \in Ids /\ v.known \in Ids
    BY <1>1 DEF ViewTyped
  <2>2. Alike(h.storage[v.storage], g.storage[v.storage])
        /\ Alike(h.storage[v.known], g.storage[v.known])
    BY <1>8, <2>1
  <2>3. w.object = v.object /\ w.storage = v.storage /\ w.known = v.known
    BY <1>1, <1>8, <1>10 DEF Shows, Refers
  <2>4. w.keys = v.keys /\ w.is_methoddict = v.is_methoddict /\ w.values = v.values
        /\ w.methods = v.methods /\ w.dependent = v.dependent
    <3> PICK x : x = h.storage[v.storage]
      OBVIOUS
    <3> PICK y : y = g.storage[v.storage]
      OBVIOUS
    <3>1. Alike(x, y) /\ ShowsDictionary(v, x, h) /\ ShowsDictionary(w, y, g)
      BY <1>1, <1>10, <2>2, <2>3 DEF Shows
    <3>2. w.is_methoddict = v.is_methoddict
      BY <3>1, Zenon DEF ShowsDictionary, Alike
    <3>3. w.keys = v.keys /\ w.values = v.values
      BY <3>1, Zenon DEF ShowsDictionary, Alike
    <3> QED BY <3>1, <3>2, <3>3, <1>8, ZenonT(40) DEF ShowsDictionary
  <2>5. w.w_self = v.w_self /\ w.w_values = v.w_values
    BY <1>1, <1>10, <2>2, <2>3 DEF Shows, ShowsTable, Alike
  <2> QED BY <2>3, <2>4, <2>5 DEF SameDictionary
<1>12. w.invalid = FALSE /\ w.methoddict = v.methods
  <2>1. w.known = s
    BY <1>11 DEF SameDictionary
  <2>2. ShowsTable(w, g.storage[s])
    BY <1>10, <2>1 DEF Shows
  <2> QED BY <1>5, <1>7, <2>2 DEF Renewed, ShowsTable
<1>13. g.lookup_class = Learned(h, s) /\ g.error = h.error
  BY <1>7 DEF Renewed
<1>14. v.keys \subseteq Selectors /\ v.methods \in [Selectors -> Methods \cup {Nil}]
  BY <1>1 DEF ViewTyped
<1>15. Learns(h.lookup_class, g.lookup_class, c, v)
  BY <1>6, <1>13, <1>14 DEF Learns
<1>16. ASSUME NEW k \in Selectors, v.methods[k] # Nil PROVE g.lookup_class[v.methods[k]] = c
  BY <1>6, <1>13, <1>14, <1>16
<1> QED BY <1>9, <1>11, <1>12, <1>13, <1>15, <1>16 DEF Refreshed

\* The views of the other classes are as they were.
Else(h, c, g) == \A d \in Classes : d # c => View(g, d) = View(h, d)

\* What an operation on the dictionary of c leaves alone; X are the arrays it stores to.
Leaves(h, c, v, X, g) ==
    /\ \A d \in Classes : d # c => /\ g.w_methoddict[d] = h.w_methoddict[d]
                                   /\ g.s_methoddict[d] = h.s_methoddict[d]
    /\ \A i \in Made(h) : i # v.object => g.shadow[i] = h.shadow[i]
    /\ \A i \in Made(h) : i # v.storage /\ i # v.known => g.storage[i] = h.storage[i]
    /\ \A i \in Made(h) : i \notin X => /\ g.array[i] = h.array[i]
                                        /\ g.dependent[i] = h.dependent[i]

LEMMA LeavesElse ==
    ASSUME NEW h, Ready(h), NEW c \in Classes, NEW v, v = View(h, c), NEW X,
           \A d \in Classes : d # c => View(h, d).values \notin X, NEW g, Leaves(h, c, v, X, g)
    PROVE  Else(h, c, g)
<1> SUFFICES ASSUME NEW d \in Classes, d # c PROVE View(g, d) = View(h, d)
  BY DEF Else
<1> PICK w : w = View(h, d)
  OBVIOUS
<1>1. Shows(w, h, d) /\ w.values \notin X
  BY ViewShows
<1>2. Shape(h) /\ Owned(h) /\ Base(Views(h), h.lookup_class) /\ ViewTyped(v) /\ ViewTyped(w)
  BY ReadyParts
<1>3. /\ w.object # v.object /\ w.storage # v.storage /\ w.values # v.values
      /\ w.known # v.known /\ w.known # v.storage /\ w.storage # v.known
  BY <1>2, Separate
<1>4. /\ w.object \in Made(h) /\ w.storage \in Made(h) /\ w.values \in Made(h)
      /\ w.known \in Made(h)
  BY <1>2, ViewMade
<1>5. Refers(w, g, d)
  BY <1>1, <1>3, <1>4 DEF Shows, Refers, Leaves
<1>6. /\ g.storage[w.storage] = h.storage[w.storage] /\ g.storage[w.known] = h.storage[w.known]
      /\ g.array[w.values] = h.array[w.values] /\ g.dependent[w.values] = h.dependent[w.values]
  BY <1>1, <1>3, <1>4 DEF Leaves
<1>7. ShowsDictionary(w, g.storage[w.storage], g)
  BY <1>1, <1>6 DEF Shows, ShowsDictionary
<1>8. ShowsTable(w, g.storage[w.known])
  BY <1>1, <1>6 DEF Shows
<1> QED BY <1>5, <1>7, <1>8, ViewSame DEF Shows

\* A store of keys.
StoresNames(h, c, names, g) ==
    LET v == View(h, c)
        w == View(g, c)
    IN  /\ Else(h, c, g) /\ g.error = h.error /\ g.lookup_class = h.lookup_class
        /\ w.object = v.object /\ w.storage = v.storage /\ w.keys = names
        /\ w.is_methoddict = v.is_methoddict /\ w.values = v.values /\ w.methods = v.methods
        /\ w.dependent = v.dependent /\ w.known = v.known /\ w.w_self = v.w_self
        /\ w.w_values = v.w_values /\ w.methoddict = v.methoddict
        /\ w.invalid = IF InUse(v) THEN TRUE ELSE FALSE

LEMMA StoreNamesViews ==
    ASSUME NEW h, Ready(h), NEW c \in Classes, NEW v, v = View(h, c),
           NEW names \in SUBSET Selectors, NEW g, g = StoreNames(h, v.object, names)
    PROVE  StoresNames(h, c, names, g)
<1>1. /\ h \in HeapType /\ Shape(h) /\ ViewTyped(v) /\ Shows(v, h, c) /\ Linking(v)
  BY ReadyParts, ViewShows
<1> PICK s \in Ids : s = v.storage
  BY <1>1 DEF ViewTyped
<1>2. v.object \in Ids /\ s = h.shadow[v.object]
  BY <1>1 DEF ViewTyped, Shows, Refers
<1>3. /\ g \in HeapType /\ SameLinks(h, g) /\ SameRest(h, g) /\ g.array = h.array
      /\ \A t \in Ids : t # s => g.storage[t] = h.storage[t]
      /\ g.storage[s].names = names /\ g.storage[s].methoddict = h.storage[s].methoddict
      /\ g.storage[s].invalid = (h.storage[s].invalid \/ h.storage[s].is_methoddict)
  BY <1>1, <1>2, StoreNamesFacts, SMTT(30)
<1>4. /\ g.shadow = h.shadow /\ g.dependent = h.dependent
      /\ g.w_methoddict = h.w_methoddict /\ g.s_methoddict = h.s_methoddict
  BY <1>3 DEF SameLinks
<1>5. Made(h) \subseteq Ids
  BY <1>1, MadeFacts
<1>6. Leaves(h, c, v, {}, g)
  BY <1>3, <1>4, <1>5 DEF Leaves
<1>7. Else(h, c, g)
  BY <1>6, LeavesElse
<1> PICK w : w = View(g, c)
  OBVIOUS
<1>8. Shows(w, g, c)
  BY ViewShows
<1>9. w.object = v.object /\ w.storage = v.storage /\ w.known = v.known
  BY <1>1, <1>4, <1>8 DEF Shows, Refers
<1>10. v.known \in Ids
  BY <1>1 DEF ViewTyped
<1> PICK x : x = h.storage[s]
  OBVIOUS
<1> PICK y : y = g.storage[s]
  OBVIOUS
<1>11. ShowsDictionary(v, x, h) /\ ShowsDictionary(w, y, g)
  BY <1>1, <1>8, <1>9 DEF Shows
<1>12. y.is_methoddict = x.is_methoddict /\ y.w_values = x.w_values
  BY <1>3 DEF SameLinks
<1>13. w.is_methoddict = v.is_methoddict
  BY <1>11, <1>12, Zenon DEF ShowsDictionary
<1>14. w.keys = names /\ w.values = v.values
  BY <1>3, <1>11, <1>12, Zenon DEF ShowsDictionary
<1>15. w.methods = v.methods /\ w.dependent = v.dependent
  <2>1. g.array = h.array /\ g.dependent = h.dependent
    BY <1>3, <1>4
  <2> QED BY <1>11, <1>14, <2>1 DEF ShowsDictionary
<1> PICK tx : tx = h.storage[v.known]
  OBVIOUS
<1> PICK ty : ty = g.storage[v.known]
  OBVIOUS
<1>16. ShowsTable(v, tx) /\ ShowsTable(w, ty)
  BY <1>1, <1>8, <1>9 DEF Shows
<1>17. ty.w_self = tx.w_self /\ ty.w_values = tx.w_values
  BY <1>3, <1>10 DEF SameLinks
<1>18. ty.methoddict = tx.methoddict
  BY <1>3, <1>10
<1>19. w.w_self = v.w_self /\ w.w_values = v.w_values /\ w.methoddict = v.methoddict
  BY <1>16, <1>17, <1>18, Zenon DEF ShowsTable
<1>20. w.invalid = IF InUse(v) THEN TRUE ELSE FALSE
  <2>1. CASE InUse(v)
    <3>1. v.known = s /\ v.is_methoddict
      BY <1>1, <2>1 DEF InUse, Linking
    <3>2. x.is_methoddict
      BY <1>11, <3>1, Zenon DEF ShowsDictionary
    <3>3. y.invalid = TRUE
      BY <1>3, <3>2
    <3> QED BY <1>16, <2>1, <3>1, <3>3 DEF ShowsTable
  <2>2. CASE ~ InUse(v)
    <3>1. v.known # s /\ v.invalid = FALSE
      BY <1>1, <2>2 DEF InUse, Linking
    <3>2. ty = tx
      BY <1>3, <1>10, <3>1
    <3> QED BY <1>16, <2>2, <3>1, <3>2 DEF ShowsTable
  <2> QED BY <2>1, <2>2
<1>21. g.error = h.error /\ g.lookup_class = h.lookup_class
  BY <1>3 DEF SameRest
<1> QED BY <1>7, <1>9, <1>13, <1>14, <1>15, <1>19, <1>20, <1>21 DEF StoresNames

\* A store to the array, of the last method that is missing; the table follows if it is told.
MethodAdded(v, w, k, m) ==
    /\ w.object = v.object /\ w.storage = v.storage /\ w.keys = v.keys
    /\ w.is_methoddict = v.is_methoddict /\ w.values = v.values
    /\ w.methods = [v.methods EXCEPT ![k] = m]
    /\ w.dependent = v.dependent /\ w.known = v.known /\ w.w_self = v.w_self
    /\ w.w_values = v.w_values

TableFollows(L, M, c, v, w) ==
    IF v.dependent = v.known
    THEN /\ w.invalid = FALSE /\ w.methoddict = w.methods /\ Learns(L, M, c, w)
         /\ \A j \in Selectors : w.methods[j] # Nil => M[w.methods[j]] = c
    ELSE w.invalid = v.invalid /\ w.methoddict = v.methoddict /\ M = L

StoresMethod(h, c, k, m, g) ==
    /\ Else(h, c, g) /\ g.error = h.error /\ MethodAdded(View(h, c), View(g, c), k, m)
    /\ TableFollows(h.lookup_class, g.lookup_class, c, View(h, c), View(g, c))

LEMMA StoreInArrayViews ==
    ASSUME NEW h, Ready(h), NEW c \in Classes, NEW v, v = View(h, c),
           NEW k \in Selectors, k \in v.keys, Whole(v, {k}), NEW m \in Methods,
           NEW g, g = StoreInArray(h, v.values, k, m)
    PROVE  StoresMethod(h, c, k, m, g)
<1>1. /\ h \in HeapType /\ Shape(h) /\ Owned(h) /\ Base(Views(h), h.lookup_class)
      /\ ViewTyped(v) /\ Shows(v, h, c) /\ Linking(v) /\ OwnOf(Views(h), c, v)
  BY ReadyParts, ViewShows
<1> PICK a \in Ids : a = v.values
  BY <1>1 DEF ViewTyped
<1> PICK f : f = WithMethod(h, a, k, m)
  OBVIOUS
<1>2. /\ f \in HeapType /\ SameLinks(h, f) /\ SameRest(h, f) /\ f.storage = h.storage
      /\ f.array = [h.array EXCEPT ![a] = [h.array[a] EXCEPT ![k] = m]]
  <2>1. ArrayGives(h, a, k, m, f)
    BY <1>1, ArrayFacts
  <2> QED BY <2>1 DEF ArrayGives
<1>3. /\ f.shadow = h.shadow /\ f.dependent = h.dependent
      /\ f.w_methoddict = h.w_methoddict /\ f.s_methoddict = h.s_methoddict
      /\ f.error = h.error /\ f.lookup_class = h.lookup_class
  BY <1>2 DEF SameLinks, SameRest
<1>4. Made(h) \subseteq Ids
  BY <1>1, MadeFacts
<1>5. f.array[a] = [v.methods EXCEPT ![k] = m] /\ \A i \in Ids : i # a => f.array[i] = h.array[i]
  <2>1. h.array \in [Ids -> [Selectors -> Methods \cup {Nil}]]
    BY <1>1, HeapFields
  <2>2. v.methods = h.array[a]
    BY <1>1 DEF Shows, ShowsDictionary
  <2> QED BY <2>1, <2>2, <1>2
<1>6. \A d \in Classes : d # c => View(h, d).values # a
  BY <1>1, ViewsIs DEF OwnOf
<1>7. Leaves(h, c, v, {a}, f)
  BY <1>2, <1>3, <1>4, <1>5 DEF Leaves
<1>8. Else(h, c, f)
  BY <1>6, <1>7, LeavesElse
<1> PICK x : x = View(f, c)
  OBVIOUS
<1>9. Shows(x, f, c)
  BY ViewShows
<1>10. /\ x.object = v.object /\ x.storage = v.storage /\ x.known = v.known
  BY <1>1, <1>3, <1>9, SMTT(30) DEF Shows, Refers
<1>11. ShowsTable(x, h.storage[v.known]) /\ ShowsTable(v, h.storage[v.known])
       /\ ShowsDictionary(x, h.storage[v.storage], f)
       /\ ShowsDictionary(v, h.storage[v.storage], h)
  BY <1>1, <1>2, <1>9, <1>10 DEF Shows
<1>12. /\ x.w_self = v.w_self /\ x.w_values = v.w_values
       /\ x.invalid = v.invalid /\ x.methoddict = v.methoddict
  BY <1>11, Zenon DEF ShowsTable
<1>13. x.keys = v.keys /\ x.is_methoddict = v.is_methoddict /\ x.values = v.values
  BY <1>11, Zenon DEF ShowsDictionary
<1>14. x.methods = [v.methods EXCEPT ![k] = m] /\ x.dependent = v.dependent
  <2>1. /\ x.methods = f.array[x.values] /\ x.dependent = f.dependent[x.values]
        /\ v.dependent = h.dependent[v.values]
    BY <1>11, Zenon DEF ShowsDictionary
  <2> QED BY <2>1, <1>3, <1>5, <1>13
<1>15. v.dependent = h.dependent[a] /\ v.known # Nil
  <2>1. v.dependent = h.dependent[a]
    BY <1>1 DEF Shows, ShowsDictionary
  <2>2. v.known \in Ids
    BY <1>1 DEF ViewTyped
  <2> QED BY <2>1, <2>2, <1>1, MadeFacts
<1>16. CASE v.dependent # v.known
  <2>1. h.dependent[a] = Nil
    BY <1>1, <1>15, <1>16 DEF Linking
  <2>2. g = f
    BY <2>1 DEF StoreInArray, WithMethod
  <2>3. MethodAdded(v, x, k, m)
    BY <1>10, <1>12, <1>13, <1>14, Zenon DEF MethodAdded
  <2>4. TableFollows(h.lookup_class, g.lookup_class, c, v, x)
    BY <2>2, <1>3, <1>12, <1>16 DEF TableFollows
  <2> QED BY <2>2, <2>3, <2>4, <1>3, <1>8 DEF StoresMethod
<1>17. CASE v.dependent = v.known
  <2>1. g = sync_method_cache(f, x.known)
    BY <1>10, <1>15, <1>17 DEF StoreInArray, WithMethod
  <2>2. Owned(f)
    BY <1>1, <1>2 DEF Owned, SameLinks
  <2>3. \A d \in Classes : d # c => View(f, d).known # x.known /\ View(f, d).storage # x.known
    <3> SUFFICES ASSUME NEW d \in Classes, d # c
                 PROVE  View(h, d).known # v.known /\ View(h, d).storage # v.known
      BY <1>8, <1>10 DEF Else
    <3>1. ViewTyped(View(h, d))
      BY <1>1, ViewType
    <3> QED BY <3>1, <1>1, Separate
  <2>4. x.w_self = x.object /\ x.w_values = x.values
    BY <1>1, <1>10, <1>12, <1>13, <1>17 DEF Linking
  <2>5. v.methods \in [Selectors -> Methods \cup {Nil}] /\ v.keys \subseteq Selectors
    BY <1>1 DEF ViewTyped
  <2>6. Whole(x, {})
    BY <1>13, <1>14, <2>5, MethodsAssumption DEF Whole
  <2>7. \A j \in Selectors : x.methods[j] # Nil => j \in x.keys
    BY <1>1, <1>13, <1>14, <2>5 DEF Linking
  <2>8. Refreshed(f, c, g)
    BY <1>2, <2>1, <2>2, <2>3, <2>4, <2>6, <2>7, SyncRefreshes
  <2> PICK w : w = View(g, c)
    OBVIOUS
  <2>9. /\ SameDictionary(x, w) /\ w.invalid = FALSE /\ w.methoddict = x.methods
        /\ Learns(f.lookup_class, g.lookup_class, c, x)
        /\ \A j \in Selectors : x.methods[j] # Nil => g.lookup_class[x.methods[j]] = c
        /\ g.error = f.error
    BY <2>8 DEF Refreshed
  <2>10. Else(h, c, g)
    BY <1>8, <2>8 DEF Refreshed, Else
  <2>11. /\ w.object = v.object /\ w.storage = v.storage /\ w.keys = v.keys
         /\ w.is_methoddict = v.is_methoddict /\ w.values = v.values
         /\ w.methods = x.methods
         /\ w.dependent = v.dependent /\ w.known = v.known /\ w.w_self = v.w_self
         /\ w.w_values = v.w_values
    BY <2>9, <1>10, <1>12, <1>13, <1>14, ZenonT(40) DEF SameDictionary
  <2>12. Learns(h.lookup_class, g.lookup_class, c, w)
    BY <1>3, <2>9, <2>11 DEF Learns
  <2>13. MethodAdded(v, w, k, m)
    BY <1>14, <2>11, Zenon DEF MethodAdded
  <2>14. TableFollows(h.lookup_class, g.lookup_class, c, v, w)
    BY <1>17, <2>9, <2>11, <2>12 DEF TableFollows
  <2> QED BY <1>3, <2>9, <2>10, <2>13, <2>14 DEF StoresMethod
<1> QED BY <1>16, <1>17

\* Another array.
StoresValues(h, c, x, g) ==
    LET v == View(h, c)
        w == View(g, c)
    IN  /\ Else(h, c, g) /\ g.error = h.error /\ g.lookup_class = h.lookup_class
        /\ w.object = v.object /\ w.storage = v.storage /\ w.keys = v.keys
        /\ w.is_methoddict = v.is_methoddict /\ w.values = x /\ w.methods = h.array[x]
        /\ w.dependent = (IF InUse(v) THEN v.known ELSE Nil)
        /\ w.known = v.known /\ w.w_self = v.w_self
        /\ InUse(v) => w.w_values = x
        /\ w.invalid = v.invalid /\ w.methoddict = v.methoddict
        /\ \A t \in Ids : g.storage[t].names = h.storage[t].names

LEMMA StoreValuesViews ==
    ASSUME NEW h, Ready(h), NEW c \in Classes, NEW v, v = View(h, c), NEW x \in Ids,
           h.dependent[x] = Nil, \A d \in Classes : d # c => View(h, d).values # x,
           NEW g, g = StoreValues(h, v.object, x)
    PROVE  StoresValues(h, c, x, g)
<1>1. /\ h \in HeapType /\ Shape(h) /\ ViewTyped(v) /\ Shows(v, h, c) /\ Linking(v)
  BY ReadyParts, ViewShows
<1> PICK s \in Ids : s = v.storage
  BY <1>1 DEF ViewTyped
<1> PICK y \in Storage : y = h.storage[s]
  BY <1>1, HeapFields
<1>2. h.shadow[v.object] = s /\ v.is_methoddict = y.is_methoddict
  BY <1>1, Zenon DEF Shows, Refers, ShowsDictionary
<1> DEFINE z == [y EXCEPT !.w_values = x]
           S == [h.storage EXCEPT ![s] = z]
           f == [h EXCEPT !.storage = S]
<1>3. /\ z \in Storage /\ z.w_values = x /\ z.methoddict = y.methoddict /\ z.names = y.names
      /\ z.is_methoddict = y.is_methoddict /\ z.w_self = y.w_self
      /\ z.s_class = y.s_class /\ z.invalid = y.invalid
  BY DEF Storage
<1>4. [h EXCEPT !.storage[s].w_values = x] = f
  BY <1>1 DEF HeapType
<1>5. g = IF y.is_methoddict THEN setup_notification(f, s) ELSE f
  BY <1>2, <1>4 DEF StoreValues
<1> HIDE DEF z
<1>6. S \in [Ids -> Storage] /\ S[s] = z /\ \A t \in Ids : t # s => S[t] = h.storage[t]
  BY <1>1, <1>3, HeapFields
<1> HIDE DEF S
<1>7. f \in HeapType
  BY <1>1, <1>6 DEF HeapType
<1>8. /\ f.storage = S /\ f.shadow = h.shadow /\ f.array = h.array
      /\ f.dependent = h.dependent /\ f.made = h.made /\ SameRest(h, f)
  BY <1>1 DEF HeapType, SameRest
<1> HIDE DEF f
<1>9. y.is_methoddict <=> InUse(v)
  BY <1>1, <1>2 DEF Linking
<1>10. /\ g.storage = S /\ g.shadow = h.shadow /\ g.array = h.array /\ SameRest(h, g)
       /\ g.dependent = IF InUse(v) THEN [h.dependent EXCEPT ![x] = s] ELSE h.dependent
  <2>1. CASE ~ InUse(v)
    BY <2>1, <1>5, <1>8, <1>9
  <2>2. CASE InUse(v)
    <3>1. g = setup_notification(f, s) /\ f.storage[s].w_values = x /\ f.dependent[x] = Nil
      BY <2>2, <1>3, <1>5, <1>6, <1>8, <1>9
    <3>2. /\ g.dependent = [f.dependent EXCEPT ![x] = s] /\ g.shadow = f.shadow
          /\ g.storage = f.storage /\ g.array = f.array /\ SameRest(f, g)
      BY <1>7, <3>1, SetupFacts DEF SameRest
    <3>3. SameRest(h, g)
      BY <1>8, <3>2, SameRestTwice
    <3> QED BY <1>8, <2>2, <3>2, <3>3
  <2> QED BY <2>1, <2>2
<1>11. g.dependent[x] = (IF InUse(v) THEN s ELSE Nil)
       /\ \A i \in Ids : i # x => g.dependent[i] = h.dependent[i]
  <2>1. h.dependent \in [Ids -> Ids \cup {Nil}]
    BY <1>1, HeapFields
  <2> QED BY <2>1, <1>10
<1>12. /\ g.w_methoddict = h.w_methoddict /\ g.s_methoddict = h.s_methoddict
       /\ g.error = h.error /\ g.lookup_class = h.lookup_class
  BY <1>10 DEF SameRest
<1>13. Made(h) \subseteq Ids
  BY <1>1, MadeFacts
<1>14. Leaves(h, c, v, {x}, g)
  BY <1>6, <1>10, <1>11, <1>12, <1>13 DEF Leaves
<1>15. Else(h, c, g)
  BY <1>14, LeavesElse
<1> PICK w : w = View(g, c)
  OBVIOUS
<1>16. Shows(w, g, c)
  BY ViewShows
<1>17. w.object = v.object /\ w.storage = v.storage /\ w.known = v.known
  BY <1>1, <1>10, <1>12, <1>16, ZenonT(40) DEF Shows, Refers
<1>18. ShowsDictionary(w, z, g) /\ ShowsDictionary(v, y, h)
  BY <1>1, <1>6, <1>10, <1>16, <1>17 DEF Shows
<1>19. w.keys = v.keys /\ w.is_methoddict = v.is_methoddict /\ w.values = x
  BY <1>3, <1>18, Zenon DEF ShowsDictionary
<1>20. w.methods = h.array[x] /\ w.dependent = (IF InUse(v) THEN v.known ELSE Nil)
  BY <1>10, <1>11, <1>18, <1>19 DEF ShowsDictionary, InUse
<1> PICK tx : tx = h.storage[v.known]
  OBVIOUS
<1> PICK ty : ty = g.storage[v.known]
  OBVIOUS
<1>21. ShowsTable(v, tx) /\ ShowsTable(w, ty)
  BY <1>1, <1>16, <1>17 DEF Shows
<1>22. /\ ty.w_self = tx.w_self /\ ty.invalid = tx.invalid /\ ty.methoddict = tx.methoddict
       /\ InUse(v) => ty.w_values = x
  <2>1. v.known \in Ids
    BY <1>1 DEF ViewTyped
  <2>2. CASE v.known = s
    BY <2>2, <1>3, <1>6, <1>10
  <2>3. CASE v.known # s
    BY <2>1, <2>3, <1>6, <1>10 DEF InUse
  <2> QED BY <2>2, <2>3
<1>23. w.w_self = v.w_self /\ w.invalid = v.invalid /\ w.methoddict = v.methoddict
  BY <1>21, <1>22, Zenon DEF ShowsTable
<1>24. InUse(v) => w.w_values = x
  BY <1>21, <1>22 DEF ShowsTable
<1>25. \A t \in Ids : g.storage[t].names = h.storage[t].names
  <2>1. z.names = y.names
    BY <1>3
  <2> QED BY <2>1, <1>6, <1>10, Zenon
<1> QED BY <1>12, <1>15, <1>17, <1>19, <1>20, <1>23, <1>24, <1>25 DEF StoresValues

\* A copy is in no view.
LEMMA CopyViews ==
    ASSUME NEW h, Ready(h), NEW o \in Ids, NEW keys \in SUBSET Selectors,
           h.made + 1 <= MaxMade, NEW n, n = h.made + 1, NEW g, g = Copy(h, o, keys)
    PROVE  Views(g) = Views(h)
<1>1. h \in HeapType /\ Shape(h) /\ Made(h) \subseteq Ids /\ n \notin Made(h)
  BY ReadyParts, MadeFacts
<1>2. CopyGives(h, o, keys, n, g)
  BY <1>1, CopyFacts
<1>3. /\ \A i \in Ids : i # n => g.shadow[i] = h.shadow[i]
      /\ \A i \in Ids : i # n => g.array[i] = h.array[i]
  <2>1. h.shadow \in [Ids -> Ids] /\ h.array \in [Ids -> [Selectors -> Methods \cup {Nil}]]
    BY <1>1, HeapFields
  <2> QED BY <2>1, <1>2 DEF CopyGives
<1>4. /\ g.dependent = h.dependent /\ g.w_methoddict = h.w_methoddict
      /\ g.s_methoddict = h.s_methoddict
      /\ \A i \in Ids : i # n => g.storage[i] = h.storage[i]
  BY <1>2 DEF CopyGives, SameRest
<1> SUFFICES ASSUME NEW c \in Classes PROVE View(g, c) = View(h, c)
  BY DEF Views
<1> PICK v : v = View(h, c)
  OBVIOUS
<1>5. Shows(v, h, c) /\ v.object \in Made(h) /\ v.storage \in Made(h) /\ v.values \in Made(h)
      /\ v.known \in Made(h)
  BY <1>1, ViewShows, ViewMade
<1>6. Refers(v, g, c)
  BY <1>1, <1>3, <1>4, <1>5 DEF Shows, Refers
<1>7. /\ g.storage[v.storage] = h.storage[v.storage] /\ g.storage[v.known] = h.storage[v.known]
      /\ g.array[v.values] = h.array[v.values] /\ g.dependent[v.values] = h.dependent[v.values]
  BY <1>1, <1>3, <1>4, <1>5
<1>8. ShowsDictionary(v, g.storage[v.storage], g)
  BY <1>5, <1>7 DEF Shows, ShowsDictionary
<1>9. ShowsTable(v, g.storage[v.known])
  BY <1>5, <1>7 DEF Shows
<1> QED BY <1>6, <1>8, <1>9, ViewSame DEF Shows

\* Where no table is invalid, a flush does nothing; where one is, it is copied.
LEMMA FlushOfNothing ==
    ASSUME NEW h \in HeapType, \A d \in Classes : View(h, d).invalid = FALSE,
           NEW m \in Methods
    PROVE  FlushMethod(h, m) = h
<1>1. CASE h.lookup_class[m] = Nil
  BY <1>1 DEF FlushMethod
<1>2. CASE h.lookup_class[m] # Nil
  <2> PICK c \in Classes : c = h.lookup_class[m]
    BY <1>2, HeapFields
  <2>1. FlushMethod(h, m) = flush_method_caches(h, c)
    BY <1>2 DEF FlushMethod
  <2> PICK chain : chain = Chain(h, c)
    OBVIOUS
  <2>2. chain \in Seq(Classes)
    BY ChainClasses
  <2> PICK f : FlushesTo(f, h, chain, flush_method_caches(h, c))
    BY FlushSteps
  <2> DEFINE T == {n \in 0 .. Len(chain) : f[n] = h}
  <2>3. 0 \in T
    BY <2>2 DEF FlushesTo
  <2>4. ASSUME NEW n \in 0 .. Len(chain), n + 1 <= Len(chain), n \in T
        PROVE  n + 1 \in T
    <3>1. n + 1 \in 1 .. Len(chain) /\ n + 1 \in 0 .. Len(chain) /\ (n + 1) - 1 = n
      BY <2>2, <2>4
    <3> PICK d \in Classes : d = chain[n + 1]
      BY <2>2, <3>1
    <3>2. f[n + 1] = flush_method_cache(h, h.s_methoddict[d])
      BY <2>4, <3>1 DEF FlushesTo
    <3>3. h.storage[h.s_methoddict[d]].invalid = FALSE
      <4>1. Shows(View(h, d), h, d)
        BY ViewShows
      <4> QED BY <4>1, Zenon DEF Shows, Refers, ShowsTable
    <3> QED BY <3>1, <3>2, <3>3 DEF flush_method_cache
  <2> HIDE DEF T
  <2>5. 0 .. Len(chain) \subseteq T
    <3>1. Len(chain) \in Nat
      BY <2>2
    <3> QED BY <3>1, <2>3, <2>4, UpTo
  <2>6. Len(chain) \in T
    BY <2>2, <2>5
  <2> QED BY <2>1, <2>6 DEF T, FlushesTo
<1> QED BY <1>1, <1>2

LEMMA FlushOfOne ==
    ASSUME NEW h \in HeapType, Owned(h), NEW c \in Classes, NEW m \in Methods,
           h.lookup_class[m] = c, View(h, c).invalid = TRUE,
           NEW g, g = sync_method_cache(h, View(h, c).known), Refreshed(h, c, g),
           \A d \in Classes : d # c => View(h, d).invalid = FALSE
    PROVE  FlushMethod(h, m) = g
<1>1. FlushMethod(h, m) = flush_method_caches(h, c)
  BY ClassesAssumption DEF FlushMethod
<1> PICK chain : chain = Chain(h, c)
  OBVIOUS
<1>2. chain \in Seq(Classes) /\ Len(chain) \in Nat /\ Len(chain) >= 1 /\ chain[1] = c
  <2>1. Chain(h, c) = Climb(h.s_superclass, c)[N] /\ h.s_superclass \in Supers
    BY ChainIs, HeapFields
  <2>2. Climb(h.s_superclass, c)[N] \in Rows /\ Ascends(chain, h.s_superclass, c)
    BY <2>1, ChainShape
  <2> QED BY <2>1, <2>2, LastOfRow DEF Rows, Ascends
<1> PICK f : FlushesTo(f, h, chain, flush_method_caches(h, c))
  BY FlushSteps
<1>3. \A d \in Classes : View(g, d).invalid = FALSE
  BY DEF Refreshed
<1>4. f[1] = g
  <2>1. 1 \in 1 .. Len(chain) /\ 1 - 1 = 0
    BY <1>2
  <2>2. f[1] = flush_method_cache(h, h.s_methoddict[c])
    BY <1>2, <2>1 DEF FlushesTo
  <2>3. h.s_methoddict[c] = View(h, c).known /\ h.storage[h.s_methoddict[c]].invalid = TRUE
    <3>1. Shows(View(h, c), h, c)
      BY ViewShows
    <3> QED BY <3>1 DEF Shows, Refers, ShowsTable
  <2> QED BY <2>2, <2>3 DEF flush_method_cache
<1> DEFINE T == {n \in 0 .. Len(chain) : n = 0 \/ f[n] = g}
<1>5. 0 \in T
  BY <1>2
<1>6. ASSUME NEW n \in 0 .. Len(chain), n + 1 <= Len(chain), n \in T
      PROVE  n + 1 \in T
  <2>1. n + 1 \in 1 .. Len(chain) /\ n + 1 \in 0 .. Len(chain) /\ (n + 1) - 1 = n
    BY <1>2, <1>6
  <2>2. CASE n = 0
    BY <1>4, <2>1, <2>2
  <2>3. CASE n # 0
    <3>1. f[n] = g
      BY <1>6, <2>3
    <3> PICK d \in Classes : d = chain[n + 1]
      BY <1>2, <2>1
    <3>2. f[n + 1] = flush_method_cache(g, g.s_methoddict[d])
      BY <2>1, <3>1 DEF FlushesTo
    <3>3. g.storage[g.s_methoddict[d]].invalid = FALSE
      <4>1. Shows(View(g, d), g, d) /\ View(g, d).invalid = FALSE
        BY <1>3, ViewShows
      <4> QED BY <4>1, Zenon DEF Shows, Refers, ShowsTable
    <3> QED BY <2>1, <3>2, <3>3 DEF flush_method_cache
  <2> QED BY <2>2, <2>3
<1> HIDE DEF T
<1>7. 0 .. Len(chain) \subseteq T
  BY <1>2, <1>5, <1>6, UpTo
<1>8. Len(chain) \in T /\ Len(chain) # 0
  BY <1>2, <1>7
<1> QED BY <1>1, <1>8 DEF T, FlushesTo

\* One dictionary has changed.
LEMMA Reviewed ==
    ASSUME NEW h, Ready(h), NEW g \in HeapType, NEW c \in Classes, NEW w, w = View(g, c),
           Else(h, c, g), OwnOf(Views(h), c, w), Linking(w), Learnt(w, c, g.lookup_class),
           Learns(h.lookup_class, g.lookup_class, c, w)
    PROVE  Base(Views(g), g.lookup_class) /\ Agree(Views(h), Views(g), c)
<1>1. Agree(Views(h), Views(g), c)
  BY ViewsIs DEF Agree, Else
<1>2. \A d \in Classes : ViewTyped(Views(h)[d]) /\ ViewTyped(Views(g)[d])
  BY ReadyParts, ViewsIs, ViewType
<1>3. Base(Views(h), h.lookup_class) /\ Views(g)[c] = w
  BY ViewsIs DEF Ready
<1> QED BY <1>1, <1>2, <1>3, BaseKept

\* Whoever reads the table of a whole dictionary reads the dictionary.
Filled(h, c, u, v, g) ==
    /\ g.storage[u].invalid = FALSE /\ g.storage[u].methoddict = v.methods
    /\ Learns(h.lookup_class, g.lookup_class, c, v)
    /\ \A k \in Selectors : v.methods[k] # Nil => g.lookup_class[v.methods[k]] = c
    /\ g.error = h.error

LEMMA FilledTable ==
    ASSUME NEW h, NEW c, NEW u, NEW g, NEW v, ViewTyped(v), Whole(v, {}),
           \A k \in Selectors : v.methods[k] # Nil => k \in v.keys,
           FillsTable(h, c, u, v.keys, v.methods, g)
    PROVE  Filled(h, c, u, v, g)
<1>1. v.keys \subseteq Selectors /\ v.methods \in [Selectors -> Methods \cup {Nil}]
  BY DEF ViewTyped
<1>2. /\ g.storage[u].invalid = FALSE
      /\ g.storage[u].methoddict = TableWith(v.keys, v.methods)
      /\ g.lookup_class = ClassesWith(h.lookup_class, c, v.keys, v.methods)
      /\ g.error = h.error
  BY DEF FillsTable, Whole
<1>3. TableWith(v.keys, v.methods) = v.methods
  BY <1>1 DEF TableWith
<1>4. Learns(h.lookup_class, g.lookup_class, c, v)
  BY <1>1, <1>2 DEF Learns, ClassesWith
<1>5. ASSUME NEW k \in Selectors, v.methods[k] # Nil PROVE g.lookup_class[v.methods[k]] = c
  BY <1>1, <1>2, <1>5 DEF ClassesWith
<1> QED BY <1>2, <1>3, <1>4, <1>5 DEF Filled

\* A copy of a settled dictionary takes its place.
LEMMA Supplants ==
    ASSUME NEW h, Ready(h), AllSettled(Views(h)), NEW g \in HeapType, NEW c \in Classes,
           NEW v, v = View(h, c), NEW w, w = View(g, c), Else(h, c, g),
           w.keys = v.keys, w.methods = v.methods, Linking(w), Current(w),
           OwnOf(Views(h), c, w), Learnt(w, c, g.lookup_class),
           Learns(h.lookup_class, g.lookup_class, c, w)
    PROVE  Base(Views(g), g.lookup_class) /\ AllSettled(Views(g))
<1>1. Base(Views(g), g.lookup_class) /\ Agree(Views(h), Views(g), c)
  BY Reviewed
<1>2. Settled(w)
  <2>1. Settled(v)
    BY ViewsIs DEF AllSettled
  <2> QED BY <2>1 DEF Settled, Whole
<1>3. AllSettled(Views(g))
  <2> SUFFICES ASSUME NEW d \in Classes PROVE Settled(Views(g)[d])
    BY DEF AllSettled
  <2>1. CASE d = c
    BY <1>2, <2>1, ViewsIs
  <2>2. CASE d # c
    BY <1>1, <2>2 DEF Agree, AllSettled
  <2> QED BY <2>1, <2>2
<1> QED BY <1>1, <1>3

LEMMA SetMethodDictViews ==
    ASSUME NEW h, Ready(h), AllSettled(Views(h)), Attached(h), NEW T, NEW V, Sound(h, T, V),
           NEW c \in Classes, h.made + 2 <= MaxMade,
           NEW g, g = store_w_methoddict(Copy(h, h.w_methoddict[c], Selectors), c, h.made + 1)
    PROVE  Base(Views(g), g.lookup_class) /\ AllSettled(Views(g)) /\ g.error = h.error
<1> PICK v : v = View(h, c)
  OBVIOUS
<1> PICK n : n = h.made + 1
  OBVIOUS
<1> PICK new : new = n + 1
  OBVIOUS
<1> PICK u : u = h.s_methoddict[c]
  OBVIOUS
<1>1. /\ h \in HeapType /\ Shape(h) /\ Owned(h) /\ Base(Views(h), h.lookup_class)
      /\ ViewTyped(v) /\ Shows(v, h, c) /\ Linking(v) /\ OwnOf(Views(h), c, v)
  BY ReadyParts, ViewShows
<1>2. v.object = h.w_methoddict[c] /\ v.known = u /\ v.storage = h.shadow[v.object]
  BY <1>1 DEF Shows, Refers
<1> PICK e : Supplied(h, c, n, new, u, e, g)
  BY <1>1, SetMethodDictGives
<1>3. /\ n \in Ids /\ n \notin Made(h) /\ new \in Ids /\ new \notin Made(h) /\ n # new
      /\ e \in HeapType /\ g \in HeapType /\ SameObjects(e, g) /\ g.storage = e.storage
      /\ g.lookup_class = e.lookup_class /\ g.error = e.error
      /\ SuppliedLinks(h, c, n, new, e) /\ SuppliedStorages(h, c, n, new, u, e)
      /\ FillsTable(h, c, new, h.storage[h.shadow[h.w_methoddict[c]]].names,
                    PartOf(h, h.w_methoddict[c], Selectors), e)
  BY DEF Supplied
<1>4. /\ h.storage[h.shadow[h.w_methoddict[c]]].names = v.keys
      /\ PartOf(h, h.w_methoddict[c], Selectors) = v.methods
  <2>1. v.methods \in [Selectors -> Methods \cup {Nil}]
    BY <1>1 DEF ViewTyped
  <2>2. /\ v.keys = h.storage[h.shadow[h.w_methoddict[c]]].names
        /\ v.methods = h.array[h.storage[h.shadow[h.w_methoddict[c]]].w_values]
    BY <1>1, <1>2, Zenon DEF Shows, ShowsDictionary
  <2> QED BY <2>1, <2>2, Zenon DEF PartOf
<1>5. Whole(v, {}) /\ \A k \in Selectors : v.methods[k] # Nil => k \in v.keys
  BY <1>1, ViewsIs DEF AllSettled, Settled, Linking
<1>6. Filled(h, c, new, v, e)
  BY <1>1, <1>3, <1>4, <1>5, FilledTable
<1>7. /\ g.shadow = e.shadow /\ g.array = e.array /\ g.dependent = e.dependent
      /\ g.w_methoddict = e.w_methoddict /\ g.s_methoddict = e.s_methoddict
  BY <1>3 DEF SameObjects
<1>8. Made(h) \subseteq Ids
  BY <1>1, MadeFacts
<1>9. Leaves(h, c, v, {}, g)
  <2>1. \A d \in Classes : d # c => /\ g.w_methoddict[d] = h.w_methoddict[d]
                                   /\ g.s_methoddict[d] = h.s_methoddict[d]
    BY <1>3, <1>7, SMTT(30) DEF SuppliedLinks
  <2>2. \A i \in Made(h) : g.shadow[i] = h.shadow[i]
    BY <1>3, <1>7, <1>8, Zenon DEF SuppliedLinks
  <2>3. \A i \in Made(h) : g.array[i] = h.array[i] /\ g.dependent[i] = h.dependent[i]
    BY <1>3, <1>7, <1>8, Zenon DEF SuppliedLinks
  <2>4. \A i \in Made(h) : i # u => g.storage[i] = h.storage[i]
    <3>1. \A s \in Ids : s # n /\ s # new /\ s # u => e.storage[s] = h.storage[s]
      BY <1>3, Zenon DEF SuppliedStorages
    <3>2. g.storage = e.storage
      BY <1>3
    <3> QED BY <3>1, <3>2, <1>3, <1>8
  <2> QED BY <1>2, <2>1, <2>2, <2>3, <2>4 DEF Leaves
<1>10. Else(h, c, g)
  BY <1>9, LeavesElse
<1> PICK w : w = View(g, c)
  OBVIOUS
<1>11. Shows(w, g, c)
  BY ViewShows
<1>12. w.object = n /\ w.storage = new /\ w.known = new
  <2>1. g.w_methoddict[c] = n /\ g.shadow[n] = new /\ g.s_methoddict[c] = new
    BY <1>3, <1>7 DEF SuppliedLinks
  <2> QED BY <2>1, <1>11 DEF Shows, Refers
<1> PICK y : y = g.storage[new]
  OBVIOUS
<1>13. ShowsDictionary(w, y, g) /\ ShowsTable(w, y)
  BY <1>11, <1>12 DEF Shows
<1>14. y.is_methoddict /\ y.w_self = n /\ y.w_values = n /\ y.names = v.keys
  BY <1>3, <1>4 DEF SuppliedStorages
<1>15. w.is_methoddict
  BY <1>13, <1>14, Zenon DEF ShowsDictionary
<1>16. w.keys = v.keys /\ w.values = n
  BY <1>13, <1>14, Zenon DEF ShowsDictionary
<1>17. w.methods = v.methods /\ w.dependent = new
  BY <1>3, <1>4, <1>7, <1>13, <1>16 DEF ShowsDictionary, SuppliedLinks
<1>18. w.w_self = n /\ w.w_values = n
  BY <1>13, <1>14, Zenon DEF ShowsTable
<1>19. w.invalid = FALSE /\ w.methoddict = v.methods
  BY <1>3, <1>6, <1>13, Zenon DEF Filled, ShowsTable
<1>20. InUse(w) /\ Linking(w) /\ Current(w)
  BY <1>5, <1>12, <1>15, <1>16, <1>17, <1>18, <1>19 DEF InUse, Linking, Current
<1>21. OwnOf(Views(h), c, w)
  <2> SUFFICES ASSUME NEW d \in Classes, d # c, NEW x, x = View(h, d)
               PROVE  /\ n # x.object /\ new # x.storage /\ n # x.values
                      /\ \A j, k \in Selectors : v.methods[j] = x.methods[k]
                                                    => v.methods[j] = Nil
    BY <1>12, <1>16, <1>17, ViewsIs DEF OwnOf
  <2>1. x.object \in Made(h) /\ x.storage \in Made(h) /\ x.values \in Made(h)
    BY <1>1, ViewMade
  <2> QED BY <1>1, <1>3, <2>1, ViewsIs DEF OwnOf
<1>22. Learnt(w, c, g.lookup_class) /\ Learns(h.lookup_class, g.lookup_class, c, w)
       /\ g.error = h.error
  BY <1>3, <1>6, <1>17, ZenonT(40) DEF Learnt, Learns, Filled
<1> QED BY <1>3, <1>10, <1>16, <1>17, <1>20, <1>21, <1>22, Supplants

\* A copy of a dictionary of h, which is b then.
CopiedFor(h, v, n, b) ==
    /\ n = h.made + 1 /\ n \in Ids /\ n \notin Made(h) /\ b.made = n
    /\ \A i \in Made(h) : /\ b.shadow[i] = h.shadow[i] /\ b.storage[i] = h.storage[i]
                          /\ b.array[i] = h.array[i] /\ b.dependent[i] = h.dependent[i]
    /\ SameRest(h, b)
    /\ b.storage[n].names = v.keys /\ b.storage[n].w_values = n
    /\ b.array[n] = v.methods /\ b.dependent[n] = Nil
    /\ b.storage[n].is_methoddict = FALSE

LEMMA CopyForGrow ==
    ASSUME NEW h, Ready(h), NEW c \in Classes, NEW v, v = View(h, c),
           h.made + 1 <= MaxMade, NEW n, n = h.made + 1, NEW b, b = Copy(h, v.object, Selectors)
    PROVE  CopiedFor(h, v, n, b)
<1>1. /\ h \in HeapType /\ Shape(h) /\ ViewTyped(v) /\ Shows(v, h, c)
      /\ Made(h) \subseteq Ids /\ n \notin Made(h) /\ n \in Ids
  BY ReadyParts, ViewShows, MadeFacts
<1> PICK o \in Ids : o = v.object
  BY <1>1 DEF ViewTyped
<1>2. CopyGives(h, o, Selectors, n, b)
  BY <1>1, CopyFacts
<1>3. /\ v.keys = h.storage[h.shadow[o]].names
      /\ v.methods = h.array[h.storage[h.shadow[o]].w_values]
  BY <1>1, Zenon DEF Shows, Refers, ShowsDictionary
<1>4. v.keys \subseteq Selectors /\ v.methods \in [Selectors -> Methods \cup {Nil}]
  BY <1>1 DEF ViewTyped
<1>5. b.storage[n].names = v.keys
  <2>1. b.storage[n].names = h.storage[h.shadow[o]].names \cap Selectors
    BY <1>2 DEF CopyGives
  <2> QED BY <2>1, <1>3, <1>4, Zenon
<1>6. b.array[n] = v.methods
  <2>1. PartOf(h, o, Selectors) = v.methods
    BY <1>3, <1>4, Zenon DEF PartOf
  <2>2. b.array = [h.array EXCEPT ![n] = v.methods]
    BY <1>2, <2>1 DEF CopyGives
  <2>3. DOMAIN h.array = Ids
    BY <1>1, HeapFields
  <2> QED BY <1>1, <2>2, <2>3
<1>7. b.storage[n].is_methoddict = FALSE
  <2>1. h.storage[n].is_methoddict = FALSE
    <3>1. h.storage[n] \in Storage /\ ~ h.storage[n].is_methoddict
      BY <1>1, HeapFields DEF Shape
    <3> PICK x \in Storage : x = h.storage[n]
      BY <3>1
    <3>2. x.is_methoddict \in BOOLEAN /\ ~ x.is_methoddict
      BY <3>1 DEF Storage
    <3> QED BY <3>2, Zenon
  <2>2. b.storage[n].is_methoddict = h.storage[n].is_methoddict
    BY <1>2 DEF CopyGives
  <2> QED BY <2>1, <2>2, Zenon
<1>8. \A i \in Made(h) : /\ b.shadow[i] = h.shadow[i] /\ b.storage[i] = h.storage[i]
                         /\ b.array[i] = h.array[i] /\ b.dependent[i] = h.dependent[i]
  <2>1. DOMAIN h.shadow = Ids /\ DOMAIN h.array = Ids
    BY <1>1, HeapFields
  <2>2. /\ b.shadow = [h.shadow EXCEPT ![n] = n] /\ b.dependent = h.dependent
        /\ b.array = [h.array EXCEPT ![n] = PartOf(h, o, Selectors)]
    BY <1>2 DEF CopyGives
  <2>3. \A i \in Ids : i # n => b.storage[i] = h.storage[i]
    BY <1>2, Zenon DEF CopyGives
  <2> QED BY <1>1, <2>1, <2>2, <2>3
<1>9. b.dependent[n] = Nil
  BY <1>1, <1>2, SMTT(30) DEF CopyGives, Shape
<1>10. SameRest(h, b) /\ b.storage[n].w_values = n /\ b.made = n
  BY <1>2, Zenon DEF CopyGives
<1> QED BY <1>1, <1>5, <1>6, <1>7, <1>8, <1>9, <1>10 DEF CopiedFor

\* What grow does: the copy is the dictionary of c then, and no table is the worse for it.
Grown(h, c, g) ==
    /\ Base(Views(g), g.lookup_class) /\ AllSettled(Views(g)) /\ g.error = h.error
    /\ \A d \in Classes : View(g, d).object = View(h, d).object

LEMMA GrownIs ==
    ASSUME NEW h, Ready(h), AllSettled(Views(h)), NEW g \in HeapType, NEW c \in Classes,
           NEW v, v = View(h, c), NEW w, w = View(g, c), Else(h, c, g), g.error = h.error,
           NEW n, n \notin Made(h), w.object = v.object, w.storage = n, w.values = n,
           w.keys = v.keys, w.methods = v.methods, w.is_methoddict = FALSE,
           w.known # n, w.w_self = v.object, w.invalid = FALSE,
           w.dependent \in {Nil, w.known}, w.dependent = w.known => w.w_values = n,
           Learns(h.lookup_class, g.lookup_class, c, w)
    PROVE  Grown(h, c, g)
<1>1. /\ Shape(h) /\ Linking(v) /\ OwnOf(Views(h), c, v)
  BY ReadyParts
<1>2. ~ InUse(w) /\ Linking(w) /\ Current(w) /\ Learnt(w, c, g.lookup_class)
  BY <1>1 DEF InUse, Linking, Current, Learnt
<1>3. OwnOf(Views(h), c, w)
  <2> SUFFICES ASSUME NEW d \in Classes, d # c, NEW x, x = View(h, d)
               PROVE  /\ v.object # x.object /\ n # x.storage /\ n # x.values
                      /\ \A j, k \in Selectors : v.methods[j] = x.methods[k]
                                                    => v.methods[j] = Nil
    BY ViewsIs DEF OwnOf
  <2>1. x.storage \in Made(h) /\ x.values \in Made(h)
    BY <1>1, ViewMade
  <2> QED BY <1>1, <2>1, ViewsIs DEF OwnOf
<1>4. Base(Views(g), g.lookup_class) /\ AllSettled(Views(g))
  BY <1>2, <1>3, Supplants
<1>5. \A d \in Classes : View(g, d).object = View(h, d).object
  BY DEF Else
<1> QED BY <1>4, <1>5 DEF Grown

LEMMA GrowPlainViews ==
    ASSUME NEW h, Ready(h), AllSettled(Views(h)), NEW c \in Classes, NEW v, v = View(h, c),
           ~ InUse(v), NEW n, NEW b \in HeapType, CopiedFor(h, v, n, b),
           NEW g, PlainExchanged(b, v.object, n, v.storage, g)
    PROVE  Grown(h, c, g)
<1>1. /\ h \in HeapType /\ Shape(h) /\ ViewTyped(v) /\ Shows(v, h, c) /\ Linking(v)
      /\ Made(h) \subseteq Ids /\ v.object \in Made(h) /\ v.storage \in Made(h)
      /\ v.known \in Made(h) /\ n \notin Made(h) /\ n \in Ids
  BY ReadyParts, ViewShows, ViewMade, MadeFacts DEF CopiedFor
<1>2. /\ g \in HeapType /\ SameRest(b, g) /\ SameRest(h, b)
      /\ g.array = b.array /\ g.dependent = b.dependent
      /\ g.shadow[v.object] = n
      /\ \A i \in Ids : i # v.object /\ i # n => g.shadow[i] = b.shadow[i]
  BY DEF PlainExchanged, CopiedFor
<1>3. /\ \A u \in Ids : u # v.storage /\ u # n => g.storage[u] = b.storage[u]
      /\ g.storage[n] = [b.storage[n] EXCEPT !.w_self = v.object]
  BY DEF PlainExchanged
<1>4. \A i \in Made(h) : /\ b.shadow[i] = h.shadow[i] /\ b.storage[i] = h.storage[i]
                         /\ b.array[i] = h.array[i] /\ b.dependent[i] = h.dependent[i]
  BY DEF CopiedFor
<1>5. /\ g.w_methoddict = h.w_methoddict /\ g.s_methoddict = h.s_methoddict
      /\ g.error = h.error /\ g.lookup_class = h.lookup_class
  BY <1>2 DEF SameRest
<1>6. Leaves(h, c, v, {}, g)
  <2>1. \A i \in Made(h) : i # v.object => g.shadow[i] = h.shadow[i]
    BY <1>1, <1>2, <1>4
  <2>2. \A i \in Made(h) : i # v.storage => g.storage[i] = h.storage[i]
    BY <1>1, <1>3, <1>4
  <2>3. \A i \in Made(h) : g.array[i] = h.array[i] /\ g.dependent[i] = h.dependent[i]
    BY <1>2, <1>4
  <2> QED BY <1>5, <2>1, <2>2, <2>3 DEF Leaves
<1>7. Else(h, c, g)
  BY <1>6, LeavesElse
<1> PICK w : w = View(g, c)
  OBVIOUS
<1>8. Shows(w, g, c)
  BY ViewShows
<1>9. w.object = v.object /\ w.storage = n /\ w.known = v.known
  BY <1>1, <1>2, <1>5, <1>8 DEF Shows, Refers
<1> PICK y : y = g.storage[n]
  OBVIOUS
<1>10. y.names = v.keys /\ y.w_values = n /\ y.is_methoddict = FALSE
  <2> PICK x \in Storage : x = b.storage[n]
    BY <1>1, HeapFields DEF CopiedFor
  <2>1. y = [x EXCEPT !.w_self = v.object]
    BY <1>3
  <2>2. y.names = x.names /\ y.w_values = x.w_values /\ y.is_methoddict = x.is_methoddict
    BY <2>1 DEF Storage
  <2>3. x.names = v.keys /\ x.w_values = n /\ x.is_methoddict = FALSE
    BY Zenon DEF CopiedFor
  <2> QED BY <2>2, <2>3, Zenon
<1>11. ShowsDictionary(w, y, g)
  BY <1>8, <1>9 DEF Shows
<1>12. w.keys = v.keys /\ w.values = n /\ w.is_methoddict = FALSE
  BY <1>10, <1>11, Zenon DEF ShowsDictionary
<1>13. w.methods = v.methods /\ w.dependent = Nil
  <2>1. b.array[n] = v.methods /\ b.dependent[n] = Nil
    BY Zenon DEF CopiedFor
  <2> QED BY <2>1, <1>2, <1>11, <1>12 DEF ShowsDictionary
<1>14. w.w_self = v.object /\ w.invalid = FALSE
  <2>1. g.storage[v.known] = h.storage[v.known]
    BY <1>1, <1>3, <1>4 DEF InUse
  <2>2. w.w_self = v.w_self /\ w.invalid = v.invalid
    BY <2>1, <1>1, <1>8, <1>9 DEF Shows, ShowsTable
  <2>3. v.w_self = v.object /\ v.invalid = FALSE
    BY <1>1 DEF Linking
  <2> QED BY <2>2, <2>3
<1>15. w.known # n /\ w.dependent # w.known
  BY <1>1, <1>9, <1>13, MadeFacts
<1>16. Learns(h.lookup_class, g.lookup_class, c, w)
  BY <1>5 DEF Learns
<1> QED BY <1>1, <1>2, <1>5, <1>7, <1>9, <1>12, <1>13, <1>14, <1>15, <1>16, GrownIs

LEMMA GrowInUseViews ==
    ASSUME NEW h, Ready(h), AllSettled(Views(h)), NEW c \in Classes, NEW v, v = View(h, c),
           InUse(v), NEW n, NEW b, CopiedFor(h, v, n, b), NEW new, new = n + 1, new \in Ids,
           NEW g, Exchanged(b, v.object, n, v.storage, new, g)
    PROVE  Grown(h, c, g)
<1>1. /\ h \in HeapType /\ Shape(h) /\ ViewTyped(v) /\ Shows(v, h, c) /\ Linking(v)
      /\ Made(h) \subseteq Ids /\ v.object \in Made(h) /\ v.storage \in Made(h)
      /\ v.known = v.storage /\ n \notin Made(h) /\ n \in Ids
  BY ReadyParts, ViewShows, ViewMade, MadeFacts DEF CopiedFor, InUse
<1>2. new \notin Made(h) /\ new # n
  <2>1. n = h.made + 1 /\ h.made \in Nat /\ h.made + 2 \notin Made(h)
    BY <1>1, MadeFacts DEF CopiedFor
  <2> QED BY <2>1
<1>3. \A i \in Made(h) : /\ b.shadow[i] = h.shadow[i] /\ b.storage[i] = h.storage[i]
                         /\ b.array[i] = h.array[i] /\ b.dependent[i] = h.dependent[i]
  BY DEF CopiedFor
<1>4. /\ b.w_methoddict = h.w_methoddict /\ b.s_methoddict = h.s_methoddict
      /\ b.error = h.error /\ b.lookup_class = h.lookup_class
  BY DEF SameRest, CopiedFor
<1>5. b.storage[v.storage].s_class = c
  <2>1. h.storage[v.known].s_class = c
    <3>1. Owned(h) /\ v.known = h.s_methoddict[c]
      BY <1>1 DEF Ready, Shows, Refers
    <3>2. \A s \in Ids : (h.storage[s].s_class = c) <=> (h.s_methoddict[c] = s)
      BY <3>1, Zenon DEF Owned
    <3>3. v.known \in Ids
      BY <1>1
    <3> QED BY <3>1, <3>2, <3>3
  <2> QED BY <2>1, <1>1, <1>3
<1>6. /\ g \in HeapType /\ g.shadow[v.object] = n
      /\ \A i \in Ids : i # v.object /\ i # n => g.shadow[i] = b.shadow[i]
      /\ g.dependent[n] = new /\ \A i \in Ids : i # n => g.dependent[i] = b.dependent[i]
  BY Zenon DEF Exchanged
<1>7. g.array = b.array /\ g.w_methoddict = b.w_methoddict
  BY Zenon DEF Exchanged
<1>8. \A z \in Classes : g.s_methoddict[z] = IF c = z THEN new ELSE b.s_methoddict[z]
  BY <1>5 DEF Exchanged
<1>9. \A u \in Ids : u # v.storage /\ u # new => g.storage[u] = b.storage[u]
  BY Zenon DEF Exchanged
<1>10. g.storage[new].w_self = v.object /\ g.storage[new].w_values = n
  BY Zenon DEF Exchanged
<1>11. Filled(b, c, new, v, g)
  <2>1. FillsTable(b, c, new, b.storage[n].names, b.array[n], g)
    BY <1>5, Zenon DEF Exchanged
  <2>2. b.storage[n].names = v.keys /\ b.array[n] = v.methods
    BY Zenon DEF CopiedFor
  <2>3. Whole(v, {}) /\ \A k \in Selectors : v.methods[k] # Nil => k \in v.keys
    BY <1>1, ViewsIs DEF AllSettled, Settled, Linking
  <2> QED BY <1>1, <2>1, <2>2, <2>3, FilledTable
<1>12. Leaves(h, c, v, {}, g)
  <2>1. \A i \in Made(h) : i # v.object => g.shadow[i] = h.shadow[i]
    BY <1>1, <1>3, <1>6
  <2>2. \A i \in Made(h) : i # v.storage => g.storage[i] = h.storage[i]
    BY <1>1, <1>2, <1>3, <1>9
  <2>3. \A i \in Made(h) : g.array[i] = h.array[i] /\ g.dependent[i] = h.dependent[i]
    BY <1>1, <1>3, <1>6, <1>7
  <2>4. \A d \in Classes : d # c => /\ g.w_methoddict[d] = h.w_methoddict[d]
                                    /\ g.s_methoddict[d] = h.s_methoddict[d]
    BY <1>4, <1>7, <1>8
  <2> QED BY <2>1, <2>2, <2>3, <2>4 DEF Leaves
<1>13. Else(h, c, g)
  BY <1>12, LeavesElse
<1> PICK w : w = View(g, c)
  OBVIOUS
<1>14. Shows(w, g, c)
  BY ViewShows
<1>15. w.object = v.object /\ w.storage = n /\ w.known = new
  <2>1. /\ w.object = g.w_methoddict[c] /\ w.storage = g.shadow[w.object]
        /\ w.known = g.s_methoddict[c]
    BY <1>14, Zenon DEF Shows, Refers
  <2>2. g.w_methoddict[c] = v.object
    BY <1>1, <1>4, <1>7 DEF Shows, Refers
  <2> QED BY <2>1, <2>2, <1>6, <1>8
<1> PICK y : y = g.storage[n]
  OBVIOUS
<1>16. y.names = v.keys /\ y.w_values = n /\ y.is_methoddict = FALSE
  <2>1. y = b.storage[n]
    BY <1>1, <1>2, <1>9
  <2> QED BY <2>1, Zenon DEF CopiedFor
<1>17. ShowsDictionary(w, y, g) /\ ShowsTable(w, g.storage[new])
  BY <1>14, <1>15 DEF Shows
<1>18. w.keys = v.keys /\ w.values = n /\ w.is_methoddict = FALSE
  BY <1>16, <1>17, Zenon DEF ShowsDictionary
<1>19. w.methods = v.methods /\ w.dependent = new
  <2>1. b.array[n] = v.methods
    BY Zenon DEF CopiedFor
  <2> QED BY <2>1, <1>6, <1>7, <1>17, <1>18 DEF ShowsDictionary
<1>20. w.w_self = v.object /\ w.w_values = n
  BY <1>10, <1>17, Zenon DEF ShowsTable
<1>21. w.invalid = FALSE
  BY <1>11, <1>17, Zenon DEF ShowsTable, Filled
<1>22. Learns(h.lookup_class, g.lookup_class, c, w) /\ g.error = h.error
  BY <1>4, <1>11, <1>19 DEF Filled, Learns
<1>23. /\ g \in HeapType /\ w.object = v.object /\ w.storage = n /\ w.values = n
       /\ w.keys = v.keys /\ w.methods = v.methods /\ w.is_methoddict = FALSE
       /\ w.known # n /\ w.w_self = v.object /\ w.invalid = FALSE
       /\ w.dependent \in {Nil, w.known} /\ (w.dependent = w.known => w.w_values = n)
  BY <1>2, <1>6, <1>15, <1>18, <1>19, <1>20, <1>21, Zenon
<1> QED BY <1>1, <1>13, <1>22, <1>23, GrownIs

LEMMA GrowViews ==
    ASSUME NEW h, Ready(h), AllSettled(Views(h)), Attached(h), NEW T, NEW V, Sound(h, T, V),
           NEW c \in Classes, NEW o \in T, o = View(h, c).object, h.made + 2 <= MaxMade,
           NEW n, n = h.made + 1, NEW g, g = become(Copy(h, o, Selectors), o, n)
    PROVE  Grown(h, c, g)
<1> PICK v : v = View(h, c)
  OBVIOUS
<1> PICK b : b = Copy(h, o, Selectors)
  OBVIOUS
<1>1. /\ h \in HeapType /\ ViewTyped(v) /\ Shows(v, h, c) /\ Linking(v)
      /\ v.object \in Made(h) /\ v.storage \in Made(h)
      /\ h.made \in Nat /\ h.made + 1 <= MaxMade /\ h.made + 2 \in Ids
  BY ReadyParts, ViewShows, ViewMade, MadeFacts
<1>2. CopiedFor(h, v, n, b)
  BY <1>1, CopyForGrow
<1>3. Fresh(b, T, V, o, n) /\ SameRest(h, b)
  BY <1>1, CopyFresh
<1>4. b.shadow[o] = v.storage /\ b.storage[v.storage] = h.storage[v.storage]
  BY <1>1, <1>2 DEF CopiedFor, Shows, Refers
<1>5. v.is_methoddict = b.storage[v.storage].is_methoddict
  BY <1>1, <1>4 DEF Shows, ShowsDictionary
<1>6. CASE ~ InUse(v)
  <2>1. ~ b.storage[v.storage].is_methoddict
    <3>1. v.is_methoddict = FALSE
      BY <1>1, <1>6 DEF Linking
    <3> QED BY <3>1, <1>5
  <2>2. PlainExchanged(b, o, n, v.storage, g)
    BY <1>3, <1>4, <2>1, PlainExchangeFacts
  <2> QED BY <1>2, <1>3, <1>6, <2>2, GrowPlainViews DEF Fresh
<1>7. CASE InUse(v)
  <2>1. b.storage[v.storage].is_methoddict
    BY <1>1, <1>5, <1>7 DEF Linking
  <2> PICK new : new = n + 1
    OBVIOUS
  <2>2. b.made = n /\ b.made + 1 <= MaxMade /\ new \in Ids
    BY <1>1, <1>2, MadeFacts DEF CopiedFor
  <2>3. Attached(b)
    BY <1>3, SameAttached DEF SameRest
  <2>4. Exchanged(b, o, n, v.storage, new, g)
    BY <1>3, <1>4, <2>1, <2>2, <2>3, ExchangeFacts
  <2> QED BY <1>2, <1>7, <2>2, <2>4, GrowInUseViews
<1> QED BY <1>6, <1>7

\* Nothing of it changes with the superclasses or with what is compiled.
LEMMA SameViews ==
    ASSUME NEW h, NEW g, g.shadow = h.shadow, g.storage = h.storage, g.array = h.array,
           g.dependent = h.dependent, g.w_methoddict = h.w_methoddict,
           g.s_methoddict = h.s_methoddict
    PROVE  Views(g) = Views(h)
BY DEF Views, View

LEMMA SetSuperclassViews ==
    ASSUME NEW h \in HeapType, NEW c \in Classes, NEW super \in Classes \cup {Nil},
           NEW g, g = store_w_superclass(h, c, super)
    PROVE  Views(g) = Views(h) /\ g.lookup_class = h.lookup_class /\ g.error = h.error
<1> PICK old \in Classes \cup {Nil} : old = h.s_superclass[c]
  BY HeapFields DEF Supers
<1> DEFINE P == [h.s_superclass EXCEPT ![c] = super]
           B == [d \in Classes |-> IF d = super THEN h.subclass_s[d] \cup {c}
                                   ELSE IF d = old THEN h.subclass_s[d] \ {c}
                                   ELSE h.subclass_s[d]]
           f == [h EXCEPT !.s_superclass = P, !.subclass_s = B]
<1>1. h.s_superclass \in Supers /\ h.subclass_s \in Subs
  BY HeapFields
<1>2. P \in Supers /\ B \in Subs
  BY <1>1 DEF Supers, Subs
<1>3. g = changed(f, c)
  <2>1. g = changed([h EXCEPT !.s_superclass[c] = super, !.subclass_s = B], c)
    BY DEF store_w_superclass
  <2> HIDE DEF B
  <2>2. [h EXCEPT !.s_superclass[c] = super, !.subclass_s = B] = f
    BY DEF HeapType
  <2> QED BY <2>1, <2>2
<1> HIDE DEF P, B
<1>4. f \in HeapType
  BY <1>2 DEF HeapType, Supers, Subs
<1>5. /\ f.shadow = h.shadow /\ f.storage = h.storage /\ f.array = h.array
      /\ f.dependent = h.dependent /\ f.w_methoddict = h.w_methoddict
      /\ f.s_methoddict = h.s_methoddict /\ f.lookup_class = h.lookup_class
      /\ f.error = h.error
  BY DEF HeapType
<1> HIDE DEF f
<1>6. ChangesTo(f, c, g)
  BY <1>3, <1>4, ChangedFacts
<1>7. /\ g.shadow = f.shadow /\ g.storage = f.storage /\ g.array = f.array
      /\ g.dependent = f.dependent /\ g.w_methoddict = f.w_methoddict
      /\ g.s_methoddict = f.s_methoddict /\ g.lookup_class = f.lookup_class
      /\ g.error = f.error
  BY <1>6 DEF ChangesTo, SameObjects
<1> QED BY <1>5, <1>7, SameViews

-----------------------------------------------------------------------------
(* The phases of a change *)

\* From the i-th on, all steps of pd flush, or grow the dictionary of a class.
Closing(V, pd, i) ==
    \A j \in i .. Len(pd) :
        \/ pd[j].call = "flush"
        \/ pd[j].call = "grow" /\ \E c \in Classes : pd[j].o = V[c].object

\* The method m is in no dictionary but that of c.
New(V, c, m) == \A d \in Classes : d # c => \A j \in Selectors : V[d].methods[j] # m

\* The tables are what the dictionaries say.
Resting(V, pd) == AllSettled(V) /\ Closing(V, pd, 1)

\* A new key and then its method are to be stored.
Naming(V, pd, c, k, m) ==
    /\ Len(pd) >= 2 /\ pd[1] = Call("name", V[c].object, k, Nil)
    /\ pd[2] = Call("value", V[c].object, k, m) /\ Closing(V, pd, 3)
    /\ AllSettled(V) /\ New(V, c, m)

Valuing(V, pd, c, k, m) ==
    /\ Len(pd) >= 1 /\ pd[1] = Call("value", V[c].object, k, m) /\ Closing(V, pd, 2)
    /\ OthersSettled(V, c) /\ New(V, c, m) /\ Whole(V[c], {k}) /\ k \in V[c].keys

\* The method of a key is to be replaced; the flush before it has nothing to do.
Replacing(V, pd, c, k, m) ==
    /\ Len(pd) >= 2 /\ pd[1].call = "flush"
    /\ pd[2] = Call("value", V[c].object, k, m) /\ Closing(V, pd, 3)
    /\ AllSettled(V) /\ New(V, c, m) /\ k \in V[c].keys

\* Parts of the dictionary are in the copy x, whose array and keys are to be taken; the
\* flush after that reaches the class.
Flushing(V, L, st, c) == st.call = "flush" /\ (InUse(V[c]) => L[st.v] = c)

CopyOf(h, v, x) ==
    /\ h.storage[x].w_values = x
    /\ \A k \in Selectors :
          /\ k \in h.storage[x].names <=> h.array[x][k] # Nil
          /\ h.array[x][k] # Nil => h.array[x][k] = v.methods[k]

CopyingValues(h, V, pd, c, x) ==
    /\ Len(pd) = 3 /\ pd[1] = Call("values", V[c].object, Nil, x)
    /\ pd[2] = Call("names", V[c].object, Nil, x) /\ Flushing(V, h.lookup_class, pd[3], c)
    /\ AllSettled(V) /\ CopyOf(h, V[c], x) /\ \A d \in Classes : V[d].values # x

CopyingNames(h, V, pd, c, x) ==
    /\ Len(pd) = 2 /\ pd[1] = Call("names", V[c].object, Nil, x)
    /\ Flushing(V, h.lookup_class, pd[2], c) /\ OthersSettled(V, c)
    /\ \A k \in Selectors : k \in h.storage[x].names <=> V[c].methods[k] # Nil

\* The keys and the methods fit; the table is copied by the flush.
Updating(V, L, pd, c) ==
    /\ Len(pd) = 1 /\ Flushing(V, L, pd[1], c)
    /\ OthersSettled(V, c) /\ Whole(V[c], {}) /\ (InUse(V[c]) => V[c].invalid = TRUE)

Adding(V, pd) ==
    \E c \in Classes, k \in Selectors, m \in Methods :
        Naming(V, pd, c, k, m) \/ Valuing(V, pd, c, k, m) \/ Replacing(V, pd, c, k, m)
Removing(h, V, pd) ==
    \/ \E c \in Classes, x \in Ids : CopyingValues(h, V, pd, c, x) \/ CopyingNames(h, V, pd, c, x)
    \/ \E c \in Classes : Updating(V, h.lookup_class, pd, c)

Phase(h, V, pd) == Resting(V, pd) \/ Adding(V, pd) \/ Removing(h, V, pd)

\* The invariant for the changes pd of the one updater.
Now(h, pd) == h.error = Nil /\ Base(Views(h), h.lookup_class) /\ Phase(h, Views(h), pd)

\* The phases by the next step.
LEMMA PhaseOf ==
    ASSUME NEW h, NEW V, NEW pd \in Seq(Step), pd # <<>>, Phase(h, V, pd)
    PROVE  /\ pd[1].call = "name" => \E c \in Classes, k \in Selectors, m \in Methods :
                                        Naming(V, pd, c, k, m)
           /\ pd[1].call = "value" => \E c \in Classes, k \in Selectors, m \in Methods :
                                        Valuing(V, pd, c, k, m)
           /\ pd[1].call = "values" => \E c \in Classes, x \in Ids :
                                        CopyingValues(h, V, pd, c, x)
           /\ pd[1].call = "names" => \E c \in Classes, x \in Ids :
                                        CopyingNames(h, V, pd, c, x)
           /\ pd[1].call = "grow" => Resting(V, pd)
           /\ pd[1].call = "flush" =>
                \/ Resting(V, pd)
                \/ \E c \in Classes, k \in Selectors, m \in Methods :
                        Replacing(V, pd, c, k, m)
                \/ \E c \in Classes : Updating(V, h.lookup_class, pd, c)
<1> PICK first : first = pd[1].call
  OBVIOUS
<1>1. Resting(V, pd) => first \in {"flush", "grow"}
  <2>1. 1 \in 1 .. Len(pd)
    OBVIOUS
  <2> QED BY <2>1 DEF Resting, Closing
<1>2. \A c, k, m : /\ Naming(V, pd, c, k, m) => first = "name"
                   /\ Valuing(V, pd, c, k, m) => first = "value"
                   /\ Replacing(V, pd, c, k, m) => first = "flush"
  BY DEF Naming, Valuing, Replacing, Call
<1>3. \A c, x : /\ CopyingValues(h, V, pd, c, x) => first = "values"
                /\ CopyingNames(h, V, pd, c, x) => first = "names"
                /\ Updating(V, h.lookup_class, pd, c) => first = "flush"
  BY DEF CopyingValues, CopyingNames, Updating, Flushing, Call
<1>4. CASE Resting(V, pd)
  BY <1>1, <1>4
<1>5. CASE Adding(V, pd)
  BY <1>2, <1>5, Zenon DEF Adding
<1>6. CASE Removing(h, V, pd)
  BY <1>3, <1>6, Zenon DEF Removing
<1> QED BY <1>4, <1>5, <1>6 DEF Phase

\* The steps after the first.
LEMMA StepsLeft ==
    ASSUME NEW pd \in Seq(Step), pd # <<>>, NEW pe, pe = Tail(pd)
    PROVE  /\ pe \in Seq(Step) /\ Len(pe) = Len(pd) - 1 /\ Len(pd) \in Nat /\ Len(pd) >= 1
           /\ Len(pd) >= 2 => pe[1] = pd[2]
           /\ Len(pd) >= 3 => pe[2] = pd[3]
           /\ \A j \in 1 .. Len(pe) : pe[j] = pd[j + 1]
OBVIOUS

Objectwise(V, W) == \A c \in Classes : W[c].object = V[c].object

LEMMA ClosingLeft ==
    ASSUME NEW pd \in Seq(Step), pd # <<>>, NEW pe, pe = Tail(pd), NEW V, NEW W,
           Objectwise(V, W)
    PROVE  /\ Closing(V, pd, 2) => Closing(W, pe, 1)
           /\ Closing(V, pd, 3) => Closing(W, pe, 2)
<1>1. pe \in Seq(Step) /\ Len(pe) = Len(pd) - 1 /\ Len(pd) \in Nat /\ Len(pd) >= 1
      /\ \A j \in 1 .. Len(pe) : pe[j] = pd[j + 1]
  BY StepsLeft
<1>2. ASSUME NEW i \in {1, 2}, NEW n \in {2, 3}, n = i + 1, Closing(V, pd, n)
      PROVE  Closing(W, pe, i)
  <2> SUFFICES ASSUME NEW j \in i .. Len(pe)
               PROVE  \/ pe[j].call = "flush"
                      \/ pe[j].call = "grow" /\ \E c \in Classes : pe[j].o = W[c].object
    BY DEF Closing
  <2> PICK m \in Nat : m = Len(pd)
    BY <1>1, Zenon
  <2>1. j \in 1 .. (m - 1) /\ j \in i .. (m - 1) /\ Len(pe) = m - 1
    BY <1>1
  <2>2. j + 1 \in n .. m
    BY <1>2, <2>1
  <2>3. pe[j] = pd[j + 1]
    BY <1>1, <2>1
  <2> QED BY <1>2, <2>2, <2>3 DEF Closing, Objectwise
<1>3. 2 = 1 + 1 /\ 3 = 2 + 1
  OBVIOUS
<1> QED BY <1>2, <1>3

\* A step that changes the dictionary of c at most, in g, and keeps what all phases need.
Turned(h, c, g) ==
    /\ Base(Views(g), g.lookup_class) /\ Agree(Views(h), Views(g), c) /\ g.error = h.error
    /\ Objectwise(Views(h), Views(g))

LEMMA TurnedIs ==
    ASSUME NEW h, Ready(h), NEW g \in HeapType, NEW c \in Classes, NEW w, w = View(g, c),
           Else(h, c, g), OwnOf(Views(h), c, w), Linking(w), Learnt(w, c, g.lookup_class),
           Learns(h.lookup_class, g.lookup_class, c, w), w.object = View(h, c).object,
           g.error = h.error
    PROVE  Turned(h, c, g)
<1>1. Base(Views(g), g.lookup_class) /\ Agree(Views(h), Views(g), c)
  BY Reviewed
<1>2. Objectwise(Views(h), Views(g))
  BY ViewsIs DEF Else, Objectwise
<1> QED BY <1>1, <1>2 DEF Turned

LEMMA OthersStaySettled ==
    ASSUME NEW h, NEW c \in Classes, NEW g, Turned(h, c, g), OthersSettled(Views(h), c)
    PROVE  OthersSettled(Views(g), c)
BY DEF Turned, Agree, OthersSettled

LEMMA SettledAgain ==
    ASSUME NEW V, NEW c \in Classes, OthersSettled(V, c), Settled(V[c])
    PROVE  AllSettled(V)
BY DEF OthersSettled, AllSettled

LEMMA NewStays ==
    ASSUME NEW h, NEW c \in Classes, NEW g, Turned(h, c, g), NEW m, New(Views(h), c, m)
    PROVE  New(Views(g), c, m)
BY DEF Turned, Agree, New

\* Keys are stored that have all the methods.
NamesTurned(h, c, names, v, w, g) ==
    /\ Turned(h, c, g) /\ w.keys = names /\ w.methods = v.methods
    /\ InUse(w) <=> InUse(v)
    /\ InUse(v) => w.invalid = TRUE
    /\ g.lookup_class = h.lookup_class

LEMMA StoresNamesTurns ==
    ASSUME NEW h, Ready(h), NEW g \in HeapType, NEW c \in Classes, NEW v, v = View(h, c),
           NEW names, StoresNames(h, c, names, g),
           \A k \in Selectors : v.methods[k] # Nil => k \in names
    PROVE  NamesTurned(h, c, names, v, View(g, c), g)
<1> PICK w : w = View(g, c)
  OBVIOUS
<1>1. /\ Linking(v) /\ Learnt(v, c, h.lookup_class) /\ OwnOf(Views(h), c, v)
  BY ReadyParts
<1>2. /\ Else(h, c, g) /\ g.error = h.error /\ g.lookup_class = h.lookup_class
      /\ w.object = v.object /\ w.storage = v.storage /\ w.keys = names
      /\ w.values = v.values /\ w.methods = v.methods
      /\ w.dependent = v.dependent /\ w.known = v.known /\ w.w_self = v.w_self
      /\ w.w_values = v.w_values
      /\ w.invalid = IF InUse(v) THEN TRUE ELSE FALSE
  BY Zenon DEF StoresNames
<1>3. w.is_methoddict = v.is_methoddict
  BY Zenon DEF StoresNames
<1>4. InUse(w) <=> InUse(v)
  BY <1>2 DEF InUse
<1>5. Linking(w)
  <2>1. InUse(w) => w.is_methoddict /\ w.dependent = w.known
    BY <1>1, <1>2, <1>3, <1>4, Zenon DEF Linking
  <2>2. ~ InUse(w) => w.is_methoddict = FALSE /\ w.invalid = FALSE
    BY <1>1, <1>2, <1>3, <1>4 DEF Linking
  <2>3. w.w_self = w.object /\ w.dependent \in {Nil, w.known}
        /\ (w.dependent = w.known => w.w_values = w.values)
    BY <1>1, <1>2 DEF Linking
  <2>4. \A k \in Selectors : w.methods[k] # Nil => k \in w.keys
    BY <1>2
  <2> QED BY <2>1, <2>2, <2>3, <2>4, Zenon DEF Linking
<1>6. Learnt(w, c, g.lookup_class) /\ Learns(h.lookup_class, g.lookup_class, c, w)
  BY <1>1, <1>2, <1>4 DEF Learnt, Learns
<1>7. OwnOf(Views(h), c, w)
  BY <1>1, <1>2 DEF OwnOf
<1>8. Turned(h, c, g)
  BY <1>2, <1>5, <1>6, <1>7, TurnedIs
<1>9. InUse(v) => w.invalid = TRUE
  BY <1>2
<1> QED BY <1>2, <1>4, <1>8, <1>9, Zenon DEF NamesTurned

LEMMA NameStep ==
    ASSUME NEW h, Ready(h), h.error = Nil, NEW pd \in Seq(Step), pd # <<>>,
           Phase(h, Views(h), pd), NEW st, st = pd[1], st.call = "name", NEW g \in HeapType,
           g = StoreNames(h, st.o, h.storage[h.shadow[st.o]].names \cup {st.k}),
           NEW pe, pe = Tail(pd)
    PROVE  Now(g, pe)
<1> PICK c \in Classes, k \in Selectors, m \in Methods : Naming(Views(h), pd, c, k, m)
  BY PhaseOf
<1> PICK v : v = View(h, c)
  OBVIOUS
<1>1. Views(h)[c] = v /\ Shows(v, h, c) /\ ViewTyped(v) /\ Linking(v)
  BY ReadyParts, ViewsIs, ViewShows
<1>2. st.o = v.object /\ st.k = k /\ Len(pd) >= 2 /\ pd[2] = Call("value", v.object, k, m)
  BY <1>1 DEF Naming, Call
<1> PICK names : names = v.keys \cup {k}
  OBVIOUS
<1>3. names \in SUBSET Selectors
  BY <1>1 DEF ViewTyped
<1>4. g = StoreNames(h, v.object, names)
  <2>1. h.storage[h.shadow[v.object]].names = v.keys
    BY <1>1, Zenon DEF Shows, Refers, ShowsDictionary
  <2> QED BY <1>2, <2>1
<1>5. StoresNames(h, c, names, g)
  BY <1>3, <1>4, StoreNamesViews, Zenon
<1>6. \A j \in Selectors : v.methods[j] # Nil => j \in names
  BY <1>1 DEF Linking
<1> PICK w : w = View(g, c)
  BY Zenon
<1>7. Turned(h, c, g) /\ w.keys = names /\ w.methods = v.methods /\ Views(g)[c] = w
  <2>1. NamesTurned(h, c, names, v, w, g)
    BY <1>5, <1>6, StoresNamesTurns, Zenon
  <2> QED BY <2>1, ViewsIs, Zenon DEF NamesTurned
<1>8. OthersSettled(Views(h), c) /\ Settled(v) /\ New(Views(h), c, m)
  BY <1>1, Zenon DEF Naming, AllSettled, OthersSettled
<1>9. OthersSettled(Views(g), c) /\ New(Views(g), c, m)
  BY <1>7, <1>8, OthersStaySettled, NewStays, Zenon
<1>10. Whole(w, {k}) /\ k \in w.keys
  BY <1>7, <1>8, Zenon DEF Settled, Whole
<1>11. Len(pe) >= 1 /\ pe[1] = Call("value", w.object, k, m) /\ Closing(Views(g), pe, 2)
  <2>1. Objectwise(Views(h), Views(g))
    BY <1>7, Zenon DEF Turned
  <2>2. Closing(Views(h), pd, 3)
    BY Zenon DEF Naming
  <2>3. Closing(Views(g), pe, 2)
    BY <2>1, <2>2, ClosingLeft, Zenon
  <2>4. Len(pe) >= 1 /\ pe[1] = pd[2]
    BY <1>2, StepsLeft, SMTT(30)
  <2>5. w.object = v.object
    BY <1>1, <1>7, <2>1, Zenon DEF Objectwise
  <2> QED BY <1>2, <2>3, <2>4, <2>5, Zenon
<1>12. Valuing(Views(g), pe, c, k, m)
  BY <1>7, <1>9, <1>10, <1>11, Zenon DEF Valuing
<1> QED BY <1>7, <1>12, Zenon DEF Now, Phase, Adding, Turned

LEMMA ValueStep ==
    ASSUME NEW h, Ready(h), h.error = Nil, NEW pd \in Seq(Step), pd # <<>>,
           Phase(h, Views(h), pd), NEW st, st = pd[1], st.call = "value", NEW g \in HeapType,
           g = StoreInArray(h, h.storage[h.shadow[st.o]].w_values, st.k, st.v),
           NEW pe, pe = Tail(pd)
    PROVE  Now(g, pe)
<1> PICK c \in Classes, k \in Selectors, m \in Methods : Valuing(Views(h), pd, c, k, m)
  BY PhaseOf
<1> PICK v : v = View(h, c)
  OBVIOUS
<1>1. /\ Views(h)[c] = v /\ Shows(v, h, c) /\ ViewTyped(v) /\ Linking(v)
      /\ OwnOf(Views(h), c, v) /\ Learnt(v, c, h.lookup_class)
  BY ReadyParts, ViewsIs, ViewShows
<1>2. st.o = v.object /\ st.k = k /\ st.v = m /\ Len(pd) >= 1
  BY <1>1 DEF Valuing, Call
<1>3. Whole(v, {k}) /\ k \in v.keys /\ OthersSettled(Views(h), c) /\ New(Views(h), c, m)
  BY <1>1, Zenon DEF Valuing
<1>4. g = StoreInArray(h, v.values, k, m)
  <2>1. h.storage[h.shadow[v.object]].w_values = v.values
    BY <1>1, Zenon DEF Shows, Refers, ShowsDictionary
  <2> QED BY <1>2, <2>1
<1>5. StoresMethod(h, c, k, m, g)
  BY <1>3, <1>4, StoreInArrayViews
<1> PICK w : w = View(g, c)
  BY Zenon
<1>6. /\ Else(h, c, g) /\ g.error = h.error /\ MethodAdded(v, w, k, m)
      /\ TableFollows(h.lookup_class, g.lookup_class, c, v, w)
  BY <1>5, Zenon DEF StoresMethod
<1>7. w.is_methoddict = v.is_methoddict
  BY <1>6, Zenon DEF MethodAdded
<1>8. /\ w.object = v.object /\ w.storage = v.storage /\ w.keys = v.keys
      /\ w.values = v.values /\ w.methods = [v.methods EXCEPT ![k] = m]
      /\ w.dependent = v.dependent /\ w.known = v.known /\ w.w_self = v.w_self
      /\ w.w_values = v.w_values
  BY <1>6, Zenon DEF MethodAdded
<1>9. \A j \in Selectors : w.methods[j] = IF j = k THEN m ELSE v.methods[j]
  BY <1>1, <1>8, Zenon DEF ViewTyped
<1>10. InUse(w) <=> InUse(v)
  BY <1>8, Zenon DEF InUse
<1>11. Linking(w)
  <2>1. InUse(w) => w.is_methoddict /\ w.dependent = w.known
    BY <1>1, <1>8, <1>7, <1>10, Zenon DEF Linking
  <2>2. ~ InUse(w) => w.is_methoddict = FALSE /\ w.invalid = FALSE
    <3>1. ~ InUse(v) => v.is_methoddict = FALSE /\ v.invalid = FALSE
      BY <1>1, Zenon DEF Linking
    <3>2. ~ InUse(v) => w.invalid = FALSE
      BY <1>1, <1>6, <1>8, Zenon DEF TableFollows, Linking
    <3> QED BY <3>1, <3>2, <1>7, <1>10, Zenon
  <2>3. w.w_self = w.object /\ w.dependent \in {Nil, w.known}
        /\ (w.dependent = w.known => w.w_values = w.values)
    BY <1>1, <1>8, Zenon DEF Linking
  <2>4. \A j \in Selectors : w.methods[j] # Nil => j \in w.keys
    BY <1>1, <1>3, <1>8, <1>9, Zenon DEF Linking
  <2> QED BY <2>1, <2>2, <2>3, <2>4, Zenon DEF Linking
<1>12. Learnt(w, c, g.lookup_class) /\ Learns(h.lookup_class, g.lookup_class, c, w)
  <2>1. InUse(w) => v.dependent = v.known
    BY <1>1, <1>10, Zenon DEF Linking
  <2>2. Learns(h.lookup_class, g.lookup_class, c, w)
    BY <1>6, Zenon DEF Learns, TableFollows
  <2> QED BY <2>1, <2>2, <1>6, Zenon DEF Learnt, TableFollows
<1>13. OwnOf(Views(h), c, w)
  <2> SUFFICES ASSUME NEW d \in Classes, d # c
               PROVE  /\ w.object # Views(h)[d].object /\ w.storage # Views(h)[d].storage
                      /\ w.values # Views(h)[d].values
                      /\ \A i, j \in Selectors : w.methods[i] = Views(h)[d].methods[j]
                                                    => w.methods[i] = Nil
    BY Zenon DEF OwnOf
  <2>1. \A i, j \in Selectors : v.methods[i] = Views(h)[d].methods[j] => v.methods[i] = Nil
    BY <1>1, Zenon DEF OwnOf
  <2>2. \A j \in Selectors : Views(h)[d].methods[j] # m
    BY <1>3, Zenon DEF New
  <2>3. \A i, j \in Selectors : w.methods[i] = Views(h)[d].methods[j] => w.methods[i] = Nil
    BY <1>9, <2>1, <2>2, ZenonT(40)
  <2> QED BY <1>1, <1>8, <2>3, ZenonT(40) DEF OwnOf
<1>14. Turned(h, c, g)
  BY <1>6, <1>8, <1>11, <1>12, <1>13, TurnedIs, Zenon
<1>15. Settled(w)
  <2>1. Whole(w, {})
    <3> SUFFICES ASSUME NEW j \in w.keys, w.methods[j] = Nil PROVE FALSE
      BY Zenon DEF Whole
    <3>1. j \in v.keys /\ j \in Selectors
      BY <1>1, <1>8, Zenon DEF ViewTyped
    <3>2. CASE j = k
      BY <1>9, <3>2, MethodsAssumption, Zenon
    <3>3. CASE j # k
      BY <1>3, <1>9, <3>1, <3>3, Zenon DEF Whole
    <3> QED BY <3>2, <3>3, Zenon
  <2>2. Current(w)
    BY <1>1, <1>6, <1>10, Zenon DEF Current, Linking, TableFollows
  <2> QED BY <2>1, <2>2, Zenon DEF Settled
<1>16. AllSettled(Views(g))
  BY <1>3, <1>14, <1>15, OthersStaySettled, SettledAgain, ViewsIs, Zenon
<1>17. Closing(Views(g), pe, 1)
  <2>1. Objectwise(Views(h), Views(g))
    BY <1>14, Zenon DEF Turned
  <2>2. Closing(Views(h), pd, 2)
    BY Zenon DEF Valuing
  <2>3. pd \in Seq(Step) /\ pd # <<>> /\ pe = Tail(pd)
    BY Zenon
  <2>4. Closing(Views(h), pd, 2) => Closing(Views(g), pe, 1)
    BY <2>1, <2>3, ClosingLeft, Zenon
  <2> QED BY <2>2, <2>4, Zenon
<1> QED BY <1>14, <1>16, <1>17, Zenon DEF Now, Phase, Resting, Turned

\* The copy's array: nobody else has it.
LEMMA ValuesStep ==
    ASSUME NEW h, Ready(h), h.error = Nil, NEW pd \in Seq(Step), pd # <<>>,
           Phase(h, Views(h), pd), NEW st, st = pd[1], st.call = "values", NEW g \in HeapType,
           h.dependent[st.v] = Nil, g = StoreValues(h, st.o, h.storage[st.v].w_values),
           NEW pe, pe = Tail(pd)
    PROVE  Now(g, pe)
<1> PICK c \in Classes, x \in Ids : CopyingValues(h, Views(h), pd, c, x)
  BY PhaseOf
<1> PICK v : v = View(h, c)
  OBVIOUS
<1>1. /\ Views(h)[c] = v /\ Shows(v, h, c) /\ ViewTyped(v) /\ Linking(v)
      /\ OwnOf(Views(h), c, v) /\ Learnt(v, c, h.lookup_class) /\ h \in HeapType
  BY ReadyParts, ViewsIs, ViewShows
<1>2. /\ st.o = v.object /\ st.v = x /\ Len(pd) = 3
      /\ pd[2] = Call("names", v.object, Nil, x) /\ Flushing(Views(h), h.lookup_class, pd[3], c)
      /\ AllSettled(Views(h)) /\ CopyOf(h, v, x) /\ \A d \in Classes : Views(h)[d].values # x
  BY <1>1 DEF CopyingValues, Call
<1>3. StoresValues(h, c, x, g)
  <2>1. g = StoreValues(h, v.object, x) /\ h.dependent[x] = Nil
    BY <1>2 DEF CopyOf
  <2>2. \A d \in Classes : d # c => View(h, d).values # x
    BY <1>2, ViewsIs
  <2> QED BY <2>1, <2>2, StoreValuesViews
<1> PICK w : w = View(g, c)
  OBVIOUS
<1>4. /\ Else(h, c, g) /\ g.error = h.error /\ g.lookup_class = h.lookup_class
      /\ w.object = v.object /\ w.storage = v.storage /\ w.keys = v.keys
      /\ w.values = x /\ w.methods = h.array[x]
      /\ w.dependent = (IF InUse(v) THEN v.known ELSE Nil)
      /\ w.known = v.known /\ w.w_self = v.w_self
      /\ (InUse(v) => w.w_values = x)
      /\ w.invalid = v.invalid
      /\ \A t \in Ids : g.storage[t].names = h.storage[t].names
  BY <1>3, Zenon DEF StoresValues
<1>5. w.is_methoddict = v.is_methoddict
  BY <1>3, Zenon DEF StoresValues
<1>6. /\ \A k \in Selectors : w.methods[k] # Nil => w.methods[k] = v.methods[k]
      /\ \A k \in Selectors : k \in g.storage[x].names <=> w.methods[k] # Nil
  BY <1>2, <1>4 DEF CopyOf
<1>7. (InUse(w) <=> InUse(v)) /\ v.known # Nil
  <2>1. v.known \in Ids /\ Nil \notin Ids
    BY <1>1, MadeFacts DEF ViewTyped
  <2> QED BY <2>1, <1>4, Zenon DEF InUse
<1>8. Linking(w)
  <2>1. InUse(w) => w.is_methoddict /\ w.dependent = w.known
    <3>1. InUse(v) => v.is_methoddict
      BY <1>1, Zenon DEF Linking
    <3>2. InUse(v) => w.dependent = w.known
      BY <1>4, Zenon
    <3> QED BY <3>1, <3>2, <1>5, <1>7, Zenon
  <2>2. ~ InUse(w) => w.is_methoddict = FALSE /\ w.invalid = FALSE
    BY <1>1, <1>4, <1>5, <1>7, Zenon DEF Linking
  <2>3. w.w_self = w.object /\ w.dependent \in {Nil, w.known}
        /\ (w.dependent = w.known => w.w_values = w.values)
    <3>1. w.dependent = w.known => InUse(v)
      BY <1>4, <1>7, Zenon
    <3>2. v.w_self = v.object
      BY <1>1, Zenon DEF Linking
    <3> QED BY <3>1, <3>2, <1>4, Zenon
  <2>4. \A k \in Selectors : w.methods[k] # Nil => k \in w.keys
    <3>1. \A k \in Selectors : v.methods[k] # Nil => k \in v.keys
      BY <1>1, Zenon DEF Linking
    <3>2. w.keys = v.keys
      BY <1>4, Zenon
    <3>3. \A k \in Selectors : w.methods[k] # Nil => w.methods[k] = v.methods[k]
      BY <1>6, Zenon
    <3> QED BY <3>1, <3>2, <3>3, Zenon
  <2> QED BY <2>1, <2>2, <2>3, <2>4, Zenon DEF Linking
<1>9. Learnt(w, c, g.lookup_class) /\ Learns(h.lookup_class, g.lookup_class, c, w)
  <2>1. Learnt(w, c, g.lookup_class)
    <3> SUFFICES ASSUME InUse(w), NEW k \in Selectors, w.methods[k] # Nil
                 PROVE  g.lookup_class[w.methods[k]] = c
      BY Zenon DEF Learnt
    <3>1. w.methods[k] = v.methods[k] /\ InUse(v)
      BY <1>6, <1>7, Zenon
    <3>2. h.lookup_class[v.methods[k]] = c
      BY <3>1, <1>1 DEF Learnt
    <3> QED BY <3>1, <3>2, <1>4, Zenon
  <2> QED BY <2>1, <1>4, Zenon DEF Learns
<1>10. OwnOf(Views(h), c, w)
  <2> SUFFICES ASSUME NEW d \in Classes, d # c
               PROVE  /\ w.object # Views(h)[d].object /\ w.storage # Views(h)[d].storage
                      /\ w.values # Views(h)[d].values
                      /\ \A i, j \in Selectors : w.methods[i] = Views(h)[d].methods[j]
                                                    => w.methods[i] = Nil
    BY Zenon DEF OwnOf
  <2>1. \A i, j \in Selectors : v.methods[i] = Views(h)[d].methods[j] => v.methods[i] = Nil
    BY <1>1 DEF OwnOf
  <2>2. \A k \in Selectors : w.methods[k] # Nil => w.methods[k] = v.methods[k]
    BY <1>6, Zenon
  <2>3. \A i, j \in Selectors : w.methods[i] = Views(h)[d].methods[j] => w.methods[i] = Nil
    BY <2>1, <2>2, Zenon
  <2> QED BY <1>1, <1>2, <1>4, <2>3, Zenon DEF OwnOf
<1>11. Turned(h, c, g) /\ Views(g)[c] = w
  <2>1. w.object = View(h, c).object
    BY <1>4, Zenon
  <2> QED BY <1>4, <1>8, <1>9, <1>10, <2>1, TurnedIs, ViewsIs, ZenonT(40)
<1>12. OthersSettled(Views(g), c)
  <2>1. OthersSettled(Views(h), c)
    BY <1>2 DEF AllSettled, OthersSettled
  <2> QED BY <2>1, <1>11, OthersStaySettled
<1>13. /\ Len(pe) = 2 /\ pe[1] = Call("names", w.object, Nil, x)
       /\ Flushing(Views(g), g.lookup_class, pe[2], c)
  <2>1. Len(pe) = 2 /\ pe[1] = pd[2] /\ pe[2] = pd[3]
    <3>1. /\ Len(pe) = Len(pd) - 1 /\ (Len(pd) >= 2 => pe[1] = pd[2])
          /\ Len(pd) >= 3 => pe[2] = pd[3]
      BY StepsLeft
    <3>2. Len(pd) = 3
      BY <1>2
    <3>3. 3 - 1 = 2 /\ 3 >= 2 /\ 3 >= 3
      OBVIOUS
    <3> QED BY <3>1, <3>2, <3>3, Zenon
  <2>2. Flushing(Views(g), g.lookup_class, pd[3], c)
    BY <1>1, <1>2, <1>4, <1>7, <1>11 DEF Flushing
  <2> QED BY <2>1, <2>2, <1>2, <1>4
<1>14. CopyingNames(g, Views(g), pe, c, x)
  BY <1>6, <1>11, <1>12, <1>13, Zenon DEF CopyingNames
<1> QED BY <1>11, <1>14, Zenon DEF Now, Phase, Removing, Turned

LEMMA NamesStep ==
    ASSUME NEW h, Ready(h), h.error = Nil, NEW pd \in Seq(Step), pd # <<>>,
           Phase(h, Views(h), pd), NEW st, st = pd[1], st.call = "names", NEW g \in HeapType,
           g = StoreNames(h, st.o, h.storage[st.v].names), NEW pe, pe = Tail(pd)
    PROVE  Now(g, pe)
<1> PICK c \in Classes, x \in Ids : CopyingNames(h, Views(h), pd, c, x)
  BY PhaseOf
<1> PICK v : v = View(h, c)
  OBVIOUS
<1>1. /\ Views(h)[c] = v /\ Shows(v, h, c) /\ ViewTyped(v) /\ Linking(v) /\ h \in HeapType
  BY ReadyParts, ViewsIs, ViewShows
<1>2. /\ st.o = v.object /\ st.v = x /\ Len(pd) = 2
      /\ Flushing(Views(h), h.lookup_class, pd[2], c) /\ OthersSettled(Views(h), c)
      /\ \A k \in Selectors : k \in h.storage[x].names <=> v.methods[k] # Nil
  BY <1>1 DEF CopyingNames, Call
<1> PICK names : names = h.storage[x].names
  OBVIOUS
<1>3. names \in SUBSET Selectors
  <2>1. h.storage[x] \in Storage
    BY <1>1, HeapFields
  <2> QED BY <2>1 DEF Storage
<1> PICK w : w = View(g, c)
  OBVIOUS
<1>4. NamesTurned(h, c, names, v, w, g)
  <2>1. g = StoreNames(h, v.object, names)
    BY <1>2
  <2>2. StoresNames(h, c, names, g)
    BY <1>3, <2>1, StoreNamesViews
  <2> QED BY <1>2, <2>2, StoresNamesTurns
<1>5. /\ Turned(h, c, g) /\ w.keys = names /\ w.methods = v.methods
      /\ InUse(w) <=> InUse(v)
      /\ InUse(v) => w.invalid = TRUE
      /\ g.lookup_class = h.lookup_class
  BY <1>4 DEF NamesTurned
<1>6. Views(g)[c] = w
  BY ViewsIs
<1>7. OthersSettled(Views(g), c)
  BY <1>2, <1>5, OthersStaySettled
<1>8. Whole(w, {}) /\ (InUse(w) => w.invalid = TRUE)
  BY <1>2, <1>3, <1>5 DEF Whole
<1>9. Len(pe) = 1 /\ Flushing(Views(g), g.lookup_class, pe[1], c)
  <2>1. Len(pe) = 1 /\ pe[1] = pd[2]
    <3>1. /\ Len(pe) = Len(pd) - 1 /\ (Len(pd) >= 2 => pe[1] = pd[2])
          /\ Len(pd) >= 3 => pe[2] = pd[3]
      BY StepsLeft
    <3>2. Len(pd) = 2
      BY <1>2
    <3>3. 2 - 1 = 1 /\ 2 >= 2
      OBVIOUS
    <3> QED BY <3>1, <3>2, <3>3, Zenon
  <2>2. Flushing(Views(g), g.lookup_class, pd[2], c)
    BY <1>1, <1>2, <1>5, <1>6 DEF Flushing
  <2> QED BY <2>1, <2>2
<1>10. Updating(Views(g), g.lookup_class, pe, c)
  BY <1>6, <1>7, <1>8, <1>9, Zenon DEF Updating
<1> QED BY <1>5, <1>10, Zenon DEF Now, Phase, Removing, Turned

LEMMA GrowStep ==
    ASSUME NEW h, Ready(h), h.error = Nil, NEW pd \in Seq(Step), pd # <<>>,
           Phase(h, Views(h), pd), NEW st, st = pd[1], st.call = "grow",
           Attached(h), NEW T, NEW V, Sound(h, T, V), st.o \in T, h.made + 2 <= MaxMade,
           NEW g, g = become(Copy(h, st.o, Selectors), st.o, h.made + 1),
           NEW pe, pe = Tail(pd)
    PROVE  Now(g, pe)
<1>1. AllSettled(Views(h)) /\ Closing(Views(h), pd, 1) /\ Len(pd) \in Nat /\ Len(pd) >= 1
  BY PhaseOf, StepsLeft DEF Resting
<1> PICK c \in Classes : st.o = Views(h)[c].object
  <2>1. 1 \in 1 .. Len(pd)
    BY <1>1
  <2> QED BY <1>1, <2>1 DEF Closing
<1>2. st.o = View(h, c).object
  BY ViewsIs
<1>3. Grown(h, c, g)
  BY <1>1, <1>2, GrowViews
<1>4. /\ Base(Views(g), g.lookup_class) /\ AllSettled(Views(g)) /\ g.error = Nil
      /\ Objectwise(Views(h), Views(g))
  BY <1>3, ViewsIs DEF Grown, Objectwise
<1>5. Closing(Views(h), pd, 2)
  <2>1. \A j \in 2 .. Len(pd) : j \in 1 .. Len(pd)
    BY <1>1
  <2> QED BY <1>1, <2>1 DEF Closing
<1>6. Closing(Views(g), pe, 1)
  <2>1. pd \in Seq(Step) /\ pd # <<>> /\ pe = Tail(pd)
    OBVIOUS
  <2>2. Closing(Views(h), pd, 2) => Closing(Views(g), pe, 1)
    BY <1>4, <2>1, ClosingLeft, Zenon
  <2> QED BY <1>5, <2>2
<1> QED BY <1>4, <1>6 DEF Now, Phase, Resting

\* Where all is settled, or only the dictionary of a class is not that the VM does not use,
\* no table is invalid.
LEMMA NothingInvalid ==
    ASSUME NEW h, Ready(h), NEW c \in Classes, OthersSettled(Views(h), c),
           Settled(View(h, c)) \/ ~ InUse(View(h, c))
    PROVE  \A d \in Classes : View(h, d).invalid = FALSE
<1> SUFFICES ASSUME NEW d \in Classes PROVE View(h, d).invalid = FALSE
  OBVIOUS
<1> PICK v : v = View(h, d)
  OBVIOUS
<1>1. Linking(v) /\ Views(h)[d] = v
  BY ReadyParts, ViewsIs
<1>2. Settled(v) \/ ~ InUse(v)
  BY <1>1 DEF OthersSettled
<1> QED BY <1>1, <1>2 DEF Settled, Current, Linking

LEMMA FlushStep ==
    ASSUME NEW h, Ready(h), h.error = Nil, NEW pd \in Seq(Step), pd # <<>>,
           Phase(h, Views(h), pd), NEW st, st = pd[1], st.call = "flush", st.v \in Methods,
           NEW g \in HeapType, g = FlushMethod(h, st.v), NEW pe, pe = Tail(pd)
    PROVE  Now(g, pe)
<1>1. /\ h \in HeapType /\ Owned(h) /\ Base(Views(h), h.lookup_class)
      /\ Len(pd) \in Nat /\ Len(pd) >= 1
  BY ReadyParts, StepsLeft
<1>2. AllSettled(Views(h)) => g = h
  <2> SUFFICES ASSUME AllSettled(Views(h)) PROVE \A d \in Classes : View(h, d).invalid = FALSE
    BY <1>1, FlushOfNothing
  <2> SUFFICES ASSUME NEW d \in Classes PROVE View(h, d).invalid = FALSE
    OBVIOUS
  <2>1. OthersSettled(Views(h), d) /\ Settled(View(h, d))
    BY ViewsIs DEF AllSettled, OthersSettled
  <2> QED BY <2>1, NothingInvalid
<1>3. Objectwise(Views(h), Views(h)) /\ pd \in Seq(Step) /\ pd # <<>> /\ pe = Tail(pd)
  BY DEF Objectwise
<1>4. CASE Resting(Views(h), pd)
  <2>1. g = h /\ AllSettled(Views(h)) /\ Closing(Views(h), pd, 1)
    BY <1>2, <1>4 DEF Resting
  <2>2. Closing(Views(h), pd, 2)
    <3>1. \A j \in 2 .. Len(pd) : j \in 1 .. Len(pd)
      BY <1>1
    <3> QED BY <2>1, <3>1 DEF Closing
  <2>3. Closing(Views(h), pd, 2) => Closing(Views(h), pe, 1)
    BY <1>3, ClosingLeft, Zenon
  <2>4. Closing(Views(h), pe, 1)
    BY <2>2, <2>3
  <2> QED BY <1>1, <2>1, <2>4 DEF Now, Phase, Resting
<1>5. ASSUME NEW c \in Classes, NEW k \in Selectors, NEW m \in Methods,
             Replacing(Views(h), pd, c, k, m)
      PROVE  Now(g, pe)
  <2>1. /\ g = h /\ AllSettled(Views(h)) /\ Closing(Views(h), pd, 3)
        /\ Len(pd) >= 2 /\ pd[2] = Call("value", Views(h)[c].object, k, m)
        /\ New(Views(h), c, m) /\ k \in Views(h)[c].keys
    BY <1>2, <1>5 DEF Replacing
  <2>2. Len(pe) >= 1 /\ pe[1] = pd[2]
    BY <2>1, StepsLeft
  <2>3. Closing(Views(h), pd, 3) => Closing(Views(h), pe, 2)
    BY <1>3, ClosingLeft, Zenon
  <2>4. OthersSettled(Views(h), c) /\ Whole(Views(h)[c], {k})
    BY <2>1 DEF AllSettled, OthersSettled, Settled, Whole
  <2>5. Valuing(Views(h), pe, c, k, m)
    BY <2>1, <2>2, <2>3, <2>4 DEF Valuing
  <2> QED BY <1>1, <2>1, <2>5 DEF Now, Phase, Adding
<1>6. ASSUME NEW c \in Classes, Updating(Views(h), h.lookup_class, pd, c) PROVE Now(g, pe)
  <2> PICK v : v = View(h, c)
    OBVIOUS
  <2>1. /\ Views(h)[c] = v /\ Shows(v, h, c) /\ ViewTyped(v) /\ Linking(v)
        /\ OwnOf(Views(h), c, v)
    BY ReadyParts, ViewsIs, ViewShows
  <2>2. /\ Len(pd) = 1 /\ Flushing(Views(h), h.lookup_class, st, c)
        /\ OthersSettled(Views(h), c) /\ Whole(v, {}) /\ (InUse(v) => v.invalid = TRUE)
    BY <1>6, <2>1 DEF Updating
  <2>3. \A V : Closing(V, pe, 1)
    <3>1. Len(pe) = 0
      BY <2>2, StepsLeft
    <3> QED BY <3>1 DEF Closing
  <2>4. CASE ~ InUse(v)
    <3>1. g = h
      BY <1>1, <2>2, <2>4, NothingInvalid, FlushOfNothing
    <3>2. Settled(Views(h)[c])
      BY <2>1, <2>2, <2>4 DEF Settled, Current
    <3>3. AllSettled(Views(h))
      BY <2>2, <3>2, SettledAgain
    <3> QED BY <1>1, <2>3, <3>1, <3>3 DEF Now, Phase, Resting
  <2>5. CASE InUse(v)
    <3> PICK f : f = sync_method_cache(h, v.known)
      OBVIOUS
    <3>1. \A d \in Classes : d # c => View(h, d).known # v.known /\ View(h, d).storage # v.known
      <4> SUFFICES ASSUME NEW d \in Classes, d # c
                   PROVE  View(h, d).known # v.known /\ View(h, d).storage # v.known
        OBVIOUS
      <4>1. ViewTyped(View(h, d))
        BY <1>1, ViewType
      <4> QED BY <4>1, <1>1, <2>1, Separate
    <3>2. /\ v.w_self = v.object /\ v.w_values = v.values
          /\ \A k \in Selectors : v.methods[k] # Nil => k \in v.keys
      BY <2>1, <2>5 DEF Linking
    <3>3. Refreshed(h, c, f)
      BY <1>1, <2>2, <3>1, <3>2, SyncRefreshes
    <3>4. \A d \in Classes : d # c => View(h, d).invalid = FALSE
      <4> SUFFICES ASSUME NEW d \in Classes, d # c PROVE View(h, d).invalid = FALSE
        OBVIOUS
      <4>1. Settled(View(h, d)) /\ Linking(View(h, d))
        BY <2>2, ReadyParts, ViewsIs DEF OthersSettled
      <4> QED BY <4>1 DEF Settled, Current, Linking
    <3>5. h.lookup_class[st.v] = c /\ v.invalid = TRUE
      BY <2>1, <2>2, <2>5 DEF Flushing
    <3>6. g = f
      BY <1>1, <3>3, <3>4, <3>5, FlushOfOne
    <3> PICK w : w = View(g, c)
      OBVIOUS
    <3>7. /\ SameDictionary(v, w) /\ w.invalid = FALSE /\ w.methoddict = v.methods
          /\ Learns(h.lookup_class, g.lookup_class, c, v)
          /\ \A k \in Selectors : v.methods[k] # Nil => g.lookup_class[v.methods[k]] = c
          /\ g.error = h.error /\ Else(h, c, g)
      BY <3>3, <3>6 DEF Refreshed, Else
    <3>8. /\ w.object = v.object /\ w.storage = v.storage /\ w.keys = v.keys
          /\ w.values = v.values /\ w.methods = v.methods
          /\ w.dependent = v.dependent /\ w.known = v.known /\ w.w_self = v.w_self
          /\ w.w_values = v.w_values
      BY <3>7, Zenon DEF SameDictionary
    <3>9. w.is_methoddict = v.is_methoddict
      BY <3>7, Zenon DEF SameDictionary
    <3>10. InUse(w)
      BY <2>5, <3>8 DEF InUse
    <3>11. Linking(w)
      <4>1. v.is_methoddict /\ v.dependent = v.known
        BY <2>1, <2>5, Zenon DEF Linking
      <4>2. w.is_methoddict /\ w.dependent = w.known
        BY <4>1, <3>8, <3>9, Zenon
      <4> QED BY <4>2, <3>2, <3>8, <3>10 DEF Linking
    <3>12. /\ Learnt(w, c, g.lookup_class) /\ Learns(h.lookup_class, g.lookup_class, c, w)
           /\ OwnOf(Views(h), c, w)
      BY <2>1, <3>7, <3>8 DEF Learnt, Learns, OwnOf
    <3>13. Turned(h, c, g)
      BY <3>7, <3>8, <3>11, <3>12, TurnedIs
    <3>14. Settled(Views(g)[c])
      BY <2>2, <3>7, <3>8, ViewsIs DEF Settled, Whole, Current
    <3>15. AllSettled(Views(g))
      BY <2>2, <3>13, <3>14, OthersStaySettled, SettledAgain
    <3> QED BY <2>3, <3>13, <3>15 DEF Now, Phase, Resting, Turned
  <2> QED BY <2>4, <2>5
<1> QED BY <1>4, <1>5, <1>6, PhaseOf

-----------------------------------------------------------------------------
(* The updater p by itself *)

LEMMA ReadyNow ==
    ASSUME NEW h, NEW pd, Holds(h, pd), NEW p \in Updaters, NEW steps, steps = pd[p],
           Now(h, steps)
    PROVE  /\ Ready(h) /\ h.error = Nil /\ steps \in Seq(Step) /\ Phase(h, Views(h), steps)
           /\ Attached(h) /\ Sound(h, Targets(h, pd), Copies(pd)) /\ h \in HeapType
BY DEF Holds, Sound, Ready, Now, PendingOK

\* With nothing left to do, all is settled.
LEMMA NothingLeft ==
    ASSUME NEW h, NEW V, NEW pd, pd = <<>>, Phase(h, V, pd)
    PROVE  AllSettled(V)
<1>1. Len(pd) = 0
  OBVIOUS
<1>2. \A c, k, m : ~ (Naming(V, pd, c, k, m) \/ Valuing(V, pd, c, k, m)
                        \/ Replacing(V, pd, c, k, m))
  BY <1>1 DEF Naming, Valuing, Replacing
<1>3. \A c, x : ~ (CopyingValues(h, V, pd, c, x) \/ CopyingNames(h, V, pd, c, x)
                        \/ Updating(V, h.lookup_class, pd, c))
  BY <1>1 DEF CopyingValues, CopyingNames, Updating
<1> QED BY <1>2, <1>3 DEF Phase, Adding, Removing, Resting

LEMMA SettledRests ==
    ASSUME NEW h, NEW pd, pd = <<>>, h.error = Nil, Base(Views(h), h.lookup_class),
           AllSettled(Views(h))
    PROVE  Now(h, pd)
<1>1. Len(pd) = 0
  OBVIOUS
<1>2. Closing(Views(h), pd, 1)
  BY <1>1 DEF Closing
<1> QED BY <1>2 DEF Now, Phase, Resting

\* What an updater with nothing left to do finds.
Idle(h, p, c, v) ==
    /\ pending[p] = <<>> /\ Ready(h) /\ h.error = Nil /\ AllSettled(Views(h))
    /\ v = View(h, c) /\ Views(h)[c] = v /\ ViewTyped(v) /\ Linking(v)
    /\ Learnt(v, c, h.lookup_class) /\ h.w_methoddict[c] = v.object /\ h \in HeapType
    /\ \A k \in Selectors : ImageMethod(h, c, k) = v.methods[k]

\* The methods of the image's dictionary are those of its array.
LEMMA ImageMethodIs ==
    ASSUME NEW h, NEW c, NEW v, v = View(h, c), Linking(v), NEW k \in Selectors
    PROVE  ImageMethod(h, c, k) = v.methods[k]
<1>1. Shows(v, h, c) /\ (v.methods[k] # Nil => k \in v.keys)
  BY ViewShows DEF Linking
<1>2. ImageMethod(h, c, k) = IF k \in v.keys THEN v.methods[k] ELSE Nil
  BY <1>1, Zenon DEF ImageMethod, Shows, Refers, ShowsDictionary
<1> QED BY <1>1, <1>2

LEMMA IdleIs ==
    ASSUME NEW h, NEW p \in Updaters, Holds(h, pending), Now(h, pending[p]), pending[p] = <<>>,
           NEW c \in Classes, NEW v, v = View(h, c)
    PROVE  Idle(h, p, c, v)
<1>1. /\ Ready(h) /\ h.error = Nil /\ Phase(h, Views(h), pending[p]) /\ h \in HeapType
  BY ReadyNow
<1>2. AllSettled(Views(h))
  BY <1>1, NothingLeft
<1>3. /\ Views(h)[c] = v /\ ViewTyped(v) /\ Linking(v) /\ Learnt(v, c, h.lookup_class)
      /\ Shows(v, h, c)
  BY <1>1, ReadyParts, ViewsIs, ViewShows
<1>4. \A k \in Selectors : ImageMethod(h, c, k) = v.methods[k]
  BY <1>3, ImageMethodIs
<1> QED BY <1>1, <1>2, <1>3, <1>4 DEF Idle, Shows, Refers

\* Where methods are not shared, one that may be installed is new.
LEMMA InstallsNew ==
    ASSUME "share" \notin ImageDoes, Ready(heap), NEW m \in Methods, MayInstall(m),
           NEW c \in Classes
    PROVE  New(Views(heap), c, m)
<1> SUFFICES ASSUME NEW d \in Classes, NEW j \in Selectors, Views(heap)[d].methods[j] = m
             PROVE  FALSE
  BY DEF New
<1> PICK v : v = View(heap, d)
  OBVIOUS
<1>1. Linking(v) /\ v.methods[j] = m
  BY ReadyParts, ViewsIs
<1>2. ImageMethod(heap, d, j) = m
  BY <1>1, ImageMethodIs
<1> QED BY <1>2 DEF MayInstall, Installed

LEMMA TwoFirst ==
    ASSUME NEW E, NEW a, NEW b, NEW s \in Seq(E), NEW t \in Seq(E),
           NEW q, q = <<a, b>> \o s \o t
    PROVE  Len(q) >= 2 /\ q[1] = a /\ q[2] = b /\ \A j \in 3 .. Len(q) : q[j] \in E
<1> PICK F : F = E \cup {a, b}
  OBVIOUS
<1>1. a \in F /\ b \in F /\ E \subseteq F
  OBVIOUS
<1> PICK u : u = <<a, b>>
  OBVIOUS
<1>2. u \in Seq(F)
  BY <1>1
<1>3. Len(u) = 2 /\ u[1] = a /\ u[2] = b
  OBVIOUS
<1>4. s \in Seq(F) /\ t \in Seq(F) /\ Len(s) \in Nat /\ Len(t) \in Nat
  BY <1>1
<1>5. u \o s \in Seq(F)
  BY <1>4, <1>2, ConcatProperties
<1> PICK w \in Seq(F) : w = u \o s
  BY <1>5
<1>6. /\ Len(w) = 2 + Len(s) /\ w[1] = a /\ w[2] = b
      /\ \A i \in 1 .. Len(s) : w[2 + i] = s[i]
  BY <1>3, <1>4, <1>2
<1>7. q = w \o t
  OBVIOUS
<1>8. /\ Len(q) = 2 + Len(s) + Len(t) /\ q[1] = a /\ q[2] = b
      /\ \A i \in 1 .. 2 + Len(s) : q[i] = w[i]
      /\ \A i \in 1 .. Len(t) : q[2 + Len(s) + i] = t[i]
  BY <1>4, <1>6, <1>7
<1>9. ASSUME NEW j \in 3 .. Len(q) PROVE q[j] \in E
  <2>1. CASE j <= 2 + Len(s)
    <3> PICK i \in 1 .. Len(s) : j = 2 + i
      BY <1>4, <2>1
    <3>1. q[j] = w[j] /\ w[2 + i] = s[i] /\ s[i] \in E
      BY <1>4, <1>6, <1>8, <2>1
    <3> QED BY <3>1
  <2>2. CASE j > 2 + Len(s)
    <3> PICK n \in Nat, e \in Nat : n = Len(s) /\ e = Len(t)
      BY <1>4
    <3> PICK d : d = j - (2 + n)
      OBVIOUS
    <3>1. j \in 3 .. 2 + n + e /\ j > 2 + n
      BY <1>8, <2>2
    <3>2. d \in 1 .. e /\ j = 2 + n + d
      BY <3>1
    <3> PICK i \in 1 .. Len(t) : j = 2 + Len(s) + i
      BY <3>2
    <3>3. q[2 + Len(s) + i] = t[i] /\ t[i] \in E
      BY <1>8
    <3> QED BY <3>3
  <2> QED BY <1>4, <2>1, <2>2
<1> QED BY <1>4, <1>8, <1>9

LEMMA AddSelectorNow ==
    ASSUME "share" \notin ImageDoes, Inv, NEW p \in Updaters, Now(heap, pending[p]),
           NEW c \in Classes, NEW k \in Selectors, NEW m \in Methods, NEW grows \in BOOLEAN,
           AddSelector(p, c, k, m, grows)
    PROVE  Now(heap', pending'[p])
<1> PICK h : h = heap
  OBVIOUS
<1> PICK v : v = View(h, c)
  OBVIOUS
<1> PICK x : x = ImageLookup(h, c, k)
  OBVIOUS
<1>1. Idle(h, p, c, v) /\ pending \in [Updaters -> Seq(Step)]
  <2>1. pending[p] = <<>> /\ Holds(h, pending)
    BY DEF AddSelector, Starts, Inv
  <2> QED BY <2>1, IdleIs DEF Holds, PendingOK
<1> DEFINE E == {st : st \in {Call("grow", v.object, Nil, Nil), Call("flush", Nil, Nil, x)}}
<1> PICK steps : steps = <<Call("name", v.object, k, Nil), Call("value", v.object, k, m)>>
                         \o CallIf(grows, Call("grow", v.object, Nil, Nil))
                         \o CallIf(x # Nil, Call("flush", Nil, Nil, x))
  OBVIOUS
<1>2. heap' = heap /\ pending'[p] = steps /\ MayInstall(m)
  <2>1. heap.w_methoddict[c] = v.object
    BY <1>1 DEF Idle
  <2> QED BY <1>1, <2>1 DEF AddSelector, Starts
<1>3. /\ Len(steps) >= 2 /\ steps[1] = Call("name", v.object, k, Nil)
      /\ steps[2] = Call("value", v.object, k, m)
      /\ \A j \in 3 .. Len(steps) : steps[j] \in E
  <2>1. CallIf(grows, Call("grow", v.object, Nil, Nil)) \in Seq(E)
    BY CallIfIs
  <2>2. CallIf(x # Nil, Call("flush", Nil, Nil, x)) \in Seq(E)
    BY CallIfIs
  <2> HIDE DEF E
  <2> QED BY <2>1, <2>2, TwoFirst
<1>4. Closing(Views(h), steps, 3)
  <2>1. Call("flush", Nil, Nil, x).call = "flush"
        /\ Call("grow", v.object, Nil, Nil).call = "grow"
        /\ Call("grow", v.object, Nil, Nil).o = v.object
    BY DEF Call
  <2>2. v.object = Views(h)[c].object
    BY <1>1 DEF Idle
  <2> SUFFICES ASSUME NEW j \in 3 .. Len(steps)
               PROVE  \/ steps[j].call = "flush"
                      \/ /\ steps[j].call = "grow"
                         /\ \E d \in Classes : steps[j].o = Views(h)[d].object
    BY DEF Closing
  <2>3. \/ steps[j] = Call("grow", v.object, Nil, Nil)
        \/ steps[j] = Call("flush", Nil, Nil, x)
    BY <1>3
  <2> QED BY <2>1, <2>2, <2>3
<1>5. New(Views(h), c, m)
  BY <1>1, <1>2, InstallsNew DEF Idle
<1>6. Naming(Views(h), steps, c, k, m)
  BY <1>1, <1>3, <1>4, <1>5 DEF Naming, Idle
<1>7. Base(Views(h), h.lookup_class) /\ h.error = Nil
  BY <1>1 DEF Idle, Ready
<1> QED BY <1>2, <1>6, <1>7 DEF Now, Phase, Adding

LEMMA ReplaceMethodNow ==
    ASSUME "share" \notin ImageDoes, Inv, NEW p \in Updaters, Now(heap, pending[p]),
           NEW c \in Classes, NEW k \in Selectors, NEW m \in Methods, ReplaceMethod(p, c, k, m)
    PROVE  Now(heap', pending'[p])
<1> PICK h : h = heap
  OBVIOUS
<1> PICK v : v = View(h, c)
  OBVIOUS
<1> PICK old : old = ImageMethod(h, c, k)
  OBVIOUS
<1>1. Idle(h, p, c, v) /\ pending \in [Updaters -> Seq(Step)]
  <2>1. pending[p] = <<>> /\ Holds(h, pending)
    BY DEF ReplaceMethod, Starts, Inv
  <2> QED BY <2>1, IdleIs DEF Holds, PendingOK
<1> PICK steps : steps = <<Call("flush", Nil, Nil, old), Call("value", v.object, k, m),
                           Call("flush", Nil, Nil, old)>>
  OBVIOUS
<1>2. heap' = heap /\ pending'[p] = steps /\ MayInstall(m) /\ old # Nil
  <2>1. heap.w_methoddict[c] = v.object
    BY <1>1 DEF Idle
  <2> QED BY <1>1, <2>1 DEF ReplaceMethod, Starts
<1>3. /\ Len(steps) = 3 /\ steps[1].call = "flush"
      /\ steps[2] = Call("value", v.object, k, m) /\ steps[3].call = "flush"
  BY DEF Call
<1>4. Closing(Views(h), steps, 3)
  <2>1. \A j \in 3 .. Len(steps) : j = 3
    BY <1>3
  <2> QED BY <1>3, <2>1 DEF Closing
<1>5. New(Views(h), c, m)
  BY <1>1, <1>2, InstallsNew DEF Idle
<1>6. k \in v.keys
  <2>1. v.methods[k] # Nil
    BY <1>1, <1>2 DEF Idle
  <2> QED BY <1>1, <2>1 DEF Idle, Linking
<1>7. Replacing(Views(h), steps, c, k, m)
  BY <1>1, <1>3, <1>4, <1>5, <1>6 DEF Replacing, Idle
<1>8. Base(Views(h), h.lookup_class) /\ h.error = Nil
  BY <1>1 DEF Idle, Ready
<1> QED BY <1>2, <1>7, <1>8 DEF Now, Phase, Adding

\* The copy is new, so its array is in no dictionary.
LEMMA RemoveSelectorNow ==
    ASSUME Inv, NEW p \in Updaters, Now(heap, pending[p]), NEW c \in Classes,
           NEW k \in Selectors, RemoveSelector(p, c, k)
    PROVE  Now(heap', pending'[p])
<1> PICK h : h = heap
  OBVIOUS
<1> PICK g : g = heap'
  OBVIOUS
<1> PICK v : v = View(h, c)
  OBVIOUS
<1> PICK old : old = ImageMethod(h, c, k)
  OBVIOUS
<1> PICK x : x = h.made + 1
  OBVIOUS
<1>1. Idle(h, p, c, v) /\ pending \in [Updaters -> Seq(Step)]
  <2>1. pending[p] = <<>> /\ Holds(h, pending)
    BY DEF RemoveSelector, Starts, Inv
  <2> QED BY <2>1, IdleIs DEF Holds, PendingOK
<1> PICK steps : steps = <<Call("values", v.object, Nil, x), Call("names", v.object, Nil, x),
                           Call("flush", Nil, Nil, old)>>
  OBVIOUS
<1> PICK keys \in SUBSET Selectors : keys = Selectors \ {k}
  OBVIOUS
<1>2. /\ g = Copy(h, v.object, keys) /\ pending'[p] = steps /\ old # Nil /\ x <= MaxMade
  <2>1. heap.w_methoddict[c] = v.object
    BY <1>1 DEF Idle
  <2> QED BY <1>1, <2>1 DEF RemoveSelector, Starts
<1>3. /\ Ready(h) /\ h.error = Nil /\ AllSettled(Views(h)) /\ Views(h)[c] = v /\ ViewTyped(v)
      /\ Linking(v) /\ Learnt(v, c, h.lookup_class) /\ h \in HeapType /\ old = v.methods[k]
  BY <1>1 DEF Idle
<1>4. x \in Ids /\ x \notin Made(h) /\ v.object \in Ids /\ Shape(h)
      /\ Base(Views(h), h.lookup_class)
  BY <1>2, <1>3, MadeFacts DEF ViewTyped, Ready
<1>5. Views(g) = Views(h)
  <2>1. /\ Ready(h) /\ v.object \in Ids /\ keys \in SUBSET Selectors /\ h.made + 1 <= MaxMade
        /\ g = Copy(h, v.object, keys)
    BY <1>2, <1>3, <1>4
  <2> QED BY <2>1, CopyViews
<1>6. CopyGives(h, v.object, keys, x, g)
  BY <1>2, <1>3, <1>4, CopyFacts
<1>7. g.lookup_class = h.lookup_class /\ g.error = h.error
  BY <1>6 DEF CopyGives, SameRest
<1>8. CopyOf(g, v, x)
  <2>1. Shows(v, h, c)
    BY ViewShows
  <2>2. /\ v.keys = h.storage[h.shadow[v.object]].names
        /\ v.methods = h.array[h.storage[h.shadow[v.object]].w_values]
    BY <2>1, Zenon DEF Shows, Refers, ShowsDictionary
  <2>3. g.storage[x].w_values = x /\ g.storage[x].names = v.keys \cap keys
    BY <1>6, <2>2, Zenon DEF CopyGives
  <2>4. g.array[x] = PartOf(h, v.object, keys)
    <3>1. g.array = [h.array EXCEPT ![x] = PartOf(h, v.object, keys)]
      BY <1>6, Zenon DEF CopyGives
    <3>2. DOMAIN h.array = Ids
      BY <1>3, HeapFields
    <3> QED BY <1>4, <3>1, <3>2
  <2>5. \A j \in Selectors : g.array[x][j] = IF j = k THEN Nil ELSE v.methods[j]
    <3> SUFFICES ASSUME NEW j \in Selectors
                 PROVE  PartOf(h, v.object, keys)[j] = IF j = k THEN Nil ELSE v.methods[j]
      BY <2>4
    <3>1. PartOf(h, v.object, keys)[j] = IF j \in keys THEN v.methods[j] ELSE Nil
      BY <2>2, Zenon DEF PartOf
    <3>2. j \in keys <=> j # k
      OBVIOUS
    <3> QED BY <3>1, <3>2
  <2>6. \A j \in Selectors : j \in g.storage[x].names <=> j \in v.keys /\ j # k
    BY <2>3
  <2>7. \A j \in Selectors : j \in v.keys <=> v.methods[j] # Nil
    BY <1>3 DEF AllSettled, Settled, Whole, Linking
  <2>8. \A j \in Selectors : j \in g.storage[x].names <=> g.array[x][j] # Nil
    BY <2>5, <2>6, <2>7
  <2> QED BY <2>3, <2>5, <2>8 DEF CopyOf
<1>9. \A d \in Classes : Views(g)[d].values # x
  <2> SUFFICES ASSUME NEW d \in Classes PROVE View(h, d).values # x
    BY <1>5, ViewsIs
  <2>1. View(h, d).values \in Made(h)
    BY <1>4, ViewMade
  <2> QED BY <1>4, <2>1
<1>10. /\ Len(steps) = 3 /\ steps[1] = Call("values", v.object, Nil, x)
       /\ steps[2] = Call("names", v.object, Nil, x)
       /\ steps[3].call = "flush" /\ steps[3].v = old
  BY DEF Call
<1>11. Flushing(Views(g), g.lookup_class, steps[3], c)
  BY <1>2, <1>3, <1>5, <1>7, <1>10 DEF Flushing, Learnt
<1>12. CopyingValues(g, Views(g), steps, c, x)
  BY <1>3, <1>5, <1>8, <1>9, <1>10, <1>11 DEF CopyingValues
<1> QED BY <1>2, <1>3, <1>4, <1>5, <1>7, <1>12 DEF Now, Phase, Removing

LEMMA SetMethodDictNow ==
    ASSUME Inv, NEW p \in Updaters, Now(heap, pending[p]), NEW c \in Classes,
           SetMethodDict(p, c)
    PROVE  Now(heap', pending'[p])
<1> PICK h, g : h = heap /\ g = heap'
  OBVIOUS
<1> PICK T, V : T = Targets(heap, pending) /\ V = Copies(pending)
  OBVIOUS
<1>1. /\ pending[p] = <<>> /\ pending' = [pending EXCEPT ![p] = <<>>]
      /\ h.made + 2 <= MaxMade
      /\ g = store_w_methoddict(Copy(h, h.w_methoddict[c], Selectors), c, h.made + 1)
  BY DEF SetMethodDict, Starts
<1>2. Holds(h, pending) /\ pending \in [Updaters -> Seq(Step)]
  BY DEF Inv, Holds, PendingOK
<1>3. Ready(h) /\ h.error = Nil /\ AllSettled(Views(h))
  BY <1>1, <1>2, IdleIs DEF Idle
<1>4. Attached(h) /\ Sound(h, T, V)
  BY <1>2 DEF Holds
<1>5. Base(Views(g), g.lookup_class) /\ AllSettled(Views(g)) /\ g.error = h.error
  BY <1>1, <1>3, <1>4, SetMethodDictViews
<1>6. pending'[p] = <<>>
  BY <1>1, <1>2
<1>7. Now(g, <<>>)
  BY <1>3, <1>5, SettledRests
<1> QED BY <1>6, <1>7

LEMMA SetSuperclassNow ==
    ASSUME Inv, NEW p \in Updaters, Now(heap, pending[p]), NEW c \in Classes,
           NEW super \in Classes \cup {Nil}, SetSuperclass(p, c, super)
    PROVE  Now(heap', pending'[p])
<1> PICK h, g : h = heap /\ g = heap'
  OBVIOUS
<1>1. /\ pending[p] = <<>> /\ pending' = [pending EXCEPT ![p] = <<>>]
      /\ g = store_w_superclass(h, c, super)
  BY DEF SetSuperclass, Starts
<1>2. Holds(h, pending) /\ pending \in [Updaters -> Seq(Step)]
  BY DEF Inv, Holds, PendingOK
<1>3. Ready(h) /\ h.error = Nil /\ AllSettled(Views(h)) /\ h \in HeapType
  BY <1>1, <1>2, IdleIs DEF Idle
<1>4. Views(g) = Views(h) /\ g.lookup_class = h.lookup_class /\ g.error = h.error
  BY <1>1, <1>3, SetSuperclassViews
<1>5. pending'[p] = <<>>
  BY <1>1, <1>2
<1>6. Base(Views(g), g.lookup_class)
  BY <1>3, <1>4 DEF Ready
<1>7. Now(g, <<>>)
  BY <1>3, <1>4, <1>6, SettledRests
<1> QED BY <1>5, <1>7

\* What the updater's next step finds.
GoesOn(h, pd, pe, st) ==
    /\ Ready(h) /\ h.error = Nil /\ pd \in Seq(Step) /\ pd # <<>> /\ Phase(h, Views(h), pd)
    /\ st = pd[1] /\ StepOK(st) /\ pe = Tail(pd) /\ h \in HeapType /\ Attached(h)

LEMMA GoesOnIs ==
    ASSUME Inv, NEW p \in Updaters, Now(heap, pending[p]), NEW call, Continue(p, call),
           NEW st, st = Head(pending[p])
    PROVE  GoesOn(heap, pending[p], pending'[p], st) /\ Continues(p, st) /\ st.call = call
<1>1. Continues(p, st) /\ st.call = call
  BY ContinueIs
<1>2. /\ StepOK(st) /\ pending[p] # <<>> /\ pending' = [pending EXCEPT ![p] = Tail(pending[p])]
      /\ pending \in [Updaters -> Seq(Step)]
  BY <1>1 DEF Continues, PendingOK
<1>3. Ready(heap) /\ heap.error = Nil /\ pending[p] \in Seq(Step)
      /\ Phase(heap, Views(heap), pending[p]) /\ heap \in HeapType /\ Attached(heap)
  BY ReadyNow DEF Inv
<1>4. pending'[p] = Tail(pending[p]) /\ st = pending[p][1]
  BY <1>2, <1>3
<1> QED BY <1>1, <1>2, <1>3, <1>4 DEF GoesOn

LEMMA DoNameNow ==
    ASSUME Inv, heap' \in HeapType, NEW p \in Updaters, Now(heap, pending[p]), DoName(p)
    PROVE  Now(heap', pending'[p])
<1> PICK st : st = Head(pending[p])
  OBVIOUS
<1> PICK h, g, pd, pe : h = heap /\ g = heap' /\ pd = pending[p] /\ pe = pending'[p]
  OBVIOUS
<1>1. GoesOn(h, pd, pe, st) /\ st.call = "name"
  BY GoesOnIs, Zenon DEF DoName
<1>2. g = StoreNames(h, st.o, h.storage[h.shadow[st.o]].names \cup {st.k})
  BY Zenon DEF DoName
<1>3. g \in HeapType
  OBVIOUS
<1>4. Now(g, pe)
  BY <1>1, <1>2, <1>3, NameStep, Zenon DEF GoesOn
<1> QED BY <1>4

LEMMA DoValueNow ==
    ASSUME Inv, heap' \in HeapType, NEW p \in Updaters, Now(heap, pending[p]), DoValue(p)
    PROVE  Now(heap', pending'[p])
<1> PICK st : st = Head(pending[p])
  OBVIOUS
<1> PICK h, g, pd, pe : h = heap /\ g = heap' /\ pd = pending[p] /\ pe = pending'[p]
  OBVIOUS
<1>1. GoesOn(h, pd, pe, st) /\ st.call = "value"
  BY GoesOnIs, Zenon DEF DoValue
<1>2. g = StoreInArray(h, h.storage[h.shadow[st.o]].w_values, st.k, st.v)
  BY Zenon DEF DoValue
<1>3. g \in HeapType
  OBVIOUS
<1>4. Now(g, pe)
  BY <1>1, <1>2, <1>3, ValueStep, Zenon DEF GoesOn
<1> QED BY <1>4

\* Nobody is told of stores to the array of a copy.
LEMMA DoValuesNow ==
    ASSUME Inv, heap' \in HeapType, NEW p \in Updaters, Now(heap, pending[p]), DoValues(p)
    PROVE  Now(heap', pending'[p])
<1> PICK st : st = Head(pending[p])
  OBVIOUS
<1> PICK h, g, pd, pe : h = heap /\ g = heap' /\ pd = pending[p] /\ pe = pending'[p]
  OBVIOUS
<1>1. GoesOn(h, pd, pe, st) /\ Continues(p, st) /\ st.call = "values"
  BY GoesOnIs DEF DoValues
<1>2. g = StoreValues(h, st.o, h.storage[st.v].w_values)
  BY DEF DoValues
<1>3. g \in HeapType
  OBVIOUS
<1>4. h.dependent[st.v] = Nil
  <2>1. st.v \in Copies(pending) /\ Sound(h, Targets(h, pending), Copies(pending))
    BY <1>1 DEF Continues
  <2> QED BY <2>1 DEF Sound, Apart
<1>5. Now(g, pe)
  BY <1>1, <1>2, <1>3, <1>4, ValuesStep, Zenon DEF GoesOn
<1> QED BY <1>5

LEMMA DoNamesNow ==
    ASSUME Inv, heap' \in HeapType, NEW p \in Updaters, Now(heap, pending[p]), DoNames(p)
    PROVE  Now(heap', pending'[p])
<1> PICK st : st = Head(pending[p])
  OBVIOUS
<1> PICK h, g, pd, pe : h = heap /\ g = heap' /\ pd = pending[p] /\ pe = pending'[p]
  OBVIOUS
<1>1. GoesOn(h, pd, pe, st) /\ st.call = "names"
  BY GoesOnIs DEF DoNames
<1>2. g = StoreNames(h, st.o, h.storage[st.v].names)
  BY DEF DoNames
<1>3. g \in HeapType
  OBVIOUS
<1>4. Now(g, pe)
  BY <1>1, <1>2, <1>3, NamesStep, Zenon DEF GoesOn
<1> QED BY <1>4

LEMMA DoGrowNow ==
    ASSUME Inv, NEW p \in Updaters, Now(heap, pending[p]), DoGrow(p)
    PROVE  Now(heap', pending'[p])
<1> PICK st : st = Head(pending[p])
  OBVIOUS
<1> PICK h, g, pd, pe : h = heap /\ g = heap' /\ pd = pending[p] /\ pe = pending'[p]
  OBVIOUS
<1> PICK T, V : T = Targets(heap, pending) /\ V = Copies(pending)
  OBVIOUS
<1>1. GoesOn(h, pd, pe, st) /\ Continues(p, st) /\ st.call = "grow"
  BY GoesOnIs DEF DoGrow
<1>2. /\ h.made + 2 <= MaxMade
      /\ g = become(Copy(h, st.o, Selectors), st.o, h.made + 1)
  BY DEF DoGrow
<1>3. st.o \in T /\ Sound(h, T, V)
  BY <1>1 DEF Continues
<1>4. Now(g, pe)
  BY <1>1, <1>2, <1>3, GrowStep DEF GoesOn
<1> QED BY <1>4

LEMMA DoFlushNow ==
    ASSUME Inv, heap' \in HeapType, NEW p \in Updaters, Now(heap, pending[p]), DoFlush(p)
    PROVE  Now(heap', pending'[p])
<1> PICK st : st = Head(pending[p])
  OBVIOUS
<1> PICK h, g, pd, pe : h = heap /\ g = heap' /\ pd = pending[p] /\ pe = pending'[p]
  OBVIOUS
<1>1. GoesOn(h, pd, pe, st) /\ st.call = "flush"
  BY GoesOnIs DEF DoFlush
<1>2. g = FlushMethod(h, st.v) /\ st.v \in Methods
  BY <1>1 DEF DoFlush, GoesOn, StepOK
<1>3. g \in HeapType
  OBVIOUS
<1>4. Now(g, pe)
  BY <1>1, <1>2, <1>3, FlushStep DEF GoesOn
<1> QED BY <1>4

LEMMA PhaseSame ==
    ASSUME NEW h, NEW g, g.storage = h.storage, g.array = h.array,
           g.lookup_class = h.lookup_class, NEW V, NEW pd, Phase(h, V, pd)
    PROVE  Phase(g, V, pd)
<1>1. \A v, x : CopyOf(g, v, x) <=> CopyOf(h, v, x)
  BY DEF CopyOf
<1>2. \A c, x : CopyingValues(h, V, pd, c, x) => CopyingValues(g, V, pd, c, x)
  BY <1>1 DEF CopyingValues
<1>3. \A c, x : CopyingNames(h, V, pd, c, x) => CopyingNames(g, V, pd, c, x)
  BY DEF CopyingNames
<1>4. Removing(h, V, pd) => Removing(g, V, pd)
  BY <1>2, <1>3 DEF Removing
<1> QED BY <1>4 DEF Phase

\* Nothing of it is about what is compiled.
LEMMA CompileNow ==
    ASSUME Inv, NEW c \in Classes, NEW k \in Selectors, Compile(c, k), NEW p,
           Now(heap, pending[p])
    PROVE  Now(heap', pending'[p])
<1> PICK h, g : h = heap /\ g = heap'
  OBVIOUS
<1> PICK m : m = lookup(h, c, k)
  OBVIOUS
<1>1. g = [h EXCEPT !.compiled[c][k] = m] /\ pending' = pending /\ h \in HeapType
  BY DEF Compile, Inv, Holds
<1>2. /\ g.shadow = h.shadow /\ g.storage = h.storage /\ g.array = h.array
      /\ g.dependent = h.dependent /\ g.w_methoddict = h.w_methoddict
      /\ g.s_methoddict = h.s_methoddict /\ g.lookup_class = h.lookup_class
      /\ g.error = h.error
  BY <1>1 DEF HeapType
<1>3. Views(g) = Views(h)
  BY <1>2, SameViews
<1> PICK pd : pd = pending[p]
  OBVIOUS
<1>4. Phase(h, Views(h), pd) /\ h.error = Nil /\ Base(Views(h), h.lookup_class)
  BY DEF Now
<1>5. Phase(g, Views(h), pd)
  BY <1>2, <1>4, PhaseSame
<1>6. Now(g, pd)
  BY <1>2, <1>3, <1>4, <1>5 DEF Now
<1> QED BY <1>1, <1>6

\* Each class has its own dictionary, with nothing in it.
LEMMA InitNow ==
    ASSUME Init, Inv, NEW p \in Updaters
    PROVE  Now(heap, pending[p])
<1> PICK h : h = heap
  OBVIOUS
<1>1. /\ h.shadow = [i \in Ids |-> i]
      /\ h.storage = [i \in Ids |->
            [is_methoddict |-> i \in Classes, w_self |-> i, names |-> {},
             w_values |-> i, invalid |-> FALSE,
             s_class |-> IF i \in Classes THEN i ELSE Nil,
             methoddict |-> [k \in Selectors |-> Nil]]]
      /\ h.array = [i \in Ids |-> [k \in Selectors |-> Nil]]
      /\ h.dependent = [i \in Ids |-> IF i \in Classes THEN i ELSE Nil]
      /\ h.w_methoddict = [c \in Classes |-> c] /\ h.s_methoddict = [c \in Classes |-> c]
      /\ h.error = Nil /\ pending[p] = <<>>
  BY DEF Init
<1>2. Classes \subseteq Ids
  BY DEF Ids
<1>3. ASSUME NEW c \in Classes, NEW v, v = View(h, c)
      PROVE  /\ v.object = c /\ v.storage = c /\ v.keys = {} /\ v.is_methoddict = TRUE
             /\ v.values = c /\ v.methods = [k \in Selectors |-> Nil] /\ v.dependent = c
             /\ v.known = c /\ v.w_self = c /\ v.w_values = c /\ v.invalid = FALSE
             /\ v.methoddict = [k \in Selectors |-> Nil]
  <2>1. Shows(v, h, c)
    BY <1>3, ViewShows
  <2>2. v.object = c /\ v.known = c /\ v.storage = c
    BY <1>1, <1>2, <2>1 DEF Shows, Refers
  <2> PICK s : s = h.storage[c]
    OBVIOUS
  <2>3. s = [is_methoddict |-> c \in Classes, w_self |-> c, names |-> {},
             w_values |-> c, invalid |-> FALSE,
             s_class |-> IF c \in Classes THEN c ELSE Nil,
             methoddict |-> [k \in Selectors |-> Nil]]
    BY <1>1, <1>2
  <2>4. /\ s.names = {} /\ s.w_values = c /\ s.w_self = c
        /\ s.methoddict = [k \in Selectors |-> Nil]
    BY <2>3
  <2>5. s.invalid = FALSE /\ s.is_methoddict = TRUE
    <3>1. s.invalid = FALSE
      BY <2>3
    <3>2. s.is_methoddict = (c \in Classes)
      BY <2>3
    <3>3. (c \in Classes) = TRUE
      OBVIOUS
    <3> QED BY <3>1, <3>2, <3>3, Zenon
  <2>6. ShowsDictionary(v, s, h) /\ ShowsTable(v, s)
    BY <2>1, <2>2 DEF Shows
  <2>7. v.keys = {} /\ v.values = c /\ v.w_self = c /\ v.w_values = c
        /\ v.methoddict = [k \in Selectors |-> Nil]
    BY <2>4, <2>6 DEF ShowsDictionary, ShowsTable
  <2>8. v.methods = [k \in Selectors |-> Nil] /\ v.dependent = c
    BY <1>1, <1>2, <2>6, <2>7 DEF ShowsDictionary
  <2>9. v.invalid = FALSE /\ v.is_methoddict = TRUE
    BY <2>5, <2>6, Zenon DEF ShowsDictionary, ShowsTable
  <2> QED BY <2>2, <2>7, <2>8, <2>9
<1>4. ASSUME NEW c \in Classes, NEW v, v = View(h, c)
      PROVE  OwnOf(Views(h), c, v) /\ Linking(v) /\ Learnt(v, c, h.lookup_class) /\ Settled(v)
  <2>1. /\ v.object = c /\ v.storage = c /\ v.keys = {} /\ v.values = c
        /\ v.methods = [k \in Selectors |-> Nil] /\ v.dependent = c
        /\ v.known = c /\ v.w_self = c /\ v.w_values = c /\ v.methoddict = v.methods
    BY <1>3, <1>4, Zenon
  <2>2. \A k \in Selectors : v.methods[k] = Nil
    BY <2>1
  <2>3. OwnOf(Views(h), c, v)
    <3> SUFFICES ASSUME NEW d \in Classes, d # c
                 PROVE  /\ v.object # Views(h)[d].object /\ v.storage # Views(h)[d].storage
                        /\ v.values # Views(h)[d].values
                        /\ \A j, k \in Selectors : v.methods[j] = Views(h)[d].methods[k]
                                                      => v.methods[j] = Nil
      BY DEF OwnOf
    <3> PICK w : w = View(h, d)
      OBVIOUS
    <3>1. w.object = d /\ w.storage = d /\ w.values = d
      BY <1>3, Zenon
    <3>2. Views(h)[d] = w
      BY ViewsIs
    <3> QED BY <2>1, <2>2, <3>1, <3>2
  <2>4. Linking(v)
    <3>1. InUse(v) /\ v.w_self = v.object /\ v.dependent = v.known /\ v.w_values = v.values
      BY <2>1 DEF InUse
    <3>2. v.is_methoddict
      BY <1>3, <1>4, Zenon
    <3> QED BY <2>2, <3>1, <3>2 DEF Linking
  <2>5. Learnt(v, c, h.lookup_class)
    BY <2>2 DEF Learnt
  <2>6. v.invalid = FALSE
    BY <1>3, <1>4, Zenon
  <2> QED BY <2>1, <2>3, <2>4, <2>5, <2>6 DEF Settled, Whole, Current
<1>5. Base(Views(h), h.lookup_class) /\ AllSettled(Views(h))
  BY <1>4, ViewsIs DEF Base, AllSettled
<1>6. Now(h, <<>>)
  BY <1>1, <1>5, SettledRests
<1> QED BY <1>1, <1>6

\* The invariant by phases is inductive, given the other.
LEMMA NowAlways ==
    ASSUME NEW p, Updaters = {p}, "share" \notin ImageDoes
    PROVE  Spec => []Now(heap, pending[p])
<1> DEFINE Q == Now(heap, pending[p])
<1>1. Init /\ Inv => Q
  BY InitNow
<1>2. Inv /\ Inv' /\ Q /\ [Next]_vars => Q'
  <2> SUFFICES ASSUME Inv, Inv', Now(heap, pending[p]), [Next]_vars
               PROVE  Now(heap', pending'[p])
    OBVIOUS
  <2>1. CASE UNCHANGED vars
    BY <2>1 DEF vars
  <2>2. p \in Updaters /\ heap' \in HeapType
    BY DEF Inv, Holds
  <2>3. ASSUME Update(p) PROVE Now(heap', pending'[p])
    <3>1. ASSUME NEW c \in Classes, NEW k \in Selectors, NEW m \in Methods,
                 NEW grows \in BOOLEAN, AddSelector(p, c, k, m, grows)
          PROVE  Now(heap', pending'[p])
      BY <2>2, <3>1, AddSelectorNow
    <3>2. ASSUME NEW c \in Classes, NEW k \in Selectors, NEW m \in Methods,
                 ReplaceMethod(p, c, k, m)
          PROVE  Now(heap', pending'[p])
      BY <2>2, <3>2, ReplaceMethodNow
    <3>3. ASSUME NEW c \in Classes, NEW k \in Selectors, RemoveSelector(p, c, k)
          PROVE  Now(heap', pending'[p])
      BY <2>2, <3>3, RemoveSelectorNow
    <3>4. ASSUME NEW c \in Classes, SetMethodDict(p, c) PROVE Now(heap', pending'[p])
      BY <2>2, <3>4, SetMethodDictNow
    <3>5. ASSUME NEW c \in Classes, NEW super \in Classes \cup {Nil},
                 SetSuperclass(p, c, super)
          PROVE  Now(heap', pending'[p])
      BY <2>2, <3>5, SetSuperclassNow
    <3>6. DoName(p) => Now(heap', pending'[p])
      BY <2>2, DoNameNow
    <3>7. DoValue(p) => Now(heap', pending'[p])
      BY <2>2, DoValueNow
    <3>8. DoValues(p) => Now(heap', pending'[p])
      BY <2>2, DoValuesNow
    <3>9. DoNames(p) => Now(heap', pending'[p])
      BY <2>2, DoNamesNow
    <3>10. DoGrow(p) => Now(heap', pending'[p])
      BY <2>2, DoGrowNow
    <3>11. DoFlush(p) => Now(heap', pending'[p])
      BY <2>2, DoFlushNow
    <3> QED BY <2>3, <3>1, <3>2, <3>3, <3>4, <3>5, <3>6, <3>7, <3>8, <3>9, <3>10, <3>11
            DEF Update
  <2>4. ASSUME NEW c \in Classes, NEW k \in Selectors, Compile(c, k)
        PROVE  Now(heap', pending'[p])
    BY <2>4, CompileNow
  <2>5. Next => \/ Update(p)
                \/ \E c \in Classes, k \in Selectors : Compile(c, k)
    BY DEF Next
  <2> QED BY <2>1, <2>3, <2>4, <2>5
<1> QED BY <1>1, <1>2, HoldsAlways, PTL DEF Spec

\* One process that changes dictionaries, and methods that are in one dictionary each: the
\* VM meets no half-changed dictionary, none without a class, and no array that two
\* dictionaries want to watch (the exceptions of sync_method_cache and setup_notification).
THEOREM OneUpdaterNoError ==
    ASSUME NEW p, Updaters = {p}, "share" \notin ImageDoes
    PROVE  Spec => []NoClassShadowError
<1>1. Now(heap, pending[p]) => NoClassShadowError
  BY DEF Now, NoClassShadowError
<1> QED BY <1>1, NowAlways, PTL

\* Under the same conditions, between two changes a send finds what the image's own
\* dictionaries say, in each class that has dictionaries the VM knows of on its whole chain:
\* however a dictionary is changed, the table is copied when it is whole again, by the store
\* to its array, by the flush at the end or by the exchange (sync_method_cache,
\* flush_method_caches, store_s_methoddict).
THEOREM OneUpdaterSendsCurrent ==
    ASSUME NEW p, Updaters = {p}, "share" \notin ImageDoes
    PROVE  Spec => []SendsFindCurrentMethods
<1>1. ASSUME Inv, Now(heap, pending[p]) PROVE SendsFindCurrentMethods
  <2> SUFFICES ASSUME pending[p] = <<>>, NEW c \in Classes,
                      \A d \in Range(Chain(heap, c)) : Linked(d), NEW k \in Selectors
               PROVE  lookup(heap, c, k) = ImageLookup(heap, c, k)
    BY DEF SendsFindCurrentMethods
  <2> PICK h : h = heap
    OBVIOUS
  <2>1. h \in HeapType /\ Holds(h, pending) /\ p \in Updaters
    BY <1>1 DEF Inv, Holds
  <2> DEFINE a == [e \in Classes |-> find_selector(h.storage[h.s_methoddict[e]], k)]
             b == [e \in Classes |-> ImageMethod(h, e, k)]
  <2>2. lookup(h, c, k) = FirstFound(h, c, a) /\ ImageLookup(h, c, k) = FirstFound(h, c, b)
    BY DEF lookup, ImageLookup
  <2>3. Range(Chain(h, c)) \subseteq Classes
    BY <2>1, ChainClasses
  <2>4. \A e \in Range(Chain(h, c)) : a[e] = b[e]
    <3> SUFFICES ASSUME NEW e \in Classes, e \in Range(Chain(h, c))
                 PROVE  find_selector(h.storage[h.s_methoddict[e]], k) = ImageMethod(h, e, k)
      BY <2>3
    <3> PICK v : v = View(h, e)
      OBVIOUS
    <3>1. Idle(h, p, e, v)
      BY <1>1, <2>1, IdleIs
    <3>2. Shows(v, h, e)
      BY ViewShows
    <3>3. Settled(v) /\ ImageMethod(h, e, k) = v.methods[k]
      BY <3>1 DEF Idle, AllSettled
    <3>4. InUse(v)
      BY <3>2 DEF Linked, Shows, Refers, InUse
    <3>5. v.invalid = FALSE /\ v.methoddict = v.methods
      BY <3>3, <3>4 DEF Settled, Current
    <3>6. h.storage[h.s_methoddict[e]].invalid = FALSE
          /\ h.storage[h.s_methoddict[e]].methoddict = v.methods
      BY <3>2, <3>5 DEF Shows, Refers, ShowsTable
    <3> QED BY <3>3, <3>6 DEF find_selector
  <2> HIDE DEF a, b
  <2> QED BY <2>1, <2>2, <2>4, FirstFoundSame
<1>2. Inv /\ Now(heap, pending[p]) => SendsFindCurrentMethods
  BY <1>1
<1> QED BY <1>2, NowAlways, HoldsAlways, PTL
================================================================================
