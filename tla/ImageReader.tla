------------------------------ MODULE ImageReader ------------------------------
(***************************************************************************)
(* How the VM reads an image (spyvm/squeakimage.py, util/stream.py, the      *)
(* fillin methods of spyvm/model.py): headers and bodies one after another,  *)
(* the VM's own objects matched with those of the special objects array,      *)
(* empty instances, and then their contents. Objects are filled in the order *)
(* of a dictionary, which is arbitrary, and a pointers object fills what it  *)
(* refers to first: the values decide how it stores them.                    *)
(***************************************************************************)
EXTENDS ImageFormat, FiniteSets, Functions

CONSTANTS
    Images,            \* descriptions of the files that are read
    ObjectSlots,       \* where the special objects array has the objects and the
    ClassSlots,        \*   classes that the VM knows, by name
    Prebuilt,          \* names of the objects that exist before an image is read
    CompactClassesArray,
    CompactClasses,    \* size of the compact classes array
    PossibleOffset,    \* POSSIBLE_IMAGE_OFFSET
    nil, doesNotUnderstand,                 \* some of the names of objects,
    Float, LargePositiveInteger, SmallInteger, BlockClosure,    \* of classes,
    Metaclass, asSymbol,                    \* and of what is found elsewhere
    DnuBytes, AsSymbolBytes,                \* the bytes of two symbols
    MaxInt, MaxFloat   \* values that stand for nil in an unwrapped storage

Names == DOMAIN ObjectSlots \union DOMAIN ClassSlots

ASSUME ImageReaderAssumption ==
    /\ DOMAIN ObjectSlots \intersect DOMAIN ClassSlots = {}
    /\ nil \in Prebuilt \intersect DOMAIN ObjectSlots
    /\ doesNotUnderstand \in DOMAIN ObjectSlots \ Prebuilt
    /\ {Float, LargePositiveInteger, SmallInteger, BlockClosure} \subseteq DOMAIN ClassSlots
    /\ {Metaclass, asSymbol} \intersect Names = {}
    /\ DOMAIN ClassSlots \subseteq Prebuilt
    /\ Prebuilt \subseteq Names
    /\ PossibleOffset \in Nat

VARIABLES
    image,     \* the description of the image, the bytes of its file, and the
    data,      \*   addresses of its objects
    addresses,
    phase,     \* what comes next, or how reading ended
    version,   \* version magic of the image
    pos,       \* the stream: position, and bytes since the count was reset
    count,
    size,      \* fields of the image header: endofmemory, oldbaseaddress,
    oldbase,   \*   specialobjectspointer
    special,
    chunks,    \* what has been read, by address
    wobject,   \* the object that stands for a chunk, nobody at first
    instance,  \* what it is an instance of
    filling,   \* chunks that are being filled in, innermost last
    contents,  \* what has been filled in
    objtable   \* the objects the VM knows by name

header  == <<size, oldbase, special>>
file    == <<image, data, addresses>>
reading == <<file, version, pos, count, header, chunks>>
objects == <<wobject, instance, filling, contents, objtable>>
vars    == <<phase, reading, objects>>

Nobody == 0     \* neither an address of a chunk nor a name

Failures == {"IndexError", "CorruptImageError", "FatalError", "AssertionError",
             "KeyError", "Warning"}
Phases   == {"version", "header", "body", "compact", "g_objects", "prebuilt",
             "w_objects", "fillin", "populate", "symbols", "done", "64bit"}

Fail(why) ==
    /\ phase' = why
    /\ UNCHANGED <<reading, objects>>

--------------------------------------------------------------------------------
(* The stream.                                                              *)

image_versions ==
    {[magic |-> 6502, big |-> b, reversed |-> FALSE] : b \in BOOLEAN}
    \union {[magic |-> 6504, big |-> b, reversed |-> FALSE] : b \in BOOLEAN}
    \union {[magic |-> 6505, big |-> b, reversed |-> TRUE] : b \in BOOLEAN}
is_modern == version.magic > 6502

\* Both words in the byte order that is assumed for the magic.
image_versions_64bit ==
    {<<BytesOf(0, TRUE), BytesOf(m, TRUE)>> : m \in {68000, 68002, 68003}}
    \union {<<BytesOf(m, FALSE), BytesOf(0, FALSE)>> : m \in {68000, 68002, 68003}}

Bytes(p)     == SubSeq(data, p + 1, p + 4)
Word(p)      == WordOf(Bytes(p), version.big)
Readable(p, n) == p + 4 * n <= Len(data)

FloatWords(ws) == IF version.reversed THEN Reverse(ws) ELSE ws

VersionsAt(p) ==
    {v \in image_versions : Bytes(p) = BytesOf(v.magic, v.big)}
Is64bit(p) == <<Bytes(p), Bytes(p + 4)>> \in image_versions_64bit

\* try_read_version, at the start and after an offset: the first word is
\* enough, or it takes two. A host of 32 bits refuses images of 64 bits; another
\* goes on with words of 8 bytes, which is not followed here. IS_64BIT, which says
\* what the host is, is read nowhere else.
ReadVersion(IS_64BIT) ==
    /\ phase = "version"
    /\ LET again == Len(data) > PossibleOffset + 4
               /\ VersionsAt(0) = {} /\ ~Is64bit(0)
           p     == IF again THEN PossibleOffset ELSE 0
       IN  \/ /\ VersionsAt(p) # {} /\ Readable(0, 1)
              /\ version' \in VersionsAt(p)
              /\ pos' = p + 4
              /\ phase' = "header"
              /\ UNCHANGED <<file, count, header, chunks, objects>>
           \/ VersionsAt(p) = {} /\ ~Readable(p, 2) /\ Fail("IndexError")
           \/ /\ VersionsAt(p) = {} /\ Readable(p, 2) /\ Is64bit(p)
              /\ phase' = IF IS_64BIT THEN "64bit" ELSE "FatalError"
              /\ UNCHANGED <<reading, objects>>
           \/ /\ VersionsAt(p) = {} /\ Readable(p, 2) /\ ~Is64bit(p)
              /\ Fail("CorruptImageError")

\* The words of the header; the position is that in the file, the size of the
\* header is that of the image.
ReadHeader ==
    /\ phase = "header"
    /\ IF ~Readable(pos, 8) THEN Fail("IndexError")
       ELSE IF Word(pos) - (pos + 32) <= 0 \/ Word(pos) > Len(data)
       THEN Fail("AssertionError")
       ELSE /\ size' = Word(pos + 4)
            /\ oldbase' = Word(pos + 8)
            /\ special' = Word(pos + 12)
            /\ pos' = Word(pos)
            /\ count' = 0
            /\ phase' = "body"
            /\ UNCHANGED <<file, version, chunks, objects>>

--------------------------------------------------------------------------------
(* Chunks.                                                                  *)

\* The bits of word w: those that bitmanipulation.splitter answers for a field.
Bits(w, from, length) == (w \div 2 ^ from) % 2 ^ length

HeaderLength(kind) == CASE kind = 0 -> 3 [] kind = 1 -> 2 [] kind = 3 -> 1

ChunkSize(p, n) ==
    IF n = 3 THEN Bits(Word(p), 2, 30) ELSE Bits(Word(p + 4 * (n - 1)), 2, 6)

\* The chunk whose header starts at p.
ChunkAt(p) ==
    LET kind == Bits(Word(p), 0, 2)
        n    == HeaderLength(kind)
        base == Word(p + 4 * (n - 1))
    IN  [size    |-> ChunkSize(p, n),
         format  |-> Bits(base, 8, 4),
         classid |-> CASE n = 1 -> Bits(base, 12, 5)
                       [] n = 2 -> Word(p) - 1
                       [] n = 3 -> Word(p + 4),
         hash12  |-> Bits(base, 17, 12),
         data    |-> <<>>]

HeadersAgree(p) ==
    LET kind == Bits(Word(p), 0, 2)
    IN  \A i \in 1 .. HeaderLength(kind) - 1 : Bits(Word(p + 4 * i), 0, 2) = kind

\* read_object: its address is that of the last word of its header.
ReadObject ==
    /\ phase = "body" /\ count < size
    /\ IF ~Readable(pos, 1) THEN Fail("IndexError")
       ELSE LET kind == Bits(Word(pos), 0, 2) IN
       IF kind = 2 THEN Fail("CorruptImageError")
       ELSE LET n == HeaderLength(kind) IN
       IF ~Readable(pos, n) THEN Fail("IndexError")
       ELSE IF ~HeadersAgree(pos) THEN Fail("AssertionError")
       ELSE LET chunk == ChunkAt(pos)
                first == pos + 4 * n
                read  == [i \in 1 .. chunk.size - 1 |-> Word(first + 4 * (i - 1))]
                at    == count + 4 * n - 4 + oldbase
            IN  IF ~Readable(first, chunk.size - 1) THEN Fail("IndexError")
                ELSE /\ chunks' = [a \in DOMAIN chunks \union {at} |->
                            IF a = at THEN [chunk EXCEPT !.data = read] ELSE chunks[a]]
                     /\ pos' = first + 4 * Len(read)
                     /\ count' = count + 4 * (n + Len(read))
                     /\ UNCHANGED <<file, phase, version, header, objects>>

\* What is in an object of references, which include those of a method.
ispointers(c)       == c.format < 5
isweak(c)           == c.format = 4
iswords(c)          == c.format = 6
isbytes(c)          == c.format \in 8 .. 11
iscompiledmethod(c) == c.format \in 12 .. 15
iscompact(c)        == c.classid \in 1 .. CompactClasses

\* decode_compiled_method_header: the header is the first reference, tagged.
LiteralSize(c) == Bits(c.data[1] \div 2, 9, 8)
TempsFit(c)    == Bits(c.data[1] \div 2, 18, 6) >= Bits(c.data[1] \div 2, 24, 4)

References(c) ==
    SubSeq(c.data, 1, CASE ispointers(c)       -> Len(c.data)
                        [] iscompiledmethod(c) -> LiteralSize(c) + 1
                        [] OTHER               -> 0)

istagged(w) == w % 2 = 1

\* init_compactclassesarray.
compactarray   == chunks[chunks[special].data[CompactClassesArray + 1]]
compactclasses == compactarray.data

InitCompactClassesArray ==
    /\ phase = "body" /\ count >= size
    /\ IF special \notin DOMAIN chunks THEN Fail("KeyError")
       ELSE IF Len(chunks[special].data) <= CompactClassesArray \/ chunks[special].format # 2
       THEN Fail("AssertionError")
       ELSE IF chunks[special].data[CompactClassesArray + 1] \notin DOMAIN chunks
       THEN Fail("KeyError")
       ELSE IF Len(compactclasses) # CompactClasses \/ compactarray.format # 2
       THEN Fail("AssertionError")
       ELSE IF ~(Range(compactclasses) \subseteq DOMAIN chunks) THEN Fail("KeyError")
       ELSE /\ phase' = "g_objects"
            /\ UNCHANGED <<reading, objects>>

\* The chunk of the class of chunk a.
g_class(a) ==
    LET c == chunks[a] IN IF iscompact(c) THEN compactclasses[c.classid] ELSE c.classid

\* init_g_objects: every class and every reference is looked up.
InitGObjects ==
    /\ phase = "g_objects"
    /\ \/ /\ \E c \in Range(chunks) : iscompiledmethod(c) /\ ~TempsFit(c)
          /\ Fail("AssertionError")
       \/ /\ \E a \in DOMAIN chunks :
                \/ g_class(a) \notin DOMAIN chunks
                \/ \E w \in Range(References(chunks[a])) : ~istagged(w) /\ w \notin DOMAIN chunks
          /\ Fail("KeyError")
       \/ /\ \A c \in Range(chunks) : iscompiledmethod(c) => TempsFit(c)
          /\ \A a \in DOMAIN chunks :
                /\ g_class(a) \in DOMAIN chunks
                /\ \A w \in Range(References(chunks[a])) : istagged(w) \/ w \in DOMAIN chunks
          /\ wobject' = [a \in DOMAIN chunks |-> Nobody]
          /\ phase' = "prebuilt"
          /\ UNCHANGED <<reading, instance, filling, contents, objtable>>

--------------------------------------------------------------------------------
(* Objects.                                                                 *)

Specials      == chunks[special].data
SlotOf(n)     == IF n \in DOMAIN ObjectSlots THEN ObjectSlots[n] ELSE ClassSlots[n]
SpecialAt(n)  == Specials[SlotOf(n) + 1]

\* Mutant: every image has a class BlockClosure.
ClassNamesAlways == DOMAIN ClassSlots
\* Images before 4.0 had no BlockClosure class.
ClassNames == DOMAIN ClassSlots \ IF is_modern THEN {} ELSE {BlockClosure}
NamesAt(a) == {n \in DOMAIN ObjectSlots \union ClassNames : SpecialAt(n) = a}

\* The names that may be the first to give chunk a their prebuilt object: those
\* of objects go first, in an arbitrary order.
FirstNames(a) ==
    LET known == NamesAt(a) \intersect Prebuilt \intersect DOMAIN ObjectSlots
    IN  IF known # {} THEN known ELSE NamesAt(a) \intersect DOMAIN ClassSlots

\* Names of a chunk that go with another object than the first; nil may be in the place
\* of any.
OtherNames(a, first) == IF first = nil THEN {} ELSE NamesAt(a) \ {first}

\* A name that has no object yet may have come before the first, unseen.
AssignPrebuiltConstants ==
    /\ phase = "prebuilt"
    /\ IF \E n \in DOMAIN ObjectSlots \union ClassNames : SlotOf(n) >= Len(Specials)
       THEN Fail("IndexError")
       ELSE IF \E n \in DOMAIN ObjectSlots \union ClassNames : istagged(SpecialAt(n))
       THEN Fail("Warning")
       ELSE LET shared == {a \in DOMAIN chunks : Cardinality(FirstNames(a)) > 1} IN
            \E choice \in [shared -> Prebuilt] :
                LET named    == {a \in DOMAIN chunks : FirstNames(a) # {}}
                    first(a) == IF a \in shared THEN choice[a]
                                ELSE CHOOSE n \in FirstNames(a) : TRUE
                IN  /\ \A a \in shared : choice[a] \in FirstNames(a)
                    /\ \/ (\E a \in named : OtherNames(a, first(a)) # {}) /\ Fail("Warning")
                       \/ /\ \A a \in named : OtherNames(a, first(a)) \intersect Prebuilt = {}
                          /\ wobject' = [a \in DOMAIN chunks |->
                                IF a \in named THEN first(a) ELSE Nobody]
                          /\ phase' = "w_objects"
                          /\ UNCHANGED <<reading, instance, filling, contents, objtable>>

\* get_bytes: words taken apart in the byte order of the image, without the
\* bytes of the last one that are not in use.
GetBytes(ws, odd) ==
    LET all == FlattenSeq([i \in 1 .. Len(ws) |-> BytesOf(ws[i], version.big)])
    IN  SubSeq(all, 1, Len(all) - odd)
get_bytes(c) == GetBytes(c.data, c.format % 4)

isfloat(a) == iswords(chunks[a]) /\ wobject[g_class(a)] = Float
is32bitlargepositiveinteger(a) ==
    /\ chunks[a].format = 8
    /\ wobject[g_class(a)] = LargePositiveInteger
    /\ Len(get_bytes(chunks[a])) <= 4

\* The special objects that the VM knows consist of references.
InstanceOf(a) ==
    CASE wobject[a] # Nobody \/ ispointers(chunks[a]) -> "PointersObject"
      [] isfloat(a)                                   -> "Float"
      [] is32bitlargepositiveinteger(a)               -> "LargePositiveInteger1Word"
      [] iswords(chunks[a])                           -> "WordsObject"
      [] isbytes(chunks[a])                           -> "BytesObject"
      [] iscompiledmethod(chunks[a])                  -> "CompiledMethod"

InitWObjects ==
    /\ phase = "w_objects"
    /\ \/ /\ \E a \in DOMAIN chunks : wobject[a] = Nobody /\ chunks[a].format \in {5, 7}
          /\ Fail("CorruptImageError")
       \/ /\ \A a \in DOMAIN chunks : wobject[a] = Nobody => chunks[a].format \notin {5, 7}
          /\ instance' = [a \in DOMAIN chunks |-> InstanceOf(a)]
          /\ wobject' = [a \in DOMAIN chunks |-> IF wobject[a] = Nobody THEN a ELSE wobject[a]]
          /\ phase' = "fillin"
          /\ UNCHANGED <<reading, filling, contents, objtable>>

--------------------------------------------------------------------------------
(* Contents.                                                                *)

NilValue == <<"ref", nil>>

\* A reference as the choice of a storage sees it: a Float that has not been
\* filled in yet is zero.
ValueOf(w) ==
    CASE istagged(w)            -> <<"int", w \div 2>>
      [] ~istagged(w) /\ instance[w] = "Float" ->
            <<"float", IF w \in DOMAIN contents THEN contents[w].words ELSE <<0, 0>>>>
      [] OTHER                  -> <<"ref", wobject[w]>>

\* StrategyFactory.strategy_type_for, as in module Storage.
StorageFor(values, weak) ==
    LET may(type, max) == \A v \in values : v = NilValue \/ (v[1] = type /\ v # <<type, max>>)
    IN  IF weak THEN "WeakList"
        ELSE IF values \subseteq {NilValue} THEN "AllNil"
        ELSE IF may("int", MaxInt) THEN "SmallIntegerOrNil"
        ELSE IF may("float", MaxFloat) THEN "FloatOrNil"
        ELSE "List"

\* Numbers of a storage for them are held unwrapped; others keep references.
Unwrapped(storage, w) ==
    CASE storage = "SmallIntegerOrNil" -> IF ValueOf(w) = NilValue THEN <<"int", MaxInt>> ELSE ValueOf(w)
      [] storage = "FloatOrNil" -> IF ValueOf(w) = NilValue THEN <<"float", MaxFloat>> ELSE ValueOf(w)
      [] OTHER -> IF istagged(w) THEN ValueOf(w) ELSE <<"ref", wobject[w]>>

\* The identity hash of a method is not taken over.
NoHash == -1

\* What the fillin methods make of chunk a.
Filled(a) ==
    LET c       == chunks[a]
        refs    == References(c)
        storage == IF instance[a] = "PointersObject"
                   THEN StorageFor({ValueOf(w) : w \in Range(refs)}, isweak(c)) ELSE "none"
    IN  [class   |-> wobject[g_class(a)],
         hash    |-> IF iscompiledmethod(c) THEN NoHash ELSE c.hash12,
         storage |-> storage,
         fields  |-> [i \in 1 .. Len(refs) |-> Unwrapped(storage, refs[i])],
         bytes   |-> IF isbytes(c) \/ iscompiledmethod(c)
                     THEN GetBytes(SubSeq(c.data, Len(refs) + 1, Len(c.data)), c.format % 4)
                     ELSE <<>>,
         words   |-> IF isfloat(a) THEN FloatWords(c.data)
                     ELSE IF iswords(c) THEN c.data ELSE <<>>]

FilledIn == DOMAIN contents \union Range(filling)

\* What chunk a fills in before it looks at the values.
\* Mutant: an object is filled in without what it refers to.
AwaitsNothing(a) == {}
Awaits(a) ==
    IF instance[a] # "PointersObject" THEN {}
    ELSE {i \in 1 .. Len(chunks[a].data) :
            ~istagged(chunks[a].data[i]) /\ chunks[a].data[i] \notin FilledIn}

Begin(a) ==
    /\ filling' = Append(filling, a)
    /\ UNCHANGED <<phase, reading, wobject, instance, contents, objtable>>

\* fillin_w_objects: the next chunk in the order of the dictionary,
FillNext ==
    /\ phase = "fillin" /\ filling = <<>>
    /\ \E a \in DOMAIN chunks \ FilledIn : Begin(a)

\* the next reference of the object that is being filled in,
FillReference ==
    /\ phase = "fillin" /\ filling # <<>>
    /\ LET a == Last(filling) IN
       /\ Awaits(a) # {}
       /\ Begin(chunks[a].data[CHOOSE i \in Awaits(a) : \A j \in Awaits(a) : i <= j])

FillFailure(a) ==
    IF instance[a] = "Float" /\ Len(chunks[a].data) # 2 THEN "CorruptImageError"
    ELSE IF /\ instance[a] \in {"PointersObject", "BytesObject", "WordsObject"}
            /\ instance[g_class(a)] # "PointersObject"
    THEN "AssertionError" ELSE "none"

\* and the object itself.
FillObject ==
    /\ phase = "fillin" /\ filling # <<>>
    /\ LET a == Last(filling) IN
       /\ Awaits(a) = {}
       /\ IF FillFailure(a) # "none" THEN Fail(FillFailure(a))
          ELSE /\ contents' = [b \in DOMAIN contents \union {a} |->
                                  IF b = a THEN Filled(a) ELSE contents[b]]
               /\ filling' = Front(filling)
               /\ UNCHANGED <<phase, reading, wobject, instance, objtable>>

AllFilled ==
    /\ phase = "fillin" /\ filling = <<>> /\ DOMAIN chunks \subseteq FilledIn
    /\ phase' = "populate"
    /\ UNCHANGED <<reading, objects>>

ChunkOf(w) == CHOOSE a \in DOMAIN chunks : wobject[a] = w
ClassOf(w) == contents[ChunkOf(w)].class

\* populate_special_objects.
PopulateSpecialObjects ==
    /\ phase = "populate"
    /\ objtable' = [n \in DOMAIN ObjectSlots \union {Metaclass} |->
            IF n = Metaclass THEN ClassOf(ClassOf(SmallInteger))
            ELSE IF n \in Prebuilt THEN n ELSE wobject[SpecialAt(n)]]
    /\ phase' = "symbols"
    /\ UNCHANGED <<reading, wobject, instance, filling, contents>>

\* find_symbol: the first symbol of these bytes, or else the last object.
FindSymbol(bytes) ==
    LET dnu     == ChunkOf(objtable[doesNotUnderstand])
        matches == {a \in DOMAIN chunks :
                       /\ instance[a] = "BytesObject"
                       /\ contents[a].class = contents[dnu].class
                       /\ contents[a].bytes = bytes}
    IN  IF matches = {} THEN CHOOSE a \in DOMAIN chunks : \A b \in DOMAIN chunks : b <= a
        ELSE CHOOSE a \in matches : \A b \in matches : a <= b

\* Mutant: any symbol will do.
IsSomeSymbol(a) == instance[a] = "BytesObject"
IsDoesNotUnderstand(a) == instance[a] = "BytesObject" /\ contents[a].bytes = DnuBytes

CreateImage ==
    /\ phase = "symbols"
    /\ IF ~IsDoesNotUnderstand(ChunkOf(objtable[doesNotUnderstand])) THEN Fail("AssertionError")
       ELSE /\ objtable' = [n \in DOMAIN objtable \union {asSymbol} |->
                    IF n = asSymbol THEN wobject[FindSymbol(AsSymbolBytes)] ELSE objtable[n]]
            /\ phase' = "done"
            /\ UNCHANGED <<reading, wobject, instance, filling, contents>>

--------------------------------------------------------------------------------
Init ==
    /\ image \in Images
    /\ data = File(image)
    /\ addresses = Addresses(image)
    /\ phase = "version"
    /\ version = [magic |-> 0, big |-> TRUE, reversed |-> FALSE]
    /\ pos = 0 /\ count = 0
    /\ size = 0 /\ oldbase = 0 /\ special = 0
    /\ chunks = <<>> /\ wobject = <<>> /\ instance = <<>>
    /\ filling = <<>> /\ contents = <<>> /\ objtable = <<>>

Next ==
    \/ \E IS_64BIT \in BOOLEAN : ReadVersion(IS_64BIT)
    \/ ReadHeader \/ ReadObject
    \/ InitCompactClassesArray \/ InitGObjects
    \/ AssignPrebuiltConstants \/ InitWObjects
    \/ FillNext \/ FillReference \/ FillObject \/ AllFilled
    \/ PopulateSpecialObjects \/ CreateImage

Spec == Init /\ [][Next]_vars /\ WF_vars(Next)

--------------------------------------------------------------------------------
(* Properties.                                                              *)

TypeOK ==
    /\ image \in Images
    /\ phase \in Phases \union Failures
    /\ version.magic \in {0, 6502, 6504, 6505}
    /\ pos \in 0 .. Len(data) /\ count \in 0 .. pos
    /\ DOMAIN wobject \in {{}, DOMAIN chunks}
    /\ DOMAIN instance \in {{}, DOMAIN chunks}
    /\ DOMAIN contents \subseteq DOMAIN chunks
    /\ \A a \in DOMAIN contents : instance[a] = "Float" => Len(contents[a].words) = 2
    /\ Range(filling) \subseteq DOMAIN chunks
    /\ DOMAIN objtable \subseteq Names \union {Metaclass, asSymbol}

At(i) == addresses[i]
Objects == image.objects

\* The values that the reference f of the image's description stands for: the
\* one that a program sees, by value if it is a number.
WrittenValue(f) ==
    CASE f[1] = "int" -> f
      [] f[1] = "ref" ->
            IF IsFloat(image, Objects[f[2]]) THEN <<"float", Objects[f[2]].words>>
            ELSE <<"ref", wobject[At(f[2])]>>

\* What a program sees of reference i of a chunk that has been filled in.
SeenValue(c, i) ==
    LET v == c.fields[i] IN
    CASE c.storage = "SmallIntegerOrNil" /\ v = <<"int", MaxInt>>  -> NilValue
      [] c.storage = "FloatOrNil" /\ v = <<"float", MaxFloat>>     -> NilValue
      [] v[1] = "ref" /\ instance[ChunkOf(v[2])] = "Float" ->
            <<"float", contents[ChunkOf(v[2])].words>>
      [] OTHER -> v

\* An image that has been read consists of the objects that were written: with
\* the same references to each other, numbers, bytes and words, whatever the
\* sizes of the headers, the byte order and the order of the words in floats,
\* and in whatever order the objects were filled in.
ObjectsAsWritten ==
    phase = "done" =>
        /\ DOMAIN chunks = {At(i) : i \in DOMAIN Objects}
        /\ \A i \in DOMAIN Objects :
            LET o == Objects[i]
                c == contents[At(i)]
            IN  /\ c.class = wobject[At(o.class)]
                /\ IsMethod(o) \/ c.hash = o.hash
                /\ Len(c.fields) = Len(o.fields)
                /\ \A j \in DOMAIN o.fields : SeenValue(c, j) = WrittenValue(o.fields[j])
                /\ c.bytes = o.bytes
                /\ c.words = o.words

\* The storage of an object is the one for the values it was written with,
\* although most of them are made after it: "Recursive fillin required to
\* enable specialized storage strategies".
StorageFitsValues ==
    \A i \in DOMAIN Objects :
        At(i) \in DOMAIN contents /\ instance[At(i)] = "PointersObject" =>
            contents[At(i)].storage =
                StorageFor({WrittenValue(f) : f \in Range(Objects[i].fields)}, Objects[i].format = 4)

\* No object is filled in twice, in particular not from within itself: graphs
\* of objects have cycles, and set_initial_strategy asserts that there is no
\* shadow yet.
FilledOnce ==
    /\ IsInjective(filling)
    /\ Range(filling) \intersect DOMAIN contents = {}

\* The objects that the VM has made beforehand are those of the image, at the
\* place in the special objects array that goes with their name, and the ones
\* it takes from there are found; a place may hold nil.
SpecialObjectsMatch ==
    phase = "done" =>
        /\ \A n \in ClassNames \union (Prebuilt \intersect DOMAIN ObjectSlots) :
              wobject[SpecialAt(n)] \in {n, nil}
        /\ \A n \in DOMAIN ObjectSlots : objtable[n] = wobject[SpecialAt(n)] \/ wobject[SpecialAt(n)] = nil
        /\ objtable[asSymbol] \in DOMAIN chunks
        /\ contents[objtable[asSymbol]].bytes = AsSymbolBytes

\* Nothing goes wrong on the way from the file to the objects.
ImageAsWritten ==
    TypeOK /\ FilledOnce /\ StorageFitsValues /\ ObjectsAsWritten /\ SpecialObjectsMatch

\* Descriptions of files that begin like images of objects of 32, or of 64 bits.
Of32bits(im) == Len(im.magic) = 1 /\ \E v \in image_versions : v.magic = im.magic[1]
Of64bits(im) == \E words \in image_versions_64bit :
    words = [i \in DOMAIN im.magic |-> BytesOf(im.magic[i], im.big)]

\* Of those that are cut off or have something in them that no image has.
Damaged(im) ==
    \/ im.cut > 0
    \/ \E o \in Range(im.objects) :
          \/ o.header = 4 \/ o.format \in {5, 7} \/ (IsFloat(im, o) /\ Len(o.words) # 2)
          \/ o.header = 1 /\ o.compact \notin 1 .. CompactClasses
    \/ im.objects[im.objects[1].fields[SlotOf(doesNotUnderstand) + 1][2]].bytes # DnuBytes

\* Nothing of a file that is cut off or damaged is taken for an image, and its words are
\* read in the width in which they were written (squeakimage.py 94-115).
DamagedRefused ==
    /\ phase = "done" => Of32bits(image) /\ ~Damaged(image)
    /\ phase = "64bit" => Of64bits(image)

\* Places that should have objects of their own do: an object that the VM has
\* made may not be found twice, except that nil may be in the place of a class.
SpecialsDiffer(im) ==
    LET at(n) == im.objects[1].fields[SlotOf(n) + 1]
        old   == IF im.magic[1] > 6502 THEN {} ELSE {BlockClosure}
    IN  \A m \in Prebuilt \ ({nil} \union old) :
            \/ m \in DOMAIN ClassSlots /\ at(m) = at(nil)
            \/ \A n \in Names \ ({m} \union old) : at(n) # at(m)

\* Every other image of 32 bits is read to its end: filling in terminates.
ImagesLoad ==
    Of32bits(image) /\ ~Damaged(image) /\ image.prefix = 0 /\ SpecialsDiffer(image)
        ~> phase = "done"
=============================================================================
