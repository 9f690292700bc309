------------------------------ MODULE ImageFormat ------------------------------
(***************************************************************************)
(* How a Squeak VM writes an image file. The writer is not part of this      *)
(* repository: it is modelled from what spyvm/squeakimage.py expects of it.  *)
(* An image is described by what its objects are, and File(im) is the         *)
(* sequence of bytes that stands for it. The module ImageReader reads such    *)
(* files; what it makes of them is compared with the descriptions.           *)
(*                                                                         *)
(* A description im has the fields                                         *)
(*   magic     the words of the file's version magic: one, or two (64 bits)  *)
(*   big, reversed   byte order of words, order of the words of a Float      *)
(*   prefix    bytes in front of the image (a shell script, usually)         *)
(*   base      address of the first word of the body when it was saved       *)
(*   cut       words that are missing at the end of the file                 *)
(*   objects   the objects in order; the first is the special objects array  *)
(* and an object o the fields                                               *)
(*   header    words of its header, 4 for a block that is not in use         *)
(*   class     index of its class in the objects                             *)
(*   compact   index of its class in the compact classes array               *)
(*   format    bits 8 to 11 of its header                                    *)
(*   hash      its identity hash                                            *)
(*   fields    its references: <<"int", n>> or <<"ref", index>>             *)
(*   bytes     its bytes, which follow the references of a method            *)
(*   words     its words, of a Float the higher one first                    *)
(***************************************************************************)
EXTENDS Integers, Sequences, SequencesExt

HeaderSize == 40    \* 64 in Squeak; more than the nine words that are in use

\* The bytes of a word, and the word that a sequence of at most four bytes is.
BytesOf(w, big) ==
    LET b(n) == (w \div 2 ^ (8 * n)) % 256
    IN  IF big THEN <<b(3), b(2), b(1), b(0)>> ELSE <<b(0), b(1), b(2), b(3)>>

WordOf(b, big) ==
    LET at(i)  == IF i > Len(b) THEN 0 ELSE b[i]
        hi     == IF big THEN at(1) ELSE at(4)
        signed == IF hi >= 128 THEN hi - 256 ELSE hi
    IN  signed * 2 ^ 24
        + (IF big THEN at(2) * 2 ^ 16 + at(3) * 2 ^ 8 + at(4)
                  ELSE at(3) * 2 ^ 16 + at(2) * 2 ^ 8 + at(1))

IsFloat(im, o)  == o.format = 6 /\ o.class = im.Float
IsMethod(o)     == o.format >= 12
Padding(o)      == (-Len(o.bytes)) % 4
ByteWords(o)    == (Len(o.bytes) + Padding(o)) \div 4
BodySize(o)     == Len(o.fields) + ByteWords(o) + Len(o.words)
HeaderWords(o)  == IF o.header = 4 THEN 1 ELSE o.header

\* Words in front of object i in the body; addresses are those of base headers.
Offsets(im) ==
    LET before[i \in 1 .. Len(im.objects) + 1] ==
            IF i = 1 THEN 0
            ELSE before[i - 1] + HeaderWords(im.objects[i - 1]) + BodySize(im.objects[i - 1])
    IN  before
Addresses(im) ==
    [i \in DOMAIN im.objects |-> im.base + 4 * (Offsets(im)[i] + HeaderWords(im.objects[i]) - 1)]
Address(im, i) == Addresses(im)[i]

\* Bytes that are missing in the last word are counted in the format.
Header(im, o) ==
    LET kind == CASE o.header = 1 -> 3 [] o.header = 2 -> 1 [] o.header = 3 -> 0 [] OTHER -> 2
        size == BodySize(o) + 1
        base == kind + 4 * (size % 64) + 2 ^ 8 * (o.format + Padding(o))
                + 2 ^ 12 * o.compact + 2 ^ 17 * o.hash
        class == Address(im, o.class) + kind
    IN  CASE o.header \in {1, 4} -> <<base>>
          [] o.header = 2        -> <<class, base>>
          [] o.header = 3        -> <<4 * size, class, base>>

FieldWord(im, f) == IF f[1] = "int" THEN 2 * f[2] + 1 ELSE Address(im, f[2])

Body(im, o) ==
    [i \in 1 .. Len(o.fields) |-> FieldWord(im, o.fields[i])]
    \o [i \in 1 .. ByteWords(o) |->
            WordOf(SubSeq(o.bytes, 4 * i - 3, IF 4 * i < Len(o.bytes) THEN 4 * i ELSE Len(o.bytes)),
                   im.big)]
    \o (IF IsFloat(im, o) /\ im.reversed THEN Reverse(o.words) ELSE o.words)

Words(im) ==
    LET body == FlattenSeq([i \in 1 .. Len(im.objects) |->
                    Header(im, im.objects[i]) \o Body(im, im.objects[i])])
        used == <<HeaderSize, 4 * Len(body), im.base, Address(im, 1), 99, 0, 0, 0>>
    IN  used \o [i \in 1 .. HeaderSize \div 4 - Len(used) - Len(im.magic) |-> 0] \o body

File(im) ==
    LET words == SubSeq(Words(im), 1, Len(Words(im)) - im.cut)
    IN  [i \in 1 .. im.prefix |-> 35]
        \o FlattenSeq([i \in 1 .. Len(im.magic) |-> BytesOf(im.magic[i], im.big)])
        \o FlattenSeq([i \in 1 .. Len(words) |-> BytesOf(words[i], im.big)])
================================================================================
