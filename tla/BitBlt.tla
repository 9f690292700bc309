--------------------------------- MODULE BitBlt ---------------------------------
(***************************************************************************)
(* Drawing a rectangle (spyvm/plugins/bitblt.py): pixels of a source form, a  *)
(* halftone pattern and a destination form are merged by a rule, word by word. *)
(* A word is the set of its bits; pixels share words, so the first and the     *)
(* last word of a line are masked, the words of the source are shifted, and a  *)
(* form that is copied onto itself is walked through from the right end.       *)
(***************************************************************************)
EXTENDS Integers, Sequences, FiniteSets, SequencesExt, FiniteSetsExt

CONSTANTS
    WordSize,   \* bits of a word: 32
    Calls,      \* what a BitBlt object may hold when it is to copy bits
    None        \* no source form, nil in an instance variable

ASSUME BitBltAssumption ==
    /\ WordSize \in Nat \ {0}
    /\ \A c \in Calls : c.dest \in DOMAIN c.forms /\ c.source \in DOMAIN c.forms \union {None}

AllOnes  == 0 .. WordSize - 1
Word     == SUBSET AllOnes
MaskTable(n) == 0 .. n - 1

\* Bits that are shifted out of a word are lost.
Shifted(w, n) == {b + n : b \in w} \intersect AllOnes

VARIABLES
    call,       \* the instance variables of the BitBlt and of its forms
    bits,       \* the words of the forms
    goal,       \* what the pixels of the destination are to become
    phase,
    rect,       \* sx, sy, dx, dy, bbW and bbH
    dir,        \* hDir and vDir
    mask1, mask2, nWords,
    destIndex, destDelta, sourceIndex, sourceDelta,
    skew, preload,
    row, word,  \* what is copied next: lines from 0, words from 1
    prevWord, thisWord,
    srcBitShift

setup == <<rect, dir, mask1, mask2, nWords, destDelta, sourceDelta, skew, preload>>
walk  == <<destIndex, sourceIndex, row, word, prevWord, thisWord, srcBitShift>>
vars  == <<call, bits, goal, phase, setup, walk>>

--------------------------------------------------------------------------------
(* Forms: a negative depth means that the first pixel of a word is in its       *)
(* lowest bits.                                                              *)

Abs(n)        == IF n < 0 THEN -n ELSE n
depth(f)      == Abs(f.depth)
msb(f)        == f.depth > 0
pixPerWord(f) == WordSize \div depth(f)
pitch(f)      == (f.width + pixPerWord(f) - 1) \div pixPerWord(f)

dest          == call.forms[call.dest]
HasSource     == call.source # None
source        == call.forms[call.source]
intOrIfNil(v, i) == IF v = None THEN i ELSE v

\* What FormShadow.strategy_switched does not accept.
invalid(f, words) ==
    \/ f.width < 0 \/ f.height < 0 \/ f.depth = 0
    \/ Len(words) < pitch(f) * f.height

width  == intOrIfNil(call.width, dest.width)
height == intOrIfNil(call.height, dest.height)

--------------------------------------------------------------------------------
(* Combination rules, on words.                                             *)

Value(w)  == MapThenSumSet(LAMBDA b : 2 ^ b, w)
Bits(n)   == {b \in AllOnes : (n \div 2 ^ b) % 2 = 1}
Partition(nBits, i) == (i - 1) * nBits .. i * nBits - 1

partitionedAdd(w1, w2, nBits, nParts) ==
    UNION {LET mask == Partition(nBits, i)
               sum  == (Value(w1 \intersect mask) + Value(w2 \intersect mask)) % 2 ^ WordSize
           IN  IF sum <= Value(mask) /\ sum >= Value(w1 \intersect mask) THEN Bits(sum) ELSE mask
             : i \in 1 .. nParts}
partitionedSub(w1, w2, nBits, nParts) ==
    UNION {LET mask == Partition(nBits, i)
           IN  Bits(Abs(Value(w1 \intersect mask) - Value(w2 \intersect mask))) : i \in 1 .. nParts}
partitionedAND(w1, w2, nBits, nParts) ==
    UNION {IF Partition(nBits, i) \subseteq w1 THEN w2 \intersect Partition(nBits, i) ELSE {}
             : i \in 1 .. nParts}

\* Rules that merge() does not know. Addition of whole words (18, 19), the blending
\* of colours (24, 37) and, in depths 16 and 32, sums and differences (20, 21), which
\* are of each component of a colour there, are left out.
Unknown(rule) == rule \in {22, 23} \union (27 .. 36) \union (38 .. 41)

merge(s, d, rule) ==
    LET not(w) == AllOnes \ w
        d1     == depth(dest)
        n      == pixPerWord(dest)
    IN  CASE rule = 0  -> {}
          [] rule = 1  -> s \intersect d
          [] rule = 2  -> s \ d
          [] rule = 3  -> s
          [] rule = 4  -> d \ s
          [] rule = 5  -> d
          [] rule = 6  -> (s \ d) \union (d \ s)
          [] rule = 7  -> s \union d
          [] rule = 8  -> not(s \union d)
          [] rule = 9  -> (not(s) \ d) \union (d \ not(s))
          [] rule = 10 -> not(d)
          [] rule = 11 -> s \union not(d)
          [] rule = 12 -> not(s)
          [] rule = 13 -> not(s) \union d
          [] rule = 14 -> not(s) \union not(d)
          [] rule \in 15 .. 17 -> d
          [] rule = 20 -> partitionedAdd(s, d, d1, n)
          [] rule = 21 -> partitionedSub(s, d, d1, n)
          [] rule = 25 -> IF s = {} THEN d ELSE s \union partitionedAND(not(s), d, d1, n)
          [] rule = 26 -> partitionedAND(not(s), d, d1, n)

--------------------------------------------------------------------------------
(* Before the loop.                                                         *)

End(how) ==
    /\ phase' = how
    /\ UNCHANGED <<call, bits, goal, setup, walk>>

\* primitiveCopyBits, loadBitBlt and loadForm.
LoadBitBlt ==
    /\ phase = "load"
    /\ IF \/ call.rule > 41
          \/ invalid(dest, bits[call.dest])
          \/ HasSource /\ invalid(source, bits[call.source])
       THEN End("failed") ELSE End("clip")

\* The last pixel of a line or column of the source is not taken.
WithinSource(s, n, extent) == IF s + n >= extent THEN extent - 1 - s ELSE n

\* One dimension of clipRange: n pixels to at, from the pixel from of a source
\* of a certain extent.
Clipped(at, n, clipAt, clipSize, extent, from, sourceExtent) ==
    LET offset == Max({clipAt, 0, at}) - at
        over   == Max({at + n - Min({clipAt + clipSize, extent}), 0})
        skip   == IF HasSource THEN Max({-(from + offset), 0}) ELSE 0
        s      == from + offset + skip
        m      == n - offset - over - skip
    IN  [s |-> s, d |-> at + offset + skip,
         n |-> IF HasSource THEN WithinSource(s, m, sourceExtent) ELSE m]

ClipRange ==
    /\ phase = "clip"
    /\ LET from(v) == IF HasSource THEN intOrIfNil(v, 0) ELSE 0
           h == Clipped(intOrIfNil(call.destX, 0), width, intOrIfNil(call.clipX, 0),
                        intOrIfNil(call.clipWidth, width), dest.width, from(call.sourceX),
                        IF HasSource THEN source.width ELSE 0)
           v == Clipped(intOrIfNil(call.destY, 0), height, intOrIfNil(call.clipY, 0),
                        intOrIfNil(call.clipHeight, height), dest.height, from(call.sourceY),
                        IF HasSource THEN source.height ELSE 0)
       IN  /\ rect' = [sx |-> h.s, sy |-> v.s, dx |-> h.d, dy |-> v.d, w |-> h.n, h |-> v.n]
           /\ phase' = IF h.n <= 0 \/ v.n <= 0 THEN "done" ELSE "dest"
    /\ UNCHANGED <<call, bits, goal, dir, mask1, mask2, nWords, destDelta, sourceDelta,
                   skew, preload, walk>>

\* The pixels of the first word, and of the last one.
startBits(r) == pixPerWord(dest) - (r.dx % pixPerWord(dest))
endBits(r)   == ((r.dx + r.w - 1) % pixPerWord(dest)) + 1

\* The loop that is taken depends on the depths.
Loop == CASE ~HasSource                        -> "fill"
          [] HasSource /\ depth(source) = depth(dest) -> "copy"
          [] OTHER                             -> "map"

DestMaskAndPointerInit ==
    /\ phase = "dest"
    /\ LET first == Shifted(AllOnes, (IF msb(dest) THEN -1 ELSE 1) * (WordSize - startBits(rect) * depth(dest)))
           last  == Shifted(AllOnes, (IF msb(dest) THEN 1 ELSE -1) * (WordSize - endBits(rect) * depth(dest)))
           n     == IF rect.w < startBits(rect) THEN 1
                    ELSE (rect.w - startBits(rect) + pixPerWord(dest) - 1) \div pixPerWord(dest) + 1
       IN  /\ mask1' = IF rect.w < startBits(rect) THEN first \intersect last ELSE first
           /\ mask2' = IF rect.w < startBits(rect) THEN {} ELSE last
           /\ nWords' = n
           /\ dir' = [h |-> 1, v |-> 1]
           /\ destIndex' = rect.dy * pitch(dest) + rect.dx \div pixPerWord(dest)
           /\ destDelta' = pitch(dest) - n
    /\ phase' = IF HasSource THEN "overlap" ELSE "fill"
    /\ UNCHANGED <<call, bits, goal, rect, sourceDelta, skew, preload, sourceIndex, row, word,
                   prevWord, thisWord, srcBitShift>>

\* Mutant: a line is always copied from its left end.
NoDirections(r) == [h |-> 1, v |-> IF call.source = call.dest /\ r.dy > r.sy THEN -1 ELSE 1]
Directions(r) ==
    [v |-> IF call.source = call.dest /\ r.dy > r.sy THEN -1 ELSE 1,
     h |-> IF call.source = call.dest /\ r.dy = r.sy /\ r.dx > r.sx THEN -1 ELSE 1]

CheckSourceOverlap ==
    /\ phase = "overlap"
    /\ LET d    == Directions(rect)
           down == IF d.v = -1 THEN rect.h - 1 ELSE 0
           on   == IF d.h = -1 THEN rect.w - 1 ELSE 0
           r    == [rect EXCEPT !.sx = @ + on, !.dx = @ + on, !.sy = @ + down, !.dy = @ + down]
       IN  /\ dir' = d
           /\ rect' = r
           /\ IF d.h = -1 /\ nWords > 1
              THEN mask1' = mask2 /\ mask2' = mask1
              ELSE UNCHANGED <<mask1, mask2>>
           /\ destIndex' = r.dy * pitch(dest) + r.dx \div pixPerWord(dest)
           /\ destDelta' = pitch(dest) * d.v - nWords * d.h
    /\ phase' = IF Loop = "copy" THEN "skew" ELSE "pick"
    /\ UNCHANGED <<call, bits, goal, nWords, sourceDelta, skew, preload, sourceIndex, row, word,
                   prevWord, thisWord, srcBitShift>>

SourceSkewAndPointerInit ==
    /\ phase = "skew"
    /\ LET n     == pixPerWord(dest)
           sLow  == rect.sx % n
           dLow  == rect.dx % n
           twice == IF dir.h > 0 THEN sLow + Min({rect.w, n - dLow}) > n - 1
                    ELSE sLow - Min({rect.w, dLow + 1}) + 1 < 0
           turn  == (IF msb(source) THEN sLow - dLow ELSE dLow - sLow) * depth(dest)
       IN  /\ preload' = twice
           /\ skew' = IF ~twice THEN turn ELSE IF turn < 0 THEN turn + WordSize ELSE turn - WordSize
           /\ sourceIndex' = rect.sy * pitch(source) + rect.sx \div pixPerWord(source)
           /\ sourceDelta' = pitch(source) * dir.v - nWords * dir.h - (IF twice THEN dir.h ELSE 0)
    /\ phase' = "copy"
    /\ UNCHANGED <<call, bits, goal, rect, dir, mask1, mask2, nWords, destDelta, destIndex,
                   row, word, prevWord, thisWord, srcBitShift>>

--------------------------------------------------------------------------------
(* The loops.                                                               *)

SourceBits == bits[call.source]
DestBits   == bits[call.dest]
InSource(i) == i \in 0 .. Len(SourceBits) - 1
SourceWord(i) == SourceBits[i + 1]

\* The halftone word of the line that is drawn.
HalftoneWord ==
    IF call.halftone = <<>> THEN AllOnes
    ELSE call.halftone[((rect.dy + row * dir.v) % Len(call.halftone)) + 1]

\* The words of a line in between are stored as a whole.
\* Mutant: all but the first one are.
MaskOfFirst(n) == IF n = 1 THEN mask1 ELSE AllOnes
Mask(n) == CASE n = 1 -> mask1 [] n > 1 /\ n = nWords -> mask2 [] OTHER -> AllOnes

\* getword and setword check that the index is inside; merge may not know the
\* rule.
StoreMerged(s, mask) ==
    LET d == DestBits[destIndex + 1]
        m == (mask \intersect merge(s, d, call.rule)) \union (d \ mask)
    IN  bits' = [bits EXCEPT ![call.dest][destIndex + 1] = m]

\* Steps to the next word, and from the last word of a line to the next line.
Step(from) ==
    LET ends == word = nWords
    IN  /\ word' = IF ends THEN 1 ELSE word + 1
        /\ row' = IF ends THEN row + 1 ELSE row
        /\ destIndex' = destIndex + dir.h + IF ends THEN destDelta ELSE 0
        /\ sourceIndex' = from + IF ends THEN sourceDelta ELSE 0
        /\ phase' = IF ends /\ row + 1 = rect.h THEN "done" ELSE phase
        /\ UNCHANGED <<call, goal, setup>>

CannotStore == destIndex \notin 0 .. Len(DestBits) - 1

\* copyLoopNoSource.
FillWord ==
    /\ phase = "fill"
    /\ IF CannotStore THEN End("AssertionError")
       ELSE IF Unknown(call.rule) THEN End("failed")
       ELSE /\ StoreMerged(HalftoneWord, Mask(word))
            /\ Step(sourceIndex)
            /\ UNCHANGED <<prevWord, thisWord, srcBitShift>>

\* Of two consecutive words of the source, what is in a word of the destination.
SkewMask ==
    IF skew = -WordSize THEN {} ELSE Shifted(AllOnes, -skew)
rotate32bit(this, prev) ==
    LET turn   == IF skew = -WordSize THEN 0 ELSE skew
        unturn == CASE turn = 0 -> 0 [] turn < 0 -> turn + WordSize [] turn > 0 -> turn - WordSize
    IN  Shifted(prev \ SkewMask, unturn) \union Shifted(this \intersect SkewMask, turn)

Store(s, this, prev, from) ==
    /\ StoreMerged(s \intersect HalftoneWord, Mask(word))
    /\ thisWord' = this /\ prevWord' = prev
    /\ Step(from)
    /\ UNCHANGED srcBitShift

\* copyLoop: the first word of a line, after the one that is needed with it,
CopyFirst ==
    /\ phase = "copy" /\ word = 1
    /\ LET i == sourceIndex + IF preload THEN dir.h ELSE 0
       IN  IF CannotStore \/ ~InSource(sourceIndex) \/ ~InSource(i) THEN End("AssertionError")
           ELSE IF Unknown(call.rule) THEN End("failed")
           ELSE LET prev == IF preload THEN SourceWord(sourceIndex) ELSE {}
                    this == SourceWord(i)
                IN  Store(rotate32bit(this, prev), this, this, i + dir.h)

\* the words in between, where words that need not be shifted are just moved,
Moves == call.rule = 3 /\ skew \in {0, -WordSize} /\ HalftoneWord = AllOnes

CopyMiddle ==
    /\ phase = "copy" /\ word \in 2 .. nWords - 1
    /\ IF CannotStore \/ ~InSource(sourceIndex) THEN End("AssertionError")
       ELSE LET next == SourceWord(sourceIndex)
            IN  CASE Moves /\ dir.h = 1  -> Store(prevWord, thisWord, next, sourceIndex + 1)
                  [] Moves /\ dir.h = -1 -> Store(next, next, prevWord, sourceIndex - 1)
                  [] ~Moves -> Store(rotate32bit(next, prevWord), next, next, sourceIndex + dir.h)

\* and the last one: "we are currently overrunning source bits in some cases".
CopyLast ==
    /\ phase = "copy" /\ word > 1 /\ word = nWords
    /\ IF CannotStore THEN End("AssertionError")
       ELSE LET this == IF InSource(sourceIndex) THEN SourceWord(sourceIndex) ELSE thisWord
            IN  Store(rotate32bit(this, prevWord), this, prevWord, sourceIndex + dir.h)

--------------------------------------------------------------------------------
(* copyLoopPixMap: pixels of another depth, one by one through the colour map.  *)

\* The shift of pixel x of form f in its word.
ShiftOf(f, x) ==
    LET k == x % pixPerWord(f)
    IN  IF msb(f) THEN WordSize - depth(f) * (k + 1) ELSE k * depth(f)
ShiftInc(f) == IF msb(f) THEN -depth(f) ELSE depth(f)

PixMapInit ==
    /\ phase = "pick"
    /\ LET n     == pixPerWord(source)
           first == n - (rect.sx % n)
       IN  /\ sourceIndex' = rect.sy * pitch(source) + rect.sx \div n
           /\ sourceDelta' = pitch(source)
                             - IF rect.w < first THEN 0 ELSE (rect.w - first) \div n + 1
           /\ srcBitShift' = ShiftOf(source, rect.sx)
    /\ phase' = "map"
    /\ UNCHANGED <<call, bits, goal, rect, dir, mask1, mask2, nWords, destDelta, skew, preload,
                   destIndex, row, word, prevWord, thisWord>>

\* pickSourcePixels: nPix pixels of the source, in the word and from the shift
\* where the last ones ended, to the shift to of a word.
pickSourcePixels(nPix, to) ==
    LET pick[i \in 0 .. nPix] ==
            IF i = 0 THEN [at |-> sourceIndex, shift |-> srcBitShift, word |-> {},
                           inside |-> InSource(sourceIndex)]
            ELSE IF ~pick[i - 1].inside THEN pick[i - 1]
            ELSE LET p     == pick[i - 1]
                     pixel == Shifted(SourceWord(p.at), -p.shift) \intersect MaskTable(depth(source))
                     color == call.colorMap[(Value(pixel) % Len(call.colorMap)) + 1]
                     shift == p.shift + ShiftInc(source)
                     next  == IF shift \in AllOnes THEN p.at ELSE p.at + 1
                 IN  [at     |-> next,
                      shift  |-> shift % WordSize,
                      inside |-> InSource(next),
                      word   |-> p.word \union Shifted(color \intersect MaskTable(depth(dest)),
                                                       to + (i - 1) * ShiftInc(dest))]
    IN  pick[nPix]

\* Only the second of two words is known to be the last one.
MapMask == IF word = 1 THEN mask1 ELSE IF nWords = 2 THEN mask2 ELSE AllOnes
MapPixels ==
    IF word = 1 THEN Min({startBits(rect), rect.w})
    ELSE IF nWords = 2 THEN endBits(rect) ELSE pixPerWord(dest)

MapWord ==
    /\ phase = "map"
    /\ IF ~InSource(sourceIndex) THEN End("AssertionError")
       ELSE IF call.colorMap = None THEN End("failed")
       ELSE LET p == pickSourcePixels(MapPixels, ShiftOf(dest, IF word = 1 THEN rect.dx ELSE 0))
            IN  IF ~p.inside \/ CannotStore THEN End("AssertionError")
                ELSE IF Unknown(call.rule) THEN End("failed")
                ELSE /\ StoreMerged(p.word \intersect HalftoneWord, MapMask)
                     /\ Step(p.at)
                     /\ srcBitShift' = IF word = nWords THEN ShiftOf(source, rect.sx) ELSE p.shift
                     /\ UNCHANGED <<prevWord, thisWord>>

--------------------------------------------------------------------------------
(* The same, pixel by pixel and with nothing drawn yet.                      *)

Drawable ==
    /\ call.rule <= 41 /\ ~Unknown(call.rule)
    /\ ~invalid(dest, bits[call.dest])
    /\ HasSource => ~invalid(source, bits[call.source])
    /\ Loop = "map" => call.colorMap # None

Place == IF Drawable THEN (0 .. dest.width - 1) \X (0 .. dest.height - 1) ELSE {}

PixelIn(f, w, x) == Shifted(w, -ShiftOf(f, x)) \intersect MaskTable(depth(f))
Pixel(f, words, x, y) == PixelIn(f, words[y * pitch(f) + x \div pixPerWord(f) + 1], x)
Picture == [p \in Place |-> Pixel(dest, DestBits, p[1], p[2])]

\* The places that are in the destination, the clipping rectangle and the
\* rectangle, and whose source is in the source form but not in its last line
\* or column.
Drawn ==
    LET nil0(v)    == intOrIfNil(v, 0)
        x0(p)      == p[1] - nil0(call.destX)
        y0(p)      == p[2] - nil0(call.destY)
        between(k, from, n) == k >= from /\ k < from + n
    IN  {p \in Place :
            /\ between(p[1], nil0(call.clipX), intOrIfNil(call.clipWidth, width))
            /\ between(p[2], nil0(call.clipY), intOrIfNil(call.clipHeight, height))
            /\ between(x0(p), 0, width) /\ between(y0(p), 0, height)
            /\ HasSource =>
                  /\ between(nil0(call.sourceX) + x0(p), 0, source.width - 1)
                  /\ between(nil0(call.sourceY) + y0(p), 0, source.height - 1)}

\* What is merged into place p.
SourcePixel(p) ==
    LET x == intOrIfNil(call.sourceX, 0) + p[1] - intOrIfNil(call.destX, 0)
        y == intOrIfNil(call.sourceY, 0) + p[2] - intOrIfNil(call.destY, 0)
        pixel == Pixel(source, SourceBits, x, y)
        s == IF ~HasSource THEN MaskTable(depth(dest))
             ELSE IF Loop = "copy" THEN pixel
             ELSE call.colorMap[(Value(pixel) % Len(call.colorMap)) + 1]
    IN  IF call.halftone = <<>> THEN s \intersect MaskTable(depth(dest))
        ELSE s \intersect PixelIn(dest, call.halftone[(p[2] % Len(call.halftone)) + 1], p[1])

\* Rules below 15 are the truth table of the merged bit.
MergedPixel(s, d) ==
    LET rule == call.rule
        bit(b) == IF b \in s THEN IF b \in d THEN 0 ELSE 1 ELSE IF b \in d THEN 2 ELSE 3
        whole == MaskTable(depth(dest))
    IN  CASE rule < 15         -> {b \in whole : (rule \div 2 ^ bit(b)) % 2 = 1}
          [] rule \in 15 .. 17 -> d
          [] rule = 20         -> Bits(Min({Value(s) + Value(d), Value(whole)}))
          [] rule = 21         -> Bits(Abs(Value(s) - Value(d)))
          [] rule = 25         -> IF s = {} THEN d ELSE s
          [] rule = 26         -> IF s = {} THEN d ELSE {}

Goal == [p \in Drawn |-> MergedPixel(SourcePixel(p), Pixel(dest, DestBits, p[1], p[2]))]

--------------------------------------------------------------------------------
Init ==
    /\ call \in Calls
    /\ bits = call.bits
    /\ goal = Goal
    /\ phase = "load"
    /\ rect = [sx |-> 0, sy |-> 0, dx |-> 0, dy |-> 0, w |-> 0, h |-> 0]
    /\ dir = [h |-> 1, v |-> 1]
    /\ mask1 = {} /\ mask2 = {} /\ nWords = 0
    /\ destIndex = 0 /\ destDelta = 0 /\ sourceIndex = 0 /\ sourceDelta = 0
    /\ skew = 0 /\ preload = FALSE
    /\ row = 0 /\ word = 1
    /\ prevWord = {} /\ thisWord = {} /\ srcBitShift = 0

Next ==
    \/ LoadBitBlt \/ ClipRange \/ DestMaskAndPointerInit
    \/ CheckSourceOverlap \/ SourceSkewAndPointerInit \/ PixMapInit
    \/ FillWord \/ CopyFirst \/ CopyMiddle \/ CopyLast \/ MapWord

Spec == Init /\ [][Next]_vars

--------------------------------------------------------------------------------
(* Properties.                                                              *)

TypeOK ==
    /\ call.dest \in DOMAIN bits /\ DOMAIN bits = DOMAIN call.forms
    /\ phase \in {"load", "clip", "dest", "overlap", "skew", "pick", "fill", "copy", "map",
                  "done", "failed", "AssertionError"}
    /\ \A f \in DOMAIN bits : Len(bits[f]) = Len(call.bits[f]) /\ Range(bits[f]) \subseteq Word
    /\ DOMAIN goal \subseteq Place
    /\ mask1 \in Word /\ mask2 \in Word
    /\ phase \in {"fill", "copy", "map"} =>
          /\ word \in 1 .. nWords /\ row \in 0 .. rect.h - 1
          /\ skew \in -WordSize .. WordSize

\* Drawing stays within the words of both forms: the word that is read ahead of
\* the one that is needed exists, although "we are currently overrunning source
\* bits in some cases".
StaysInside == phase # "AssertionError"

\* What has been drawn in the end is every pixel of the rectangle, as the rule
\* makes it of the pixels that were there in the beginning; nothing at all when
\* the primitive fails, for the image then draws it all with code of its own.
DrawnAsPromised ==
    /\ phase = "done" => \A p \in Place :
          Picture[p] = IF p \in DOMAIN goal THEN goal[p]
                       ELSE Pixel(dest, call.bits[call.dest], p[1], p[2])
    /\ phase = "failed" => ~Drawable /\ bits = call.bits

\* A drawing that ends has drawn what it should, and it ends by no assertion.
DrawnInside == TypeOK /\ StaysInside /\ DrawnAsPromised

\* No pixel is drawn twice and none outside of the rectangle is touched, not
\* even for a moment: pixels are read before they are overwritten, in whatever
\* direction a form is copied onto itself.
Pixels == INSTANCE PixelCopy WITH picture <- Picture, goal <- goal
ImplementsPixelCopy == Pixels!Spec
=============================================================================
