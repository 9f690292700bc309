-------------------------------- MODULE Display --------------------------------
(***************************************************************************)
(* The screen (spyvm/model_display.py, spyvm/display.py). The words of the     *)
(* form that is the display are kept twice: as the image stored them, and as    *)
(* pixels in the memory of SDL's screen, where each depth lays them out in its   *)
(* own way. Drawing reaches a form through a shadow that was filled when the     *)
(* form was first drawn on. The user acts at the same time (InputEvents).       *)
(***************************************************************************)
EXTENDS InputEvents

CONSTANTS
    Forms,
    Extents,       \* records of width, height and depth
    Ink,           \* words an image may draw
    Blank,         \* the word, or the pixel, nothing has been drawn on
    MaxSteps,      \* bounds what the image does
    MaxMixed       \* bounds what image and user do together

ASSUME DisplayAssumption ==
    /\ IsFiniteSet(Forms) /\ None \notin Forms
    /\ \A e \in Extents : /\ e.width \in Nat \ {0} /\ e.height \in Nat \ {0}
                          /\ e.depth \in {1, 2, 4, 8, 16, 32}

BITS           == 32
BYTES_PER_WORD == 4
MINIMUM_DEPTH  == 8

VARIABLES
    forms,         \* extent of each form and which bitmap its bits are
    bitmaps,       \* words objects and display bitmaps, as they were made
    shadow,        \* of each form: None, or what FormShadow read from the form
    w_display,     \* the form that is the display, or None
    shownAs,       \* what that form was when it became the display
    mode,          \* width, height, depth and pitch of the screen, or None
    memory,        \* its pixels, by the position of their bytes
    shown,         \* what can be seen: memory when it was flipped
    beyond,        \* something was stored that is not in memory
    defer_updates,
    steps          \* done by the image

screenVars == <<forms, bitmaps, shadow, w_display, shownAs, mode, memory, shown, beyond,
                defer_updates, steps>>
vars == <<inputVars, screenVars>>

--------------------------------------------------------------------------------
(* Words and pixels. A pixel is a word it comes from and its index there.       *)

CeilDiv(a, b)    == (a + b - 1) \div b
PixPerWord(d)    == BITS \div d
Pitch(e)         == CeilDiv(e.width, PixPerWord(e.depth))     \* of a form, in words
Size(e)          == Pitch(e) * e.height
Pixel(word, i)   == IF word = Blank THEN Blank ELSE <<word, i>>

Bits(f)      == bitmaps[forms[f].bits]
IsDisplay(b) == b.kind = "display"
Attached(b)  == b.pixelbuffer_words > 0

WordsObject(e) == [kind |-> "words", words |-> [n \in 1 .. Size(e) |-> Blank], depth |-> 0,
                   pixelbuffer_words |-> 0, pitch |-> 0]
DisplayBitmap(words, d) ==
    [kind |-> "display", words |-> words, depth |-> d, pixelbuffer_words |-> 0, pitch |-> 0]

\* Of a mapping bitmap, from the pitch it took over.
\* Mutant: the rest of a line is forgotten.
NoBitsInLastWord(pitch) == 0
bits_in_last_word(pitch) == pitch % BITS
words_per_line(pitch) == (pitch - bits_in_last_word(pitch)) \div BITS
                         + (IF bits_in_last_word(pitch) > 0 THEN 1 ELSE 0)

\* compute_pos
MappedPosition(b, n) ==
    LET word_on_line == n % words_per_line(b.pitch)
        y == (n - word_on_line) \div words_per_line(b.pitch)
    IN  y * b.pitch + (word_on_line * BITS) \div b.depth

\* The pixel of a word that is in byte p of the memory: words hold pixels from their
\* highest bits on, the surface from its lowest byte on (set_pixelbuffer_word).
PixelInByte(d, p) == (p % BYTES_PER_WORD) \div (d \div 8)

\* Where word n of a bitmap goes: pixels by position. Depths below 8 take a byte for
\* each pixel (set_pixelbuffer_word).
CellsOf(b, n, word) ==
    IF b.depth < 8
    THEN LET last == (n + 1) % words_per_line(b.pitch) = 0 /\ bits_in_last_word(b.pitch) > 0
             bits == IF last THEN bits_in_last_word(b.pitch) ELSE BITS
             pos  == MappedPosition(b, n)
         IN  [p \in pos .. pos + (bits \div b.depth) - 1 |-> Pixel(word, p - pos)]
    ELSE [p \in BYTES_PER_WORD * n .. BYTES_PER_WORD * n + 3 |->
             Pixel(word, PixelInByte(b.depth, p))]

\* setword of each of these words, or with Attached(b) update_from_buffer: a byte that
\* several words reach keeps what the last of them has put there.
LastOf(cells) == CHOOSE c \in cells : \A d \in cells : d[1] <= c[1]
StoredAll(m, b, indexes) ==
    LET stored == {<<n, CellsOf(b, n, b.words[n + 1])>> : n \in indexes}
    IN  [p \in DOMAIN m |->
            LET here == {c \in stored : p \in DOMAIN c[2]}
            IN  IF here = {} THEN m[p] ELSE LastOf(here)[2][p]]
Beyond(m, b, indexes) ==
    \E n \in indexes : ~(DOMAIN CellsOf(b, n, Blank) \subseteq DOMAIN m)

Indexes(b) == 0 .. Len(b.words) - 1

--------------------------------------------------------------------------------
(* What the image does.                                                      *)

ImageSteps ==
    /\ running /\ steps < MaxSteps /\ (steps + 1) * Len(happened) <= MaxMixed
    /\ steps' = steps + 1

\* Words n of a bitmap are set, and, if it has the screen, on the screen.
SetWords(i, indexes, word) ==
    LET b == [bitmaps[i] EXCEPT !.words = [n \in DOMAIN @ |->
                                             IF n - 1 \in indexes THEN word ELSE @[n]]]
    IN  /\ bitmaps' = [bitmaps EXCEPT ![i] = b]
        /\ memory' = IF Attached(b) THEN StoredAll(memory, b, indexes) ELSE memory
        /\ beyond' = (beyond \/ (Attached(b) /\ Beyond(memory, b, indexes)))

\* The former display keeps its screen: it was meant to relinquish it.
MayStore(f) == "former" \in ImageDoes \/ f = w_display \/ ~Attached(Bits(f))

\* Form>>setExtent:depth:, or bits of the image's own.
SetExtent(f, e) ==
    /\ ImageSteps /\ e # forms[f].extent
    /\ bitmaps' = Append(bitmaps, WordsObject(e))
    /\ forms' = [forms EXCEPT ![f] = [bits |-> Len(bitmaps) + 1, extent |-> e]]
    /\ UNCHANGED <<inputVars, shadow, w_display, shownAs, mode, memory, shown, beyond,
                   defer_updates>>

\* at:put: on the bits of a form, and FILL.
AtPut(f, n, word) ==
    /\ ImageSteps /\ MayStore(f)
    /\ SetWords(forms[f].bits, {n}, word)
    /\ UNCHANGED <<inputVars, forms, shadow, w_display, shownAs, mode, shown, defer_updates>>

Fill(f, word) ==
    /\ ImageSteps /\ MayStore(f)
    /\ SetWords(forms[f].bits, Indexes(Bits(f)), word)
    /\ UNCHANGED <<inputVars, forms, shadow, w_display, shownAs, mode, shown, defer_updates>>

\* Mutant: updates are shown only while they are deferred.
FlippedIfDeferred(m) == IF defer_updates THEN m ELSE shown
Flipped(m) == IF defer_updates THEN shown ELSE m

\* The shadow is filled at the first drawing and never again.
FormShadow(f) == IF shadow[f] = None THEN forms[f] ELSE shadow[f]
MayDraw(f) ==
    \/ "redraws" \in ImageDoes
    \/ MayStore(f) /\ FormShadow(f) = forms[f] /\ (f = w_display => IsDisplay(Bits(f)))

\* A BitBlt draws one word (primitiveCopyBits and what follows it).
CopyBits(f, n, word) ==
    /\ ImageSteps /\ MayDraw(f)
    /\ n \in Indexes(bitmaps[FormShadow(f).bits])
    /\ shadow' = [shadow EXCEPT ![f] = FormShadow(f)]
    /\ SetWords(FormShadow(f).bits, {n}, word)
    /\ shown' = IF f = w_display /\ IsDisplay(Bits(f)) THEN Flipped(memory') ELSE shown
    /\ running' = (f = w_display => IsDisplay(Bits(f)))
    /\ UNCHANGED <<forms, w_display, shownAs, mode, defer_updates>>
    /\ UNCHANGED <<happened, polled, key, button, mouse_position, interrupt_key,
                   deferred_event, evented, lastWindowSize, delivered, taken>>

\* set_video_mode, on a screen whose lines are aligned.
VideoMode(e) ==
    LET d == Max({e.depth, MINIMUM_DEPTH})
    IN  [width |-> e.width, height |-> e.height, depth |-> d,
         pitch |-> BYTES_PER_WORD * CeilDiv(e.width * (d \div 8), BYTES_PER_WORD)]

\* get_display_bitmap, create_display_bitmap, from_words_object
HasDisplayBitmap(f) == IsDisplay(Bits(f)) /\ Bits(f).depth = forms[f].extent.depth

\* take_over_display: the pitch may differ from the width.
TakenOver(b, video) ==
    [b EXCEPT !.pitch = video.pitch,
              !.pixelbuffer_words = (video.width * video.height)
                                        \div (BYTES_PER_WORD \div (video.depth \div 8))]

\* BE_DISPLAY. What it finds in w_display is a form, so nothing is relinquished.
BeDisplay(f) ==
    LET e     == forms[f].extent
        video == VideoMode(e)
        i     == IF HasDisplayBitmap(f) THEN forms[f].bits ELSE Len(bitmaps) + 1
        b     == TakenOver(IF HasDisplayBitmap(f) THEN Bits(f)
                           ELSE DisplayBitmap(Bits(f).words, e.depth), video)
        blank == [p \in 0 .. video.pitch * video.height - 1 |-> Blank]
        new   == [forms[f] EXCEPT !.bits = i]
    IN  /\ ImageSteps
        /\ w_display' = f /\ shownAs' = new
        /\ mode' = video
        /\ bitmaps' = IF HasDisplayBitmap(f) THEN [bitmaps EXCEPT ![i] = b] ELSE Append(bitmaps, b)
        /\ forms' = [forms EXCEPT ![f] = new]
        /\ memory' = IF Attached(b) THEN StoredAll(blank, b, Indexes(b)) ELSE blank
        /\ beyond' = (beyond \/ (Attached(b) /\ Beyond(blank, b, Indexes(b))))
        /\ shown' = IF defer_updates THEN blank ELSE memory'
        /\ lastWindowSize' = <<e.width, e.height>>
        /\ UNCHANGED <<shadow, defer_updates>>
        /\ UNCHANGED <<happened, polled, key, button, mouse_position, interrupt_key,
                       deferred_event, evented, running, delivered, taken>>

DeferUpdates ==
    /\ ImageSteps
    /\ defer_updates' = ~defer_updates
    /\ UNCHANGED <<inputVars, forms, bitmaps, shadow, w_display, shownAs, mode, memory, shown,
                   beyond>>

ForceDisplayUpdate ==
    /\ ImageSteps
    /\ shown' = memory
    /\ UNCHANGED <<inputVars, forms, bitmaps, shadow, w_display, shownAs, mode, memory, beyond,
                   defer_updates>>

ScreenActs ==
    \/ \E f \in Forms : \/ \E e \in Extents : SetExtent(f, e)
                        \/ BeDisplay(f)
                        \/ \E word \in Ink :
                              \/ Fill(f, word)
                              \/ \E n \in Indexes(Bits(f)) : AtPut(f, n, word)
                              \/ \E n \in 0 .. Len(bitmaps[FormShadow(f).bits].words) - 1 :
                                    CopyBits(f, n, word)
    \/ DeferUpdates \/ ForceDisplayUpdate

FormNumber == SetToSeq(Forms)
Index(seq, x) == CHOOSE i \in DOMAIN seq : seq[i] = x

Init ==
    /\ InputInit
    /\ \E e \in Extents :
          /\ bitmaps = [i \in 1 .. Cardinality(Forms) |-> WordsObject(e)]
          /\ forms = [f \in Forms |-> [bits |-> Index(FormNumber, f), extent |-> e]]
    /\ shadow = [f \in Forms |-> None]
    /\ w_display = None /\ shownAs = None /\ mode = None
    /\ memory = <<>> /\ shown = <<>> /\ beyond = FALSE
    /\ defer_updates = FALSE
    /\ steps = 0

InputActs ==
    /\ InputNext
    /\ steps * Len(happened') <= MaxMixed
    /\ UNCHANGED screenVars

Next == ScreenActs \/ InputActs
Spec == Init /\ [][Next]_vars

--------------------------------------------------------------------------------
(* Properties.                                                               *)

\* Types of the variables of screen and input.
TypeOK ==
    /\ InputTypeOK
    /\ \A f \in Forms : /\ forms[f].bits \in DOMAIN bitmaps /\ forms[f].extent \in Extents
                        /\ shadow[f] = None \/ shadow[f].bits \in DOMAIN bitmaps
                        /\ Len(Bits(f).words) = Size(forms[f].extent)
    /\ \A i \in DOMAIN bitmaps : Attached(bitmaps[i]) => IsDisplay(bitmaps[i])
    /\ w_display = None \/ (w_display \in Forms /\ shownAs.bits \in DOMAIN bitmaps)
    /\ DOMAIN shown = DOMAIN memory
    /\ defer_updates \in BOOLEAN /\ beyond \in BOOLEAN

\* Each pixel of the display form is where SDL looks for it.
Shows(m) ==
    LET e     == mode
        depth == shownAs.extent.depth
        bytes == mode.depth \div 8
        words == bitmaps[shownAs.bits].words
    IN  \A x \in 0 .. e.width - 1, y \in 0 .. e.height - 1, i \in 0 .. bytes - 1 :
            m[y * mode.pitch + x * bytes + i]
                = Pixel(words[y * Pitch(shownAs.extent) + x \div PixPerWord(depth) + 1],
                        x % PixPerWord(depth))

\* As long as the display form keeps the bits and the extent it became the display
\* with, its words and the pixels on the screen are the same picture, in depths 1, 8, 16
\* and 32 (forms of 2 and 4 are laid out with the words per line of depth 1), however
\* often displays, depths and extents changed before. (W_DisplayBitmap and its
\* subclasses, BE_DISPLAY)
MemoryMatchesDisplay ==
    w_display # None /\ forms[w_display] = shownAs => Shows(memory)

\* No word is stored where the screen has no memory. (set_pixelbuffer_word)
StaysInMemory == ~beyond

\* The memory of the screen is that of the display, and its words stay within it.
ScreenSound == TypeOK /\ StaysInMemory /\ MemoryMatchesDisplay

\* What a BitBlt draws on the display can be seen at once, with all that was stored
\* there before it, unless updates are deferred; a display that has been deferred
\* shows everything when it is forced to. (primitiveCopyBits, flush_to_screen, flip)
WhatIsDrawnIsShown ==
    [][/\ (/\ w_display # None /\ ~defer_updates
           /\ \E word \in Ink, n \in Indexes(bitmaps[FormShadow(w_display).bits]) :
                  CopyBits(w_display, n, word)) => Shows(shown)'
       /\ (ForceDisplayUpdate /\ w_display # None /\ forms[w_display] = shownAs)
              => Shows(shown)']_vars
=============================================================================
