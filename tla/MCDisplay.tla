------------------------------- MODULE MCDisplay -------------------------------
(* Screens of four words, so that lines end within a word.                    *)
EXTENDS Display

Extent(w, h, d) == [width |-> w, height |-> h, depth |-> d]
SomeExtents == {Extent(33, 2, 1), Extent(3, 2, 8), Extent(1, 2, 16), Extent(1, 2, 32)}
\* Depths whose bitmaps are laid out as if there were a bit for each pixel.
DeeperExtents == {Extent(17, 2, 2), Extent(9, 2, 4)}

Char(n)  == [sym |-> n, char |-> n, mods |-> {}]
Ctrl     == [sym |-> 306, char |-> 0, mods |-> {2}]
Shift    == [sym |-> 304, char |-> 0, mods |-> {1}]
Left     == [sym |-> 276, char |-> 0, mods |-> {}]
SomeKeys == {Char(97), Left, Ctrl, Shift}
Interrupts_ == {Key(97, {2})}
SomePoints == {<<1, 1>>}
=============================================================================
