-------------------------------- MODULE MCBitBlt --------------------------------
(* Forms of three lines of up to three words of four bits, with one, two or four   *)
(* pixels in a word.                                                        *)
EXTENDS BitBlt, TLC

CONSTANTS A, B    \* forms

Form(w, h, d) == [width |-> w, height |-> h, depth |-> d]
Two(f, g)     == (A :> f) @@ (B :> g)

Some    == <<{1, 2}, {0, 2, 3}, {0, 1}, {0, 3}, {2}, {0, 1, 3}, {1}, {0, 1, 2}, {0, 2}>>
Other   == <<{0, 2}, {0}, {1, 2, 3}, {1, 3}, {1}, {0, 1, 2}, {2, 3}, {0, 3}, {0, 1, 3}>>
Gray    == <<{1, 3}, {0, 2}>>
Colors  == <<{0}, {1}>>
SomeBits == Two(Some, Other)

\* A BitBlt of form from, or none, to form A.
Call(rule, forms, from, halftone, at, size, sourceAt, clip, map) ==
    [rule |-> rule, dest |-> A, source |-> from, forms |-> forms,
     bits |-> SomeBits,
     halftone |-> halftone, destX |-> at[1], destY |-> at[2], width |-> size[1],
     height |-> size[2], sourceX |-> sourceAt[1], sourceY |-> sourceAt[2],
     clipX |-> clip[1], clipY |-> clip[2], clipWidth |-> clip[3], clipHeight |-> clip[4],
     colorMap |-> map]

NoClip    == <<None, None, None, None>>
Lines     == {<<0, 0>>, <<0, 1>>, <<1, 0>>}

\* Everywhere in a form of 12 pixels a line, or of 9, from itself and another.
Copies ==
    {Call(3, Two(Form(12, 3, d), Form(9, 3, d)), f, <<>>, <<dx, l[1]>>, <<w, 2>>,
          <<sx, l[2]>>, NoClip, None)
        : d \in {1, -1}, f \in {A, B}, l \in Lines,
          dx \in 0 .. 11, sx \in 0 .. 11, w \in {1, 3, 4, 5, 8, 9, 11}}
DeepCopies ==
    {Call(6, Two(Form(6, 3, d), Form(5, 3, d)), f, <<>>, <<dx, l[1]>>, <<w, 2>>,
          <<sx, l[2]>>, NoClip, None)
        : d \in {2, -2}, f \in {A, B}, l \in Lines,
          dx \in -1 .. 5, sx \in -1 .. 5, w \in {1, 2, 3, 5, 6}}
Clips ==
    {Call(3, Two(Form(10, 3, 1), Form(9, 3, 1)), f, Gray, <<dx, 0>>, <<None, None>>,
          <<2, -1>>, <<cx, cy, cw, ch>>, None)
        : f \in {A, None}, dx \in {-2, 0, 3, None}, cx \in {-3, 2, None}, cy \in {-1, 1},
          cw \in {4, 20, None}, ch \in {1, 3}}
Rules ==
    {Call(r, Two(Form(6, 3, d), Form(6, 3, d)), f, h, <<1, 0>>, <<5, 2>>, <<0, 0>>, NoClip, None)
        : r \in (0 .. 17) \union {20, 21, 22, 25, 26, 30, 42}, d \in {1, -2, 2}, f \in {A, B, None},
          h \in {<<>>, Gray}}
Mapped(sizes) ==
    {Call(r, Two(Form(6, 3, d), Form(9, 3, e)), B, <<>>, <<dx, 0>>, <<w, 2>>, <<sx, 0>>,
          NoClip, m)
        : r \in {3, 6}, d \in {2, -2}, e \in {1, -1}, dx \in 0 .. 5, sx \in 0 .. 5, w \in sizes,
          m \in {Colors, None}}
Others ==
    {Call(3, Two(f, g), B, <<>>, <<0, 0>>, <<4, 2>>, <<0, 0>>, NoClip, None)
        : f \in {Form(6, 2, 1), Form(5, -1, 1)}, g \in {Form(9, 2, 0), Form(9, 3, 1), Form(9, 2, 1)}}

MCCalls == Copies \union DeepCopies \union Clips \union Rules \union Mapped(1 .. 3) \union Others
WideMaps == Mapped({5})
=============================================================================
