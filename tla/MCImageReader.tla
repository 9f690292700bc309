----------------------------- MODULE MCImageReader -----------------------------
(* Small images: the special objects array, the classes and symbols that the   *)
(* reader looks for, and a few objects with numbers, cycles, bytes and code.    *)
EXTENDS ImageReader, TLC

CONSTANTS true, display

MCObjectSlots == (nil :> 0) @@ (true :> 1) @@ (display :> 2) @@ (doesNotUnderstand :> 3)
MCClassSlots  == (Float :> 4) @@ (LargePositiveInteger :> 5) @@ (SmallInteger :> 6)
                 @@ (BlockClosure :> 7)

Num(n) == <<"int", n>>
Ref(i) == <<"ref", i>>

Obj(h, class, compact, format, fields, bytes, words) ==
    [header |-> h, class |-> class, compact |-> compact, format |-> format,
     hash |-> h + 3 * class, fields |-> fields, bytes |-> bytes, words |-> words]
Plain(fields)         == Obj(2, 12, 0, 1, fields, <<>>, <<>>)
Symbol(h, bytes) == Obj(h, 13, IF h = 1 THEN 2 ELSE 0, 8, <<>>, bytes, <<>>)
FloatObj(words)       == Obj(1, 7, 1, 6, <<>>, <<>>, words)

MCMaxFloat      == <<77, 88>>
MCDnuBytes      == <<100, 110, 117, 58, 33>>
MCAsSymbolBytes == <<97, 115>>

\* Objects 14 and after are payload; slot(2) is the display, slot(7) BlockClosure.
Kernel(displayed, closure) ==
    <<Obj(3, 12, 0, 2, <<Ref(2), Ref(3), Ref(displayed), Ref(5), Ref(7), Ref(8), Ref(9),
                        Ref(closure), Ref(11)>>, <<>>, <<>>),
      Plain(<<>>), Plain(<<Ref(2)>>), Plain(<<Ref(3), Num(-3)>>),
      Symbol(2, MCDnuBytes), Symbol(1, MCAsSymbolBytes),
      Plain(<<Ref(8), Ref(12)>>), Plain(<<Ref(9)>>), Plain(<<Ref(10), Num(7)>>), Plain(<<Ref(11)>>),
      Obj(2, 12, 0, 2, <<Ref(7), Ref(13)>>, <<>>, <<>>),
      Plain(<<Ref(13), Ref(4)>>), Plain(<<Ref(12)>>)>>

\* Arrays of floats and of integers with nils, one of the two values that stand
\* for nil, a cycle, and a weak array.
Numbers ==
    <<Obj(2, 12, 0, 2, <<Ref(16), Ref(2)>>, <<>>, <<>>),
      Obj(3, 12, 0, 2, <<Ref(16), Ref(17)>>, <<>>, <<>>),
      FloatObj(<<5, -6>>), FloatObj(MaxFloat),
      Plain(<<Num(1), Ref(2)>>), Plain(<<Num(MaxInt), Ref(2)>>)>>
Cycle ==
    <<Plain(<<Ref(15), Ref(16)>>), Obj(2, 12, 0, 4, <<Ref(14)>>, <<>>, <<>>),
      FloatObj(<<1, 2>>), Plain(<<Ref(16), Ref(14)>>)>>
Code ==
    <<Obj(2, 12, 0, 12, <<Num(512 + 2 ^ 18), Ref(15)>>, <<1, 2, 3>>, <<>>),
      Obj(2, 8, 0, 8, <<>>, <<1, 2, 3, 255>>, <<>>),
      Obj(2, 12, 0, 6, <<>>, <<>>, <<-1, 1>>),
      Obj(2, 8, 0, 8, <<>>, <<9, 8>>, <<>>)>>

Image(magic, big, reversed, objs) ==
    [magic |-> <<magic>>, big |-> big, reversed |-> reversed, prefix |-> 0, base |-> 1024,
     cut |-> 0, Float |-> 7, objects |-> objs]

Good ==
    {Image(6502, TRUE, FALSE, Kernel(4, 2) \o Numbers),
     Image(6505, FALSE, TRUE, Kernel(4, 10) \o Numbers),
     Image(6504, FALSE, FALSE, Kernel(2, 10) \o Cycle),
     Image(6505, TRUE, TRUE, Kernel(4, 2) \o Cycle),
     Image(6502, FALSE, FALSE, Kernel(4, 3) \o Code),
     Image(6504, TRUE, FALSE, Kernel(4, 10) \o Code)}

Small == Image(6505, FALSE, TRUE, Kernel(4, 10))
With(o) == [Small EXCEPT !.objects = Append(@, o)]

Bad ==
    {[Small EXCEPT !.cut = n] : n \in 1 .. 20}
    \union {[Small EXCEPT !.magic = m] : m \in {<<6503>>, <<68002, 0>>, <<68001, 0>>}}
    \union {[Small EXCEPT !.magic = <<0, 68003>>, !.big = TRUE]}
    \union {With(Obj(4, 12, 0, 2, <<>>, <<>>, <<>>)),
            With(Obj(2, 12, 0, 5, <<>>, <<>>, <<>>)),
            With(Obj(2, 12, 0, 7, <<>>, <<>>, <<>>)),
            With(FloatObj(<<1>>)),
            With(Obj(1, 12, 4, 2, <<>>, <<>>, <<>>)),
            [Small EXCEPT !.objects[1].fields[2] = Ref(2)],
            [Small EXCEPT !.objects[1].fields[3] = Ref(3)],
            [Small EXCEPT !.objects[1].fields[5] = Ref(8)],
            [Small EXCEPT !.objects[5].bytes = <<1>>]}

MCImages == Good \union Bad
================================================================================
