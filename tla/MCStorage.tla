------------------------------ MODULE MCStorage --------------------------------
EXTENDS Storage, TLC
CONSTANTS a, b, i, Array, WeakArray
\* Of both objects, in both orders: a pair that can be exchanged, alone or before one that
\* cannot, because one side is a small integer.
MCBecomeArrays ==
    UNION {{<< <<p[1]>>, <<p[2]>> >>, << <<p[1], i>>, <<p[2], p[2]>> >>} :
        p \in {<<a, b>>, <<b, a>>}}
Symmetry == Permutations({a, b}) 
MCSpans == {<<0, 1, 0>>, <<0, 0, 1>>, <<1, 1, 0>>}
MCinstsize   == (Array :> 0) @@ (WeakArray :> 1)
MCisvariable == (Array :> TRUE) @@ (WeakArray :> TRUE)
MCisweak     == (Array :> FALSE) @@ (WeakArray :> TRUE)
================================================================================
