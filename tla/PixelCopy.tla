-------------------------------- MODULE PixelCopy --------------------------------
(***************************************************************************)
(* What drawing a rectangle promises, whatever the words that pixels are kept *)
(* in: a pixel of the rectangle becomes what a source and its own value gave   *)
(* when drawing began, at any time but once and for all, and the other pixels   *)
(* of the picture stay as they are.                                            *)
(***************************************************************************)
VARIABLES
    picture,    \* the pixels, by their places
    goal        \* what those of the rectangle are to become

Init == DOMAIN goal \subseteq DOMAIN picture

Draw ==
    /\ DOMAIN picture' = DOMAIN picture
    /\ \A p \in DOMAIN picture :
          \/ picture'[p] = picture[p]
          \/ p \in DOMAIN goal /\ picture'[p] = goal[p]
    /\ UNCHANGED goal

Spec == Init /\ [][Draw]_<<picture, goal>>
=============================================================================
