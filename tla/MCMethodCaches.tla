--------------------------- MODULE MCMethodCaches ---------------------------
(* Instances of MethodCaches for TLC. *)
EXTENDS MethodCaches, TLC

Symmetry == Permutations(Methods) \cup Permutations(Selectors)
=============================================================================
