---------------------------- MODULE MCOperandStacks ----------------------------
EXTENDS OperandStacks, TLC
Symmetry == Permutations(Context)
================================================================================
