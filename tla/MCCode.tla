------------------------------- MODULE MCCode -------------------------------
EXTENDS CCode, TLC
Symmetry == Permutations(Blocks) \cup Permutations(Regs)
=============================================================================
