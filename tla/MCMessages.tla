----------------------------- MODULE MCMessages -----------------------------
EXTENDS Messages, TLC

Symmetry == Permutations(Member)
=============================================================================
