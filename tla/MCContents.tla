----------------------------- MODULE MCContents -----------------------------
EXTENDS Contents, TLC

CONSTANTS a, b

Symmetry == Permutations(Request)
=============================================================================
