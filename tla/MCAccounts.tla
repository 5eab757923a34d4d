----------------------------- MODULE MCAccounts -----------------------------
EXTENDS Accounts, TLC

CONSTANTS c1, c2, e1, e2

\* The first challenge was issued to an invited candidate.
MCBound == [c \in Challenge |-> IF c = c1 THEN e1 ELSE NoEmail]

Symmetry == Permutations(Request) \cup Permutations(Key) \cup Permutations(Account)
=============================================================================
