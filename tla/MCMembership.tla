---------------------------- MODULE MCMembership ----------------------------
(***************************************************************************)
(* A few requests at a time on a club of two members.                      *)
(***************************************************************************)
EXTENDS Membership, TLC

CONSTANTS o, x, t1, t2

Symmetry == Permutations(Request)

=============================================================================
