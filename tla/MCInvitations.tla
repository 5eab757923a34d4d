---------------------------- MODULE MCInvitations ----------------------------
EXTENDS Invitations, TLC

\* Every sponsor is a member of one club only; applicants may apply to all.
OneHome == Sponsor \X {CHOOSE c \in Club : TRUE}

Symmetry == Permutations(Request)
=============================================================================
