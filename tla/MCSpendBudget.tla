---------------------------- MODULE MCSpendBudget ----------------------------
(***************************************************************************)
(* Three calls of one club and two windows, the second longer and larger   *)
(* than the first, so that either can be the one that refuses.             *)
(***************************************************************************)
EXTENDS SpendBudget, TLC

CONSTANTS c1, c2, c3, club, day, week

MCCall == {c1, c2, c3}
MCClub == {club}
MCClubOf == [c \in Call |-> club]
MCWindow == {day, week}
MCWindowLen == (day :> 1 @@ week :> 4)
MCWindowMax == (day :> 3 @@ week :> 4)
MCEstimates == {2}
MCActuals == {0, 3}

=============================================================================
