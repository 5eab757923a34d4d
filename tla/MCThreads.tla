----------------------------- MODULE MCThreads ------------------------------
(***************************************************************************)
(* Three threads, whose second is the reader's, and two contents to come,  *)
(* also the reader's.  The short window ends with the tick it began in.    *)
(***************************************************************************)
EXTENDS Threads

CONSTANTS a, b, day, week

MCAuthorOf == [c \in Content |-> IF c \in {1, 3} THEN a ELSE b]
MCLength == [w \in Window |-> IF w = day THEN 0 ELSE 1]

MemberQuota == [w \in Window |-> IF w = day THEN 1 ELSE 2]
AdminQuota == [w \in Window |-> IF w = day THEN 2 ELSE 3]
MCQuota == {MemberQuota, AdminQuota}
MCInitialQuota == [m \in Member |-> AdminQuota]
=============================================================================
