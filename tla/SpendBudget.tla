----------------------------- MODULE SpendBudget -----------------------------
(***************************************************************************)
(* The AI spend ledger of a club (src/src/club-spend.ts): the rows of      *)
(* ai_club_spend_reservations and the four operations on them.  A call     *)
(* that will be billed by the provider first reserves an estimate, inside  *)
(* a transaction that holds the club's advisory lock, and later settles    *)
(* the reservation with the actual cost or releases it.  The embedding     *)
(* worker sweeps the reservations whose caller never settled them.         *)
(*                                                                         *)
(* A call makes one reservation, so a row is identified by its call.  Time *)
(* counts in abstract units; the database clock (now()) and the server     *)
(* clock (Date.now()) are taken to agree.                                  *)
(***************************************************************************)
EXTENDS Naturals, FiniteSets, FiniteSetsExt

CONSTANTS
    Call,        \* billed calls: gated requests and embedding batches
    Nobody,      \* the holder of a lock no transaction holds
    Club,
    ClubOf,      \* the club a call is charged to
    Window,      \* the rolling windows: day, week, month
    WindowLen,   \* their lengths
    WindowMax,   \* their budgets
    TTL,         \* CLUB_SPEND_RESERVATION_TTL_MS
    Estimates,   \* amounts a call may reserve (CHECK: reserved_micro_cents > 0)
    Actuals,     \* amounts a provider may bill
    MaxTime      \* bound on the clock

ASSUME CallAssumption ==
    /\ ClubOf \in [Call -> Club]
    /\ Nobody \notin Call

ASSUME WindowAssumption ==
    /\ WindowLen \in [Window -> Nat]
    /\ WindowMax \in [Window -> Nat]

ASSUME AmountAssumption ==
    /\ Estimates \subseteq Nat \ {0}
    /\ Actuals \subseteq Nat
    /\ TTL \in Nat \ {0}
    /\ MaxTime \in Nat

VARIABLES
    now,    \* the clock
    row,    \* row[c]: the reservation of call c, or NoRow
    pc,     \* pc[c]: how far call c is
    begun,  \* begun[c]: now() of c's reserve transaction, fixed at BEGIN
    seen,   \* seen[c]: the usage c's transaction has counted, per window
    need,   \* need[c]: the estimate c asks for
    lock    \* lock[k]: holder of the advisory lock "club-spend:k", or Nobody

vars == <<now, row, pc, begun, seen, need, lock>>

-----------------------------------------------------------------------------
(* Reservation rows.                                                       *)

Status == {"pending", "finalized", "released"}
Row == [status : Status, reserved : Nat, actual : Nat,
        created : Nat, expires : Nat, settled : Nat]
NoRow == [status |-> "none"]

HasRow(c) == row[c] # NoRow
Pending(c) == row[c].status = "pending"
Expired(c, t) == row[c].expires <= t

\* Mutant: pending reservations are left out of the count.
ChargeMutant(c, t) == IF row[c].status = "finalized" THEN row[c].actual ELSE 0

\* What a row weighs in a count taken at time t.
Charge(c, t) ==
    CASE Pending(c) /\ ~Expired(c, t) -> row[c].reserved
      [] row[c].status = "finalized"  -> row[c].actual
      [] OTHER                        -> 0

InWindow(k, w, t) ==
    {c \in Call : HasRow(c) /\ ClubOf[c] = k /\ row[c].created + WindowLen[w] >= t}

\* The usage of club k in window w, as a query whose now() is t sees it.
Usage(k, w, t) == MapThenSumSet(LAMBDA c : Charge(c, t), InWindow(k, w, t))

Settle(c, status, actual) ==
    row' = [row EXCEPT ![c].status = status,
                       ![c].actual = actual,
                       ![c].settled = now]

-----------------------------------------------------------------------------
(* Actions.                                                                *)

Init ==
    /\ now = 0
    /\ row = [c \in Call |-> NoRow]
    /\ pc = [c \in Call |-> "idle"]
    /\ begun = [c \in Call |-> 0]
    /\ seen = [c \in Call |-> [w \in Window |-> 0]]
    /\ need = [c \in Call |-> 0]
    /\ lock = [k \in Club |-> Nobody]

\* BEGIN of the reserve transaction: now() is fixed from here on.
BeginReserve(c) ==
    /\ pc[c] = "idle"
    /\ now + TTL <= MaxTime
    /\ \E estimate \in Estimates : need' = [need EXCEPT ![c] = estimate]
    /\ begun' = [begun EXCEPT ![c] = now]
    /\ pc' = [pc EXCEPT ![c] = "begun"]
    /\ UNCHANGED <<now, row, seen, lock>>

\* Mutant: the transaction does not wait for the club's lock.
LockAvailableMutant(c) == TRUE

LockAvailable(c) == lock[ClubOf[c]] = Nobody

\* pg_advisory_xact_lock: waits until no other transaction holds the club.
LockClubSpendScope(c) ==
    /\ pc[c] = "begun"
    /\ LockAvailable(c)
    /\ lock' = [lock EXCEPT ![ClubOf[c]] = c]
    /\ pc' = [pc EXCEPT ![c] = "locked"]
    /\ UNCHANGED <<now, row, begun, seen, need>>

CountClubSpendUsage(c) ==
    /\ pc[c] = "locked"
    /\ seen' = [seen EXCEPT ![c] = [w \in Window |-> Usage(ClubOf[c], w, begun[c])]]
    /\ pc' = [pc EXCEPT ![c] = "counted"]
    /\ UNCHANGED <<now, row, begun, need, lock>>

Fits(c) == \A w \in Window : seen[c][w] + need[c] <= WindowMax[w]

Unlocked(c) ==
    [k \in Club |-> IF lock[k] = c THEN Nobody ELSE lock[k]]

NoCount == [w \in Window |-> 0]

\* COMMIT, ROLLBACK or a lost connection: the lock is given up and what the
\* transaction held in its variables is gone.
EndTransaction(c) ==
    /\ lock' = Unlocked(c)
    /\ begun' = [begun EXCEPT ![c] = 0]
    /\ need' = [need EXCEPT ![c] = 0]
    /\ seen' = [seen EXCEPT ![c] = NoCount]

\* INSERT and COMMIT, which ends the lock.  created_at is the transaction's
\* now(), expires_at is computed from the clock when the row is written.
InsertReservation(c) ==
    /\ pc[c] = "counted"
    /\ Fits(c)
    /\ row' = [row EXCEPT ![c] = [status |-> "pending", reserved |-> need[c],
                                  actual |-> 0, created |-> begun[c],
                                  expires |-> now + TTL, settled |-> 0]]
    /\ pc' = [pc EXCEPT ![c] = "reserved"]
    /\ EndTransaction(c)
    /\ UNCHANGED now

\* quota_exceeded: the transaction rolls back.
RejectReservation(c) ==
    /\ pc[c] = "counted"
    /\ ~Fits(c)
    /\ pc' = [pc EXCEPT ![c] = "rejected"]
    /\ EndTransaction(c)
    /\ UNCHANGED <<now, row>>

\* Mutant: the update is not guarded by status = 'pending'.
SettleableMutant(c) == TRUE

Settleable(c) == Pending(c)

SettledStatus(actual) == IF actual > 0 THEN "finalized" ELSE "released"

\* Both updates are guarded by status = 'pending': a row the sweep has
\* released in the meantime is left as it is.
FinalizeClubSpendBudget(c) ==
    /\ pc[c] = "reserved"
    /\ pc' = [pc EXCEPT ![c] = "settled"]
    /\ \E actual \in Actuals :
         IF Settleable(c)
         THEN Settle(c, SettledStatus(actual), actual)
         ELSE UNCHANGED row
    /\ UNCHANGED <<now, begun, seen, need, lock>>

ReleaseClubSpendBudget(c) ==
    /\ pc[c] = "reserved"
    /\ pc' = [pc EXCEPT ![c] = "settled"]
    /\ IF Settleable(c) THEN Settle(c, "released", 0) ELSE UNCHANGED row
    /\ UNCHANGED <<now, begun, seen, need, lock>>

\* Mutant: the sweep takes only rows that have been settled before.
SweepableMutant == {c \in Call : HasRow(c) /\ ~Pending(c) /\ Expired(c, now)}

Sweepable == {c \in Call : HasRow(c) /\ Pending(c) /\ Expired(c, now)}

\* One cycle of the embedding worker sweeps every expired pending row.
SweepExpiredClubSpendReservations ==
    /\ Sweepable # {}
    /\ row' = [c \in Call |->
                 IF c \in Sweepable
                 THEN [row[c] EXCEPT !.status = "released", !.actual = 0, !.settled = now]
                 ELSE row[c]]
    /\ UNCHANGED <<now, pc, begun, seen, need, lock>>

\* The process dies, its connection drops, or the call that would settle the
\* reservation fails: an open transaction rolls back and gives the lock up, a
\* committed row stays behind.
Crash(c) ==
    /\ pc[c] \in {"begun", "locked", "counted", "reserved"}
    /\ pc' = [pc EXCEPT ![c] = "dead"]
    /\ EndTransaction(c)
    /\ UNCHANGED <<now, row>>

InTransaction(c) == pc[c] \in {"begun", "locked", "counted"}

\* MaxTime bounds the clock.  It does not run into the last TTL units while a
\* reserve transaction is open, so every row expires within the bound.
Tick ==
    /\ now < MaxTime
    /\ (\E c \in Call : InTransaction(c)) => now + TTL < MaxTime
    /\ now' = now + 1
    /\ UNCHANGED <<row, pc, begun, seen, need, lock>>

Next ==
    \/ \E c \in Call :
         \/ BeginReserve(c)
         \/ LockClubSpendScope(c)
         \/ CountClubSpendUsage(c)
         \/ InsertReservation(c)
         \/ RejectReservation(c)
         \/ FinalizeClubSpendBudget(c)
         \/ ReleaseClubSpendBudget(c)
         \/ Crash(c)
    \/ SweepExpiredClubSpendReservations
    \/ Tick

Spec == Init /\ [][Next]_vars

\* The database finishes or aborts the transactions it has begun, the clock
\* runs, and the embedding worker keeps polling (workers/runner.ts).  Nothing
\* is assumed of the callers between reserving and settling.
Progress(c) ==
    \/ LockClubSpendScope(c)
    \/ CountClubSpendUsage(c)
    \/ InsertReservation(c)
    \/ RejectReservation(c)

Fairness ==
    /\ WF_vars(Tick)
    /\ WF_vars(SweepExpiredClubSpendReservations)
    /\ \A c \in Call : WF_vars(Progress(c))

FairSpec == Spec /\ Fairness

-----------------------------------------------------------------------------
(* Properties.                                                             *)

PC == {"idle", "begun", "locked", "counted", "reserved", "rejected", "settled", "dead"}

\* The table's CHECK constraints: a pending row has no settlement yet, a
\* released row has cost nothing.
RowShape(r) ==
    /\ r.status = "pending" => r.actual = 0 /\ r.settled = 0
    /\ r.status = "released" => r.actual = 0

\* Every variable has its type, and every row the shape the table allows.
TypeOK ==
    /\ now \in Nat
    /\ row \in [Call -> Row \cup {NoRow}]
    /\ \A c \in Call : HasRow(c) => RowShape(row[c])
    /\ pc \in [Call -> PC]
    /\ begun \in [Call -> Nat]
    /\ DOMAIN seen = Call
    /\ need \in [Call -> Nat]
    /\ lock \in [Club -> Call \cup {Nobody}]

\* A transaction that counts, or is about to write, holds its club's lock; a
\* call has a row only once it has reserved.
LockInv ==
    \A c \in Call :
        /\ pc[c] \in {"locked", "counted"} => lock[ClubOf[c]] = c
        /\ HasRow(c) => pc[c] \in {"reserved", "settled", "dead"}

\* What a settled row may cost beyond the amount that was held for it: all of
\* it when it was settled after its expiry (the capacity had been lent again),
\* the difference when the provider billed more than the estimate.
Excess(c) ==
    IF row[c].status # "finalized" THEN 0
    ELSE IF row[c].settled >= row[c].expires THEN row[c].actual
    ELSE IF row[c].actual > row[c].reserved THEN row[c].actual - row[c].reserved
    ELSE 0

Overrun(k, w, t) == MapThenSumSet(Excess, InWindow(k, w, t))

\* A club's usage is over a window's budget only by what late settlements and
\* under-estimates account for: no interleaving of reservations, settlements,
\* sweeps and crashes lends the same capacity twice.
OverrunExplained ==
    \A k \in Club, w \in Window : Usage(k, w, now) <= WindowMax[w] + Overrun(k, w, now)

\* Between the count a reserve transaction takes and the row it writes, no
\* other transaction adds a row to the same club: the decision is made on a
\* count that misses nobody.
CountStaysCurrent ==
    [][\A c, d \in Call :
         (/\ pc[c] = "counted" /\ pc'[c] = "counted"
          /\ c # d /\ ClubOf[c] = ClubOf[d] /\ ~HasRow(d))
            => row'[d] = NoRow]_vars

\* A settled reservation is never settled again: a late answer does not revive
\* a swept row, a sweep does not erase what was billed.
SettledIsFinal ==
    [][\A c \in Call : (HasRow(c) /\ ~Pending(c)) => row'[c] = row[c]]_vars

\* Capacity held by a call that died comes back.
HeldCapacityReturns ==
    \A c \in Call : (HasRow(c) /\ Pending(c)) ~> ~Pending(c)

\* A reserve transaction ends: waiting for the club's lock is not forever.
ReserveTerminates ==
    \A c \in Call : InTransaction(c) ~> ~InTransaction(c)

=============================================================================
