-------------------------- MODULE SpendBudgetProofs --------------------------
(***************************************************************************)
(* Proofs about the spend ledger, for any set of calls, clubs and windows. *)
(*                                                                         *)
(* That a club is over its budget only by what late settlements and        *)
(* under-estimates account for rests on what the club has on loan: what    *)
(* is held by reservations that have not expired, and of what was settled  *)
(* in time as much as was held for it.  Time and settlements only lower    *)
(* it.  A reserve transaction adds to it no more than was free when it     *)
(* counted, because its count covers what was on loan at its BEGIN and     *)
(* the club's lock keeps every other insert out until it has written.      *)
(* The sums are those of the community modules; a finite set has the same  *)
(* sum in whatever order its elements are taken.                           *)
(***************************************************************************)
EXTENDS SpendBudget, FiniteSetTheorems, WellFoundedInduction, TLAPS

RowsOK ==
    /\ row \in [Call -> Row \cup {NoRow}]
    /\ \A c \in Call : HasRow(c) => RowShape(row[c])

\* A pending row settled with a legal status and cost is a legal row again,
\* and it is the only row that changes.
LEMMA SettlePreservesRows ==
    ASSUME RowsOK, now \in Nat,
           NEW c \in Call, Pending(c),
           NEW status \in {"finalized", "released"},
           NEW actual \in Nat,
           status = "released" => actual = 0,
           Settle(c, status, actual)
    PROVE  RowsOK'
<1>1. row[c] \in Row
  BY DEF RowsOK, Pending, NoRow
<1>2. row' = [row EXCEPT ![c] = [row[c] EXCEPT !.status = status,
                                               !.actual = actual,
                                               !.settled = now]]
  BY DEF Settle, RowsOK
<1> DEFINE r == [row[c] EXCEPT !.status = status, !.actual = actual, !.settled = now]
<1>3. r \in Row /\ RowShape(r)
  BY <1>1 DEF Row, Status, RowShape
<1> HIDE DEF r
<1> QED
  BY <1>2, <1>3 DEF RowsOK, HasRow, r

\* Types and row shapes are preserved by every step of the ledger.
LEMMA TypeInduction == TypeOK /\ [Next]_vars => TypeOK'
<1> SUFFICES ASSUME TypeOK, [Next]_vars PROVE TypeOK'
  OBVIOUS
<1> USE CallAssumption, AmountAssumption
<1> DEFINE RestOK ==
       /\ now \in Nat
       /\ pc \in [Call -> PC]
       /\ begun \in [Call -> Nat]
       /\ DOMAIN seen = Call
       /\ need \in [Call -> Nat]
       /\ lock \in [Club -> Call \cup {Nobody}]
<1>a. RowsOK /\ RestOK
  BY DEF TypeOK, RowsOK
<1>b. RowsOK' /\ RestOK' => TypeOK'
  BY DEF TypeOK, RowsOK
<1>c. UNCHANGED row => RowsOK'
  BY <1>a DEF RowsOK, HasRow
<1>1. ASSUME NEW c \in Call, BeginReserve(c) PROVE TypeOK'
  <2>1. RowsOK'
    BY <1>1, <1>c DEF BeginReserve
  <2>2. RestOK'
    BY <1>1, <1>a DEF BeginReserve, PC
  <2> QED
    BY <2>1, <2>2, <1>b
<1>2. ASSUME NEW c \in Call, LockClubSpendScope(c) PROVE TypeOK'
  <2>1. RowsOK'
    BY <1>2, <1>c DEF LockClubSpendScope
  <2>2. RestOK'
    BY <1>2, <1>a DEF LockClubSpendScope, PC
  <2> QED
    BY <2>1, <2>2, <1>b
<1>3. ASSUME NEW c \in Call, CountClubSpendUsage(c) PROVE TypeOK'
  <2>1. RowsOK'
    BY <1>3, <1>c DEF CountClubSpendUsage
  <2>2. RestOK'
    BY <1>3, <1>a DEF CountClubSpendUsage, PC
  <2> QED
    BY <2>1, <2>2, <1>b
<1>4. ASSUME NEW c \in Call, InsertReservation(c) PROVE TypeOK'
  <2> DEFINE r == [status |-> "pending", reserved |-> need[c],
                   actual |-> 0, created |-> begun[c],
                   expires |-> now + TTL, settled |-> 0]
  <2>1. row' = [row EXCEPT ![c] = r]
    BY <1>4 DEF InsertReservation
  <2>2. r \in Row /\ RowShape(r)
    BY <1>a DEF Row, Status, RowShape
  <2> HIDE DEF r
  <2>3. RowsOK'
    BY <2>1, <2>2, <1>a DEF RowsOK, HasRow
  <2>4. RestOK'
    BY <1>4, <1>a DEF InsertReservation, EndTransaction, Unlocked, PC
  <2> QED
    BY <2>3, <2>4, <1>b
<1>5. ASSUME NEW c \in Call, RejectReservation(c) PROVE TypeOK'
  <2>1. RowsOK'
    BY <1>5, <1>c DEF RejectReservation
  <2>2. RestOK'
    BY <1>5, <1>a DEF RejectReservation, EndTransaction, Unlocked, PC
  <2> QED
    BY <2>1, <2>2, <1>b
<1>6. ASSUME NEW c \in Call, FinalizeClubSpendBudget(c) PROVE TypeOK'
  <2>1. PICK actual \in Actuals :
          IF Settleable(c) THEN Settle(c, SettledStatus(actual), actual)
                           ELSE UNCHANGED row
    BY <1>6 DEF FinalizeClubSpendBudget
  <2>2. actual \in Nat /\ SettledStatus(actual) \in {"finalized", "released"}
    BY DEF SettledStatus
  <2>3. SettledStatus(actual) = "released" => actual = 0
    BY <2>2 DEF SettledStatus
  <2>4. RowsOK'
    <3>1. CASE Pending(c)
      BY <2>1, <2>2, <2>3, <3>1, <1>a, SettlePreservesRows DEF Settleable
    <3>2. CASE ~Pending(c)
      BY <2>1, <3>2, <1>c DEF Settleable
    <3> QED
      BY <3>1, <3>2
  <2>5. RestOK'
    BY <1>6, <1>a DEF FinalizeClubSpendBudget, PC
  <2> QED
    BY <2>4, <2>5, <1>b
<1>7. ASSUME NEW c \in Call, ReleaseClubSpendBudget(c) PROVE TypeOK'
  <2>1. RowsOK'
    <3>1. CASE Pending(c)
      <4>1. Settle(c, "released", 0)
        BY <1>7, <3>1 DEF ReleaseClubSpendBudget, Settleable
      <4> QED
        BY <4>1, <3>1, <1>a, SettlePreservesRows
    <3>2. CASE ~Pending(c)
      BY <1>7, <3>2, <1>c DEF ReleaseClubSpendBudget, Settleable
    <3> QED
      BY <3>1, <3>2
  <2>2. RestOK'
    BY <1>7, <1>a DEF ReleaseClubSpendBudget, PC
  <2> QED
    BY <2>1, <2>2, <1>b
<1>8. ASSUME NEW c \in Call, Crash(c) PROVE TypeOK'
  <2>1. RowsOK'
    BY <1>8, <1>c DEF Crash
  <2>2. RestOK'
    BY <1>8, <1>a DEF Crash, EndTransaction, Unlocked, PC
  <2> QED
    BY <2>1, <2>2, <1>b
<1>9. CASE SweepExpiredClubSpendReservations
  <2> DEFINE r(c) == [row[c] EXCEPT !.status = "released", !.actual = 0, !.settled = now]
  <2>1. row' = [c \in Call |-> IF c \in Sweepable THEN r(c) ELSE row[c]]
    BY <1>9 DEF SweepExpiredClubSpendReservations
  <2>2. ASSUME NEW c \in Sweepable PROVE r(c) \in Row /\ RowShape(r(c))
    <3>1. c \in Call /\ row[c] \in Row
      BY <2>2, <1>a DEF Sweepable, HasRow, RowsOK
    <3> QED
      BY <3>1, <1>a DEF Row, Status, RowShape
  <2> HIDE DEF r
  <2>3. RowsOK'
    BY <2>1, <2>2, <1>a DEF RowsOK, HasRow, Sweepable
  <2>4. RestOK'
    BY <1>9, <1>a DEF SweepExpiredClubSpendReservations
  <2> QED
    BY <2>3, <2>4, <1>b
<1>10. CASE Tick
  <2>1. RowsOK'
    BY <1>10, <1>c DEF Tick
  <2>2. RestOK'
    BY <1>10, <1>a DEF Tick
  <2> QED
    BY <2>1, <2>2, <1>b
<1>11. CASE UNCHANGED vars
  <2>1. RowsOK'
    BY <1>11, <1>c DEF vars
  <2>2. RestOK'
    BY <1>11, <1>a DEF vars
  <2> QED
    BY <2>1, <2>2, <1>b
<1> QED
  BY <1>1, <1>2, <1>3, <1>4, <1>5, <1>6, <1>7, <1>8, <1>9, <1>10, <1>11 DEF Next

-----------------------------------------------------------------------------
\* Who holds a club's lock, and who has a row, is preserved by every step.
LEMMA LockInduction == TypeOK /\ LockInv /\ [Next]_vars => LockInv'
<1> SUFFICES ASSUME TypeOK, LockInv, [Next]_vars PROVE LockInv'
  OBVIOUS
<1> USE CallAssumption DEF TypeOK, LockInv, HasRow
<1>1. ASSUME NEW c \in Call, BeginReserve(c) PROVE LockInv'
  BY <1>1 DEF BeginReserve
<1>2. ASSUME NEW c \in Call, LockClubSpendScope(c) PROVE LockInv'
  \* A holder d of the same club would contradict the guard of c.
  BY <1>2 DEF LockClubSpendScope, LockAvailable
<1>3. ASSUME NEW c \in Call, CountClubSpendUsage(c) PROVE LockInv'
  BY <1>3 DEF CountClubSpendUsage
<1>4. ASSUME NEW c \in Call, InsertReservation(c) PROVE LockInv'
  BY <1>4 DEF InsertReservation, EndTransaction, Unlocked
<1>5. ASSUME NEW c \in Call, RejectReservation(c) PROVE LockInv'
  BY <1>5 DEF RejectReservation, EndTransaction, Unlocked
<1>6. ASSUME NEW c \in Call, FinalizeClubSpendBudget(c) PROVE LockInv'
  BY <1>6 DEF FinalizeClubSpendBudget, Settle
<1>7. ASSUME NEW c \in Call, ReleaseClubSpendBudget(c) PROVE LockInv'
  BY <1>7 DEF ReleaseClubSpendBudget, Settle
<1>8. ASSUME NEW c \in Call, Crash(c) PROVE LockInv'
  BY <1>8 DEF Crash, EndTransaction, Unlocked
<1>9. CASE SweepExpiredClubSpendReservations
  BY <1>9 DEF SweepExpiredClubSpendReservations, Sweepable
<1>10. CASE Tick
  BY <1>10 DEF Tick
<1>11. CASE UNCHANGED vars
  BY <1>11 DEF vars
<1> QED
  BY <1>1, <1>2, <1>3, <1>4, <1>5, <1>6, <1>7, <1>8, <1>9, <1>10, <1>11 DEF Next

-----------------------------------------------------------------------------
\* In every behaviour of the ledger, at any sizes, variables have their types
\* and rows their shapes.
THEOREM TypeCorrect == Spec => []TypeOK
<1>1. Init => TypeOK
  BY CallAssumption, AmountAssumption DEF Init, TypeOK, HasRow, PC
<1> QED
  BY <1>1, TypeInduction, PTL DEF Spec

\* A transaction that counts or writes holds its club's lock.
THEOREM Locking == Spec => []LockInv
<1>1. Init => LockInv
  BY DEF Init, LockInv, HasRow
<1> QED
  BY <1>1, LockInduction, TypeCorrect, PTL DEF Spec

\* A step that adds a row for d is d's insert, which holds d's club's lock:
\* whoever else has counted that club would have to hold it too.
THEOREM CountIsCurrent == Spec => CountStaysCurrent
<1> DEFINE Step(c, d) ==
       (/\ pc[c] = "counted" /\ pc'[c] = "counted"
        /\ c # d /\ ClubOf[c] = ClubOf[d] /\ ~HasRow(d)) => row'[d] = NoRow
<1>1. ASSUME TypeOK, LockInv, [Next]_vars, NEW c \in Call, NEW d \in Call
      PROVE  Step(c, d)
  <2> SUFFICES ASSUME pc[c] = "counted", c # d, ClubOf[c] = ClubOf[d], row[d] = NoRow
               PROVE  row'[d] = NoRow
    BY DEF HasRow
  <2>1. pc[d] # "counted" /\ ~Pending(d) /\ d \notin Sweepable
    BY <1>1 DEF LockInv, Sweepable, HasRow, Pending, NoRow
  <2> USE <1>1, <2>1 DEF TypeOK
  <2>2. ASSUME NEW e \in Call, InsertReservation(e) PROVE row'[d] = NoRow
    BY <2>2 DEF InsertReservation
  <2>3. ASSUME NEW e \in Call, FinalizeClubSpendBudget(e) PROVE row'[d] = NoRow
    BY <2>3 DEF FinalizeClubSpendBudget, Settleable, Settle
  <2>4. ASSUME NEW e \in Call, ReleaseClubSpendBudget(e) PROVE row'[d] = NoRow
    BY <2>4 DEF ReleaseClubSpendBudget, Settleable, Settle
  <2>5. CASE SweepExpiredClubSpendReservations
    BY <2>5 DEF SweepExpiredClubSpendReservations
  <2>6. ASSUME NEW e \in Call,
               \/ BeginReserve(e) \/ LockClubSpendScope(e) \/ CountClubSpendUsage(e)
               \/ RejectReservation(e) \/ Crash(e)
        PROVE  row'[d] = NoRow
    BY <2>6 DEF BeginReserve, LockClubSpendScope, CountClubSpendUsage,
                RejectReservation, Crash
  <2>7. CASE Tick \/ UNCHANGED vars
    BY <2>7 DEF Tick, vars
  <2> QED
    BY <2>2, <2>3, <2>4, <2>5, <2>6, <2>7 DEF Next
<1>2. TypeOK /\ LockInv /\ [Next]_vars => [\A c, d \in Call : Step(c, d)]_vars
  BY <1>1
<1> QED
  BY <1>2, TypeCorrect, Locking, PTL DEF Spec, CountStaysCurrent

\* No step changes a settled row, whichever of the caller's answer and the
\* worker's sweep came first.
THEOREM SettledRowsAreFinal == Spec => SettledIsFinal
<1> DEFINE Step == \A c \in Call : (HasRow(c) /\ ~Pending(c)) => row'[c] = row[c]
<1>1. ASSUME TypeOK, LockInv, [Next]_vars, NEW c \in Call, HasRow(c), ~Pending(c)
      PROVE  row'[c] = row[c]
  <2> USE <1>1 DEF TypeOK
  <2>1. pc[c] # "counted" /\ c \notin Sweepable
    BY DEF LockInv, Sweepable
  <2>2. ASSUME NEW e \in Call, InsertReservation(e) PROVE row'[c] = row[c]
    BY <2>1, <2>2 DEF InsertReservation
  <2>3. ASSUME NEW e \in Call, FinalizeClubSpendBudget(e) PROVE row'[c] = row[c]
    BY <2>3 DEF FinalizeClubSpendBudget, Settleable, Settle
  <2>4. ASSUME NEW e \in Call, ReleaseClubSpendBudget(e) PROVE row'[c] = row[c]
    BY <2>4 DEF ReleaseClubSpendBudget, Settleable, Settle
  <2>5. CASE SweepExpiredClubSpendReservations
    BY <2>1, <2>5 DEF SweepExpiredClubSpendReservations
  <2>6. ASSUME NEW e \in Call,
               \/ BeginReserve(e) \/ LockClubSpendScope(e) \/ CountClubSpendUsage(e)
               \/ RejectReservation(e) \/ Crash(e)
        PROVE  row'[c] = row[c]
    BY <2>6 DEF BeginReserve, LockClubSpendScope, CountClubSpendUsage,
                RejectReservation, Crash
  <2>7. CASE Tick \/ UNCHANGED vars
    BY <2>7 DEF Tick, vars
  <2> QED
    BY <2>2, <2>3, <2>4, <2>5, <2>6, <2>7 DEF Next
<1>2. TypeOK /\ LockInv /\ [Next]_vars => [Step]_vars
  BY <1>1
<1> QED
  BY <1>2, TypeCorrect, Locking, PTL DEF Spec, SettledIsFinal

-----------------------------------------------------------------------------
(* Sums over finite sets *)

\* The sum of a function over a set, and a table of its sums over the subsets.
Sum(f, S) == MapThenSumSet(LAMBDA x : f[x], S)

Table(f, S, M) ==
    /\ M \in [SUBSET S -> Nat]
    /\ M[{}] = 0
    /\ \A T \in SUBSET S : \A x \in T : M[T] = f[x] + M[T \ {x}]

Naturally(f, S) == \A x \in S : f[x] \in Nat

LEMMA LeastNumber == ASSUME NEW T \in SUBSET Nat, T # {} PROVE \E x \in T : \A y \in T : x <= y
<1> DEFINE R == OpToRel(<, Nat)
<1>1. IsWellFoundedOn(R, Nat)
  BY NatLessThanWellFounded
<1>2. ASSUME NEW x \in Nat, NEW y \in Nat, <<y, x>> \notin R PROVE x <= y
  <2>1. ~(y < x)
    BY <1>2 DEF OpToRel
  <2> QED
    BY <2>1
<1> HIDE DEF R
<1>3. PICK x \in T : \A y \in T : <<y, x>> \notin R
  BY <1>1, WFMin
<1> QED
  BY <1>2, <1>3

\* A collection of subsets of a finite set has a smallest member: none of its members
\* lacks one element of it.
LEMMA SmallestSubset ==
    ASSUME NEW S, IsFiniteSet(S), NEW B \in SUBSET SUBSET S, B # {}
    PROVE  \E T \in B : \A x \in T : T \ {x} \notin B
<1> DEFINE sizes == {Cardinality(T) : T \in B}
<1>1. \A T \in B : IsFiniteSet(T) /\ Cardinality(T) \in Nat
  BY FS_Subset, FS_CardinalityType
<1>2. sizes \in SUBSET Nat /\ sizes # {}
  BY <1>1
<1>3. PICK n \in sizes : \A m \in sizes : n <= m
  <2> HIDE DEF sizes
  <2> QED
    BY <1>2, LeastNumber
<1>4. PICK T \in B : Cardinality(T) = n
  BY <1>3
<1>5. ASSUME NEW x \in T, T \ {x} \in B PROVE FALSE
  <2>1. Cardinality(T \ {x}) = Cardinality(T) - 1
    BY <1>1, FS_RemoveElement
  <2>2. n <= Cardinality(T \ {x})
    BY <1>3, <1>5
  <2> QED
    BY <1>1, <1>4, <2>1, <2>2
<1> QED
  BY <1>5

\* Whatever the order in which its elements are taken, a finite set has one sum.
LEMMA TableExists ==
    ASSUME NEW S, IsFiniteSet(S), NEW f, Naturally(f, S)
    PROVE  \E M : Table(f, S, M)
<1> DEFINE B == {T \in SUBSET S : ~\E M : Table(f, T, M)}
<1> SUFFICES ASSUME B # {} PROVE FALSE
  OBVIOUS
<1>1. PICK T \in B : \A x \in T : T \ {x} \notin B
  <2>1. B \in SUBSET SUBSET S
    OBVIOUS
  <2> HIDE DEF B
  <2> QED
    BY <2>1, SmallestSubset
<1>2. CASE T = {}
  <2> DEFINE M == [U \in SUBSET {} |-> 0]
  <2>1. Table(f, {}, M)
    BY DEF Table
  <2> QED
    BY <1>1, <1>2, <2>1
<1>3. ASSUME NEW x \in T PROVE FALSE
  <2>1. PICK M : Table(f, T \ {x}, M)
    BY <1>1
  <2> DEFINE N == [U \in SUBSET T |-> IF x \in U THEN f[x] + M[U \ {x}] ELSE M[U]]
  <2>2. f[x] \in Nat /\ \A y \in T : f[y] \in Nat
    BY DEF Naturally
  <2>3. \A U \in SUBSET T : /\ U \ {x} \in SUBSET (T \ {x})
                            /\ x \notin U => U \in SUBSET (T \ {x})
    OBVIOUS
  <2>4. \A V \in SUBSET (T \ {x}) : M[V] \in Nat
    BY <2>1 DEF Table
  <2>5. N \in [SUBSET T -> Nat] /\ N[{}] = 0
    <3>1. \A U \in SUBSET T : (IF x \in U THEN f[x] + M[U \ {x}] ELSE M[U]) \in Nat
      BY <2>2, <2>3, <2>4
    <3>2. N[{}] = M[{}]
      OBVIOUS
    <3> QED
      BY <2>1, <3>1, <3>2 DEF Table
  <2>6. ASSUME NEW U \in SUBSET T, NEW y \in U PROVE N[U] = f[y] + N[U \ {y}]
    <3>1. CASE y = x
      <4>1. N[U] = f[x] + M[U \ {x}]
        BY <3>1
      <4>2. N[U \ {y}] = M[U \ {x}]
        BY <3>1
      <4> QED
        BY <3>1, <4>1, <4>2
    <3>2. CASE y # x /\ x \in U
      <4>1. N[U] = f[x] + M[U \ {x}]
        BY <3>2
      <4>2. N[U \ {y}] = f[x] + M[(U \ {y}) \ {x}]
        BY <3>2
      <4>3. PICK V \in SUBSET (T \ {x}) : V = U \ {x}
        BY <2>3
      <4>4. M[V] = f[y] + M[V \ {y}] /\ M[V \ {y}] \in Nat
        BY <2>1, <2>4, <3>2, <4>3 DEF Table
      <4>5. (U \ {y}) \ {x} = V \ {y}
        BY <4>3
      <4>6. N[U] = f[x] + (f[y] + M[V \ {y}]) /\ N[U \ {y}] = f[x] + M[V \ {y}]
        BY <4>1, <4>2, <4>3, <4>4, <4>5
      <4>7. f[x] \in Nat /\ f[y] \in Nat
        BY <2>2
      <4> HIDE DEF N
      <4> QED
        BY <4>4, <4>6, <4>7
    <3>3. CASE x \notin U
      <4>1. N[U] = M[U] /\ N[U \ {y}] = M[U \ {y}]
        BY <3>3
      <4>2. PICK V \in SUBSET (T \ {x}) : V = U
        BY <2>3, <3>3
      <4>3. M[V] = f[y] + M[V \ {y}]
        BY <2>1, <4>2 DEF Table
      <4> HIDE DEF N
      <4> QED
        BY <4>1, <4>2, <4>3
    <3> QED
      BY <3>1, <3>2, <3>3
  <2>7. Table(f, T, N)
    <3> HIDE DEF N
    <3> QED
      BY <2>5, <2>6 DEF Table
  <2> HIDE DEF N
  <2> QED
    BY <1>1, <2>7
<1> QED
  BY <1>2, <1>3

\* A recursion that takes any element of a set computes the sums of the table.
Recurs(f, S, I) ==
    I = [T \in SUBSET S |-> IF T = {} THEN 0
                            ELSE f[CHOOSE x \in T : TRUE] + I[T \ {CHOOSE x \in T : TRUE}]]

LEMMA TableRecurs == ASSUME NEW S, NEW f, NEW M, Table(f, S, M) PROVE Recurs(f, S, M)
<1>1. M = [T \in SUBSET S |-> M[T]]
  BY DEF Table
<1>2. ASSUME NEW T \in SUBSET S
      PROVE  M[T] = IF T = {} THEN 0
                    ELSE f[CHOOSE x \in T : TRUE] + M[T \ {CHOOSE x \in T : TRUE}]
  <2>1. CASE T = {}
    BY <2>1 DEF Table
  <2>2. CASE T # {}
    <3>1. PICK x \in T : x = CHOOSE y \in T : TRUE
      BY <2>2
    <3>2. M[T] = f[x] + M[T \ {x}]
      BY DEF Table
    <3> QED
      BY <2>2, <3>1, <3>2
  <2> QED
    BY <2>1, <2>2
<1> QED
  BY <1>1, <1>2 DEF Recurs

LEMMA RecursionSums ==
    ASSUME NEW S, IsFiniteSet(S), NEW f, NEW M, Table(f, S, M), NEW I, Recurs(f, S, I)
    PROVE  I = M
<1> DEFINE B == {T \in SUBSET S : I[T] # M[T]}
<1>0. Recurs(f, S, M)
  BY TableRecurs
<1>1. I = [T \in SUBSET S |-> I[T]] /\ M = [T \in SUBSET S |-> M[T]]
  BY <1>0 DEF Recurs
<1> SUFFICES ASSUME B # {} PROVE FALSE
  BY <1>1
<1>2. PICK T \in B : \A x \in T : T \ {x} \notin B
  <2>1. B \in SUBSET SUBSET S
    OBVIOUS
  <2> HIDE DEF B
  <2> QED
    BY <2>1, SmallestSubset
<1>3. CASE T = {}
  BY <1>0, <1>2, <1>3 DEF Recurs
<1>4. CASE T # {}
  <2>1. PICK x \in T : x = CHOOSE y \in T : TRUE
    BY <1>4
  <2>2. I[T] = f[x] + I[T \ {x}] /\ M[T] = f[x] + M[T \ {x}]
    BY <1>0, <1>2, <1>4, <2>1 DEF Recurs
  <2>3. I[T \ {x}] = M[T \ {x}]
    BY <1>2
  <2> QED
    BY <1>2, <2>2, <2>3
<1> QED
  BY <1>3, <1>4

LEMMA SumOfTable ==
    ASSUME NEW S, IsFiniteSet(S), NEW f, NEW M, Table(f, S, M)
    PROVE  Sum(f, S) = M[S]
<1>1. Recurs(f, S, M)
  BY TableRecurs
<1> DEFINE I == CHOOSE J : J = [T \in SUBSET S |-> IF T = {} THEN 0
                            ELSE f[CHOOSE x \in T : TRUE] + J[T \ {CHOOSE x \in T : TRUE}]]
<1>2. Recurs(f, S, I)
  BY <1>1 DEF Recurs
<1>3. Sum(f, S) = I[S]
  BY DEF Sum, MapThenSumSet, MapThenFoldSet
<1> HIDE DEF I
<1> QED
  BY <1>2, <1>3, RecursionSums

\* The sum of a finite set of numbers is a number; any element of it can be taken first.
LEMMA SumParts ==
    ASSUME NEW S, IsFiniteSet(S), NEW f, Naturally(f, S)
    PROVE  /\ Sum(f, S) \in Nat
           /\ S = {} => Sum(f, S) = 0
           /\ \A x \in S : Sum(f, S) = f[x] + Sum(f, S \ {x})
<1>1. PICK M : Table(f, S, M)
  BY TableExists
<1>2. Sum(f, S) = M[S]
  BY <1>1, SumOfTable
<1>3. ASSUME NEW x \in S PROVE Sum(f, S) = f[x] + Sum(f, S \ {x})
  <2>1. PICK R \in SUBSET S : R = S \ {x}
    OBVIOUS
  <2> DEFINE N == [T \in SUBSET R |-> M[T]]
  <2>2. Table(f, R, N)
    <3>1. \A T \in SUBSET R : T \in SUBSET S /\ \A y \in T : T \ {y} \in SUBSET R
      OBVIOUS
    <3>2. \A T \in SUBSET R : N[T] = M[T] /\ M[T] \in Nat
      BY <1>1, <3>1 DEF Table
    <3>3. N \in [SUBSET R -> Nat]
      BY <3>2
    <3>4. N[{}] = 0
      BY <1>1 DEF Table
    <3>5. ASSUME NEW T \in SUBSET R, NEW y \in T PROVE N[T] = f[y] + N[T \ {y}]
      <4>1. M[T] = f[y] + M[T \ {y}]
        BY <1>1, <3>1 DEF Table
      <4>2. N[T \ {y}] = M[T \ {y}]
        BY <3>1
      <4> QED
        BY <3>2, <4>1, <4>2
    <3> HIDE DEF N
    <3> QED
      BY <3>3, <3>4, <3>5 DEF Table
  <2>3. Sum(f, R) = N[R]
    <3>1. IsFiniteSet(R)
      BY <2>1, FS_Subset
    <3> HIDE DEF N
    <3> QED
      BY <2>2, <3>1, SumOfTable
  <2>4. N[R] = M[S \ {x}]
    BY <2>1
  <2>5. M[S] = f[x] + M[S \ {x}]
    BY <1>1 DEF Table
  <2> HIDE DEF N
  <2> QED
    BY <1>2, <2>1, <2>3, <2>4, <2>5
<1>4. M[S] \in Nat /\ (S = {} => M[S] = 0)
  BY <1>1 DEF Table
<1> QED
  BY <1>2, <1>3, <1>4

\* A sum grows with its set and with what is summed.
LEMMA SumGrows ==
    ASSUME NEW T, IsFiniteSet(T), NEW S \in SUBSET T, NEW f, NEW g,
           Naturally(f, S), Naturally(g, T), \A x \in S : f[x] <= g[x]
    PROVE  Sum(f, S) <= Sum(g, T)
<1> DEFINE B == {U \in SUBSET T : ~(Sum(f, U \cap S) <= Sum(g, U))}
<1> SUFFICES ASSUME B # {} PROVE FALSE
  <2>1. T \cap S = S
    OBVIOUS
  <2> QED
    BY <2>1
<1>1. PICK U \in B : \A x \in U : U \ {x} \notin B
  <2>1. B \in SUBSET SUBSET T
    OBVIOUS
  <2> HIDE DEF B
  <2> QED
    BY <2>1, SmallestSubset
<1>2. IsFiniteSet(U) /\ Naturally(g, U) /\ IsFiniteSet(U \cap S) /\ Naturally(f, U \cap S)
  BY FS_Subset DEF Naturally
<1>3. CASE U = {}
  BY <1>1, <1>2, <1>3, SumParts
<1>4. ASSUME NEW x \in U PROVE FALSE
  <2>1. PICK V \in SUBSET T : V = U \ {x}
    OBVIOUS
  <2>2. IsFiniteSet(V) /\ Naturally(g, V) /\ IsFiniteSet(V \cap S) /\ Naturally(f, V \cap S)
    BY FS_Subset DEF Naturally
  <2>3. Sum(f, V \cap S) <= Sum(g, V) /\ Sum(f, V \cap S) \in Nat /\ Sum(g, V) \in Nat
    BY <1>1, <2>1, <2>2, SumParts
  <2>4. Sum(g, U) = g[x] + Sum(g, V) /\ g[x] \in Nat
    BY <1>2, <2>1, SumParts DEF Naturally
  <2>5. Sum(f, U \cap S) <= g[x] + Sum(g, V)
    <3>1. CASE x \in S
      <4>1. V \cap S = (U \cap S) \ {x} /\ x \in U \cap S
        BY <2>1, <3>1
      <4>2. Sum(f, U \cap S) = f[x] + Sum(f, V \cap S)
        BY <1>2, <4>1, SumParts
      <4>3. f[x] \in Nat /\ f[x] <= g[x]
        BY <3>1 DEF Naturally
      <4> QED
        BY <2>3, <2>4, <4>2, <4>3
    <3>2. CASE x \notin S
      <4>1. V \cap S = U \cap S
        BY <2>1, <3>2
      <4>2. Sum(f, U \cap S) = Sum(f, V \cap S)
        BY <4>1
      <4> QED
        BY <2>3, <2>4, <4>2
    <3> QED
      BY <3>1, <3>2
  <2> QED
    BY <1>1, <2>4, <2>5
<1> QED
  BY <1>3, <1>4

\* What is bounded by two terms has a sum bounded by theirs.
LEMMA SumSplits ==
    ASSUME NEW S, IsFiniteSet(S), NEW f, NEW g, NEW h,
           Naturally(f, S), Naturally(g, S), Naturally(h, S), \A x \in S : h[x] <= f[x] + g[x]
    PROVE  Sum(h, S) <= Sum(f, S) + Sum(g, S)
<1> DEFINE B == {U \in SUBSET S : ~(Sum(h, U) <= Sum(f, U) + Sum(g, U))}
<1> SUFFICES ASSUME B # {} PROVE FALSE
  OBVIOUS
<1>1. PICK U \in B : \A x \in U : U \ {x} \notin B
  <2>1. B \in SUBSET SUBSET S
    OBVIOUS
  <2> HIDE DEF B
  <2> QED
    BY <2>1, SmallestSubset
<1>2. IsFiniteSet(U) /\ Naturally(f, U) /\ Naturally(g, U) /\ Naturally(h, U)
  BY FS_Subset DEF Naturally
<1>3. CASE U = {}
  BY <1>1, <1>2, <1>3, SumParts
<1>4. ASSUME NEW x \in U PROVE FALSE
  <2>1. PICK V \in SUBSET S : V = U \ {x}
    OBVIOUS
  <2>2. IsFiniteSet(V) /\ Naturally(f, V) /\ Naturally(g, V) /\ Naturally(h, V)
    BY FS_Subset DEF Naturally
  <2>3. /\ Sum(h, V) <= Sum(f, V) + Sum(g, V)
        /\ Sum(f, V) \in Nat /\ Sum(g, V) \in Nat /\ Sum(h, V) \in Nat
    BY <1>1, <2>1, <2>2, SumParts
  <2>4. /\ Sum(f, U) = f[x] + Sum(f, V) /\ Sum(g, U) = g[x] + Sum(g, V)
        /\ Sum(h, U) = h[x] + Sum(h, V)
    BY <1>2, <2>1, SumParts
  <2>5. f[x] \in Nat /\ g[x] \in Nat /\ h[x] \in Nat /\ h[x] <= f[x] + g[x]
    BY <1>2 DEF Naturally
  <2> QED
    BY <1>1, <2>3, <2>4, <2>5
<1> QED
  BY <1>3, <1>4

-----------------------------------------------------------------------------
(* What a club has on loan: the invariant behind the budget *)

\* What a row weighs without its excess: a reservation while it is held, and what it cost,
\* up to what was held for it, if it was settled in time.
LentOf(r, t) ==
    IF r.status = "pending" THEN IF r.expires > t THEN r.reserved ELSE 0
    ELSE IF r.status # "finalized" \/ r.settled >= r.expires THEN 0
    ELSE IF r.actual > r.reserved THEN r.reserved ELSE r.actual

Lents(rows, t) == [c \in Call |-> LentOf(rows[c], t)]

RowsIn(rows, k, w, t) ==
    {c \in Call : rows[c] # NoRow /\ ClubOf[c] = k /\ rows[c].created + WindowLen[w] >= t}

Lent(rows, k, w, t) == Sum(Lents(rows, t), RowsIn(rows, k, w, t))

Holders(rows) == {c \in Call : rows[c] # NoRow}

Past == \A c \in Call : begun[c] <= now
FewRows == IsFiniteSet(Holders(row))

\* The count of a transaction covers what is on loan as of its BEGIN.
Counted ==
    \A c \in Call : pc[c] = "counted" =>
       \A w \in Window : seen[c][w] \in Nat /\ Lent(row, ClubOf[c], w, begun[c]) <= seen[c][w]

WithinBudget == \A k \in Club : \A w \in Window : Lent(row, k, w, now) <= WindowMax[w]

SpendInv == TypeOK /\ LockInv /\ Past /\ FewRows /\ Counted /\ WithinBudget

\* A row at time n stays as it is, or is settled then.
Kept(r, s, n) ==
    \/ s = r
    \/ /\ r \in Row /\ r.status = "pending"
       /\ s \in Row /\ s.status # "pending"
       /\ s.created = r.created /\ s.reserved = r.reserved /\ s.expires = r.expires
       /\ s.settled = n

LEMMA LentIsNatural ==
    ASSUME NEW r \in Row, NEW t \in Nat PROVE LentOf(r, t) \in Nat
BY DEF LentOf, Row

\* Neither time nor settling lends anything again.
LEMMA LentKept ==
    ASSUME NEW r \in Row \cup {NoRow}, NEW s \in Row \cup {NoRow}, NEW n \in Nat, Kept(r, s, n),
           NEW t \in Nat, NEW u \in Nat, t <= u, t <= n, s # NoRow
    PROVE  r \in Row /\ s \in Row /\ s.created = r.created /\ LentOf(s, u) <= LentOf(r, t)
<1>1. CASE s = r
  <2>1. r \in Row
    BY <1>1
  <2> QED
    BY <1>1, <2>1 DEF LentOf, Row
<1>2. CASE s # r
  <2>1. /\ r \in Row /\ r.status = "pending"
        /\ s \in Row /\ s.status # "pending"
        /\ s.created = r.created /\ s.reserved = r.reserved /\ s.expires = r.expires
        /\ s.settled = n
    BY <1>2 DEF Kept
  <2>2. /\ r.expires \in Nat /\ r.reserved \in Nat /\ s.actual \in Nat
    BY <2>1 DEF Row
  <2>3. LentOf(r, t) = IF r.expires > t THEN r.reserved ELSE 0
    BY <2>1 DEF LentOf
  <2>4. LentOf(s, u) = IF s.status # "finalized" \/ n >= r.expires THEN 0
                       ELSE IF s.actual > r.reserved THEN r.reserved ELSE s.actual
    BY <2>1 DEF LentOf
  <2>5. LentOf(s, u) <= LentOf(r, t)
    BY <2>2, <2>3, <2>4
  <2> QED
    BY <2>1, <2>5
<1> QED
  BY <1>1, <1>2

LEMMA LentNatural ==
    ASSUME NEW rows \in [Call -> Row \cup {NoRow}], IsFiniteSet(Holders(rows)),
           NEW k, NEW w, NEW t \in Nat
    PROVE  /\ IsFiniteSet(RowsIn(rows, k, w, t)) /\ Naturally(Lents(rows, t), RowsIn(rows, k, w, t))
           /\ Lent(rows, k, w, t) \in Nat
<1>1. RowsIn(rows, k, w, t) \in SUBSET Holders(rows)
  BY DEF RowsIn, Holders
<1>2. IsFiniteSet(RowsIn(rows, k, w, t))
  BY <1>1, FS_Subset
<1>3. Naturally(Lents(rows, t), RowsIn(rows, k, w, t))
  <2> SUFFICES ASSUME NEW c \in RowsIn(rows, k, w, t) PROVE Lents(rows, t)[c] \in Nat
    BY DEF Naturally
  <2>1. c \in Call /\ rows[c] \in Row
    BY DEF RowsIn
  <2> QED
    BY <2>1, LentIsNatural DEF Lents
<1> QED
  BY <1>2, <1>3, SumParts DEF Lent

\* What a club has on loan only falls while its rows stay or are settled.
LEMMA LentFalls ==
    ASSUME NEW old \in [Call -> Row \cup {NoRow}], IsFiniteSet(Holders(old)),
           NEW new \in [Call -> Row \cup {NoRow}], IsFiniteSet(Holders(new)),
           NEW n \in Nat, NEW t \in Nat, NEW u \in Nat, t <= u, t <= n,
           NEW k, NEW w \in Window, NEW S \in SUBSET RowsIn(new, k, w, u),
           \A c \in S : Kept(old[c], new[c], n)
    PROVE  Sum(Lents(new, u), S) <= Lent(old, k, w, t)
<1>1. ASSUME NEW c \in S
      PROVE  c \in RowsIn(old, k, w, t) /\ Lents(new, u)[c] \in Nat
             /\ Lents(new, u)[c] <= Lents(old, t)[c]
  <2>1. c \in Call /\ new[c] # NoRow /\ ClubOf[c] = k /\ new[c].created + WindowLen[w] >= u
    BY DEF RowsIn
  <2>2. /\ old[c] \in Row /\ new[c] \in Row /\ new[c].created = old[c].created
        /\ LentOf(new[c], u) <= LentOf(old[c], t)
    <3>1. old[c] \in Row \cup {NoRow} /\ new[c] \in Row \cup {NoRow} /\ Kept(old[c], new[c], n)
      BY <2>1
    <3> QED
      BY <2>1, <3>1, LentKept
  <2>3. old[c] # NoRow
    BY <2>2 DEF Row, NoRow
  <2>4. old[c].created + WindowLen[w] >= t
    <3>1. old[c].created \in Nat /\ WindowLen[w] \in Nat
      BY <2>2, WindowAssumption DEF Row
    <3> QED
      BY <2>1, <2>2, <3>1
  <2>5. Lents(new, u)[c] = LentOf(new[c], u) /\ Lents(old, t)[c] = LentOf(old[c], t)
    BY <2>1 DEF Lents
  <2> QED
    BY <2>1, <2>2, <2>3, <2>4, <2>5, LentIsNatural DEF RowsIn
<1>2. S \in SUBSET RowsIn(old, k, w, t) /\ Naturally(Lents(new, u), S)
  BY <1>1 DEF Naturally
<1>3. /\ IsFiniteSet(RowsIn(old, k, w, t))
      /\ Naturally(Lents(old, t), RowsIn(old, k, w, t))
  BY LentNatural
<1> QED
  BY <1>1, <1>2, <1>3, SumGrows DEF Lent

\* The sums of the ledger are sums of functions.
Charges(t) == [c \in Call |-> Charge(c, t)]
Excesses == [c \in Call |-> Excess(c)]

LEMMA ChargesOf ==
    ASSUME TypeOK, NEW c \in Call, HasRow(c), NEW t \in Nat
    PROVE  /\ Charge(c, t) \in Nat /\ Excess(c) \in Nat /\ LentOf(row[c], t) \in Nat
           /\ LentOf(row[c], t) <= Charge(c, t)
           /\ t = now => Charge(c, t) <= LentOf(row[c], t) + Excess(c)
<1>1. row[c] \in Row
  BY DEF TypeOK, HasRow
<1>2. /\ row[c].expires \in Nat /\ row[c].reserved \in Nat /\ row[c].actual \in Nat
      /\ row[c].settled \in Nat /\ row[c].status \in Status
  BY <1>1 DEF Row
<1>3. CASE row[c].status = "pending"
  BY <1>2, <1>3 DEF Charge, Excess, LentOf, Pending, Expired
<1>4. CASE row[c].status = "finalized"
  BY <1>2, <1>4 DEF Charge, Excess, LentOf, Pending, Expired
<1>5. CASE row[c].status = "released"
  BY <1>2, <1>5 DEF Charge, Excess, LentOf, Pending, Expired
<1> QED
  BY <1>2, <1>3, <1>4, <1>5 DEF Status

LEMMA UsageIsSum ==
    ASSUME TypeOK, FewRows, NEW k, NEW w, NEW t \in Nat
    PROVE  /\ InWindow(k, w, t) = RowsIn(row, k, w, t)
           /\ IsFiniteSet(RowsIn(row, k, w, t))
           /\ Naturally(Charges(t), RowsIn(row, k, w, t))
           /\ Naturally(Excesses, RowsIn(row, k, w, t))
           /\ Usage(k, w, t) = Sum(Charges(t), RowsIn(row, k, w, t))
           /\ Overrun(k, w, t) = Sum(Excesses, RowsIn(row, k, w, t))
<1>1. PICK S : S = RowsIn(row, k, w, t)
  OBVIOUS
<1>2. InWindow(k, w, t) = S
  BY <1>1 DEF InWindow, RowsIn, HasRow
<1>3. IsFiniteSet(S)
  BY <1>1, LentNatural DEF TypeOK, FewRows
<1>4. \A c \in S : c \in Call /\ HasRow(c)
  BY <1>1 DEF RowsIn, HasRow
<1>5. Naturally(Charges(t), S) /\ Naturally(Excesses, S)
  BY <1>4, ChargesOf DEF Naturally, Charges, Excesses
<1>6. Usage(k, w, t) = Sum(Charges(t), S)
  <2>1. PICK f : f = Charges(t)
    OBVIOUS
  <2>2. PICK M : Table(f, S, M)
    BY <1>3, <1>5, <2>1, TableExists
  <2>3. \A c \in S : f[c] = Charge(c, t)
    BY <1>4, <2>1 DEF Charges
  <2>4. \A T \in SUBSET S : T # {} => f[CHOOSE x \in T : TRUE] = Charge(CHOOSE x \in T : TRUE, t)
    <3> SUFFICES ASSUME NEW T \in SUBSET S, T # {}
                 PROVE  f[CHOOSE x \in T : TRUE] = Charge(CHOOSE x \in T : TRUE, t)
      OBVIOUS
    <3>1. PICK y \in T : y = CHOOSE x \in T : TRUE
      OBVIOUS
    <3> QED
      BY <2>3, <3>1
  <2> DEFINE I == CHOOSE J : J = [T \in SUBSET S |->
                     IF T = {} THEN 0 ELSE Charge(CHOOSE x \in T : TRUE, t)
                                           + J[T \ {CHOOSE x \in T : TRUE}]]
  <2>5. M = [T \in SUBSET S |-> IF T = {} THEN 0 ELSE Charge(CHOOSE x \in T : TRUE, t)
                                                      + M[T \ {CHOOSE x \in T : TRUE}]]
    <3>1. Recurs(f, S, M)
      BY <2>2, TableRecurs
    <3>2. M = [T \in SUBSET S |-> M[T]]
      BY <2>2 DEF Table
    <3>3. ASSUME NEW T \in SUBSET S
          PROVE  M[T] = IF T = {} THEN 0 ELSE Charge(CHOOSE x \in T : TRUE, t)
                                              + M[T \ {CHOOSE x \in T : TRUE}]
      <4>1. M[T] = IF T = {} THEN 0 ELSE f[CHOOSE x \in T : TRUE]
                                         + M[T \ {CHOOSE x \in T : TRUE}]
        BY <3>1 DEF Recurs
      <4> QED
        BY <2>4, <4>1
    <3> HIDE DEF I
    <3> QED
      BY <3>2, <3>3
  <2>6. I = [T \in SUBSET S |-> IF T = {} THEN 0 ELSE Charge(CHOOSE x \in T : TRUE, t)
                                                      + I[T \ {CHOOSE x \in T : TRUE}]]
    BY <2>5
  <2>7. Usage(k, w, t) = I[S]
    BY <1>2 DEF Usage, MapThenSumSet, MapThenFoldSet
  <2> HIDE DEF I
  <2>8. Recurs(f, S, I)
    BY <2>4, <2>6 DEF Recurs
  <2>9. I = M /\ Sum(f, S) = M[S]
    BY <1>3, <2>2, <2>8, RecursionSums, SumOfTable
  <2> QED
    BY <2>1, <2>7, <2>9
<1>7. Overrun(k, w, t) = Sum(Excesses, S)
  <2>1. PICK f : f = Excesses
    OBVIOUS
  <2>2. PICK M : Table(f, S, M)
    BY <1>3, <1>5, <2>1, TableExists
  <2>3. \A c \in S : f[c] = Excess(c)
    BY <1>4, <2>1 DEF Excesses
  <2>4. \A T \in SUBSET S : T # {} => f[CHOOSE x \in T : TRUE] = Excess(CHOOSE x \in T : TRUE)
    <3> SUFFICES ASSUME NEW T \in SUBSET S, T # {}
                 PROVE  f[CHOOSE x \in T : TRUE] = Excess(CHOOSE x \in T : TRUE)
      OBVIOUS
    <3>1. PICK y \in T : y = CHOOSE x \in T : TRUE
      OBVIOUS
    <3> QED
      BY <2>3, <3>1
  <2> DEFINE I == CHOOSE J : J = [T \in SUBSET S |->
                     IF T = {} THEN 0 ELSE Excess(CHOOSE x \in T : TRUE)
                                           + J[T \ {CHOOSE x \in T : TRUE}]]
  <2>5. M = [T \in SUBSET S |-> IF T = {} THEN 0 ELSE Excess(CHOOSE x \in T : TRUE)
                                                      + M[T \ {CHOOSE x \in T : TRUE}]]
    <3>1. Recurs(f, S, M)
      BY <2>2, TableRecurs
    <3>2. M = [T \in SUBSET S |-> M[T]]
      BY <2>2 DEF Table
    <3>3. ASSUME NEW T \in SUBSET S
          PROVE  M[T] = IF T = {} THEN 0 ELSE Excess(CHOOSE x \in T : TRUE)
                                              + M[T \ {CHOOSE x \in T : TRUE}]
      <4>1. M[T] = IF T = {} THEN 0 ELSE f[CHOOSE x \in T : TRUE]
                                         + M[T \ {CHOOSE x \in T : TRUE}]
        BY <3>1 DEF Recurs
      <4> QED
        BY <2>4, <4>1
    <3> HIDE DEF I
    <3> QED
      BY <3>2, <3>3
  <2>6. I = [T \in SUBSET S |-> IF T = {} THEN 0 ELSE Excess(CHOOSE x \in T : TRUE)
                                                      + I[T \ {CHOOSE x \in T : TRUE}]]
    BY <2>5
  <2>7. Overrun(k, w, t) = I[S]
    BY <1>2 DEF Overrun, MapThenSumSet, MapThenFoldSet
  <2> HIDE DEF I
  <2>8. Recurs(f, S, I)
    BY <2>4, <2>6 DEF Recurs
  <2>9. I = M /\ Sum(f, S) = M[S]
    BY <1>3, <2>2, <2>8, RecursionSums, SumOfTable
  <2> QED
    BY <2>1, <2>7, <2>9
<1> QED
  BY <1>1, <1>2, <1>3, <1>5, <1>6, <1>7

\* A count takes in at least what is on loan, and what is on loan explains the usage.
LEMMA CountCovers ==
    ASSUME TypeOK, FewRows, NEW k, NEW w \in Window, NEW t \in Nat
    PROVE  Usage(k, w, t) \in Nat /\ Lent(row, k, w, t) <= Usage(k, w, t)
<1>1. PICK S : S = RowsIn(row, k, w, t)
  OBVIOUS
<1>2. /\ IsFiniteSet(S) /\ Naturally(Charges(t), S) /\ Naturally(Lents(row, t), S)
      /\ Usage(k, w, t) = Sum(Charges(t), S) /\ Lent(row, k, w, t) = Sum(Lents(row, t), S)
  BY <1>1, UsageIsSum, LentNatural DEF TypeOK, FewRows, Lent
<1>3. \A c \in S : Lents(row, t)[c] <= Charges(t)[c]
  <2> SUFFICES ASSUME NEW c \in S PROVE Lents(row, t)[c] <= Charges(t)[c]
    OBVIOUS
  <2>1. c \in Call /\ HasRow(c)
    BY <1>1 DEF RowsIn, HasRow
  <2> QED
    BY <2>1, ChargesOf DEF Lents, Charges
<1> QED
  BY <1>2, <1>3, SumGrows, SumParts

LEMMA LoansExplain ==
    ASSUME TypeOK, FewRows, NEW k, NEW w \in Window
    PROVE  /\ Usage(k, w, now) \in Nat /\ Overrun(k, w, now) \in Nat
           /\ Usage(k, w, now) <= Lent(row, k, w, now) + Overrun(k, w, now)
<1>1. PICK S : S = RowsIn(row, k, w, now)
  OBVIOUS
<1>2. now \in Nat
  BY DEF TypeOK
<1>3. /\ IsFiniteSet(S) /\ Naturally(Charges(now), S) /\ Naturally(Lents(row, now), S)
      /\ Naturally(Excesses, S)
      /\ Usage(k, w, now) = Sum(Charges(now), S) /\ Lent(row, k, w, now) = Sum(Lents(row, now), S)
      /\ Overrun(k, w, now) = Sum(Excesses, S)
  BY <1>1, <1>2, UsageIsSum, LentNatural DEF TypeOK, FewRows, Lent
<1>4. \A c \in S : Charges(now)[c] <= Lents(row, now)[c] + Excesses[c]
  <2> SUFFICES ASSUME NEW c \in S PROVE Charges(now)[c] <= Lents(row, now)[c] + Excesses[c]
    OBVIOUS
  <2>1. c \in Call /\ HasRow(c)
    BY <1>1 DEF RowsIn, HasRow
  <2> QED
    BY <1>2, <2>1, ChargesOf DEF Lents, Charges, Excesses
<1> QED
  BY <1>3, <1>4, SumSplits, SumParts

\* Every step but an insert keeps the rows or settles them.
LEMMA StepKeepsRows ==
    ASSUME TypeOK, LockInv, [Next]_vars
    PROVE  \/ \E c \in Call : InsertReservation(c)
           \/ \A c \in Call : Kept(row[c], row'[c], now)
<1> SUFFICES ASSUME ~\E c \in Call : InsertReservation(c), NEW c \in Call
             PROVE  Kept(row[c], row'[c], now)
  OBVIOUS
<1>0. row \in [Call -> Row \cup {NoRow}] /\ now \in Nat
  BY DEF TypeOK
<1>1. ASSUME NEW d \in Call, NEW status \in {"finalized", "released"}, NEW actual \in Nat,
             Pending(d), Settle(d, status, actual)
      PROVE  Kept(row[c], row'[c], now)
  <2>1. row[d] \in Row
    BY <1>0, <1>1 DEF Pending, NoRow
  <2> DEFINE s == [row[d] EXCEPT !.status = status, !.actual = actual, !.settled = now]
  <2>2. row' = [row EXCEPT ![d] = s]
    BY <1>0, <1>1 DEF Settle
  <2>3. /\ s \in Row /\ s.status # "pending" /\ s.created = row[d].created
        /\ s.reserved = row[d].reserved /\ s.expires = row[d].expires /\ s.settled = now
    BY <1>0, <2>1 DEF Row, Status
  <2> HIDE DEF s
  <2>4. CASE c = d
    BY <1>0, <1>1, <2>1, <2>2, <2>3, <2>4 DEF Kept, Pending
  <2>5. CASE c # d
    BY <1>0, <2>2, <2>5 DEF Kept
  <2> QED
    BY <2>4, <2>5
<1>2. UNCHANGED row => Kept(row[c], row'[c], now)
  BY DEF Kept
<1>3. ASSUME NEW d \in Call, FinalizeClubSpendBudget(d) PROVE Kept(row[c], row'[c], now)
  <2>1. PICK actual \in Actuals :
          IF Settleable(d) THEN Settle(d, SettledStatus(actual), actual) ELSE UNCHANGED row
    BY <1>3 DEF FinalizeClubSpendBudget
  <2>2. actual \in Nat /\ SettledStatus(actual) \in {"finalized", "released"}
    BY AmountAssumption DEF SettledStatus
  <2> QED
    BY <1>1, <1>2, <2>1, <2>2 DEF Settleable
<1>4. ASSUME NEW d \in Call, ReleaseClubSpendBudget(d) PROVE Kept(row[c], row'[c], now)
  BY <1>1, <1>2, <1>4 DEF ReleaseClubSpendBudget, Settleable
<1>5. CASE SweepExpiredClubSpendReservations
  <2> DEFINE s == [row[c] EXCEPT !.status = "released", !.actual = 0, !.settled = now]
  <2>1. row'[c] = IF c \in Sweepable THEN s ELSE row[c]
    BY <1>5 DEF SweepExpiredClubSpendReservations
  <2>2. CASE c \in Sweepable
    <3>1. row[c] \in Row /\ row[c].status = "pending"
      BY <1>0, <2>2 DEF Sweepable, HasRow, Pending
    <3>2. /\ s \in Row /\ s.status # "pending" /\ s.created = row[c].created
          /\ s.reserved = row[c].reserved /\ s.expires = row[c].expires /\ s.settled = now
      BY <1>0, <3>1 DEF Row, Status
    <3> HIDE DEF s
    <3> QED
      BY <2>1, <2>2, <3>1, <3>2 DEF Kept
  <2>3. CASE c \notin Sweepable
    BY <2>1, <2>3 DEF Kept
  <2> QED
    BY <2>2, <2>3
<1>6. ASSUME NEW d \in Call,
             \/ BeginReserve(d) \/ LockClubSpendScope(d) \/ CountClubSpendUsage(d)
             \/ RejectReservation(d) \/ Crash(d)
      PROVE  UNCHANGED row
  BY <1>6 DEF BeginReserve, LockClubSpendScope, CountClubSpendUsage, RejectReservation, Crash
<1>7. CASE Tick \/ UNCHANGED vars
  BY <1>2, <1>7 DEF Tick, vars
<1> QED
  BY <1>2, <1>3, <1>4, <1>5, <1>6, <1>7 DEF Next

\* Whoever still has a count has the count and the BEGIN it had, or has just counted.
LEMMA StepKeepsCounts ==
    ASSUME TypeOK, Past, [Next]_vars, NEW c \in Call, pc'[c] = "counted"
    PROVE  \/ CountClubSpendUsage(c)
           \/ pc[c] = "counted" /\ begun'[c] = begun[c] /\ seen'[c] = seen[c]
<1> USE DEF TypeOK
<1>1. ASSUME NEW d \in Call, BeginReserve(d) \/ LockClubSpendScope(d)
      PROVE  pc[c] = "counted" /\ begun'[c] = begun[c] /\ seen'[c] = seen[c]
  BY <1>1 DEF BeginReserve, LockClubSpendScope
<1>2. ASSUME NEW d \in Call, CountClubSpendUsage(d), d # c
      PROVE  pc[c] = "counted" /\ begun'[c] = begun[c] /\ seen'[c] = seen[c]
  BY <1>2 DEF CountClubSpendUsage
<1>3. ASSUME NEW d \in Call, InsertReservation(d) \/ RejectReservation(d) \/ Crash(d)
      PROVE  pc[c] = "counted" /\ begun'[c] = begun[c] /\ seen'[c] = seen[c]
  BY <1>3 DEF InsertReservation, RejectReservation, Crash, EndTransaction
<1>4. ASSUME NEW d \in Call, FinalizeClubSpendBudget(d) \/ ReleaseClubSpendBudget(d)
      PROVE  pc[c] = "counted" /\ begun'[c] = begun[c] /\ seen'[c] = seen[c]
  BY <1>4 DEF FinalizeClubSpendBudget, ReleaseClubSpendBudget
<1>5. CASE SweepExpiredClubSpendReservations \/ Tick \/ UNCHANGED vars
  BY <1>5 DEF SweepExpiredClubSpendReservations, Tick, vars
<1> QED
  BY <1>1, <1>2, <1>3, <1>4, <1>5 DEF Next

LEMMA ClockRuns ==
    ASSUME TypeOK, Past, [Next]_vars
    PROVE  now' \in Nat /\ now <= now' /\ Past'
<1> USE DEF TypeOK, Past
<1>1. ASSUME NEW d \in Call, BeginReserve(d) PROVE now' = now /\ Past'
  BY <1>1 DEF BeginReserve
<1>2. ASSUME NEW d \in Call, InsertReservation(d) \/ RejectReservation(d) \/ Crash(d)
      PROVE  now' = now /\ Past'
  BY <1>2 DEF InsertReservation, RejectReservation, Crash, EndTransaction
<1>3. ASSUME NEW d \in Call, \/ LockClubSpendScope(d) \/ CountClubSpendUsage(d)
                             \/ FinalizeClubSpendBudget(d) \/ ReleaseClubSpendBudget(d)
      PROVE  now' = now /\ Past'
  BY <1>3 DEF LockClubSpendScope, CountClubSpendUsage, FinalizeClubSpendBudget,
              ReleaseClubSpendBudget
<1>4. ASSUME SweepExpiredClubSpendReservations \/ UNCHANGED vars
      PROVE  now' = now /\ Past'
  BY <1>4 DEF SweepExpiredClubSpendReservations, vars
<1>5. CASE Tick
  BY <1>5 DEF Tick
<1> QED
  BY <1>1, <1>2, <1>3, <1>4, <1>5 DEF Next

\* The whole of a reservation was free when it was counted, and is still free.
LEMMA InsertFits ==
    ASSUME SpendInv, NEW c \in Call, InsertReservation(c), TypeOK', FewRows',
           NEW w \in Window
    PROVE  Lent(row', ClubOf[c], w, now) <= WindowMax[w]
<1> USE DEF SpendInv, TypeOK
<1>1. PICK new \in [Call -> Row \cup {NoRow}] : new = row'
  OBVIOUS
<1>2. PICK k : k = ClubOf[c]
  OBVIOUS
<1>3. PICK t \in Nat : t = begun[c]
  OBVIOUS
<1>4. t <= now /\ now \in Nat
  BY <1>3 DEF Past
<1>5. PICK S : S = RowsIn(new, k, w, now) \ {c}
  OBVIOUS
<1>6. /\ IsFiniteSet(RowsIn(new, k, w, now))
      /\ Naturally(Lents(new, now), RowsIn(new, k, w, now))
  BY <1>1, <1>4, LentNatural DEF FewRows
<1>7. Sum(Lents(new, now), S) <= Lent(row, k, w, t)
  <2>1. \A d \in S : Kept(row[d], new[d], now)
    BY <1>1, <1>5 DEF InsertReservation, Kept
  <2>2. S \in SUBSET RowsIn(new, k, w, now) /\ IsFiniteSet(Holders(new)) /\ IsFiniteSet(Holders(row))
    BY <1>1, <1>5 DEF FewRows
  <2>3. row \in [Call -> Row \cup {NoRow}]
    OBVIOUS
  <2> QED
    BY <1>4, <2>1, <2>2, <2>3, LentFalls
<1>8. /\ Lent(row, k, w, t) <= seen[c][w] /\ seen[c][w] \in Nat /\ Lent(row, k, w, t) \in Nat
      /\ seen[c][w] + need[c] <= WindowMax[w] /\ need[c] \in Nat /\ WindowMax[w] \in Nat
  <2>1. pc[c] = "counted" /\ Fits(c)
    BY DEF InsertReservation
  <2>2. Lent(row, k, w, t) <= seen[c][w] /\ seen[c][w] \in Nat
    BY <1>2, <1>3, <2>1 DEF Counted
  <2>3. Lent(row, k, w, t) \in Nat
    BY LentNatural DEF FewRows
  <2> QED
    BY <2>1, <2>2, <2>3, WindowAssumption DEF Fits
<1>9. Lents(new, now)[c] = need[c]
  <2>1. new[c] = [status |-> "pending", reserved |-> need[c], actual |-> 0,
                  created |-> begun[c], expires |-> now + TTL, settled |-> 0]
    BY <1>1 DEF InsertReservation
  <2>2. now + TTL > now
    BY <1>4, AmountAssumption
  <2> QED
    BY <2>1, <2>2 DEF Lents, LentOf
<1>10. Sum(Lents(new, now), S) \in Nat /\ Sum(Lents(new, now), RowsIn(new, k, w, now))
                                          <= need[c] + Sum(Lents(new, now), S)
  <2>1. IsFiniteSet(S) /\ Naturally(Lents(new, now), S)
    BY <1>5, <1>6, FS_Subset DEF Naturally
  <2>2. Sum(Lents(new, now), S) \in Nat
    BY <2>1, SumParts
  <2>3. CASE c \in RowsIn(new, k, w, now)
    <3>1. Sum(Lents(new, now), RowsIn(new, k, w, now)) = need[c] + Sum(Lents(new, now), S)
      BY <1>5, <1>6, <1>9, <2>3, SumParts
    <3>2. need[c] + Sum(Lents(new, now), S) \in Nat
      BY <1>8, <2>2
    <3> QED
      BY <2>2, <3>1, <3>2
  <2>4. CASE c \notin RowsIn(new, k, w, now)
    <3>1. S = RowsIn(new, k, w, now)
      BY <1>5, <2>4
    <3> QED
      BY <1>8, <2>2, <3>1
  <2> QED
    BY <2>3, <2>4
<1>11. Lent(new, k, w, now) <= need[c] + Sum(Lents(new, now), S)
  BY <1>10 DEF Lent
<1>12. Lent(new, k, w, now) \in Nat
  BY <1>4, <1>6, SumParts DEF Lent
<1>13. Lent(new, k, w, now) <= WindowMax[w]
  BY <1>7, <1>8, <1>10, <1>11, <1>12
<1> QED
  BY <1>1, <1>2, <1>13

LEMMA FewRowsKept == ASSUME TypeOK, LockInv, FewRows, TypeOK', [Next]_vars PROVE FewRows'
<1>0. row \in [Call -> Row \cup {NoRow}] /\ row' \in [Call -> Row \cup {NoRow}]
  BY DEF TypeOK
<1>1. CASE \A c \in Call : Kept(row[c], row'[c], now)
  <2>1. NoRow \notin Row
    BY DEF NoRow, Row
  <2>2. Holders(row') = Holders(row)
    BY <1>0, <1>1, <2>1 DEF Holders, Kept
  <2> QED
    BY <2>2 DEF FewRows
<1>2. ASSUME NEW c \in Call, InsertReservation(c) PROVE FewRows'
  <2>1. Holders(row') \in SUBSET (Holders(row) \cup {c})
    BY <1>0, <1>2 DEF Holders, InsertReservation
  <2>2. IsFiniteSet(Holders(row) \cup {c})
    BY FS_AddElement DEF FewRows
  <2>3. IsFiniteSet(Holders(row'))
    BY <2>1, <2>2, FS_Subset
  <2> QED
    BY <2>3 DEF FewRows
<1> QED
  BY <1>1, <1>2, StepKeepsRows

\* Of a club into which nothing is inserted, no row is lent again.
LEMMA OtherClubs ==
    ASSUME TypeOK, FewRows, TypeOK', FewRows', NEW k, NEW w \in Window,
           NEW t \in Nat, NEW u \in Nat, t <= u, t <= now,
           \A c \in Call : ClubOf[c] = k => Kept(row[c], row'[c], now)
    PROVE  /\ Lent(row', k, w, u) <= Lent(row, k, w, t)
           /\ Lent(row', k, w, u) \in Nat /\ Lent(row, k, w, t) \in Nat
<1>1. PICK new \in [Call -> Row \cup {NoRow}] : new = row'
  BY DEF TypeOK
<1>2. row \in [Call -> Row \cup {NoRow}] /\ now \in Nat
  BY DEF TypeOK
<1>3. IsFiniteSet(Holders(new)) /\ IsFiniteSet(Holders(row))
  BY <1>1 DEF FewRows
<1>4. PICK S : S = RowsIn(new, k, w, u)
  OBVIOUS
<1>5. S \in SUBSET RowsIn(new, k, w, u) /\ \A c \in S : Kept(row[c], new[c], now)
  BY <1>1, <1>4 DEF RowsIn
<1>6. Sum(Lents(new, u), S) <= Lent(row, k, w, t)
  BY <1>2, <1>3, <1>5, LentFalls
<1>7. Lent(new, k, w, u) \in Nat /\ Lent(row, k, w, t) \in Nat
  BY <1>2, <1>3, LentNatural
<1>8. Lent(new, k, w, u) = Sum(Lents(new, u), S)
  BY <1>4 DEF Lent
<1> QED
  BY <1>1, <1>6, <1>7, <1>8

LEMMA SpendStep == SpendInv /\ [Next]_vars => SpendInv'
<1> SUFFICES ASSUME SpendInv, [Next]_vars PROVE SpendInv'
  OBVIOUS
<1>1. TypeOK /\ LockInv /\ Past /\ FewRows /\ Counted /\ WithinBudget
  BY DEF SpendInv
<1>2. TypeOK' /\ LockInv' /\ FewRows'
  BY <1>1, TypeInduction, LockInduction, FewRowsKept
<1>3. now \in Nat /\ now' \in Nat /\ now <= now' /\ Past'
  BY <1>1, ClockRuns DEF TypeOK
<1>4. Counted'
  <2> SUFFICES ASSUME NEW c \in Call, pc'[c] = "counted", NEW w \in Window
               PROVE  /\ seen'[c][w] \in Nat
                      /\ Lent(row', ClubOf[c], w, begun'[c]) <= seen'[c][w]
    BY DEF Counted
  <2>1. PICK t \in Nat : t = begun[c]
    BY <1>1 DEF TypeOK
  <2>2. t <= now
    BY <1>1, <2>1 DEF Past
  <2>3. PICK k : k = ClubOf[c]
    OBVIOUS
  <2>4. CASE CountClubSpendUsage(c)
    <3>1. row' = row /\ begun' = begun
      BY <2>4 DEF CountClubSpendUsage
    <3>2. seen'[c][w] = Usage(k, w, t)
      BY <1>1, <2>1, <2>3, <2>4 DEF CountClubSpendUsage, TypeOK
    <3>3. Usage(k, w, t) \in Nat /\ Lent(row, k, w, t) <= Usage(k, w, t)
      BY <1>1, CountCovers
    <3> QED
      BY <2>1, <2>3, <3>1, <3>2, <3>3
  <2>5. CASE pc[c] = "counted" /\ begun'[c] = begun[c] /\ seen'[c] = seen[c]
    <3>1. seen[c][w] \in Nat /\ Lent(row, k, w, t) <= seen[c][w]
      BY <1>1, <2>1, <2>3, <2>5 DEF Counted
    <3>2. \A d \in Call : ClubOf[d] = k => Kept(row[d], row'[d], now)
      <4>1. ASSUME NEW e \in Call, InsertReservation(e), NEW d \in Call, ClubOf[d] = k
            PROVE  Kept(row[d], row'[d], now)
        <5>1. pc[e] = "counted" /\ pc'[e] = "reserved"
          BY <1>1, <4>1 DEF InsertReservation, TypeOK
        <5>2. e # c
          BY <5>1
        <5>3. ClubOf[e] # k
          BY <1>1, <2>3, <2>5, <5>1, <5>2 DEF LockInv
        <5>4. row'[d] = row[d]
          BY <1>1, <4>1, <5>3 DEF InsertReservation, TypeOK
        <5> QED
          BY <5>4 DEF Kept
      <4> QED
        BY <1>1, <4>1, StepKeepsRows
    <3>3. /\ Lent(row', k, w, t) <= Lent(row, k, w, t)
          /\ Lent(row', k, w, t) \in Nat /\ Lent(row, k, w, t) \in Nat
      BY <1>1, <1>2, <2>2, <3>2, OtherClubs
    <3>4. Lent(row', k, w, t) <= seen[c][w]
      BY <3>1, <3>3
    <3> QED
      BY <2>1, <2>3, <2>5, <3>1, <3>4
  <2> QED
    BY <1>1, <2>4, <2>5, StepKeepsCounts
<1>5. WithinBudget'
  <2> SUFFICES ASSUME NEW k \in Club, NEW w \in Window PROVE Lent(row', k, w, now') <= WindowMax[w]
    BY DEF WithinBudget
  <2>1. PICK u \in Nat : u = now'
    BY <1>3
  <2>2. ASSUME \A d \in Call : ClubOf[d] = k => Kept(row[d], row'[d], now)
        PROVE  Lent(row', k, w, now') <= WindowMax[w]
    <3>1. /\ Lent(row', k, w, u) <= Lent(row, k, w, now)
          /\ Lent(row', k, w, u) \in Nat /\ Lent(row, k, w, now) \in Nat
      BY <1>1, <1>2, <1>3, <2>1, <2>2, OtherClubs
    <3>2. Lent(row, k, w, now) <= WindowMax[w] /\ WindowMax[w] \in Nat
      BY <1>1, WindowAssumption DEF WithinBudget
    <3>3. Lent(row', k, w, u) <= WindowMax[w]
      BY <3>1, <3>2
    <3> QED
      BY <2>1, <3>3
  <2>3. ASSUME NEW c \in Call, InsertReservation(c) PROVE Lent(row', k, w, now') <= WindowMax[w]
    <3>1. CASE ClubOf[c] = k
      <4>1. Lent(row', ClubOf[c], w, now) <= WindowMax[w]
        BY <1>2, <2>3, InsertFits
      <4>2. now' = now
        BY <2>3 DEF InsertReservation
      <4> QED
        BY <3>1, <4>1, <4>2
    <3>2. CASE ClubOf[c] # k
      <4>1. \A d \in Call : ClubOf[d] = k => Kept(row[d], row'[d], now)
        BY <1>1, <2>3, <3>2 DEF InsertReservation, TypeOK, Kept
      <4> QED
        BY <2>2, <4>1
    <3> QED
      BY <3>1, <3>2
  <2> QED
    BY <1>1, <2>2, <2>3, StepKeepsRows
<1> QED
  BY <1>2, <1>3, <1>4, <1>5 DEF SpendInv

LEMMA SpendInit == Init => SpendInv
<1> SUFFICES ASSUME Init PROVE SpendInv
  OBVIOUS
<1>1. TypeOK /\ LockInv
  BY CallAssumption, AmountAssumption DEF Init, TypeOK, HasRow, PC, LockInv
<1>2. Past /\ Counted
  BY DEF Init, Past, Counted
<1>3. Holders(row) = {}
  BY DEF Init, Holders
<1>4. FewRows
  BY <1>3, FS_EmptySet DEF FewRows
<1>5. ASSUME NEW k \in Club, NEW w \in Window PROVE Lent(row, k, w, now) <= WindowMax[w]
  <2>1. RowsIn(row, k, w, now) = {}
    BY <1>3 DEF RowsIn, Holders
  <2>2. Lent(row, k, w, now) = 0
    <3>1. Naturally(Lents(row, now), {}) /\ IsFiniteSet({})
      BY FS_EmptySet DEF Naturally
    <3>2. Sum(Lents(row, now), {}) = 0
      BY <3>1, SumParts
    <3> QED
      BY <2>1, <3>2 DEF Lent
  <2> QED
    BY <2>2, WindowAssumption
<1> QED
  BY <1>1, <1>2, <1>4, <1>5 DEF SpendInv, WithinBudget

\* A club is over a budget only by what late settlements and under-estimates account for,
\* for any number of calls, windows of any length and budgets of any size.
THEOREM OverrunsAreExplained == Spec => []OverrunExplained
<1>1. SpendInv => OverrunExplained
  <2> SUFFICES ASSUME SpendInv, NEW k \in Club, NEW w \in Window
               PROVE  Usage(k, w, now) <= WindowMax[w] + Overrun(k, w, now)
    BY DEF OverrunExplained
  <2>1. TypeOK /\ FewRows /\ Lent(row, k, w, now) <= WindowMax[w] /\ WindowMax[w] \in Nat
    BY WindowAssumption DEF SpendInv, WithinBudget
  <2>2. /\ Usage(k, w, now) \in Nat /\ Overrun(k, w, now) \in Nat
        /\ Usage(k, w, now) <= Lent(row, k, w, now) + Overrun(k, w, now)
    BY <2>1, LoansExplain
  <2>3. Lent(row, k, w, now) \in Nat
    BY <2>1, LentNatural DEF TypeOK, FewRows
  <2> QED
    BY <2>1, <2>2, <2>3
<1> QED
  BY <1>1, SpendInit, SpendStep, PTL DEF Spec
=============================================================================
