--------------------------- MODULE GatedWriteProofs --------------------------
(***************************************************************************)
(* Proofs about the gated write, for any set of requests, keys and         *)
(* payloads.  The first part holds whatever faults happen; the second part *)
(* is about a barrier that is kept and rejections that are stored.  The    *)
(* last part is about Accounts, the other writes that spend a client key:  *)
(* its definitions are the ones named A!... there.                         *)
(***************************************************************************)
EXTENDS GatedWrite, TLAPS, FiniteSetTheorems

\* A request that carries a key carries a key of the member.
LEMMA KeyedHasKey == ASSUME NEW a \in Attempt, Keyed(a) PROVE KeyOf[a] \in Key
BY AttemptAssumption DEF Keyed

\* The row a request writes is a legal row.
LEMMA DecisionIsRow ==
    ASSUME NEW a \in Attempt, NEW code \in Outcome
    PROVE  /\ DecisionOf(a, code) \in KeyRow
           /\ DecisionOf(a, code) # None
           /\ DecisionOf(a, code).payload = PayloadOf[a]
           /\ DecisionOf(a, code).outcome = code
BY AttemptAssumption, NoneAssumption DEF DecisionOf, KeyRow

-----------------------------------------------------------------------------
(* Types.                                                                  *)

\* Every step of a request keeps TypeOK.
LEMMA TypeInduction == TypeOK /\ [Next]_vars => TypeOK'
<1> SUFFICES ASSUME TypeOK, [Next]_vars PROVE TypeOK'
  OBVIOUS
<1> USE NoneAssumption, KeyedHasKey, DecisionIsRow DEF TypeOK, Goto, Reply
<1>1. ASSUME NEW a \in Attempt, AcquireBarrier(a) PROVE TypeOK'
  BY <1>1 DEF AcquireBarrier, Label
<1>2. ASSUME NEW a \in Attempt, FireRequestLog(a) PROVE TypeOK'
  BY <1>2 DEF FireRequestLog, Label, Code
<1>3. ASSUME NEW a \in Attempt, RunQuotaFor(a) PROVE TypeOK'
  BY <1>3 DEF RunQuotaFor, Label, Code, Transient
<1>4. ASSUME NEW a \in Attempt, IdempotencyReplay(a) PROVE TypeOK'
  BY <1>4 DEF IdempotencyReplay, Label, Code, Outcome
<1>5. ASSUME NEW a \in Attempt, DeterministicLowSubstance(a) PROVE TypeOK'
  BY <1>5 DEF DeterministicLowSubstance, Label
<1>6. ASSUME NEW a \in Attempt, StoreTerminalGateError(a) PROVE TypeOK'
  BY <1>6 DEF StoreTerminalGateError, Label, Code, Outcome, KeyRowMissing
<1>7. ASSUME NEW a \in Attempt, ReserveClubSpendBudget(a) PROVE TypeOK'
  <2>1. "quota_exceeded" \in Code /\ "pending" \in Ledger
    BY DEF Code, Transient, Ledger
  <2> QED
    BY <1>7, <2>1 DEF ReserveClubSpendBudget, Label
<1>8. ASSUME NEW a \in Attempt, ReserveLlmOutputBudget(a) PROVE TypeOK'
  <2>1. spend' \in [Attempt -> Ledger]
    BY <1>8 DEF ReserveLlmOutputBudget, ReleaseOnRefusal, SettleTo, Ledger
  <2>2. tokens' \in [Attempt -> Ledger]
    BY <1>8 DEF ReserveLlmOutputBudget, Ledger
  <2>3. "quota_exceeded" \in Code
    BY DEF Code, Transient
  <2> QED
    BY <1>8, <2>1, <2>2, <2>3 DEF ReserveLlmOutputBudget, Label
<1>9. ASSUME NEW a \in Attempt, RunLlmGate(a) PROVE TypeOK'
  <2>1. spend' \in [Attempt -> Ledger] /\ tokens' \in [Attempt -> Ledger]
    BY <1>9 DEF RunLlmGate, SettleTo, Ledger
  <2>2. verdict' \in [Attempt -> Verdict \cup {None}]
    BY <1>9 DEF RunLlmGate, Verdict, Billable
  <2>3. "internal_error" \in Code
    BY DEF Code, Transient
  <2> QED
    BY <1>9, <2>1, <2>2, <2>3 DEF RunLlmGate, Label
<1>10. ASSUME NEW a \in Attempt, SettleClubSpend(a) PROVE TypeOK'
  BY <1>10 DEF SettleClubSpend, Label, Code, Transient, Ledger
<1>11. ASSUME NEW a \in Attempt, SettleLlmOutput(a) PROVE TypeOK'
  BY <1>11 DEF SettleLlmOutput, Label, Code, Transient, Ledger, AfterGate
<1>12. ASSUME NEW a \in Attempt, HandleLookup(a) PROVE TypeOK'
  <2>1. pc' \in [Attempt -> Label] /\ txlock' \in [Key -> Attempt \cup {None}]
    BY <1>12 DEF HandleLookup, Label
  <2>2. /\ answer' \in [Attempt -> Code \cup {None}]
        /\ \A b \in Attempt : pc'[b] \in {"unlock", "done"} => answer'[b] # None
    BY <1>12 DEF HandleLookup, Label, Code, Outcome
  <2> QED
    BY <1>12, <2>1, <2>2 DEF HandleLookup
<1>13. ASSUME NEW a \in Attempt, HandleCommit(a) PROVE TypeOK'
  <2>1. idem' \in [Key -> KeyRow \cup {None}]
    <3>1. CASE RecordOutcome(a)
      BY <3>1 DEF RecordOutcome, Outcome
    <3>2. CASE UNCHANGED idem
      BY <3>2
    <3> QED
      BY <1>13, <3>1, <3>2 DEF HandleCommit
  <2>2. \E code \in Code : Reply(a, code)
    BY <1>13 DEF HandleCommit, Code, Outcome, Transient
  <2>3. contents' \subseteq Attempt
    BY <1>13 DEF HandleCommit
  <2> QED
    BY <1>13, <2>1, <2>2, <2>3 DEF HandleCommit, Label, GiveUp
<1>14. ASSUME NEW a \in Attempt, ReleaseBarrier(a) PROVE TypeOK'
  BY <1>14 DEF ReleaseBarrier, Label, GiveUp
<1>15. ASSUME NEW a \in Attempt, Crash(a) PROVE TypeOK'
  BY <1>15 DEF Crash, Label, GiveUp
<1>16. ASSUME NEW k \in Key, LoseBarrier(k) PROVE TypeOK'
  BY <1>16 DEF LoseBarrier
<1>17. CASE UNCHANGED vars
  BY <1>17 DEF vars
<1> QED
  BY <1>1, <1>2, <1>3, <1>4, <1>5, <1>6, <1>7, <1>8, <1>9, <1>10, <1>11, <1>12, <1>13, <1>14, <1>15, <1>16, <1>17 DEF Next, Step

\* TypeCorrect: every variable has its type in every reachable state.
THEOREM TypeCorrect == Spec => []TypeOK
<1>1. Init => TypeOK
  BY DEF Init, TypeOK, Label, Ledger
<1> QED
  BY <1>1, TypeInduction, PTL DEF Spec

-----------------------------------------------------------------------------
(* Decisions.                                                              *)

DecisionsKept == \A k \in Key : idem[k] # None => idem'[k] = idem[k]

\* The two steps that write a key's row find none there.
LEMMA DecisionStep == TypeOK /\ [Next]_vars => DecisionsKept
<1> SUFFICES ASSUME TypeOK, [Next]_vars PROVE DecisionsKept
  OBVIOUS
<1>1. ASSUME NEW a \in Attempt, StoreTerminalGateError(a) PROVE DecisionsKept
  BY <1>1, KeyedHasKey DEF StoreTerminalGateError, KeyRowMissing, DecisionsKept, TypeOK
<1>2. ASSUME NEW a \in Attempt, HandleCommit(a) PROVE DecisionsKept
  BY <1>2, KeyedHasKey DEF HandleCommit, KeyRowAbsent, RecordOutcome, DecisionsKept, TypeOK
<1>3. CASE UNCHANGED idem
  BY <1>3 DEF DecisionsKept
<1> QED
  BY <1>1, <1>2, <1>3 DEF Next, Step, vars, AcquireBarrier, FireRequestLog, RunQuotaFor,
     IdempotencyReplay, DeterministicLowSubstance, ReserveClubSpendBudget,
     ReserveLlmOutputBudget, RunLlmGate, SettleClubSpend, SettleLlmOutput, HandleLookup,
     ReleaseBarrier, Crash, LoseBarrier

\* DecisionsAreFinal: whatever fails, the stored outcome of a key is never
\* changed and never lost.
THEOREM DecisionsAreFinal == Spec => DecisionIsFinal
<1>1. TypeOK /\ [Next]_vars => [DecisionsKept]_vars
  BY DecisionStep
<1> QED
  BY <1>1, TypeCorrect, PTL DEF Spec, DecisionIsFinal, DecisionsKept

-----------------------------------------------------------------------------
(* The inductive invariant of the write.                                   *)

Decided(a, code) == Keyed(a) /\ idem[KeyOf[a]] = DecisionOf(a, code)

\* A lookup that hits returns the outcome its key was decided with.
LEMMA LookupHit ==
    ASSUME TypeOK, NEW a \in Attempt, NEW code \in Outcome, Lookup(a) = code
    PROVE  Decided(a, code)
<1>1. Keyed(a) /\ KeyOf[a] \in Key /\ idem[KeyOf[a]] # None
  BY KeyedHasKey DEF Lookup, Outcome
<1>2. idem[KeyOf[a]] \in KeyRow
  BY <1>1 DEF TypeOK
<1>3. idem[KeyOf[a]].payload = PayloadOf[a] /\ idem[KeyOf[a]].outcome = code
  BY <1>1 DEF Lookup, Outcome
<1> QED
  BY <1>1, <1>2, <1>3 DEF Decided, DecisionOf, KeyRow

\* A lookup that does not hit finds an undecided key, or a conflict.
LEMMA LookupMiss ==
    ASSUME TypeOK, NEW a \in Attempt, Keyed(a), Lookup(a) \notin Outcome \cup {"conflict"}
    PROVE  idem[KeyOf[a]] = None
<1>1. idem[KeyOf[a]] \in KeyRow \cup {None}
  BY KeyedHasKey DEF TypeOK
<1> QED
  BY <1>1 DEF Lookup, KeyRow

\* A committed content: its request passed the gate and has decided its key.
Published(a) ==
    /\ verdict[a] = "passed"
    /\ pc[a] \in {"unlock", "done", "dead"}
    /\ Keyed(a) => Decided(a, "created")

\* A request past the gate: it passed, or its key is decided already.
Cleared(a) ==
    /\ pc[a] = "write" => verdict[a] = "passed"
    /\ pc[a] = "handle" => verdict[a] = "passed" \/ Decided(a, "created")

\* An answer of success.
Backed(a) ==
    answer[a] = "created" =>
        /\ Keyed(a) => Decided(a, "created")
        /\ ~Keyed(a) => a \in contents

RowsHaveContents ==
    \A k \in Key : (idem[k] # None /\ idem[k].outcome = "created") =>
        \E b \in contents : KeyOf[b] = k

WriteInv ==
    /\ TypeOK
    /\ AtMostOnce
    /\ RowsHaveContents
    /\ \A a \in contents : Published(a)
    /\ \A a \in Attempt : Cleared(a) /\ Backed(a)

\* A step of request a leaves the other requests where they are.
Touches(a) ==
    \A b \in Attempt \ {a} :
        pc'[b] = pc[b] /\ verdict'[b] = verdict[b] /\ answer'[b] = answer[b]

\* Every step keeps WriteInv, whatever fails: the rows of a publication and
\* of its key are written together.
LEMMA WriteInduction == WriteInv /\ [Next]_vars => WriteInv'
<1> SUFFICES ASSUME WriteInv, [Next]_vars PROVE WriteInv'
  OBVIOUS
<1>t. TypeOK /\ TypeOK' /\ DecisionsKept
  BY TypeInduction, DecisionStep DEF WriteInv
<1>k. \A a \in Attempt, code \in Outcome : Decided(a, code) => Decided(a, code)'
  BY <1>t, KeyedHasKey, DecisionIsRow DEF Decided, DecisionsKept
<1>f. ASSUME NEW a \in Attempt, Touches(a), contents' = contents, RowsHaveContents',
             a \notin contents, Cleared(a)', Backed(a)'
      PROVE  WriteInv'
  <2>1. \A b \in Attempt \ {a} : Cleared(b)' /\ Backed(b)'
    BY <1>f, <1>t, <1>k DEF WriteInv, Cleared, Backed, Touches, Outcome
  <2>2. \A b \in contents : Published(b)'
    BY <1>f, <1>t, <1>k DEF WriteInv, Published, Touches, Outcome, TypeOK
  <2>3. AtMostOnce'
    BY <1>f DEF WriteInv, AtMostOnce
  <2> QED
    BY <1>f, <1>t, <2>1, <2>2, <2>3 DEF WriteInv
<1>u. ASSUME UNCHANGED <<pc, verdict, answer, idem, contents>> PROVE WriteInv'
  BY <1>u, <1>t DEF WriteInv, AtMostOnce, RowsHaveContents, Published, Cleared, Backed, Decided
<1>1. ASSUME NEW a \in Attempt, AcquireBarrier(a) PROVE WriteInv'
  BY <1>1, <1>t, <1>k, KeyedHasKey DEF AcquireBarrier, WriteInv, AtMostOnce, RowsHaveContents, Published, Cleared, Backed, TypeOK, Goto, Reply, Lookup, Outcome
<1>2. ASSUME NEW a \in Attempt, FireRequestLog(a) PROVE WriteInv'
  <2>1. Touches(a) /\ contents' = contents /\ RowsHaveContents'
    BY <1>2 DEF FireRequestLog, Touches, RowsHaveContents, WriteInv, TypeOK, Goto, Reply
  <2>2. a \notin contents
    BY <1>2 DEF FireRequestLog, WriteInv, Published
  <2>3. Cleared(a)'
    BY <1>2, <1>k, KeyedHasKey, DecisionIsRow DEF FireRequestLog, Cleared, Decided, WriteInv, TypeOK, Goto, Reply, Lookup
  <2>4. Backed(a)'
    BY <1>2, <1>k DEF FireRequestLog, Backed, Decided, WriteInv, TypeOK, Goto, Reply
  <2> QED
    BY <1>f, <2>1, <2>2, <2>3, <2>4
<1>3. ASSUME NEW a \in Attempt, RunQuotaFor(a) PROVE WriteInv'
  BY <1>3, <1>t, <1>k, KeyedHasKey DEF RunQuotaFor, WriteInv, AtMostOnce, RowsHaveContents, Published, Cleared, Backed, TypeOK, Goto, Reply, Lookup, Outcome
<1>4. ASSUME NEW a \in Attempt, IdempotencyReplay(a) PROVE WriteInv'
  <2>1. Touches(a) /\ contents' = contents /\ RowsHaveContents'
    BY <1>4 DEF IdempotencyReplay, Touches, RowsHaveContents, WriteInv, TypeOK, Goto, Reply
  <2>2. a \notin contents
    BY <1>4 DEF IdempotencyReplay, WriteInv, Published
  <2>3. Cleared(a)'
    <3>1. CASE ReplayHit(a)
      <4>1. Decided(a, "created")
        BY <3>1, <1>t, LookupHit DEF ReplayHit, Outcome
      <4> QED
        BY <1>4, <1>k, <4>1, <3>1 DEF IdempotencyReplay, ReplayHit, Cleared, Goto, TypeOK, WriteInv, Outcome
    <3>2. CASE ~ReplayHit(a)
      BY <1>4, <3>2 DEF IdempotencyReplay, Cleared, Goto, Reply, TypeOK, WriteInv
    <3> QED
      BY <3>1, <3>2
  <2>4. Backed(a)'
    BY <1>4, <1>k DEF IdempotencyReplay, Backed, Decided, WriteInv, TypeOK, Goto, Reply
  <2> QED
    BY <1>f, <2>1, <2>2, <2>3, <2>4
<1>5. ASSUME NEW a \in Attempt, DeterministicLowSubstance(a) PROVE WriteInv'
  BY <1>5, <1>t, <1>k, KeyedHasKey DEF DeterministicLowSubstance, WriteInv, AtMostOnce, RowsHaveContents, Published, Cleared, Backed, TypeOK, Goto, Reply, Lookup, Outcome
<1>6. ASSUME NEW a \in Attempt, StoreTerminalGateError(a) PROVE WriteInv'
  <2>1. RowsHaveContents'
    <3>1. CASE UNCHANGED idem
      BY <1>6, <3>1 DEF StoreTerminalGateError, RowsHaveContents, WriteInv
    <3>2. CASE KeyRowMissing(a) /\ idem' = [idem EXCEPT ![KeyOf[a]] = DecisionOf(a, "rejected")]
      BY <1>6, <1>t, <3>2, KeyedHasKey, DecisionIsRow
         DEF StoreTerminalGateError, KeyRowMissing, RowsHaveContents, WriteInv, TypeOK, Outcome
    <3> QED
      BY <1>6, <3>1, <3>2 DEF StoreTerminalGateError
  <2>2. Touches(a) /\ contents' = contents
    BY <1>6 DEF StoreTerminalGateError, Touches, WriteInv, TypeOK, Goto, Reply
  <2>3. a \notin contents
    BY <1>6 DEF StoreTerminalGateError, WriteInv, Published
  <2>4. Cleared(a)' /\ Backed(a)'
    BY <1>6 DEF StoreTerminalGateError, Cleared, Backed, WriteInv, TypeOK, Goto, Reply
  <2> QED
    BY <1>f, <2>1, <2>2, <2>3, <2>4
<1>7. ASSUME NEW a \in Attempt, ReserveClubSpendBudget(a) PROVE WriteInv'
  BY <1>7, <1>t, <1>k, KeyedHasKey DEF ReserveClubSpendBudget, WriteInv, AtMostOnce, RowsHaveContents, Published, Cleared, Backed, TypeOK, Goto, Reply, Lookup, Outcome
<1>8. ASSUME NEW a \in Attempt, ReserveLlmOutputBudget(a) PROVE WriteInv'
  BY <1>8, <1>t, <1>k, KeyedHasKey DEF ReserveLlmOutputBudget, WriteInv, AtMostOnce, RowsHaveContents, Published, Cleared, Backed, TypeOK, Goto, Reply, Lookup, Outcome
<1>9. ASSUME NEW a \in Attempt, RunLlmGate(a) PROVE WriteInv'
  <2>1. Touches(a) /\ contents' = contents /\ RowsHaveContents'
    BY <1>9 DEF RunLlmGate, Touches, RowsHaveContents, WriteInv, TypeOK, Goto, Reply
  <2>2. a \notin contents
    BY <1>9 DEF RunLlmGate, WriteInv, Published
  <2>3. Cleared(a)'
    BY <1>9, <1>k, KeyedHasKey, DecisionIsRow DEF RunLlmGate, Cleared, Decided, WriteInv, TypeOK, Goto, Reply, Lookup
  <2>4. Backed(a)'
    BY <1>9, <1>k DEF RunLlmGate, Backed, Decided, WriteInv, TypeOK, Goto, Reply
  <2> QED
    BY <1>f, <2>1, <2>2, <2>3, <2>4
<1>10. ASSUME NEW a \in Attempt, SettleClubSpend(a) PROVE WriteInv'
  <2>1. Touches(a) /\ contents' = contents /\ RowsHaveContents'
    BY <1>10 DEF SettleClubSpend, Touches, RowsHaveContents, WriteInv, TypeOK, Goto, Reply
  <2>2. a \notin contents
    BY <1>10 DEF SettleClubSpend, WriteInv, Published
  <2>3. Cleared(a)'
    BY <1>10, <1>k, KeyedHasKey, DecisionIsRow DEF SettleClubSpend, Cleared, Decided, WriteInv, TypeOK, Goto, Reply, Lookup
  <2>4. Backed(a)'
    BY <1>10, <1>k DEF SettleClubSpend, Backed, Decided, WriteInv, TypeOK, Goto, Reply
  <2> QED
    BY <1>f, <2>1, <2>2, <2>3, <2>4
<1>11. ASSUME NEW a \in Attempt, SettleLlmOutput(a) PROVE WriteInv'
  <2>1. Touches(a) /\ contents' = contents /\ RowsHaveContents'
    BY <1>11 DEF SettleLlmOutput, Touches, RowsHaveContents, WriteInv, TypeOK, Goto, Reply, AfterGate
  <2>2. a \notin contents
    BY <1>11 DEF SettleLlmOutput, WriteInv, Published
  <2>3. Cleared(a)'
    BY <1>11, <1>k, KeyedHasKey, DecisionIsRow DEF SettleLlmOutput, Cleared, Decided, WriteInv, TypeOK, Goto, Reply, Lookup, AfterGate
  <2>4. Backed(a)'
    BY <1>11, <1>k DEF SettleLlmOutput, Backed, Decided, WriteInv, TypeOK, Goto, Reply, AfterGate
  <2> QED
    BY <1>f, <2>1, <2>2, <2>3, <2>4
<1>12. ASSUME NEW a \in Attempt, HandleLookup(a) PROVE WriteInv'
  <2>1. Touches(a) /\ contents' = contents /\ RowsHaveContents'
    BY <1>12 DEF HandleLookup, Touches, RowsHaveContents, WriteInv, TypeOK, Goto, Reply
  <2>2. a \notin contents
    BY <1>12 DEF HandleLookup, WriteInv, Published
  <2>3. Cleared(a)'
    <3>1. Decided(a, "created") => Keyed(a) /\ Lookup(a) = "created"
      BY KeyedHasKey, DecisionIsRow DEF Decided, Lookup, Outcome
    <3>2. pc'[a] = "write" => ~Decided(a, "created")
      BY <1>12, <3>1 DEF HandleLookup, WriteInv, TypeOK, Goto, Reply
    <3> QED
      BY <1>12, <3>2 DEF HandleLookup, Cleared, WriteInv, TypeOK, Goto, Reply
  <2>4. Backed(a)'
    <3>1. Keyed(a) \/ answer'[a] = answer[a]
      BY <1>12 DEF HandleLookup
    <3>2. CASE Keyed(a) /\ Lookup(a) = "created"
      <4>1. Decided(a, "created")
        BY <3>2, <1>t, LookupHit DEF Outcome
      <4> QED
        BY <4>1, <3>2, <1>k DEF Backed, Outcome, Keyed
    <3>3. CASE ~(Keyed(a) /\ Lookup(a) = "created")
      <4>1. answer'[a] # "created" \/ answer'[a] = answer[a]
        BY <1>12, <3>3 DEF HandleLookup, WriteInv, TypeOK, Reply
      <4> QED
        BY <4>1, <2>1, <1>k DEF Backed, WriteInv, Outcome, Keyed
    <3> QED
      BY <3>2, <3>3
  <2> QED
    BY <1>f, <2>1, <2>2, <2>3, <2>4
<1>13. ASSUME NEW a \in Attempt, HandleCommit(a) PROVE WriteInv'
  <2>1. Touches(a) /\ pc' = [pc EXCEPT ![a] = "unlock"] /\ verdict' = verdict
    BY <1>13 DEF HandleCommit, Touches, WriteInv, TypeOK, Goto, Reply
  <2>2. a \notin contents /\ verdict[a] = "passed"
    BY <1>13 DEF HandleCommit, WriteInv, Published, Cleared
  <2>3. Cleared(a)'
    BY <2>1, <1>t DEF Cleared, TypeOK
  <2>4. CASE Reply(a, "internal_error") /\ UNCHANGED <<idem, contents>>
    <3>1. RowsHaveContents' /\ Backed(a)'
      BY <2>4, <1>t DEF RowsHaveContents, Backed, Reply, TypeOK, WriteInv
    <3> QED
      BY <1>f, <2>1, <2>2, <2>3, <2>4, <3>1
  <2>5. CASE /\ KeyRowAbsent(a) /\ RecordOutcome(a)
             /\ contents' = contents \cup {a} /\ Reply(a, "created")
    <3>1. Keyed(a) => Decided(a, "created")'
      BY <2>5, <1>t, KeyedHasKey DEF RecordOutcome, Decided, TypeOK, Keyed, DecisionOf
    <3>2. \A b \in contents : ~SameKey(a, b)
      BY <2>5, <1>t, KeyedHasKey, DecisionIsRow
         DEF KeyRowAbsent, WriteInv, Published, Decided, SameKey, TypeOK, Keyed, Outcome
    <3>3. AtMostOnce'
      BY <2>5, <3>2 DEF AtMostOnce, WriteInv, SameKey, Keyed
    <3>4. RowsHaveContents'
      BY <2>5, <1>t, KeyedHasKey DEF RowsHaveContents, RecordOutcome, WriteInv, TypeOK
    <3>5. \A b \in contents' : Published(b)'
      BY <2>1, <2>2, <2>5, <3>1, <1>t, <1>k DEF Published, WriteInv, TypeOK, Outcome, Keyed, Touches
    <3>6. Backed(a)'
      BY <2>5, <3>1 DEF Backed, Keyed
    <3>7. \A b \in Attempt \ {a} : Cleared(b)' /\ Backed(b)'
      BY <2>1, <2>5, <1>k DEF Cleared, Backed, Touches, WriteInv, Outcome, Keyed
    <3> QED
      BY <1>t, <2>3, <3>3, <3>4, <3>5, <3>6, <3>7 DEF WriteInv
  <2> QED
    BY <1>13, <2>4, <2>5 DEF HandleCommit
<1>14. ASSUME NEW a \in Attempt, ReleaseBarrier(a) PROVE WriteInv'
  BY <1>14, <1>t, <1>k, KeyedHasKey DEF ReleaseBarrier, WriteInv, AtMostOnce, RowsHaveContents, Published, Cleared, Backed, TypeOK, Goto, Reply, Lookup, Outcome
<1>15. ASSUME NEW a \in Attempt, Crash(a) PROVE WriteInv'
  BY <1>15, <1>t, <1>k, KeyedHasKey DEF Crash, WriteInv, AtMostOnce, RowsHaveContents, Published, Cleared, Backed, TypeOK, Goto, Reply, Lookup, Outcome
<1>16. ASSUME NEW k \in Key, LoseBarrier(k) PROVE WriteInv'
  <2>1. UNCHANGED <<pc, verdict, answer, idem, contents>>
    BY <1>16 DEF LoseBarrier
  <2> QED
    BY <1>u, <2>1
<1>17. CASE UNCHANGED vars
  BY <1>u, <1>17 DEF vars
<1> QED
  BY <1>1, <1>2, <1>3, <1>4, <1>5, <1>6, <1>7, <1>8, <1>9, <1>10, <1>11, <1>12, <1>13, <1>14, <1>15, <1>16, <1>17 DEF Next, Step

\* WriteInv holds throughout: the init state has no rows, contents or answers.
LEMMA WriteInvariant == Spec => []WriteInv
<1>1. Init => WriteInv
  <2>1. Init => TypeOK
    BY DEF Init, TypeOK, Label, Ledger
  <2> QED
    BY <2>1, NoneAssumption DEF Init, WriteInv, AtMostOnce, RowsHaveContents, Cleared, Backed, Code, Outcome
<1> QED
  BY <1>1, WriteInduction, PTL DEF Spec

\* PublishedOnce: retries of one key publish one content at most, whatever
\* interleaves, crashes or fails: the primary key of idempotency_keys is enough,
\* the barrier is not needed.
THEOREM PublishedOnce == Spec => []AtMostOnce
<1>1. WriteInv => AtMostOnce
  BY DEF WriteInv
<1> QED
  BY <1>1, WriteInvariant, PTL

\* PublishedAfterGate: no content is committed whose own request did not pass
\* the gate, even though replays go around it.
THEOREM PublishedAfterGate == Spec => []NoUngatedWrite
<1>1. WriteInv => NoUngatedWrite
  BY DEF WriteInv, Published, NoUngatedWrite
<1> QED
  BY <1>1, WriteInvariant, PTL

\* AnswersAreDurable: a reply of success is backed by a content and by the row
\* that answers every retry.
THEOREM AnswersAreDurable == Spec => []SuccessIsDurable
<1>1. WriteInv => SuccessIsDurable
  <2> SUFFICES ASSUME WriteInv, NEW a \in Attempt, answer[a] = "created"
               PROVE  /\ \E b \in contents : b = a \/ SameKey(a, b)
                      /\ Keyed(a) => idem[KeyOf[a]] = DecisionOf(a, "created")
    BY DEF SuccessIsDurable
  <2>1. CASE Keyed(a)
    <3>1. idem[KeyOf[a]] = DecisionOf(a, "created")
      BY <2>1 DEF WriteInv, Backed, Decided
    <3>2. PICK b \in contents : KeyOf[b] = KeyOf[a]
      BY <2>1, <3>1, KeyedHasKey, DecisionIsRow DEF WriteInv, RowsHaveContents, Outcome
    <3> QED
      BY <2>1, <3>1, <3>2 DEF SameKey
  <2>2. CASE ~Keyed(a)
    BY <2>2 DEF WriteInv, Backed
  <2> QED
    BY <2>1, <2>2
<1> QED
  BY <1>1, WriteInvariant, PTL

-----------------------------------------------------------------------------
(* The part that needs the barrier.                                        *)

BarrierKept == "barrier_lost" \notin Faults
RejectionsStored == "store_failed" \notin Faults

Working == {"precheck", "store", "reserve_spend", "reserve_tokens", "gate",
            "settle_spend", "settle_tokens", "write"}

HoldsBarrier(a) == Keyed(a) /\ InFlight(a) => barrier[KeyOf[a]] = a

\* Past the replay check the key is undecided, unless the handler is to replay.
KeyOpen(a) ==
    /\ Keyed(a) /\ pc[a] \in Working => idem[KeyOf[a]] = None
    /\ Keyed(a) /\ pc[a] = "handle" => idem[KeyOf[a]] = None \/ Decided(a, "created")

Silent(a) == pc[a] \notin {"unlock", "done", "dead"} => answer[a] = None

Spoken(a) ==
    RejectionsStored /\ Keyed(a) /\ answer[a] \in Outcome => Decided(a, answer[a])

Serial(a) == HoldsBarrier(a) /\ KeyOpen(a) /\ Silent(a) /\ Spoken(a)

SerialInv == TypeOK /\ \A a \in Attempt : Serial(a)

\* A step of the holder of a key's barrier leaves the other requests serial.
LEMMA OthersStaySerial ==
    ASSUME SerialInv, TypeOK', DecisionsKept, NEW a \in Attempt, Touches(a),
           \A b \in Attempt \ {a} : Keyed(b) /\ InFlight(b) => barrier'[KeyOf[b]] = b,
           \A b \in Attempt \ {a} : SameKey(a, b) => ~InFlight(b),
           \A k \in Key : k = KeyOf[a] \/ idem'[k] = idem[k],
           Serial(a)'
    PROVE  SerialInv'
<1> SUFFICES ASSUME NEW b \in Attempt, b # a PROVE Serial(b)'
  BY DEF SerialInv
<1>1. pc'[b] = pc[b] /\ answer'[b] = answer[b]
  BY DEF Touches
<1>2. Serial(b)
  BY DEF SerialInv
<1>3. HoldsBarrier(b)'
  BY <1>1 DEF HoldsBarrier, InFlight, Keyed
<1>4. KeyOpen(b)'
  <2>1. CASE SameKey(a, b)
    BY <1>1, <2>1 DEF KeyOpen, InFlight, Working
  <2>2. CASE ~SameKey(a, b) /\ Keyed(b)
    <3>1. idem'[KeyOf[b]] = idem[KeyOf[b]]
      BY <2>2, KeyedHasKey DEF SameKey, Keyed
    <3> QED
      BY <1>1, <1>2, <3>1 DEF Serial, KeyOpen, Decided, Keyed
  <2> QED
    BY <2>1, <2>2 DEF KeyOpen, Keyed
<1>5. Silent(b)' /\ Spoken(b)'
  <2>1. Decided(b, answer[b]) /\ answer[b] \in Outcome => Decided(b, answer[b])'
    BY <1>1, KeyedHasKey, DecisionIsRow DEF Decided, DecisionsKept, Keyed
  <2> QED
    BY <1>1, <1>2, <2>1 DEF Serial, Silent, Spoken, Decided, Keyed, RejectionsStored
<1> QED
  BY <1>3, <1>4, <1>5 DEF Serial

\* Every step keeps SerialInv while barriers are kept: between its lookup and
\* its end a request is alone with its key.
LEMMA SerialInduction ==
    BarrierKept /\ SerialInv /\ [Next]_vars => SerialInv'
<1> SUFFICES ASSUME BarrierKept, SerialInv, [Next]_vars PROVE SerialInv'
  OBVIOUS
<1>t. TypeOK /\ TypeOK' /\ DecisionsKept
  BY TypeInduction, DecisionStep DEF SerialInv
<1>e. \A a, b \in Attempt : b # a /\ SameKey(a, b) /\ InFlight(a) => ~InFlight(b)
  BY DEF SerialInv, Serial, HoldsBarrier, SameKey, Keyed
<1>f. ASSUME NEW a \in Attempt, InFlight(a), Touches(a), UNCHANGED barrier,
             \A k \in Key : k = KeyOf[a] \/ idem'[k] = idem[k],
             KeyOpen(a)', Silent(a)', Spoken(a)'
      PROVE  SerialInv'
  <2>1. HoldsBarrier(a)'
    BY <1>f DEF SerialInv, Serial, HoldsBarrier, Keyed
  <2>2. \A b \in Attempt \ {a} : Keyed(b) /\ InFlight(b) => barrier'[KeyOf[b]] = b
    BY <1>f DEF SerialInv, Serial, HoldsBarrier
  <2> QED
    BY <1>f, <1>t, <1>e, <2>1, <2>2, OthersStaySerial DEF Serial
<1>1. ASSUME NEW a \in Attempt, AcquireBarrier(a) PROVE SerialInv'
  <2>1. Touches(a) /\ pc' = [pc EXCEPT ![a] = "log"] /\ UNCHANGED <<answer, idem>>
    BY <1>1, <1>t DEF AcquireBarrier, Touches, Goto, TypeOK
  <2>2. HoldsBarrier(a)'
    BY <1>1, <1>t, KeyedHasKey DEF AcquireBarrier, HoldsBarrier, Keyed, TypeOK
  <2>3. \A b \in Attempt \ {a} : Keyed(b) /\ InFlight(b) => barrier'[KeyOf[b]] = b
    BY <1>1, <1>t, KeyedHasKey, NoneAssumption
       DEF AcquireBarrier, BarrierFree, SerialInv, Serial, HoldsBarrier, TypeOK
  <2>4. \A b \in Attempt \ {a} : SameKey(a, b) => ~InFlight(b)
    BY <1>1, NoneAssumption
       DEF AcquireBarrier, BarrierFree, SerialInv, Serial, HoldsBarrier, SameKey, Keyed
  <2>5. KeyOpen(a)' /\ Silent(a)' /\ Spoken(a)'
    BY <1>1, <2>1, <1>t DEF AcquireBarrier, KeyOpen, Silent, Spoken, SerialInv, Serial, Working,
       TypeOK, Decided, Keyed, RejectionsStored
  <2> QED
    BY <1>t, <2>1, <2>2, <2>3, <2>4, <2>5, OthersStaySerial DEF Serial
<1>2. ASSUME NEW a \in Attempt, FireRequestLog(a) PROVE SerialInv'
  <2>1. InFlight(a) /\ Touches(a) /\ UNCHANGED <<barrier, idem>>
    BY <1>2, <1>t DEF FireRequestLog, InFlight, Touches, Goto, Reply, TypeOK
  <2>2. KeyOpen(a)'
    BY <1>2, <1>t DEF FireRequestLog, KeyOpen, SerialInv, Serial, Working, Goto, Reply, TypeOK, Decided, Keyed, Lookup
  <2>3. Silent(a)'
    BY <1>2, <1>t DEF FireRequestLog, Silent, SerialInv, Serial, Goto, Reply, TypeOK
  <2>4. Spoken(a)'
    BY <1>2, <1>t, NoneAssumption DEF FireRequestLog, Spoken, Silent, SerialInv, Serial, Goto, Reply, TypeOK, Code, Outcome, Decided, Keyed, RejectionsStored
  <2> QED
    BY <1>f, <2>1, <2>2, <2>3, <2>4
<1>3. ASSUME NEW a \in Attempt, RunQuotaFor(a) PROVE SerialInv'
  <2>1. InFlight(a) /\ Touches(a) /\ UNCHANGED <<barrier, idem>>
    BY <1>3, <1>t DEF RunQuotaFor, InFlight, Touches, Goto, Reply, TypeOK
  <2>2. KeyOpen(a)'
    BY <1>3, <1>t DEF RunQuotaFor, KeyOpen, SerialInv, Serial, Working, Goto, Reply, TypeOK, Decided, Keyed, Lookup
  <2>3. Silent(a)'
    BY <1>3, <1>t DEF RunQuotaFor, Silent, SerialInv, Serial, Goto, Reply, TypeOK
  <2>4. Spoken(a)'
    BY <1>3, <1>t, NoneAssumption DEF RunQuotaFor, Spoken, Silent, SerialInv, Serial, Goto, Reply, TypeOK, Code, Outcome, Decided, Keyed, RejectionsStored
  <2> QED
    BY <1>f, <2>1, <2>2, <2>3, <2>4
<1>4. ASSUME NEW a \in Attempt, IdempotencyReplay(a) PROVE SerialInv'
  <2>1. InFlight(a) /\ Touches(a) /\ UNCHANGED <<barrier, idem>>
    BY <1>4, <1>t DEF IdempotencyReplay, InFlight, Touches, Goto, Reply, TypeOK
  <2>2. KeyOpen(a)'
    <3>1. Keyed(a) /\ pc'[a] = "handle" => Decided(a, "created")
      BY <1>4, <1>t, LookupHit DEF IdempotencyReplay, ReplayHit, Goto, Reply, TypeOK, Outcome
    <3>2. Keyed(a) /\ pc'[a] = "precheck" => idem[KeyOf[a]] = None
      BY <1>4, <1>t, LookupMiss DEF IdempotencyReplay, ReplayHit, Goto, Reply, TypeOK, Outcome
    <3>3. pc'[a] \in {"handle", "precheck", "unlock"}
      BY <1>4, <1>t DEF IdempotencyReplay, Goto, Reply, TypeOK
    <3> QED
      BY <2>1, <3>1, <3>2, <3>3 DEF KeyOpen, Working, Decided, Keyed
  <2>3. Silent(a)'
    BY <1>4, <1>t DEF IdempotencyReplay, Silent, SerialInv, Serial, Goto, Reply, TypeOK
  <2>4. Spoken(a)'
    <3>1. CASE Lookup(a) = "rejected" /\ Reply(a, "rejected")
      BY <3>1, <2>1, <1>t, LookupHit DEF Spoken, Decided, Reply, TypeOK, Outcome, Keyed
    <3>2. CASE Reply(a, "client_key_conflict") \/ UNCHANGED answer
      BY <3>2, <2>1, <1>t DEF Spoken, Decided, Reply, TypeOK, Outcome, Keyed, SerialInv, Serial,
         RejectionsStored
    <3> QED
      BY <1>4, <3>1, <3>2 DEF IdempotencyReplay
  <2> QED
    BY <1>f, <2>1, <2>2, <2>3, <2>4
<1>5. ASSUME NEW a \in Attempt, DeterministicLowSubstance(a) PROVE SerialInv'
  <2>1. InFlight(a) /\ Touches(a) /\ UNCHANGED <<barrier, idem>>
    BY <1>5, <1>t DEF DeterministicLowSubstance, InFlight, Touches, Goto, Reply, TypeOK
  <2>2. KeyOpen(a)'
    BY <1>5, <1>t DEF DeterministicLowSubstance, KeyOpen, SerialInv, Serial, Working, Goto, Reply, TypeOK, Decided, Keyed, Lookup
  <2>3. Silent(a)'
    BY <1>5, <1>t DEF DeterministicLowSubstance, Silent, SerialInv, Serial, Goto, Reply, TypeOK
  <2>4. Spoken(a)'
    BY <1>5, <1>t, NoneAssumption DEF DeterministicLowSubstance, Spoken, Silent, SerialInv, Serial, Goto, Reply, TypeOK, Code, Outcome, Decided, Keyed, RejectionsStored
  <2> QED
    BY <1>f, <2>1, <2>2, <2>3, <2>4
<1>6. ASSUME NEW a \in Attempt, ReserveClubSpendBudget(a) PROVE SerialInv'
  <2>1. InFlight(a) /\ Touches(a) /\ UNCHANGED <<barrier, idem>>
    BY <1>6, <1>t DEF ReserveClubSpendBudget, InFlight, Touches, Goto, Reply, TypeOK
  <2>2. KeyOpen(a)'
    BY <1>6, <1>t DEF ReserveClubSpendBudget, KeyOpen, SerialInv, Serial, Working, Goto, Reply, TypeOK, Decided, Keyed, Lookup
  <2>3. Silent(a)'
    BY <1>6, <1>t DEF ReserveClubSpendBudget, Silent, SerialInv, Serial, Goto, Reply, TypeOK
  <2>4. Spoken(a)'
    BY <1>6, <1>t, NoneAssumption DEF ReserveClubSpendBudget, Spoken, Silent, SerialInv, Serial, Goto, Reply, TypeOK, Code, Outcome, Decided, Keyed, RejectionsStored
  <2> QED
    BY <1>f, <2>1, <2>2, <2>3, <2>4
<1>7. ASSUME NEW a \in Attempt, ReserveLlmOutputBudget(a) PROVE SerialInv'
  <2>1. InFlight(a) /\ Touches(a) /\ UNCHANGED <<barrier, idem>>
    BY <1>7, <1>t DEF ReserveLlmOutputBudget, InFlight, Touches, Goto, Reply, TypeOK
  <2>2. KeyOpen(a)'
    BY <1>7, <1>t DEF ReserveLlmOutputBudget, KeyOpen, SerialInv, Serial, Working, Goto, Reply, TypeOK, Decided, Keyed, Lookup
  <2>3. Silent(a)'
    BY <1>7, <1>t DEF ReserveLlmOutputBudget, Silent, SerialInv, Serial, Goto, Reply, TypeOK
  <2>4. Spoken(a)'
    BY <1>7, <1>t, NoneAssumption DEF ReserveLlmOutputBudget, Spoken, Silent, SerialInv, Serial, Goto, Reply, TypeOK, Code, Outcome, Decided, Keyed, RejectionsStored
  <2> QED
    BY <1>f, <2>1, <2>2, <2>3, <2>4
<1>8. ASSUME NEW a \in Attempt, RunLlmGate(a) PROVE SerialInv'
  <2>1. InFlight(a) /\ Touches(a) /\ UNCHANGED <<barrier, idem>>
    BY <1>8, <1>t DEF RunLlmGate, InFlight, Touches, Goto, Reply, TypeOK
  <2>2. KeyOpen(a)'
    BY <1>8, <1>t DEF RunLlmGate, KeyOpen, SerialInv, Serial, Working, Goto, Reply, TypeOK, Decided, Keyed, Lookup
  <2>3. Silent(a)'
    BY <1>8, <1>t DEF RunLlmGate, Silent, SerialInv, Serial, Goto, Reply, TypeOK
  <2>4. Spoken(a)'
    BY <1>8, <1>t, NoneAssumption DEF RunLlmGate, Spoken, Silent, SerialInv, Serial, Goto, Reply, TypeOK, Code, Outcome, Decided, Keyed, RejectionsStored
  <2> QED
    BY <1>f, <2>1, <2>2, <2>3, <2>4
<1>9. ASSUME NEW a \in Attempt, SettleClubSpend(a) PROVE SerialInv'
  <2>1. InFlight(a) /\ Touches(a) /\ UNCHANGED <<barrier, idem>>
    BY <1>9, <1>t DEF SettleClubSpend, InFlight, Touches, Goto, Reply, TypeOK
  <2>2. KeyOpen(a)'
    BY <1>9, <1>t DEF SettleClubSpend, KeyOpen, SerialInv, Serial, Working, Goto, Reply, TypeOK, Decided, Keyed, Lookup
  <2>3. Silent(a)'
    BY <1>9, <1>t DEF SettleClubSpend, Silent, SerialInv, Serial, Goto, Reply, TypeOK
  <2>4. Spoken(a)'
    BY <1>9, <1>t, NoneAssumption DEF SettleClubSpend, Spoken, Silent, SerialInv, Serial, Goto, Reply, TypeOK, Code, Outcome, Decided, Keyed, RejectionsStored
  <2> QED
    BY <1>f, <2>1, <2>2, <2>3, <2>4
<1>10. ASSUME NEW a \in Attempt, SettleLlmOutput(a) PROVE SerialInv'
  <2>1. InFlight(a) /\ Touches(a) /\ UNCHANGED <<barrier, idem>>
    BY <1>10, <1>t DEF SettleLlmOutput, InFlight, Touches, Goto, Reply, TypeOK, AfterGate
  <2>2. KeyOpen(a)'
    BY <1>10, <1>t DEF SettleLlmOutput, KeyOpen, SerialInv, Serial, Working, Goto, Reply, TypeOK, Decided, Keyed, Lookup, AfterGate
  <2>3. Silent(a)'
    BY <1>10, <1>t DEF SettleLlmOutput, Silent, SerialInv, Serial, Goto, Reply, TypeOK, AfterGate
  <2>4. Spoken(a)'
    BY <1>10, <1>t, NoneAssumption DEF SettleLlmOutput, Spoken, Silent, SerialInv, Serial, Goto, Reply, TypeOK, Code, Outcome, Decided, Keyed, RejectionsStored, AfterGate
  <2> QED
    BY <1>f, <2>1, <2>2, <2>3, <2>4
<1>11. ASSUME NEW a \in Attempt, HandleLookup(a) PROVE SerialInv'
  <2>1. InFlight(a) /\ Touches(a) /\ UNCHANGED <<barrier, idem>>
    BY <1>11, <1>t DEF HandleLookup, InFlight, Touches, Goto, Reply, TypeOK
  <2>2. KeyOpen(a)'
    <3>1. Keyed(a) /\ pc'[a] = "write" => idem[KeyOf[a]] = None
      <4>1. CASE Keyed(a) /\ Lookup(a) \notin {"conflict", "created", "rejected"}
        BY <4>1, <1>t, LookupMiss DEF Outcome
      <4>2. CASE Keyed(a) /\ Lookup(a) \in {"conflict", "created", "rejected"}
        BY <1>11, <4>2, <1>t DEF HandleLookup, Goto, Reply, TypeOK
      <4> QED
        BY <4>1, <4>2
    <3>2. pc'[a] \in {"write", "unlock"}
      BY <1>11, <1>t DEF HandleLookup, Goto, Reply, TypeOK
    <3> QED
      BY <2>1, <3>1, <3>2 DEF KeyOpen, Working, Keyed
  <2>3. Silent(a)'
    BY <1>11, <1>t DEF HandleLookup, Silent, SerialInv, Serial, Goto, Reply, TypeOK
  <2>4. Spoken(a)'
    <3>1. CASE Lookup(a) \in Outcome /\ Reply(a, Lookup(a))
      BY <3>1, <2>1, <1>t, LookupHit DEF Spoken, Decided, Reply, TypeOK, Keyed
    <3>2. CASE Reply(a, "client_key_conflict") \/ UNCHANGED answer
      BY <3>2, <2>1, <1>t DEF Spoken, Decided, Reply, TypeOK, Outcome, Keyed, SerialInv, Serial,
         RejectionsStored
    <3> QED
      BY <1>11, <3>1, <3>2 DEF HandleLookup, Outcome
  <2> QED
    BY <1>f, <2>1, <2>2, <2>3, <2>4
<1>12. ASSUME NEW a \in Attempt, StoreTerminalGateError(a) PROVE SerialInv'
  <2>1. InFlight(a) /\ Touches(a) /\ UNCHANGED barrier /\ Reply(a, "rejected")
    BY <1>12, <1>t DEF StoreTerminalGateError, InFlight, Touches, Goto, Reply, TypeOK
  <2>2. \A k \in Key : k = KeyOf[a] \/ idem'[k] = idem[k]
    BY <1>12, <1>t DEF StoreTerminalGateError, TypeOK
  <2>3. KeyOpen(a)' /\ Silent(a)'
    BY <2>1, <1>t DEF KeyOpen, Silent, Working, Reply, Goto, TypeOK
  <2>4. Spoken(a)'
    <3>1. SameKey(a, a) => idem[KeyOf[a]] = None
      BY <1>12 DEF StoreTerminalGateError, SerialInv, Serial, KeyOpen, Working, SameKey
    <3>2. Keyed(a) /\ RejectionsStored => idem' = [idem EXCEPT ![KeyOf[a]] = DecisionOf(a, "rejected")]
      BY <1>12, <3>1 DEF StoreTerminalGateError, KeyRowMissing, RejectionsStored, SameKey
    <3> QED
      BY <2>1, <3>2, <1>t, KeyedHasKey DEF Spoken, Decided, Reply, TypeOK, Keyed, RejectionsStored
  <2> QED
    BY <1>f, <2>1, <2>2, <2>3, <2>4
<1>13. ASSUME NEW a \in Attempt, HandleCommit(a) PROVE SerialInv'
  <2>1. InFlight(a) /\ Touches(a) /\ UNCHANGED barrier
    BY <1>13, <1>t DEF HandleCommit, InFlight, Touches, Goto, Reply, TypeOK
  <2>2. \A k \in Key : k = KeyOf[a] \/ idem'[k] = idem[k]
    BY <1>13, <1>t DEF HandleCommit, RecordOutcome, TypeOK
  <2>3. KeyOpen(a)' /\ Silent(a)'
    BY <1>13, <1>t DEF HandleCommit, KeyOpen, Silent, Working, Reply, Goto, TypeOK
  <2>4. Spoken(a)'
    BY <1>13, <1>t, KeyedHasKey
       DEF HandleCommit, RecordOutcome, Spoken, Decided, Reply, TypeOK, Outcome, Keyed
  <2> QED
    BY <1>f, <2>1, <2>2, <2>3, <2>4
<1>14. ASSUME NEW a \in Attempt, ReleaseBarrier(a) \/ Crash(a) PROVE SerialInv'
  <2>1. Touches(a) /\ pc'[a] \in {"done", "dead"} /\ UNCHANGED <<answer, idem>>
    BY <1>14, <1>t DEF ReleaseBarrier, Crash, Touches, Goto, TypeOK
  <2>2. InFlight(a) /\ barrier' = GiveUp(barrier, a)
    BY <1>14 DEF ReleaseBarrier, Crash, InFlight
  <2>3. \A b \in Attempt \ {a} : Keyed(b) /\ InFlight(b) => barrier'[KeyOf[b]] = b
    BY <2>2, <1>t, KeyedHasKey DEF GiveUp, SerialInv, Serial, HoldsBarrier, TypeOK
  <2>4. Serial(a)'
    BY <2>1, <1>t DEF Serial, HoldsBarrier, InFlight, KeyOpen, Silent, Spoken, Working,
       SerialInv, Decided, Keyed, RejectionsStored
  <2> QED
    BY <1>t, <1>e, <2>1, <2>2, <2>3, <2>4, OthersStaySerial
<1>15. ASSUME NEW k \in Key, LoseBarrier(k) PROVE SerialInv'
  BY <1>15 DEF LoseBarrier, BarrierKept
<1>16. CASE UNCHANGED vars
  BY <1>16, <1>t DEF vars, SerialInv, Serial, HoldsBarrier, InFlight, KeyOpen, Silent, Spoken,
     Decided, Keyed, RejectionsStored
<1> QED
  BY <1>1, <1>2, <1>3, <1>4, <1>5, <1>6, <1>7, <1>8, <1>9, <1>10, <1>11, <1>12, <1>13,
     <1>14, <1>15, <1>16 DEF Next, Step

\* SerialInv holds in every reachable state while barriers are kept.
LEMMA SerialInvariant == ASSUME BarrierKept PROVE Spec => []SerialInv
<1>1. Init => SerialInv
  <2>1. Init => TypeOK
    BY DEF Init, TypeOK, Label, Ledger
  <2> QED
    BY <2>1, NoneAssumption DEF Init, SerialInv, Serial, HoldsBarrier, InFlight, KeyOpen, Silent,
       Spoken, Working, Code
<1>2. SerialInv /\ [Next]_vars => SerialInv'
  BY SerialInduction
<1> QED
  BY <1>1, <1>2, PTL DEF Spec

\* GateRunsOnce: while the barrier is kept, no request of a decided key calls
\* the provider, even if settlements and stores of rejections fail.
THEOREM GateRunsOnce == ASSUME BarrierKept PROVE Spec => NoGateAfterDecision
<1> DEFINE GateStep == \A a \in Attempt :
       (Keyed(a) /\ verdict[a] = None /\ verdict'[a] # None) => idem[KeyOf[a]] = None
<1>1. SerialInv /\ [Next]_vars => GateStep
  <2> SUFFICES ASSUME SerialInv, [Next]_vars, NEW a \in Attempt,
                      Keyed(a), verdict[a] = None, verdict'[a] # None
               PROVE  idem[KeyOf[a]] = None
    OBVIOUS
  <2>1. ASSUME NEW b \in Attempt, RunLlmGate(b) PROVE idem[KeyOf[a]] = None
    <3>1. b = a
      BY <2>1 DEF RunLlmGate, SerialInv, TypeOK
    <3> QED
      BY <2>1, <3>1 DEF RunLlmGate, SerialInv, Serial, KeyOpen, Working
  <2>2. CASE UNCHANGED verdict
    BY <2>2
  <2> QED
    BY <2>1, <2>2 DEF Next, Step, vars, AcquireBarrier, FireRequestLog, RunQuotaFor,
       IdempotencyReplay, DeterministicLowSubstance, StoreTerminalGateError,
       ReserveClubSpendBudget, ReserveLlmOutputBudget, SettleClubSpend, SettleLlmOutput,
       HandleLookup, HandleCommit, ReleaseBarrier, Crash, LoseBarrier
<1>2. SerialInv /\ [Next]_vars => [GateStep]_vars
  BY <1>1
<1>3. Spec => []SerialInv
  BY SerialInvariant
<1> HIDE DEF GateStep
<1>4. Spec => [][GateStep]_vars
  BY <1>2, <1>3, PTL DEF Spec
<1> QED
  BY <1>4 DEF GateStep, NoGateAfterDecision

\* AnswersAgree: while the barrier is kept and rejections are stored, two
\* requests with one key and one payload never get different outcomes.
THEOREM AnswersAgree ==
    ASSUME BarrierKept, RejectionsStored PROVE Spec => []OutcomesAgree
<1>1. SerialInv => OutcomesAgree
  BY DecisionIsRow DEF SerialInv, Serial, Spoken, Decided, OutcomesAgree, SameKey, Keyed
<1>2. Spec => []SerialInv
  BY SerialInvariant
<1> QED
  BY <1>1, <1>2, PTL

-----------------------------------------------------------------------------
(* The gated write implements OnceOnly.                                    *)

\* How a reply of request a relates to the decision of its key.
Decides(a, code) ==
    /\ code \in Outcome
    /\ idem[KeyOf[a]] = None
    /\ idem' = [idem EXCEPT ![KeyOf[a]] = DecisionOf(a, code)]
Repeats(a, code) ==
    /\ idem[KeyOf[a]] # None
    /\ code = IF idem[KeyOf[a]].payload = PayloadOf[a]
              THEN idem[KeyOf[a]].outcome ELSE "client_key_conflict"
    /\ UNCHANGED idem
Fails(a, code) ==
    /\ code \in Transient
    /\ idem[KeyOf[a]] = None
    /\ UNCHANGED idem
Justified(a, code) ==
    IF Keyed(a) THEN Decides(a, code) \/ Repeats(a, code) \/ Fails(a, code)
    ELSE code \in Outcome \cup Transient /\ UNCHANGED idem

\* What a request is told is an answer OnceOnly knows.
LEMMA ReplyIsAnswer ==
    ASSUME NEW a \in Attempt, NEW code \in Code, Reply(a, code), answer[a] = None,
           Justified(a, code)
    PROVE  Once!Answer(a)
BY DEF Justified, Decides, Repeats, Fails, Keyed, DecisionOf, Reply, Code, Outcome, Transient,
   Once!Answer, Once!Decide, Once!Repeat, Once!Fail, Once!Unkeyed, Once!Outcomes, Once!Failures

\* An answer taken from a lookup repeats the decision.
LEMMA LookupJustifies ==
    ASSUME TypeOK, NEW a \in Attempt, NEW code \in Code, UNCHANGED idem,
           \/ Lookup(a) = "conflict" /\ code = "client_key_conflict"
           \/ code \in Outcome /\ Lookup(a) = code
    PROVE  Justified(a, code)
<1>1. Keyed(a) /\ idem[KeyOf[a]] # None
  BY DEF Lookup, Outcome
<1>2. idem[KeyOf[a]] \in KeyRow
  BY <1>1, KeyedHasKey DEF TypeOK
<1>3. Repeats(a, code)
  BY <1>1, <1>2 DEF Lookup, Repeats, KeyRow, Outcome
<1> QED
  BY <1>1, <1>3 DEF Justified

\* A failure while the key is open is justified.
LEMMA FailureJustified ==
    ASSUME SerialInv, NEW a \in Attempt, pc[a] \in Working,
           NEW code \in Transient, UNCHANGED idem
    PROVE  Justified(a, code)
BY DEF SerialInv, Serial, KeyOpen, Justified, Fails

\* Every step of a request is an answer of OnceOnly or a stutter of it.
LEMMA StepSimulation ==
    ASSUME RejectionsStored, SerialInv, [Next]_vars
    PROVE  [Once!Next]_<<idem, answer>>
<1>t. TypeOK
  BY DEF SerialInv
<1> DEFINE Sim == [Once!Next]_<<idem, answer>>
<1>s. ASSUME UNCHANGED <<idem, answer>> PROVE Sim
  BY <1>s
<1>r. ASSUME NEW a \in Attempt, NEW code \in Code, Reply(a, code), Justified(a, code),
             pc[a] \notin {"unlock", "done", "dead"}
      PROVE  Sim
  <2>1. answer[a] = None
    BY <1>r DEF SerialInv, Serial, Silent
  <2>2. Once!Answer(a)
    BY <1>r, <2>1, ReplyIsAnswer
  <2> QED
    BY <2>2 DEF Once!Next
<1> HIDE DEF Sim
<1>1. ASSUME NEW a \in Attempt, FireRequestLog(a) PROVE Sim
  <2>1. CASE Lookup(a) = "conflict"
    <3>1. Justified(a, "client_key_conflict")
      BY <1>1, <2>1, <1>t, LookupJustifies DEF FireRequestLog, Code
    <3> QED
      BY <1>1, <1>r, <2>1, <3>1 DEF FireRequestLog, Code
  <2>2. CASE Lookup(a) # "conflict"
    BY <1>1, <1>s, <2>2 DEF FireRequestLog
  <2> QED
    BY <2>1, <2>2
<1>2. ASSUME NEW a \in Attempt, RunQuotaFor(a) PROVE Sim
  <2>1. CASE Lookup(a) = "conflict"
    <3>1. Justified(a, "client_key_conflict")
      BY <1>2, <2>1, <1>t, LookupJustifies DEF RunQuotaFor, Code
    <3> QED
      BY <1>2, <1>r, <2>1, <3>1 DEF RunQuotaFor, Code
  <2>2. CASE Lookup(a) = "miss" /\ Reply(a, "quota_exceeded")
    <3>1. Keyed(a) => idem[KeyOf[a]] = None
      BY <2>2, <1>t, LookupMiss DEF Outcome
    <3>2. Justified(a, "quota_exceeded")
      BY <1>2, <3>1 DEF RunQuotaFor, Justified, Fails, Transient
    <3> QED
      BY <1>2, <1>r, <2>2, <3>2 DEF RunQuotaFor, Code, Transient
  <2>3. CASE UNCHANGED answer
    BY <1>2, <1>s, <2>3 DEF RunQuotaFor
  <2> QED
    BY <1>2, <2>1, <2>2, <2>3 DEF RunQuotaFor
<1>3. ASSUME NEW a \in Attempt, IdempotencyReplay(a) PROVE Sim
  <2>1. CASE Lookup(a) = "conflict"
    <3>1. Justified(a, "client_key_conflict")
      BY <1>3, <2>1, <1>t, LookupJustifies DEF IdempotencyReplay, Code
    <3>2. Reply(a, "client_key_conflict")
      BY <1>3, <2>1 DEF IdempotencyReplay, ReplayHit, Reply, Goto
    <3> QED
      BY <1>3, <1>r, <3>1, <3>2 DEF IdempotencyReplay, Code
  <2>2. CASE Lookup(a) = "rejected"
    <3>1. Justified(a, "rejected")
      BY <1>3, <2>2, <1>t, LookupJustifies DEF IdempotencyReplay, Code, Outcome
    <3>2. Reply(a, "rejected")
      BY <1>3, <2>2 DEF IdempotencyReplay, ReplayHit, Reply, Goto
    <3> QED
      BY <1>3, <1>r, <3>1, <3>2 DEF IdempotencyReplay, Code, Outcome
  <2>3. CASE UNCHANGED answer
    BY <1>3, <1>s, <2>3 DEF IdempotencyReplay
  <2> QED
    BY <1>3, <2>1, <2>2, <2>3 DEF IdempotencyReplay
<1>4. ASSUME NEW a \in Attempt, StoreTerminalGateError(a) PROVE Sim
  <2>1. Keyed(a) => idem[KeyOf[a]] = None
    BY <1>4 DEF StoreTerminalGateError, SerialInv, Serial, KeyOpen, Working
  <2>2. Justified(a, "rejected")
    BY <1>4, <2>1 DEF StoreTerminalGateError, KeyRowMissing, RejectionsStored, Justified, Decides,
       Outcome
  <2> QED
    BY <1>4, <1>r, <2>2 DEF StoreTerminalGateError, Code, Outcome
<1>5. ASSUME NEW a \in Attempt, HandleLookup(a) PROVE Sim
  <2>1. CASE Lookup(a) = "conflict" /\ Reply(a, "client_key_conflict")
    <3>1. Justified(a, "client_key_conflict")
      BY <1>5, <2>1, <1>t, LookupJustifies DEF HandleLookup, Code
    <3> QED
      BY <1>5, <1>r, <2>1, <3>1 DEF HandleLookup, Code
  <2>2. CASE Lookup(a) \in Outcome /\ Reply(a, Lookup(a))
    <3>1. Justified(a, Lookup(a))
      BY <1>5, <2>2, <1>t, LookupJustifies DEF HandleLookup, Code
    <3> QED
      BY <1>5, <1>r, <2>2, <3>1 DEF HandleLookup, Code
  <2>3. CASE UNCHANGED answer
    BY <1>5, <1>s, <2>3 DEF HandleLookup
  <2> QED
    BY <1>5, <2>1, <2>2, <2>3 DEF HandleLookup, Outcome
<1>6. ASSUME NEW a \in Attempt, HandleCommit(a) PROVE Sim
  <2>1. Keyed(a) => idem[KeyOf[a]] = None
    BY <1>6 DEF HandleCommit, SerialInv, Serial, KeyOpen, Working
  <2>2. CASE RecordOutcome(a) /\ Reply(a, "created")
    <3>1. Justified(a, "created")
      BY <2>1, <2>2 DEF RecordOutcome, Justified, Decides, Outcome
    <3> QED
      BY <1>6, <1>r, <2>2, <3>1 DEF HandleCommit, Code, Outcome
  <2>3. CASE Reply(a, "internal_error") /\ UNCHANGED idem
    <3>1. Justified(a, "internal_error")
      BY <2>1, <2>3 DEF Justified, Fails, Transient
    <3> QED
      BY <1>6, <1>r, <2>3, <3>1 DEF HandleCommit, Code, Transient
  <2> QED
    BY <1>6, <2>2, <2>3 DEF HandleCommit
<1>7. ASSUME NEW a \in Attempt, pc[a] \in Working, NEW code \in Transient, UNCHANGED idem,
             Reply(a, code)
      PROVE  Sim
  <2>1. Justified(a, code)
    BY <1>7, FailureJustified
  <2> QED
    BY <1>7, <1>r, <2>1 DEF Working, Code
<1>8. ASSUME NEW a \in Attempt, ReserveClubSpendBudget(a) PROVE Sim
  BY <1>8, <1>7, <1>s DEF ReserveClubSpendBudget, Working, Transient
<1>9. ASSUME NEW a \in Attempt, ReserveLlmOutputBudget(a) PROVE Sim
  BY <1>9, <1>7, <1>s DEF ReserveLlmOutputBudget, Working, Transient
<1>10. ASSUME NEW a \in Attempt, RunLlmGate(a) PROVE Sim
  BY <1>10, <1>7, <1>s DEF RunLlmGate, Working, Transient
<1>11. ASSUME NEW a \in Attempt, SettleClubSpend(a) PROVE Sim
  BY <1>11, <1>7, <1>s DEF SettleClubSpend, Working, Transient
<1>12. ASSUME NEW a \in Attempt, SettleLlmOutput(a) PROVE Sim
  BY <1>12, <1>7, <1>s DEF SettleLlmOutput, AfterGate, Working, Transient
<1>13. ASSUME NEW a \in Attempt,
              \/ AcquireBarrier(a) \/ DeterministicLowSubstance(a)
              \/ ReleaseBarrier(a) \/ Crash(a)
       PROVE  Sim
  BY <1>s, <1>13 DEF AcquireBarrier, DeterministicLowSubstance, ReleaseBarrier, Crash
<1>14. ASSUME NEW k \in Key, LoseBarrier(k) PROVE Sim
  BY <1>s, <1>14 DEF LoseBarrier
<1>15. ASSUME UNCHANGED vars PROVE Sim
  BY <1>s, <1>15 DEF vars
<1>16. Sim
  BY <1>1, <1>2, <1>3, <1>4, <1>5, <1>6, <1>8, <1>9, <1>10, <1>11, <1>12, <1>13, <1>14, <1>15
     DEF Next, Step
<1> QED
  BY <1>16 DEF Sim

\* ImplementsOnce: while the barrier is kept and rejections are stored, every
\* behaviour of the dispatcher is one of OnceOnly: keys are decided once, and
\* every reply follows the decision.
THEOREM ImplementsOnce ==
    ASSUME BarrierKept, RejectionsStored PROVE Spec => ImplementsOnceOnly
<1>1. Init => Once!Init
  BY DEF Init, Once!Init
<1>2. SerialInv /\ [Next]_vars => [Once!Next]_<<idem, answer>>
  BY StepSimulation
<1>3. Spec => []SerialInv
  BY SerialInvariant
<1> QED
  BY <1>1, <1>2, <1>3, PTL DEF Spec, ImplementsOnceOnly, Once!Spec

-----------------------------------------------------------------------------
(* The ledgers, when settlements do not fail.                              *)

Unbilled(a) == usage[a] = {} /\ spend[a] = "none" /\ tokens[a] = "none"

\* What the ledgers must show of a request that is past its settlements.
SettledWell(a) ==
    /\ spend[a] # "pending" /\ tokens[a] # "pending"
    /\ spend[a] = "finalized" <=> usage[a] # {}
    /\ tokens[a] = "finalized" <=> "completion" \in usage[a]

\* What the ledgers show of a request, await by await.
LedgersAt(a) ==
    /\ usage[a] # {} => verdict[a] \in Billable
    /\ pc[a] \in {"new", "log", "quota", "replay", "precheck", "reserve_spend"} => Unbilled(a)
    /\ pc[a] = "reserve_tokens" =>
         usage[a] = {} /\ spend[a] = "pending" /\ tokens[a] = "none"
    /\ pc[a] = "gate" =>
         usage[a] = {} /\ spend[a] = "pending" /\ tokens[a] = "pending"
    /\ pc[a] = "settle_spend" => spend[a] = "pending" /\ tokens[a] = "pending"
    /\ pc[a] = "settle_tokens" =>
         /\ spend[a] # "pending" /\ tokens[a] = "pending"
         /\ spend[a] = "finalized" <=> usage[a] # {}
    /\ pc[a] \in {"store", "handle", "write", "unlock", "done"} => SettledWell(a)

LedgersInv == TypeOK /\ \A a \in Attempt : LedgersAt(a)

\* A request that has reserved nothing owes nothing.
LEMMA UnbilledIsSettled == ASSUME NEW a \in Attempt, Unbilled(a) PROVE SettledWell(a)
BY DEF Unbilled, SettledWell

\* A step of another request is not about this one's ledgers.
LEMMA LedgersKept ==
    ASSUME NEW a \in Attempt, LedgersAt(a), pc'[a] = pc[a], verdict'[a] = verdict[a],
           usage'[a] = usage[a], spend'[a] = spend[a], tokens'[a] = tokens[a]
    PROVE  LedgersAt(a)'
BY DEF LedgersAt, Unbilled, SettledWell

\* A step that touches no ledger keeps them, wherever it leads among the awaits where
\* the same is asked of them.
LEMMA LedgersMove ==
    ASSUME TypeOK, NEW a \in Attempt, LedgersAt(a), UNCHANGED <<verdict, usage, spend, tokens>>,
           \/ pc'[a] = pc[a] \/ pc'[a] = "dead"
           \/ pc[a] \in {"new", "log", "quota", "replay", "precheck", "reserve_spend"} /\
                pc'[a] \in {"log", "quota", "replay", "precheck", "reserve_spend",
                            "store", "handle", "unlock"}
           \/ pc[a] \in {"store", "handle", "write", "unlock"} /\
                pc'[a] \in {"write", "unlock", "done"}
    PROVE  LedgersAt(a)'
<1>1. CASE pc'[a] = pc[a]
  BY <1>1, LedgersKept
<1>2. CASE pc'[a] = "dead"
  BY <1>2 DEF LedgersAt
<1>3. CASE pc[a] \in {"new", "log", "quota", "replay", "precheck", "reserve_spend"} /\
           pc'[a] \in {"log", "quota", "replay", "precheck", "reserve_spend",
                       "store", "handle", "unlock"}
  <2>1. Unbilled(a) /\ SettledWell(a)
    BY <1>3, UnbilledIsSettled DEF LedgersAt
  <2>2. Unbilled(a)' /\ SettledWell(a)'
    BY <2>1 DEF Unbilled, SettledWell
  <2> QED
    BY <1>3, <2>2 DEF LedgersAt
<1>4. CASE pc[a] \in {"store", "handle", "write", "unlock"} /\
           pc'[a] \in {"write", "unlock", "done"}
  <2>1. SettledWell(a)'
    BY <1>4 DEF LedgersAt, SettledWell
  <2> QED
    BY <1>4, <2>1 DEF LedgersAt
<1> QED
  BY <1>1, <1>2, <1>3, <1>4

\* Every step keeps every request's ledgers in order.
LEMMA LedgersStep ==
    ASSUME LedgersInv, [Next]_vars, "settle_failed" \notin Faults, NEW a \in Attempt
    PROVE  LedgersAt(a)'
<1> USE DEF Goto, Reply
<1>0. TypeOK /\ LedgersAt(a) /\ a \in DOMAIN pc /\ a \in DOMAIN verdict
        /\ a \in DOMAIN usage /\ a \in DOMAIN spend /\ a \in DOMAIN tokens
  BY DEF LedgersInv, TypeOK
<1>1. ASSUME NEW b \in Attempt, AcquireBarrier(b) PROVE LedgersAt(a)'
  BY <1>0, <1>1, LedgersMove DEF AcquireBarrier, TypeOK
<1>2. ASSUME NEW b \in Attempt, FireRequestLog(b) PROVE LedgersAt(a)'
  BY <1>0, <1>2, LedgersMove DEF FireRequestLog, TypeOK
<1>3. ASSUME NEW b \in Attempt, RunQuotaFor(b) PROVE LedgersAt(a)'
  BY <1>0, <1>3, LedgersMove DEF RunQuotaFor, TypeOK
<1>4. ASSUME NEW b \in Attempt, IdempotencyReplay(b) PROVE LedgersAt(a)'
  BY <1>0, <1>4, LedgersMove DEF IdempotencyReplay, TypeOK
<1>5. ASSUME NEW b \in Attempt, DeterministicLowSubstance(b) PROVE LedgersAt(a)'
  BY <1>0, <1>5, LedgersMove DEF DeterministicLowSubstance, TypeOK
<1>6. ASSUME NEW b \in Attempt, StoreTerminalGateError(b) PROVE LedgersAt(a)'
  BY <1>0, <1>6, LedgersMove DEF StoreTerminalGateError, TypeOK
<1>7. ASSUME NEW b \in Attempt, ReserveClubSpendBudget(b) PROVE LedgersAt(a)'
  <2>1. CASE Reply(b, "quota_exceeded") /\ UNCHANGED spend
    BY <1>0, <1>7, <2>1, LedgersMove DEF ReserveClubSpendBudget, TypeOK
  <2>2. CASE spend' = [spend EXCEPT ![b] = "pending"] /\ Goto(b, "reserve_tokens")
    BY <1>0, <1>7, <2>2, LedgersKept DEF ReserveClubSpendBudget, TypeOK, LedgersAt, Unbilled
  <2> QED
    BY <1>7, <2>1, <2>2 DEF ReserveClubSpendBudget
<1>8. ASSUME NEW b \in Attempt, ReserveLlmOutputBudget(b) PROVE LedgersAt(a)'
  <2>1. CASE a # b
    BY <1>0, <1>8, <2>1, LedgersKept
       DEF ReserveLlmOutputBudget, TypeOK, ReleaseOnRefusal, SettleTo
  <2>2. CASE a = b /\ pc'[a] = "gate"
    BY <1>0, <1>8, <2>2 DEF ReserveLlmOutputBudget, TypeOK, LedgersAt
  <2>3. CASE a = b /\ pc'[a] = "unlock"
    <3>1. spend'[a] = "released" /\ tokens'[a] = "none" /\ usage'[a] = {}
      BY <1>0, <1>8, <2>3
         DEF ReserveLlmOutputBudget, TypeOK, LedgersAt, ReleaseOnRefusal, SettleTo
    <3> QED
      BY <2>3, <3>1 DEF LedgersAt, SettledWell
  <2> QED
    BY <1>0, <1>8, <2>1, <2>2, <2>3 DEF ReserveLlmOutputBudget, TypeOK
<1>9. ASSUME NEW b \in Attempt, RunLlmGate(b) PROVE LedgersAt(a)'
  <2>1. CASE a # b
    BY <1>0, <1>9, <2>1, LedgersKept DEF RunLlmGate, TypeOK, SettleTo
  <2>2. CASE a = b /\ pc'[a] = "settle_spend"
    BY <1>0, <1>9, <2>2 DEF RunLlmGate, TypeOK, LedgersAt
  <2>3. CASE a = b /\ pc'[a] = "unlock"
    <3>1. spend'[a] = "released" /\ tokens'[a] = "released" /\ usage'[a] = {}
      BY <1>0, <1>9, <2>3 DEF RunLlmGate, TypeOK, SettleTo, LedgersAt
    <3> QED
      BY <2>3, <3>1 DEF LedgersAt, SettledWell
  <2> QED
    BY <1>0, <1>9, <2>1, <2>2, <2>3 DEF RunLlmGate, TypeOK
<1>10. ASSUME NEW b \in Attempt, SettleClubSpend(b) PROVE LedgersAt(a)'
  <2>1. CASE a # b
    BY <1>0, <1>10, <2>1, LedgersKept DEF SettleClubSpend, TypeOK
  <2>2. CASE a = b
    BY <1>0, <1>10, <2>2 DEF SettleClubSpend, TypeOK, LedgersAt
  <2> QED
    BY <2>1, <2>2
<1>11. ASSUME NEW b \in Attempt, SettleLlmOutput(b) PROVE LedgersAt(a)'
  <2>1. CASE a # b
    BY <1>0, <1>11, <2>1, LedgersKept DEF SettleLlmOutput, TypeOK, AfterGate
  <2>2. CASE a = b
    <3>1. SettledWell(a)'
      BY <1>0, <1>11, <2>2 DEF SettleLlmOutput, TypeOK, LedgersAt, SettledWell
    <3>2. pc'[a] \in {"handle", "store", "unlock"}
      BY <1>0, <1>11, <2>2 DEF SettleLlmOutput, TypeOK, AfterGate
    <3>3. usage'[a] = usage[a] /\ verdict'[a] = verdict[a]
      BY <1>11 DEF SettleLlmOutput
    <3> QED
      BY <1>0, <3>1, <3>2, <3>3 DEF LedgersAt
  <2> QED
    BY <2>1, <2>2
<1>12. ASSUME NEW b \in Attempt, HandleLookup(b) PROVE LedgersAt(a)'
  BY <1>0, <1>12, LedgersMove DEF HandleLookup, TypeOK
<1>13. ASSUME NEW b \in Attempt, HandleCommit(b) PROVE LedgersAt(a)'
  BY <1>0, <1>13, LedgersMove DEF HandleCommit, TypeOK
<1>14. ASSUME NEW b \in Attempt, ReleaseBarrier(b) PROVE LedgersAt(a)'
  BY <1>0, <1>14, LedgersMove DEF ReleaseBarrier, TypeOK
<1>15. ASSUME NEW b \in Attempt, Crash(b) PROVE LedgersAt(a)'
  BY <1>0, <1>15, LedgersMove DEF Crash, TypeOK
<1>16. ASSUME NEW k \in Key, LoseBarrier(k) PROVE LedgersAt(a)'
  BY <1>0, <1>16, LedgersKept DEF LoseBarrier
<1>17. CASE UNCHANGED vars
  BY <1>0, <1>17, LedgersKept DEF vars
<1> QED
  BY <1>1, <1>2, <1>3, <1>4, <1>5, <1>6, <1>7, <1>8, <1>9, <1>10, <1>11, <1>12, <1>13, <1>14,
     <1>15, <1>16, <1>17 DEF Next, Step

\* LedgersAgree: where settlements do not fail, a request that is over has left nothing
\* reserved in either ledger, and each shows a cost exactly when the provider reported
\* the tokens it is about, whatever crashes and however requests interleave (dispatch.ts,
\* runLlmGateFor; club-spend.ts:392, quotas.ts:432).
THEOREM LedgersAgree == "settle_failed" \notin Faults /\ Spec => []LedgersMatchUsage
<1> SUFFICES ASSUME "settle_failed" \notin Faults PROVE Spec => []LedgersMatchUsage
  OBVIOUS
<1>1. Init => LedgersInv
  <2> SUFFICES ASSUME Init PROVE LedgersInv
    OBVIOUS
  <2>1. TypeOK
    BY DEF Init, TypeOK, Label, Ledger
  <2> QED
    BY <2>1 DEF Init, LedgersInv, LedgersAt, Unbilled
<1>2. LedgersInv /\ [Next]_vars => LedgersInv'
  BY TypeInduction, LedgersStep DEF LedgersInv
<1>3. LedgersInv => LedgersMatchUsage
  BY DEF LedgersInv, LedgersAt, SettledWell, LedgersMatchUsage
<1> QED
  BY <1>1, <1>2, <1>3, PTL DEF Spec

-----------------------------------------------------------------------------
(* Accounts, for any sets of keys, challenges, addresses, accounts and     *)
(* requests: the same discipline of client keys, on operations that answer *)
(* with a secret.  The components share the keys and nothing else: those   *)
(* of the accounts' own constants and variables are declared here.         *)

CONSTANTS Challenge, Bound, Email, NoEmail, Account, Request, Mortal, Nobody,
          Cap, MaxMinted, MaxKeys

VARIABLES keys, consumed, account, own, minted, producer, label, job

A == INSTANCE Accounts

\* The instance counts as this module does.
LEMMA SameCardinality == \A S : A!Cardinality(S) = Cardinality(S)
BY DEF A!Cardinality, Cardinality

Operation == {"register", "email", "create", "mint", "direct", "producer", "rotate"}

AccountRow == [state : {"none", "new", "live", "gone"}, email : Email \cup {NoEmail},
               by : Challenge \cup {Nobody}, owner : Request \cup {Nobody}, next : Email \cup {NoEmail}]

JobRow == [op : Operation \cup {"none"}, for : Account \cup {Nobody}, key : Key \cup {Nobody},
           challenge : Challenge \cup {Nobody}, account : Account \cup {Nobody},
           email : Email \cup {NoEmail}]

\* Every row and every request under way has the type of its columns.
AccountTypes ==
    /\ A!TypeOK
    /\ IsFiniteSet(keys) /\ keys \subseteq [op : Operation, for : Account \cup {Nobody}, key : Key]
    /\ account \in [Account -> AccountRow]
    /\ producer \in [version : Nat, owner : Request \cup {Nobody}]
    /\ job \in [Request -> JobRow]

\* A request is where its operation leads, with what the operation needs.
JobFits ==
    \A r \in Request :
        /\ label[r] # "idle" => job[r].op # "none" /\ job[r].key \in Key
        /\ label[r] \in {"register", "consume", "invited", "insert"} => job[r].op = "register"
        /\ label[r] \in {"email", "index"} => job[r].op = "email"
        /\ label[r] \in {"create", "mint", "direct", "producer", "rotate"} => job[r].op = label[r]
        /\ label[r] = "token" => job[r].op \in {"create", "mint"}
        /\ job[r].op = "register" /\ label[r] # "commit" => job[r].challenge \in Challenge
        /\ job[r].op = "direct" => job[r].challenge = Nobody
        /\ job[r].op \in {"register", "direct", "email"} /\ label[r] # "commit" => job[r].email \in Email
        /\ job[r].op \in {"email", "create", "mint"} => job[r].account \in Account

\* Whoever writes the row of an account is at the step that does, and writes no other.
WritersAreAtWork ==
    /\ \A a \in Account, r \in Request : account[a].owner = r =>
         /\ job[r].account = a
         /\ account[a].state = "new" => label[r] = "commit" /\ job[r].op \in {"register", "direct"}
         /\ account[a].state # "new" => account[a].state = "live" /\ job[r].op = "email"
                                        /\ label[r] \in {"index", "commit"}
    /\ \A r \in Request :
         /\ label[r] = "index" => account[job[r].account].owner = r
         /\ label[r] = "commit" /\ job[r].op \in {"register", "direct", "email"} =>
              job[r].account \in Account /\ account[job[r].account].owner = r

\* An account that is being made has a writer; one without a writer enters no address.
RowsFit ==
    \A a \in Account :
        /\ account[a].state = "none" => account[a] = A!NoAccount
        /\ account[a].state = "new" => account[a].owner # Nobody
        /\ IF account[a].state \in {"new", "live"} THEN account[a].email \in Email
                                               ELSE account[a].email = NoEmail
        /\ account[a].owner = Nobody \/ account[a].state # "live" => account[a].next = NoEmail
        /\ \A r \in Request : account[a].owner = r /\ account[a].state = "live" /\ label[r] = "commit" =>
              account[a].next \in Email

\* The row of a consumed challenge is its registration's, from Consume to the account.
ChallengesAreHeld ==
    /\ \A r \in Request : label[r] \in {"invited", "insert"} => consumed[job[r].challenge] = r
    /\ \A c \in Challenge, r \in Request : consumed[c] = r =>
         /\ label[r] \in {"invited", "insert"} => job[r].challenge = c
         /\ label[r] \notin {"invited", "insert"} =>
              /\ label[r] = "commit" /\ job[r].account \in Account
              /\ account[job[r].account].by = c /\ account[job[r].account].state = "new"
    /\ \A a \in Account : account[a].by # Nobody =>
         consumed[account[a].by] = IF account[a].state = "new" THEN account[a].owner ELSE "yes"
    /\ \A c \in Challenge : consumed[c] = "yes" =>
         \E a \in Account : account[a].by = c /\ account[a].state \in {"live", "gone"}

\* Two accounts share no challenge...
ChallengesDiffer ==
    \A a, b \in Account : a # b /\ account[a].by = account[b].by => account[a].by = Nobody

\* ...and no address, neither one they have nor one they are about to have.
AddressesDiffer ==
    \A a, b \in Account : a # b =>
        {account[a].email, account[a].next} \cap {account[b].email, account[b].next} \subseteq {NoEmail}

\* A scoped key that has been taken is nobody else's and is not yet used.
ScopesAreTaken ==
    /\ \A r \in Request : label[r] \notin {"idle", "key"} => A!Scope(r) \notin keys
    /\ \A r, q \in Request : r # q /\ label[r] \notin {"idle", "key"} /\ label[q] \notin {"idle", "key"} =>
         A!Scope(r) # A!Scope(q)

\* Every secret of the producer was paid for with a key.
SecretsArePaid ==
    producer.version <= Cardinality({k \in keys : k.op \in {"producer", "rotate"}})

AccountInv ==
    /\ AccountTypes /\ JobFits /\ WritersAreAtWork /\ RowsFit /\ ChallengesAreHeld
    /\ ChallengesDiffer /\ AddressesDiffer /\ ScopesAreTaken /\ SecretsArePaid

-----------------------------------------------------------------------------
(* Steps that undo, end or go on.                                          *)

\* With more keys, no secret is less paid for.
LEMMA MoreKeysPay ==
    ASSUME IsFiniteSet(keys), IsFiniteSet(keys'), keys \subseteq keys'
    PROVE  /\ Cardinality({k \in keys : k.op \in {"producer", "rotate"}})
                \leq Cardinality({k \in keys' : k.op \in {"producer", "rotate"}})
           /\ Cardinality({k \in keys : k.op \in {"producer", "rotate"}}) \in Nat
           /\ Cardinality({k \in keys' : k.op \in {"producer", "rotate"}}) \in Nat
<1> DEFINE S == {k \in keys : k.op \in {"producer", "rotate"}}
           T == {k \in keys' : k.op \in {"producer", "rotate"}}
<1>1. S \subseteq T
  OBVIOUS
<1>2. IsFiniteSet(T)
  BY T \subseteq keys', FS_Subset
<1> QED
  BY <1>1, <1>2, FS_Subset, FS_CardinalityType

\* What a request that fails leaves of each row.
Freed(r) ==
    /\ UNCHANGED <<keys, own, minted>>
    /\ label' = [label EXCEPT ![r] = "idle"] /\ job' = [job EXCEPT ![r] = A!NoJob]
    /\ producer' \in [version : Nat, owner : Request \cup {Nobody}]
    /\ producer'.version = producer.version
    /\ consumed' = [c \in Challenge |-> IF consumed[c] = r THEN Nobody ELSE consumed[c]]
    /\ account' \in [Account -> AccountRow]
    /\ \A a \in Account :
         /\ account[a].owner # r => account'[a] = account[a]
         /\ account[a].owner = r /\ account[a].state = "new" => account'[a] = A!NoAccount
         /\ account[a].owner = r /\ account[a].state # "new" =>
              /\ account'[a].state = account[a].state /\ account'[a].email = account[a].email
              /\ account'[a].by = account[a].by
              /\ account'[a].owner = Nobody /\ account'[a].next = NoEmail

LEMMA FailsFrees ==
    ASSUME A!AccountAssumption, AccountTypes, NEW r \in Request, A!Fails(r)
    PROVE  Freed(r)
<1>1. account' = [a \in Account |->
            IF account[a].owner # r THEN account[a]
            ELSE IF account[a].state = "new" THEN A!NoAccount
            ELSE [account[a] EXCEPT !.owner = Nobody, !.next = NoEmail]]
  BY DEF A!Fails
<1>2. ASSUME NEW row \in AccountRow
      PROVE  LET free == [row EXCEPT !.owner = Nobody, !.next = NoEmail]
             IN  /\ free \in AccountRow
                 /\ free.state = row.state /\ free.email = row.email /\ free.by = row.by
                 /\ free.owner = Nobody /\ free.next = NoEmail
  BY DEF AccountRow
<1>3. A!NoAccount \in AccountRow
  BY DEF A!NoAccount, AccountRow
<1>4. account \in [Account -> AccountRow]
  BY DEF AccountTypes
<1>5. account' \in [Account -> AccountRow]
  BY <1>1, <1>2, <1>3, <1>4
<1>6. ASSUME NEW a \in Account
      PROVE  /\ account[a].owner # r => account'[a] = account[a]
             /\ account[a].owner = r /\ account[a].state = "new" => account'[a] = A!NoAccount
             /\ account[a].owner = r /\ account[a].state # "new" =>
                  /\ account'[a].state = account[a].state /\ account'[a].email = account[a].email
                  /\ account'[a].by = account[a].by
                  /\ account'[a].owner = Nobody /\ account'[a].next = NoEmail
  BY <1>1, <1>2, <1>4
<1>7. /\ producer' \in [version : Nat, owner : Request \cup {Nobody}]
      /\ producer'.version = producer.version
  BY DEF A!Fails, AccountTypes
<1>8. UNCHANGED <<keys, own, minted>>
  BY DEF A!Fails, A!tokens
<1>9. /\ label' = [label EXCEPT ![r] = "idle"] /\ job' = [job EXCEPT ![r] = A!NoJob]
      /\ consumed' = [c \in Challenge |-> IF consumed[c] = r THEN Nobody ELSE consumed[c]]
  BY DEF A!Fails, A!Ends
<1> QED
  BY <1>5, <1>6, <1>7, <1>8, <1>9 DEF Freed

\* A request that fails takes back what it wrote.
LEMMA FailsKeeps ==
    ASSUME A!AccountAssumption, AccountInv, NEW r \in Request, label[r] # "idle", A!Fails(r)
    PROVE  AccountInv'
<1> USE DEF AccountInv, Freed
<1>f. Freed(r)
  BY FailsFrees
<1>0. Nobody \notin Request /\ Nobody \notin Account /\ Nobody \notin Challenge /\ "yes" \notin Request /\ "yes" # Nobody
  BY DEF A!AccountAssumption
<1>1. AccountTypes'
  BY <1>f DEF AccountTypes, A!TypeOK, AccountRow, JobRow, Operation, A!NoAccount, A!NoJob
<1>2. JobFits'
  BY <1>f DEF AccountTypes, A!TypeOK, JobRow, JobFits, JobRow, Operation, A!NoJob
<1>3. WritersAreAtWork'
  <2>1. \A a \in Account, q \in Request : account'[a].owner = q =>
          q # r /\ account'[a] = account[a] /\ job'[q] = job[q] /\ label'[q] = label[q]
    BY <1>f, <1>0 DEF AccountTypes, A!TypeOK, A!NoAccount
  <2>2. \A q \in Request : label'[q] \in {"index", "commit"} => q # r /\ job'[q] = job[q] /\ label'[q] = label[q]
    BY <1>f DEF AccountTypes, A!TypeOK
  <2>3. \A q \in Request \ {r} : label[q] = "index" => job[q].account \in Account
    BY DEF JobFits
  <2> QED
    BY <1>f, <2>1, <2>2, <2>3 DEF WritersAreAtWork
<1>4. RowsFit'
  BY <1>f, <1>0 DEF AccountTypes, A!TypeOK, RowsFit, WritersAreAtWork, A!NoAccount, A!NoJob
<1>5. ChallengesAreHeld'
  <2>1. \A q \in Request : label'[q] \in {"invited", "insert"} => consumed'[job'[q].challenge] = q
    BY <1>f DEF AccountTypes, A!TypeOK, JobRow, JobFits, ChallengesAreHeld
  <2>2. \A c \in Challenge, q \in Request : consumed'[c] = q =>
          /\ q # r /\ consumed[c] = q /\ label'[q] = label[q] /\ job'[q] = job[q]
          /\ label[q] = "commit" => account[job[q].account].owner # r
    <3> SUFFICES ASSUME NEW c \in Challenge, NEW q \in Request, consumed'[c] = q
                 PROVE  /\ q # r /\ consumed[c] = q /\ label'[q] = label[q] /\ job'[q] = job[q]
                        /\ label[q] = "commit" => account[job[q].account].owner # r
      OBVIOUS
    <3>1. q # r /\ consumed[c] = q
      BY <1>f, <1>0
    <3>2. label[q] = "commit" => account[job[q].account].owner = q
      BY <3>1, <1>0 DEF ChallengesAreHeld
    <3> QED
      BY <3>1, <3>2, <1>f DEF AccountTypes, A!TypeOK
  <2>3. \A c \in Challenge, q \in Request : consumed'[c] = q =>
         /\ label'[q] \in {"invited", "insert"} => job'[q].challenge = c
         /\ label'[q] \notin {"invited", "insert"} =>
              /\ label'[q] = "commit" /\ job'[q].account \in Account
              /\ account'[job'[q].account].by = c /\ account'[job'[q].account].state = "new"
    BY <1>f, <2>2 DEF AccountTypes, A!TypeOK, ChallengesAreHeld
  <2>4. \A a \in Account : account'[a].by # Nobody =>
         consumed'[account'[a].by] = IF account'[a].state = "new" THEN account'[a].owner ELSE "yes"
    BY <1>f, <1>0 DEF AccountTypes, A!TypeOK, ChallengesAreHeld, WritersAreAtWork, A!NoAccount
  <2>5. \A c \in Challenge : consumed'[c] = "yes" =>
         \E a \in Account : account'[a].by = c /\ account'[a].state \in {"live", "gone"}
    BY <1>f, <1>0 DEF AccountTypes, A!TypeOK, ChallengesAreHeld
  <2> QED
    BY <2>1, <2>3, <2>4, <2>5 DEF ChallengesAreHeld
<1>6. ChallengesDiffer'
  BY <1>f DEF AccountTypes, A!TypeOK, ChallengesDiffer, A!NoAccount
<1>7. AddressesDiffer'
  <2>1. \A a \in Account : {account'[a].email, account'[a].next}
                             \subseteq {account[a].email, account[a].next, NoEmail}
    BY <1>f DEF AccountTypes, A!TypeOK, A!NoAccount
  <2> QED
    BY <2>1 DEF AddressesDiffer
<1>8. ScopesAreTaken'
  BY <1>f DEF AccountTypes, A!TypeOK, ScopesAreTaken, A!Scope
<1>9. SecretsArePaid'
  BY <1>f DEF AccountTypes, SecretsArePaid
<1> QED
  BY <1>1, <1>2, <1>3, <1>4, <1>5, <1>6, <1>7, <1>8, <1>9

\* A request that goes on without writing.
LEMMA MovesKeep ==
    ASSUME A!AccountAssumption, AccountInv, NEW r \in Request, NEW to, A!Moves(r, to),
           UNCHANGED <<keys, consumed, account, own, minted, producer>>,
           \/ label[r] = "key" /\ to = job[r].op /\ A!KeyFree(r, A!Scope(r)) /\ A!Scope(r) \notin keys
           \/ label[r] = "register" /\ to = "consume"
           \/ label[r] = "invited" /\ to = "insert"
           \/ label[r] \in {"create", "mint"} /\ to = "token"
           \/ label[r] = "token" /\ to = "commit"
    PROVE  AccountInv'
<1> USE DEF AccountInv, A!Moves
<1>0. Nobody \notin Request /\ Nobody \notin Account /\ Nobody \notin Challenge /\ "yes" \notin Request /\ "yes" # Nobody
  BY DEF A!AccountAssumption
<1>k. label[r] = "key" => to \in Operation
  BY DEF AccountTypes, JobRow, JobFits, Operation
<1>1. AccountTypes'
  BY <1>k DEF AccountTypes, A!TypeOK, Operation
<1>2. JobFits'
  BY <1>k DEF AccountTypes, A!TypeOK, JobRow, JobFits, Operation
<1>3. WritersAreAtWork'
  BY <1>0, <1>k DEF AccountTypes, A!TypeOK, JobRow, JobFits, Operation, WritersAreAtWork
<1>4. RowsFit'
  BY <1>k DEF AccountTypes, A!TypeOK, RowsFit, WritersAreAtWork
<1>5. ChallengesAreHeld'
  <2>1. \A q \in Request : (label'[q] \in {"invited", "insert"}) = (label[q] \in {"invited", "insert"})
                            /\ (label'[q] = "commit" => label[q] \in {"commit", "token"})
                            /\ (label[q] = "commit" => label'[q] = "commit")
    BY <1>k DEF AccountTypes, A!TypeOK, Operation
  <2> QED
    BY <2>1 DEF ChallengesAreHeld
<1>6. ChallengesDiffer' /\ AddressesDiffer'
  BY DEF ChallengesDiffer, AddressesDiffer
<1>8. ScopesAreTaken'
  BY DEF AccountTypes, A!TypeOK, ScopesAreTaken, A!Scope, A!KeyFree
<1>9. SecretsArePaid'
  BY DEF SecretsArePaid
<1> QED
  BY <1>1, <1>2, <1>3, <1>4, <1>5, <1>6, <1>8, <1>9

\* A request that ends before it wrote anything, or with nothing but its key.
LEMMA EndsKeep ==
    ASSUME A!AccountAssumption, AccountInv, NEW r \in Request, A!Ends(r),
           UNCHANGED <<consumed, account, own, minted, producer>>,
           \/ label[r] = "key" /\ UNCHANGED keys
           \/ label[r] \in {"mint", "rotate"} /\ keys' = keys \cup {A!Scope(r)}
    PROVE  AccountInv'
<1> USE DEF AccountInv, A!Ends
<1>0. Nobody \notin Request /\ Nobody \notin Account /\ Nobody \notin Challenge /\ "yes" \notin Request /\ "yes" # Nobody
  BY DEF A!AccountAssumption
<1>k. IsFiniteSet(keys') /\ keys \subseteq keys'
  BY FS_AddElement DEF AccountTypes
<1>s. label[r] \in {"mint", "rotate"} =>
        A!Scope(r) \in [op : Operation, for : Account \cup {Nobody}, key : Key]
  BY DEF AccountTypes, JobRow, JobFits, Operation, A!Scope
<1>1. AccountTypes'
  BY <1>k, <1>s DEF AccountTypes, A!TypeOK, JobRow, Operation, A!NoJob
<1>2. JobFits'
  BY DEF AccountTypes, A!TypeOK, JobRow, JobFits, JobRow, Operation, A!NoJob
<1>3. WritersAreAtWork'
  BY <1>0 DEF AccountTypes, A!TypeOK, JobRow, JobFits, Operation, WritersAreAtWork, A!NoJob
<1>4. RowsFit'
  BY DEF AccountTypes, A!TypeOK, RowsFit
<1>5. ChallengesAreHeld'
  BY <1>0 DEF AccountTypes, A!TypeOK, ChallengesAreHeld
<1>6. ChallengesDiffer' /\ AddressesDiffer'
  BY DEF ChallengesDiffer, AddressesDiffer
<1>8. ScopesAreTaken'
  BY DEF AccountTypes, A!TypeOK, ScopesAreTaken, A!Scope
<1>9. SecretsArePaid'
  BY <1>k, MoreKeysPay DEF AccountTypes, SecretsArePaid
<1> QED
  BY <1>1, <1>2, <1>3, <1>4, <1>5, <1>6, <1>8, <1>9

-----------------------------------------------------------------------------
(* Steps that write.                                                       *)

\* A request that enters holds nothing but the key it asks for.
LEMMA AsksKeeps ==
    ASSUME A!AccountAssumption, AccountInv, NEW r \in Request,
           NEW op \in Operation, NEW a \in Account \cup {Nobody}, NEW k \in Key,
           NEW c \in Challenge \cup {Nobody}, NEW e \in Email \cup {NoEmail},
           op = "register" => c \in Challenge,
           op = "direct" => c = Nobody,
           op \in {"register", "direct", "email"} => e \in Email,
           op \in {"email", "create", "mint"} => a \in Account,
           A!Asks(r, op, a, k, c, e)
    PROVE  AccountInv'
<1> USE DEF AccountInv
<1>0. Nobody \notin Request /\ Nobody \notin Account /\ Nobody \notin Challenge /\ "yes" \notin Request /\ "yes" # Nobody
  BY DEF A!AccountAssumption
<1>u. label[r] = "idle" /\ UNCHANGED <<keys, consumed, account, own, minted, producer>>
  BY DEF A!Asks, A!members, A!tokens
<1>a. CASE UNCHANGED <<label, job>>
  BY <1>a, <1>u DEF AccountTypes, A!TypeOK, JobFits, WritersAreAtWork, RowsFit, ChallengesAreHeld,
                    ChallengesDiffer, AddressesDiffer, ScopesAreTaken, A!Scope, SecretsArePaid
<1>b. CASE ~UNCHANGED <<label, job>>
  <2> DEFINE scope == [op |-> op, for |-> a, key |-> k]
             entry == [op |-> op, for |-> a, key |-> k, challenge |-> c, account |-> a, email |-> e]
  <2>1. /\ scope \notin keys
        /\ label' = [label EXCEPT ![r] = IF A!KeyFree(r, scope) THEN op ELSE "key"]
        /\ job' = [job EXCEPT ![r] = entry]
    BY <1>b DEF A!Asks
  <2>2. /\ job'[r] = entry
        /\ \A q \in Request \ {r} : job'[q] = job[q] /\ label'[q] = label[q]
        /\ label'[r] = op \/ label'[r] = "key"
        /\ label'[r] \in Operation \cup {"key"}
        /\ label'[r] # "key" => A!KeyFree(r, scope)
    BY <2>1 DEF AccountTypes, A!TypeOK
  <2>3. /\ job'[r].op = op /\ job'[r].key = k /\ job'[r].challenge = c /\ job'[r].account = a
        /\ job'[r].email = e /\ A!Scope(r)' = scope
    BY <2>2 DEF A!Scope
  <2> HIDE DEF entry
  <2>4. AccountTypes'
    <3>1. job' \in [Request -> JobRow]
      BY <2>1 DEF AccountTypes, entry, JobRow
    <3>2. label' \in [Request -> {"idle", "key", "register", "consume", "invited", "insert", "email", "index",
                              "create", "mint", "token", "direct", "producer", "rotate", "commit"}]
      BY <2>1 DEF AccountTypes, A!TypeOK, Operation
    <3> QED
      BY <3>1, <3>2, <1>u DEF AccountTypes, A!TypeOK
  <2>5. JobFits'
    BY <2>2, <2>3 DEF JobFits, Operation
  <2>6. WritersAreAtWork'
    <3>1. \A b \in Account : account[b].owner # r
      BY <1>u DEF WritersAreAtWork
    <3> QED
      BY <3>1, <1>u, <2>2, <2>3 DEF WritersAreAtWork, JobFits, Operation
  <2>7. RowsFit'
    BY <1>u, <2>2 DEF RowsFit, Operation
  <2>8. ChallengesAreHeld'
    <3>1. \A d \in Challenge : consumed[d] # r
      BY <1>u DEF ChallengesAreHeld
    <3> QED
      BY <3>1, <1>u, <2>2, <2>3 DEF ChallengesAreHeld, Operation
  <2>9. ChallengesDiffer' /\ AddressesDiffer'
    BY <1>u DEF ChallengesDiffer, AddressesDiffer
  <2>10. ScopesAreTaken'
    <3>1. \A q \in Request \ {r} : A!Scope(q)' = A!Scope(q)
      BY <2>2 DEF A!Scope
    <3> QED
      BY <3>1, <1>u, <2>1, <2>2, <2>3 DEF ScopesAreTaken, A!KeyFree
  <2>11. SecretsArePaid'
    BY <1>u DEF SecretsArePaid
  <2> QED
    BY <2>4, <2>5, <2>6, <2>7, <2>8, <2>9, <2>10, <2>11
<1> QED
  BY <1>a, <1>b

\* A challenge that is not consumed is held by the request that consumes it.
LEMMA ConsumeKeeps ==
    ASSUME A!AccountAssumption, AccountInv, NEW r \in Request, A!Consume(r)
    PROVE  AccountInv'
<1> USE DEF AccountInv
<1>0. Nobody \notin Request /\ Nobody \notin Account /\ Nobody \notin Challenge /\ "yes" \notin Request /\ "yes" # Nobody
  BY DEF A!AccountAssumption
<1>1. CASE A!Fails(r)
  BY <1>1, FailsKeeps DEF A!Consume
<1>2. CASE ~A!Fails(r)
  <2> DEFINE c == job[r].challenge
  <2>1. /\ label[r] = "consume" /\ c \in Challenge /\ consumed[c] = Nobody
        /\ consumed' = [consumed EXCEPT ![c] = r]
        /\ label' = [label EXCEPT ![r] = "invited"]
        /\ UNCHANGED <<keys, account, own, minted, producer, job>>
    BY <1>2 DEF A!Consume, A!Unused, A!Moves, A!tokens, JobFits, AccountTypes, A!TypeOK
  <2>2. /\ label'[r] = "invited" /\ \A q \in Request \ {r} : label'[q] = label[q]
        /\ consumed'[c] = r /\ \A d \in Challenge \ {c} : consumed'[d] = consumed[d]
    BY <2>1 DEF AccountTypes, A!TypeOK
  <2>3. AccountTypes'
    BY <2>1 DEF AccountTypes, A!TypeOK
  <2>4. JobFits'
    BY <2>1, <2>2 DEF JobFits
  <2>5. WritersAreAtWork'
    BY <2>1, <2>2 DEF WritersAreAtWork
  <2>6. RowsFit'
    BY <2>1, <2>2 DEF RowsFit
  <2>7. ChallengesAreHeld'
    <3>1. \A d \in Challenge : consumed[d] # r
      BY <2>1 DEF ChallengesAreHeld
    <3>2. \A a \in Account : account[a].by \in Challenge \cup {Nobody}
      BY DEF AccountTypes, AccountRow
    <3>3. \A a \in Account : account[a].by # c
      BY <2>1, <1>0 DEF ChallengesAreHeld, RowsFit
    <3>4. \A q \in Request : label[q] \in {"invited", "insert"} => job[q].challenge # c /\ job[q].challenge \in Challenge
      BY <2>1, <1>0 DEF ChallengesAreHeld, JobFits
    <3> QED
      BY <3>1, <3>2, <3>3, <3>4, <2>1, <2>2, <1>0 DEF ChallengesAreHeld
  <2>8. ChallengesDiffer' /\ AddressesDiffer' /\ SecretsArePaid'
    BY <2>1 DEF ChallengesDiffer, AddressesDiffer, SecretsArePaid
  <2>9. ScopesAreTaken'
    <3>1. \A q \in Request : A!Scope(q)' = A!Scope(q)
      BY <2>1 DEF A!Scope
    <3> QED
      BY <3>1, <2>1, <2>2 DEF ScopesAreTaken
  <2> QED
    BY <2>3, <2>4, <2>5, <2>6, <2>7, <2>8, <2>9
<1> QED
  BY <1>1, <1>2

\* A new account has a challenge nobody has an account for, and an address nobody has.
LEMMA NewMemberKeeps ==
    ASSUME A!AccountAssumption, AccountInv, NEW r \in Request, label[r] \in {"insert", "direct"},
           A!NewMember(r)
    PROVE  AccountInv'
<1> USE DEF AccountInv
<1>0. Nobody \notin Request /\ Nobody \notin Account /\ Nobody \notin Challenge /\ "yes" \notin Request /\ "yes" # Nobody
      /\ NoEmail \notin Email
  BY DEF A!AccountAssumption
<1>1. CASE A!Fails(r)
  BY <1>1, FailsKeeps
<1>2. CASE ~A!Fails(r)
  <2> DEFINE c == job[r].challenge
             e == job[r].email
             row == [state |-> "new", email |-> e, by |-> c, owner |-> r, next |-> NoEmail]
  <2>1. PICK a \in Account :
              /\ account[a] = A!NoAccount
              /\ account' = [account EXCEPT ![a] = row]
              /\ job' = [job EXCEPT ![r] = [@ EXCEPT !.account = a, !.email = NoEmail, !.challenge = Nobody]]
    BY <1>2 DEF A!NewMember
  <2>2. /\ ~A!Contested(r, e) /\ ~A!Taken(r, e)
        /\ label' = [label EXCEPT ![r] = "commit"]
        /\ UNCHANGED <<keys, consumed, own, minted, producer>>
    BY <1>2 DEF A!NewMember, A!tokens
  <2>3. /\ e \in Email /\ c \in Challenge \cup {Nobody}
        /\ \/ job[r].op = "register" /\ c \in Challenge /\ label[r] = "insert" /\ consumed[c] = r
           \/ job[r].op = "direct" /\ c = Nobody /\ label[r] = "direct"
    BY DEF JobFits, ChallengesAreHeld
  <2>4. /\ row \in AccountRow
        /\ account'[a] = row /\ \A b \in Account \ {a} : account'[b] = account[b]
    BY <2>1, <2>3 DEF AccountTypes, AccountRow
  <2>5. /\ account'[a].state = "new" /\ account'[a].email = e /\ account'[a].by = c
        /\ account'[a].owner = r /\ account'[a].next = NoEmail
        /\ account[a].state = "none" /\ account[a].by = Nobody /\ account[a].owner = Nobody
        /\ account[a].email = NoEmail
    BY <2>4, <2>1 DEF A!NoAccount
  <2>6. /\ label'[r] = "commit"
        /\ \A q \in Request \ {r} : label'[q] = label[q] /\ job'[q] = job[q]
        /\ job'[r].account = a /\ job'[r].op = job[r].op /\ job'[r].key = job[r].key
        /\ job'[r].for = job[r].for /\ job'[r].challenge = Nobody
        /\ job' \in [Request -> JobRow]
    <3>1. ASSUME NEW j \in JobRow
          PROVE  LET k == [j EXCEPT !.account = a, !.email = NoEmail, !.challenge = Nobody]
                 IN  /\ k \in JobRow
                     /\ k.account = a /\ k.op = j.op /\ k.key = j.key /\ k.for = j.for /\ k.challenge = Nobody
      BY DEF JobRow
    <3>2. job \in [Request -> JobRow] /\ job[r] \in JobRow
      BY DEF AccountTypes
    <3>3. label'[r] = "commit" /\ \A q \in Request \ {r} : label'[q] = label[q] /\ job'[q] = job[q]
      BY <2>1, <2>2, <3>2 DEF AccountTypes, A!TypeOK
    <3> QED
      BY <2>1, <3>1, <3>2, <3>3
  <2> HIDE DEF row
  <2>7. \A b \in Account : account[b].owner # r
    BY <2>3 DEF WritersAreAtWork
  <2>8. AccountTypes'
    <3>1. account' \in [Account -> AccountRow]
      BY <2>1, <2>4 DEF AccountTypes
    <3>2. label' \in [Request -> {"idle", "key", "register", "consume", "invited", "insert", "email", "index",
                              "create", "mint", "token", "direct", "producer", "rotate", "commit"}]
      BY <2>2 DEF AccountTypes, A!TypeOK
    <3> QED
      BY <3>1, <3>2, <2>2, <2>6 DEF AccountTypes, A!TypeOK, AccountRow
  <2>9. JobFits'
    BY <2>3, <2>6 DEF JobFits
  <2>10. WritersAreAtWork'
    <3>1. \A b \in Account, q \in Request : account'[b].owner = q =>
         /\ job'[q].account = b
         /\ account'[b].state = "new" => label'[q] = "commit" /\ job'[q].op \in {"register", "direct"}
         /\ account'[b].state # "new" => account'[b].state = "live" /\ job'[q].op = "email"
                                        /\ label'[q] \in {"index", "commit"}
      BY <2>3, <2>4, <2>5, <2>6, <2>7 DEF WritersAreAtWork
    <3>2. \A q \in Request \ {r} :
         /\ label[q] = "index" => job[q].account # a
         /\ label[q] = "commit" /\ job[q].op \in {"register", "direct", "email"} => job[q].account # a
      BY <1>0, <2>5 DEF WritersAreAtWork
    <3>3. \A q \in Request : label[q] = "index" => job[q].account \in Account
      BY DEF JobFits
    <3> QED
      BY <3>1, <3>2, <3>3, <2>4, <2>5, <2>6 DEF WritersAreAtWork
  <2>11. RowsFit'
    BY <2>3, <2>4, <2>5, <2>6, <2>7, <1>0 DEF RowsFit
  <2>12. \A b \in Account : account[b].by = c => c = Nobody
    BY <2>3, <2>7, <1>0 DEF ChallengesAreHeld
  <2>13. ChallengesAreHeld'
    <3>1. \A q \in Request : label'[q] \in {"invited", "insert"} => consumed'[job'[q].challenge] = q
      BY <2>2, <2>6 DEF ChallengesAreHeld
    <3>2. \A d \in Challenge, q \in Request \ {r} : consumed[d] = q /\ label[q] = "commit" => job[q].account # a
      BY <2>5, <1>0 DEF ChallengesAreHeld
    <3>3. \A d \in Challenge, q \in Request : consumed'[d] = q =>
         /\ label'[q] \in {"invited", "insert"} => job'[q].challenge = d
         /\ label'[q] \notin {"invited", "insert"} =>
              /\ label'[q] = "commit" /\ job'[q].account \in Account
              /\ account'[job'[q].account].by = d /\ account'[job'[q].account].state = "new"
      BY <3>2, <2>2, <2>3, <2>4, <2>5, <2>6 DEF ChallengesAreHeld
    <3>4. \A b \in Account : account'[b].by # Nobody =>
         consumed'[account'[b].by] = IF account'[b].state = "new" THEN account'[b].owner ELSE "yes"
      BY <2>2, <2>3, <2>4, <2>5 DEF ChallengesAreHeld
    <3>5. \A d \in Challenge : consumed'[d] = "yes" =>
         \E b \in Account : account'[b].by = d /\ account'[b].state \in {"live", "gone"}
      <4> SUFFICES ASSUME NEW d \in Challenge, consumed[d] = "yes"
                   PROVE  \E b \in Account : account'[b].by = d /\ account'[b].state \in {"live", "gone"}
        BY <2>2
      <4>1. PICK b \in Account : account[b].by = d /\ account[b].state \in {"live", "gone"}
        BY DEF ChallengesAreHeld
      <4> QED
        BY <4>1, <2>4, <2>5
    <3> QED
      BY <3>1, <3>3, <3>4, <3>5 DEF ChallengesAreHeld
  <2>14. ChallengesDiffer'
    BY <2>4, <2>5, <2>12 DEF ChallengesDiffer
  <2>15. AddressesDiffer'
    <3>1. \A b \in Account \ {a} : e # account[b].email /\ e # account[b].next
      <4> SUFFICES ASSUME NEW b \in Account \ {a}
                   PROVE  e # account[b].email /\ e # account[b].next
        OBVIOUS
      <4>1. CASE account[b].owner # Nobody
        BY <4>1, <2>2, <2>7 DEF A!Contested, AccountTypes, AccountRow
      <4>2. CASE account[b].owner = Nobody
        <5>1. account[b].next = NoEmail /\ account[b].state # "new"
          BY <4>2 DEF RowsFit
        <5>2. CASE account[b].state = "live"
          BY <5>1, <5>2, <4>2, <2>2, <2>3, <1>0 DEF A!Taken, A!Live
        <5>3. CASE account[b].state # "live"
          BY <5>1, <5>3, <2>3, <1>0 DEF RowsFit, AccountTypes, AccountRow
        <5> QED
          BY <5>2, <5>3
      <4> QED
        BY <4>1, <4>2
    <3> QED
      BY <3>1, <2>4, <2>5 DEF AddressesDiffer
  <2>16. ScopesAreTaken'
    <3>1. \A q \in Request : A!Scope(q)' = A!Scope(q)
      BY <2>6 DEF A!Scope
    <3> QED
      BY <3>1, <2>2, <2>6, <2>3 DEF ScopesAreTaken
  <2>17. SecretsArePaid'
    BY <2>2 DEF SecretsArePaid
  <2> QED
    BY <2>8, <2>9, <2>10, <2>11, <2>13, <2>14, <2>15, <2>16, <2>17
<1> QED
  BY <1>1, <1>2

\* The row of a member who moves is locked...
LEMMA ClaimRowKeeps ==
    ASSUME A!AccountAssumption, AccountInv, NEW r \in Request, A!ClaimRow(r)
    PROVE  AccountInv'
<1> USE DEF AccountInv
<1>0. Nobody \notin Request /\ Nobody \notin Account /\ Nobody \notin Challenge /\ "yes" \notin Request /\ "yes" # Nobody
  BY DEF A!AccountAssumption
<1>1. CASE A!Fails(r)
  BY <1>1, FailsKeeps DEF A!ClaimRow
<1>2. CASE ~A!Fails(r)
  <2> DEFINE a == job[r].account
  <2>1. /\ label[r] = "email" /\ a \in Account /\ account[a].owner = Nobody /\ account[a].state = "live"
        /\ job[r].op = "email"
        /\ account' = [account EXCEPT ![a].owner = r]
        /\ label' = [label EXCEPT ![r] = "index"]
        /\ UNCHANGED <<keys, consumed, own, minted, producer, job>>
    BY <1>2 DEF A!ClaimRow, A!InFlight, A!Live, A!Moves, A!tokens, JobFits
  <2>2. /\ label'[r] = "index" /\ \A q \in Request \ {r} : label'[q] = label[q]
        /\ account' \in [Account -> AccountRow]
        /\ \A b \in Account \ {a} : account'[b] = account[b]
        /\ account'[a].owner = r /\ account'[a].state = "live" /\ account'[a].email = account[a].email
        /\ account'[a].by = account[a].by /\ account'[a].next = account[a].next
    BY <2>1 DEF AccountTypes, A!TypeOK, AccountRow
  <2>3. AccountTypes'
    BY <2>1, <2>2 DEF AccountTypes, A!TypeOK, AccountRow
  <2>4. JobFits'
    BY <2>1, <2>2 DEF JobFits
  <2>5. \A b \in Account : account[b].owner # r
    BY <2>1 DEF WritersAreAtWork
  <2>6. WritersAreAtWork'
    <3>1. \A q \in Request \ {r} :
         /\ label[q] = "index" => job[q].account \in Account /\ job[q].account # a
         /\ label[q] = "commit" /\ job[q].op \in {"register", "direct", "email"} => job[q].account # a
      BY <1>0, <2>1 DEF WritersAreAtWork, JobFits
    <3> QED
      BY <3>1, <2>1, <2>2, <2>5 DEF WritersAreAtWork
  <2>7. RowsFit'
    <3>1. \A b \in Account : b # a =>
        /\ account'[b].state = "none" => account'[b] = A!NoAccount
        /\ account'[b].state = "new" => account'[b].owner # Nobody
        /\ IF account'[b].state \in {"new", "live"} THEN account'[b].email \in Email
                                               ELSE account'[b].email = NoEmail
        /\ account'[b].owner = Nobody \/ account'[b].state # "live" => account'[b].next = NoEmail
        /\ \A q \in Request : account'[b].owner = q /\ account'[b].state = "live" /\ label'[q] = "commit" =>
              account'[b].next \in Email
      BY <2>2, <2>5 DEF RowsFit
    <3>2. account[a].email \in Email
      BY <2>1 DEF RowsFit
    <3> QED
      BY <3>1, <3>2, <2>2, <1>0, <2>1 DEF RowsFit
  <2>8. ChallengesAreHeld'
    <3>1. \A q \in Request : label[q] \in {"invited", "insert"} <=> label'[q] \in {"invited", "insert"}
      BY <2>1, <2>2
    <3>2. \A d \in Challenge : consumed[d] # r
      BY <2>1 DEF ChallengesAreHeld
    <3>3. \A b \in Account : account'[b].by = account[b].by /\ account'[b].state = account[b].state
                             /\ (account[b].state = "new" => account'[b].owner = account[b].owner)
      BY <2>1, <2>2
    <3> QED
      BY <3>1, <3>2, <3>3, <2>1, <2>2 DEF ChallengesAreHeld
  <2>9. ChallengesDiffer' /\ AddressesDiffer' /\ SecretsArePaid'
    <3>1. \A b \in Account : account'[b].by = account[b].by /\ account'[b].email = account[b].email
                             /\ account'[b].next = account[b].next
      BY <2>1, <2>2
    <3> QED
      BY <3>1, <2>1 DEF ChallengesDiffer, AddressesDiffer, SecretsArePaid
  <2>10. ScopesAreTaken'
    <3>1. \A q \in Request : A!Scope(q)' = A!Scope(q)
      BY <2>1 DEF A!Scope
    <3> QED
      BY <3>1, <2>1, <2>2 DEF ScopesAreTaken
  <2> QED
    BY <2>3, <2>4, <2>6, <2>7, <2>8, <2>9, <2>10
<1> QED
  BY <1>1, <1>2

\* ...and then has an address nobody has or is about to have.
LEMMA EnterEmailKeeps ==
    ASSUME A!AccountAssumption, AccountInv, NEW r \in Request, A!EnterEmail(r)
    PROVE  AccountInv'
<1> USE DEF AccountInv
<1>0. Nobody \notin Request /\ Nobody \notin Account /\ Nobody \notin Challenge /\ "yes" \notin Request /\ "yes" # Nobody
      /\ NoEmail \notin Email
  BY DEF A!AccountAssumption
<1>1. CASE A!Fails(r)
  BY <1>1, FailsKeeps DEF A!EnterEmail
<1>2. CASE ~A!Fails(r)
  <2> DEFINE a == job[r].account
             e == job[r].email
  <2>1. /\ label[r] = "index" /\ a \in Account /\ account[a].owner = r /\ account[a].state = "live"
        /\ job[r].op = "email" /\ e \in Email
        /\ ~A!Contested(r, e) /\ ~A!Taken(r, e)
        /\ account' = [account EXCEPT ![a].next = e]
        /\ label' = [label EXCEPT ![r] = "commit"]
        /\ job' = [job EXCEPT ![r].email = NoEmail]
        /\ UNCHANGED <<keys, consumed, own, minted, producer>>
    BY <1>2 DEF A!EnterEmail, A!tokens, JobFits, WritersAreAtWork
  <2>2. /\ label'[r] = "commit" /\ \A q \in Request \ {r} : label'[q] = label[q] /\ job'[q] = job[q]
        /\ account' \in [Account -> AccountRow]
        /\ \A b \in Account \ {a} : account'[b] = account[b]
        /\ account'[a].owner = r /\ account'[a].state = "live" /\ account'[a].email = account[a].email
        /\ account'[a].by = account[a].by /\ account'[a].next = e
    <3>1. label'[r] = "commit" /\ \A q \in Request \ {r} : label'[q] = label[q] /\ job'[q] = job[q]
      BY <2>1 DEF AccountTypes, A!TypeOK
    <3> QED
      BY <3>1, <2>1 DEF AccountTypes, AccountRow
  <2>3. /\ job' \in [Request -> JobRow]
        /\ \A q \in Request : job'[q].account = job[q].account /\ job'[q].op = job[q].op /\ job'[q].key = job[q].key
                              /\ job'[q].for = job[q].for /\ job'[q].challenge = job[q].challenge
    BY <2>1 DEF AccountTypes, JobRow
  <2>4. AccountTypes'
    BY <2>1, <2>2, <2>3 DEF AccountTypes, A!TypeOK, AccountRow
  <2>5. JobFits'
    BY <2>1, <2>2, <2>3 DEF JobFits
  <2>6. \A b \in Account : account[b].owner = r => b = a
    BY DEF WritersAreAtWork
  <2>7. WritersAreAtWork'
    <3>1. \A q \in Request \ {r} :
         /\ label[q] = "index" => job[q].account \in Account /\ job[q].account # a
         /\ label[q] = "commit" /\ job[q].op \in {"register", "direct", "email"} => job[q].account # a
      BY <1>0, <2>1 DEF WritersAreAtWork, JobFits
    <3> QED
      BY <3>1, <2>1, <2>2, <2>3, <2>6 DEF WritersAreAtWork
  <2>8. RowsFit'
    <3>1. \A b \in Account : b # a =>
        /\ account'[b].state = "none" => account'[b] = A!NoAccount
        /\ account'[b].state = "new" => account'[b].owner # Nobody
        /\ IF account'[b].state \in {"new", "live"} THEN account'[b].email \in Email
                                               ELSE account'[b].email = NoEmail
        /\ account'[b].owner = Nobody \/ account'[b].state # "live" => account'[b].next = NoEmail
        /\ \A q \in Request : account'[b].owner = q /\ account'[b].state = "live" /\ label'[q] = "commit" =>
              account'[b].next \in Email
      BY <2>2, <2>6 DEF RowsFit
    <3>2. account[a].email \in Email
      BY <2>1 DEF RowsFit
    <3> QED
      BY <3>1, <3>2, <2>2, <1>0, <2>1 DEF RowsFit
  <2>9. ChallengesAreHeld'
    <3>1. \A q \in Request : label[q] \in {"invited", "insert"} <=> label'[q] \in {"invited", "insert"}
      BY <2>1, <2>2
    <3>2. \A d \in Challenge : consumed[d] # r
      BY <2>1 DEF ChallengesAreHeld
    <3>3. \A b \in Account : account'[b].by = account[b].by /\ account'[b].state = account[b].state
                             /\ account'[b].owner = account[b].owner
      BY <2>1, <2>2
    <3> QED
      BY <3>1, <3>2, <3>3, <2>1, <2>2, <2>3 DEF ChallengesAreHeld
  <2>10. ChallengesDiffer' /\ SecretsArePaid'
    <3>1. \A b \in Account : account'[b].by = account[b].by
      BY <2>1, <2>2
    <3> QED
      BY <3>1, <2>1 DEF ChallengesDiffer, SecretsArePaid
  <2>11. AddressesDiffer'
    <3>1. \A b \in Account \ {a} : e # account[b].email /\ e # account[b].next
      <4> SUFFICES ASSUME NEW b \in Account \ {a}
                   PROVE  e # account[b].email /\ e # account[b].next
        OBVIOUS
      <4>1. CASE account[b].owner # Nobody
        BY <4>1, <2>1, <2>6 DEF A!Contested, AccountTypes, AccountRow
      <4>2. CASE account[b].owner = Nobody
        <5>1. account[b].next = NoEmail /\ account[b].state # "new"
          BY <4>2 DEF RowsFit
        <5>2. CASE account[b].state = "live"
          BY <5>1, <5>2, <4>2, <2>1, <1>0 DEF A!Taken, A!Live
        <5>3. CASE account[b].state # "live"
          BY <5>1, <5>3, <2>1, <1>0 DEF RowsFit, AccountTypes, AccountRow
        <5> QED
          BY <5>2, <5>3
      <4> QED
        BY <4>1, <4>2
    <3> QED
      BY <3>1, <2>1, <2>2 DEF AddressesDiffer
  <2>12. ScopesAreTaken'
    <3>1. \A q \in Request : A!Scope(q)' = A!Scope(q)
      BY <2>3 DEF A!Scope
    <3> QED
      BY <3>1, <2>1, <2>2 DEF ScopesAreTaken
  <2> QED
    BY <2>4, <2>5, <2>7, <2>8, <2>9, <2>10, <2>11, <2>12
<1> QED
  BY <1>1, <1>2

\* The row of the producer is locked.
LEMMA ProducerKeeps ==
    ASSUME A!AccountAssumption, AccountInv, NEW r \in Request, label[r] \in {"producer", "rotate"},
           A!Moves(r, "commit"), producer' = [producer EXCEPT !.owner = r],
           UNCHANGED <<keys, consumed, account, own, minted>>
    PROVE  AccountInv'
<1> USE DEF AccountInv, A!Moves
<1>0. Nobody \notin Request
  BY DEF A!AccountAssumption
<1>1. producer' \in [version : Nat, owner : Request \cup {Nobody}] /\ producer'.version = producer.version
  BY DEF AccountTypes
<1>2. AccountTypes'
  BY <1>1 DEF AccountTypes, A!TypeOK
<1>3. job[r].op \in {"producer", "rotate"} /\ label'[r] = "commit"
      /\ \A q \in Request \ {r} : label'[q] = label[q]
  BY DEF JobFits, AccountTypes, A!TypeOK
<1>4. JobFits'
  BY <1>3 DEF JobFits
<1>5. WritersAreAtWork'
  BY <1>3, <1>0 DEF JobFits, WritersAreAtWork
<1>6. RowsFit'
  BY <1>3 DEF RowsFit, WritersAreAtWork
<1>7. ChallengesAreHeld'
  BY <1>3, <1>0 DEF ChallengesAreHeld
<1>8. ChallengesDiffer' /\ AddressesDiffer' /\ SecretsArePaid'
  BY <1>1 DEF ChallengesDiffer, AddressesDiffer, SecretsArePaid
<1>9. ScopesAreTaken'
  BY <1>3 DEF ScopesAreTaken, A!Scope
<1> QED
  BY <1>2, <1>4, <1>5, <1>6, <1>7, <1>8, <1>9

\* The key, and all the transaction wrote.
LEMMA CommitKeeps ==
    ASSUME A!AccountAssumption, AccountInv, NEW r \in Request, A!Commit(r)
    PROVE  AccountInv'
<1> USE DEF AccountInv
<1>0. Nobody \notin Request /\ Nobody \notin Account /\ Nobody \notin Challenge /\ "yes" \notin Request /\ "yes" # Nobody
      /\ NoEmail \notin Email /\ MaxMinted \in Nat
  BY DEF A!AccountAssumption
<1> DEFINE a == job[r].account
           op == job[r].op
<1>1. /\ label[r] = "commit" /\ op \in Operation /\ job[r].key \in Key
      /\ op = "mint" => minted[a] < MaxMinted
      /\ keys' = keys \cup {A!Scope(r)}
      /\ consumed' = [c \in Challenge |-> IF consumed[c] = r THEN "yes" ELSE consumed[c]]
      /\ label' = [label EXCEPT ![r] = "idle"] /\ job' = [job EXCEPT ![r] = A!NoJob]
  BY DEF A!Commit, A!Ends, JobFits, AccountTypes, JobRow
<1>2. /\ label'[r] = "idle" /\ job'[r] = A!NoJob
      /\ \A q \in Request \ {r} : label'[q] = label[q] /\ job'[q] = job[q]
  BY <1>1 DEF AccountTypes, A!TypeOK
<1>3. op \in {"register", "direct", "email", "create", "mint"} => a \in Account
  BY <1>1 DEF JobFits, WritersAreAtWork
<1>4. \A b \in Account : account[b].owner = r => b = a /\ op \in {"register", "direct", "email"}
  BY DEF WritersAreAtWork
<1>5. op \in {"register", "direct", "email"} => account[a].owner = r
  BY <1>1 DEF WritersAreAtWork
<1>6. /\ op \in {"register", "direct"} => account[a].state = "new"
      /\ op = "email" => account[a].state = "live" /\ account[a].next \in Email
  BY <1>1, <1>3, <1>5 DEF WritersAreAtWork, RowsFit
<1>7. /\ account' \in [Account -> AccountRow]
      /\ \A b \in Account : account[b].owner # r => account'[b] = account[b]
      /\ \A b \in Account : account[b].owner = r =>
           /\ account'[b].state = "live" /\ account'[b].owner = Nobody /\ account'[b].next = NoEmail
           /\ account'[b].by = account[b].by
           /\ account'[b].email \in {account[b].email, account[b].next} \ {NoEmail}
           /\ account'[b].email \in Email
  <2>1. CASE op \in {"register", "direct"}
    <3>1. account' = [account EXCEPT ![a].state = "live", ![a].owner = Nobody]
      BY <2>1 DEF A!Commit
    <3>3. account \in [Account -> AccountRow] /\ a \in Account
      BY <2>1, <1>3 DEF AccountTypes
    <3>4. account[a].next = NoEmail /\ account[a].email \in Email
      BY <2>1, <3>3, <1>6 DEF RowsFit
    <3>5. /\ account'[a] = [account[a] EXCEPT !.state = "live", !.owner = Nobody]
          /\ \A b \in Account \ {a} : account'[b] = account[b]
      BY <3>1, <3>3
    <3>6. account'[a] \in AccountRow /\ account'[a].state = "live" /\ account'[a].owner = Nobody
          /\ account'[a].next = NoEmail /\ account'[a].by = account[a].by /\ account'[a].email = account[a].email
      <4> DEFINE row == account[a]
                 new == account'[a]
      <4>1. row \in AccountRow /\ new = [row EXCEPT !.state = "live", !.owner = Nobody]
        BY <3>3, <3>5
      <4>2. row.next = NoEmail /\ row.email \in Email
        BY <3>4
      <4> HIDE DEF row, new
      <4>3. new \in AccountRow /\ new.state = "live" /\ new.owner = Nobody
            /\ new.next = row.next /\ new.by = row.by /\ new.email = row.email
        BY <4>1 DEF AccountRow
      <4> QED
        BY <4>2, <4>3 DEF row, new
    <3>7. account' \in [Account -> AccountRow]
      BY <3>1, <3>3, <3>5, <3>6
    <3> QED
      BY <3>4, <3>5, <3>6, <3>7, <1>0, <1>4, <1>5, <2>1
  <2>2. CASE op = "email"
    <3>1. account' = [account EXCEPT ![a].email = account[a].next, ![a].next = NoEmail, ![a].owner = Nobody]
      BY <2>2 DEF A!Commit
    <3>3. account \in [Account -> AccountRow] /\ a \in Account
      BY <2>2, <1>3 DEF AccountTypes
    <3>5. /\ account'[a] = [account[a] EXCEPT !.email = account[a].next, !.next = NoEmail, !.owner = Nobody]
          /\ \A b \in Account \ {a} : account'[b] = account[b]
      BY <3>1, <3>3
    <3>6. account'[a] \in AccountRow /\ account'[a].state = "live" /\ account'[a].owner = Nobody
          /\ account'[a].next = NoEmail /\ account'[a].by = account[a].by /\ account'[a].email = account[a].next
      <4> DEFINE row == account[a]
                 new == account'[a]
      <4>1. row \in AccountRow /\ new = [row EXCEPT !.email = row.next, !.next = NoEmail, !.owner = Nobody]
        BY <3>3, <3>5
      <4>2. row.state = "live" /\ row.next \in Email
        BY <1>6, <2>2
      <4> HIDE DEF row, new
      <4>3. new \in AccountRow /\ new.state = row.state /\ new.owner = Nobody
            /\ new.next = NoEmail /\ new.by = row.by /\ new.email = row.next
        BY <4>1, <4>2 DEF AccountRow
      <4> QED
        BY <4>2, <4>3 DEF row, new
    <3>7. account' \in [Account -> AccountRow]
      BY <3>1, <3>3, <3>5, <3>6
    <3> QED
      BY <3>5, <3>6, <3>7, <1>0, <1>4, <1>5, <1>6, <2>2
  <2>3. CASE op \notin {"register", "direct", "email"}
    BY <2>3, <1>4 DEF A!Commit, AccountTypes
  <2> QED
    BY <2>1, <2>2, <2>3
<1>8. A!Scope(r) \in [op : Operation, for : Account \cup {Nobody}, key : Key]
      /\ A!Scope(r).op = op
  BY <1>1 DEF A!Scope, AccountTypes, JobRow
<1>9. own' \in [Account -> Nat] /\ minted' \in [Account -> 0..MaxMinted]
  <2>1. own' \in [Account -> Nat]
    BY <1>3 DEF A!Commit, AccountTypes, A!TypeOK
  <2>2. minted' \in [Account -> 0..MaxMinted]
    BY <1>0, <1>3, <1>1 DEF A!Commit, AccountTypes, A!TypeOK
  <2> QED
    BY <2>1, <2>2
<1>10. /\ producer' \in [version : Nat, owner : Request \cup {Nobody}]
       /\ producer'.version = IF op \in {"producer", "rotate"} THEN producer.version + 1 ELSE producer.version
  BY DEF A!Commit, AccountTypes
<1>11. AccountTypes'
  <2>1. IsFiniteSet(keys') /\ keys' \subseteq [op : Operation, for : Account \cup {Nobody}, key : Key]
    BY <1>1, <1>8, FS_AddElement DEF AccountTypes
  <2>2. job' \in [Request -> JobRow]
    BY <1>1 DEF AccountTypes, JobRow, A!NoJob
  <2>3. A!TypeOK'
    BY <2>1, <1>1, <1>7, <1>9, <1>10 DEF AccountTypes, A!TypeOK, AccountRow, Operation
  <2> QED
    BY <2>1, <2>2, <2>3, <1>7, <1>10 DEF AccountTypes
<1>12. JobFits'
  BY <1>2 DEF JobFits, A!NoJob
<1>13. WritersAreAtWork'
  <2>1. \A b \in Account, q \in Request : account'[b].owner = q =>
          q # r /\ account'[b] = account[b] /\ job'[q] = job[q] /\ label'[q] = label[q]
    BY <1>0, <1>2, <1>7
  <2>2. \A q \in Request : label'[q] \in {"index", "commit"} => q # r /\ job'[q] = job[q] /\ label'[q] = label[q]
    BY <1>2
  <2>3. \A q \in Request \ {r} : label[q] = "index" => job[q].account \in Account
    BY DEF JobFits
  <2> QED
    BY <1>7, <2>1, <2>2, <2>3 DEF WritersAreAtWork
<1>14. RowsFit'
  <2>1. \A b \in Account, q \in Request : account'[b].owner = q =>
          q # r /\ account'[b] = account[b] /\ label'[q] = label[q]
    BY <1>0, <1>2, <1>7
  <2> QED
    BY <2>1, <1>7 DEF RowsFit
<1>15. \A c \in Challenge : consumed[c] = r => a \in Account /\ account[a].by = c /\ account[a].state = "new"
                                               /\ account[a].owner = r
  BY <1>1, <1>0 DEF ChallengesAreHeld
<1>16. ChallengesAreHeld'
  <2>1. \A q \in Request : label'[q] \in {"invited", "insert"} => consumed'[job'[q].challenge] = q
    BY <1>1, <1>2 DEF ChallengesAreHeld, JobFits
  <2>2. \A c \in Challenge, q \in Request : consumed'[c] = q =>
         /\ label'[q] \in {"invited", "insert"} => job'[q].challenge = c
         /\ label'[q] \notin {"invited", "insert"} =>
              /\ label'[q] = "commit" /\ job'[q].account \in Account
              /\ account'[job'[q].account].by = c /\ account'[job'[q].account].state = "new"
    <3> SUFFICES ASSUME NEW c \in Challenge, NEW q \in Request, consumed'[c] = q
                 PROVE  /\ label'[q] \in {"invited", "insert"} => job'[q].challenge = c
                        /\ label'[q] \notin {"invited", "insert"} =>
                             /\ label'[q] = "commit" /\ job'[q].account \in Account
                             /\ account'[job'[q].account].by = c /\ account'[job'[q].account].state = "new"
      OBVIOUS
    <3>1. q # r /\ consumed[c] = q
      BY <1>0, <1>1
    <3>2. label[q] = "commit" => account[job[q].account].owner = q
      BY <3>1, <1>0 DEF ChallengesAreHeld
    <3> QED
      BY <3>1, <3>2, <1>2, <1>7 DEF ChallengesAreHeld
  <2>3. \A b \in Account : account'[b].by # Nobody =>
         consumed'[account'[b].by] = IF account'[b].state = "new" THEN account'[b].owner ELSE "yes"
    <3> SUFFICES ASSUME NEW b \in Account, account'[b].by # Nobody
                 PROVE  consumed'[account'[b].by] = IF account'[b].state = "new" THEN account'[b].owner ELSE "yes"
      OBVIOUS
    <3>1. account'[b].by = account[b].by /\ account[b].by \in Challenge
      BY <1>7 DEF AccountTypes, AccountRow
    <3>2. CASE account[b].owner = r
      BY <3>1, <3>2, <1>0, <1>1, <1>7 DEF ChallengesAreHeld
    <3>3. CASE account[b].owner # r
      BY <3>1, <3>3, <1>0, <1>1, <1>7 DEF ChallengesAreHeld
    <3> QED
      BY <3>2, <3>3
  <2>4. \A c \in Challenge : consumed'[c] = "yes" =>
         \E b \in Account : account'[b].by = c /\ account'[b].state \in {"live", "gone"}
    <3> SUFFICES ASSUME NEW c \in Challenge, consumed'[c] = "yes"
                 PROVE  \E b \in Account : account'[b].by = c /\ account'[b].state \in {"live", "gone"}
      OBVIOUS
    <3>1. CASE consumed[c] = r
      BY <3>1, <1>15, <1>7
    <3>2. CASE consumed[c] # r
      <4>1. PICK b \in Account : account[b].by = c /\ account[b].state \in {"live", "gone"}
        BY <3>2, <1>1 DEF ChallengesAreHeld
      <4> QED
        BY <4>1, <1>7
    <3> QED
      BY <3>1, <3>2
  <2> QED
    BY <2>1, <2>2, <2>3, <2>4 DEF ChallengesAreHeld
<1>17. ChallengesDiffer'
  BY <1>7 DEF ChallengesDiffer
<1>18. AddressesDiffer'
  <2>1. \A b \in Account : {account'[b].email, account'[b].next}
                             \subseteq {account[b].email, account[b].next, NoEmail}
    BY <1>7
  <2> QED
    BY <2>1 DEF AddressesDiffer
<1>19. ScopesAreTaken'
  <2>1. \A q \in Request \ {r} : A!Scope(q)' = A!Scope(q)
    BY <1>2 DEF A!Scope
  <2> QED
    BY <2>1, <1>1, <1>2 DEF ScopesAreTaken
<1>20. SecretsArePaid'
  <2> DEFINE S == {k \in keys : k.op \in {"producer", "rotate"}}
             T == {k \in keys' : k.op \in {"producer", "rotate"}}
  <2>1. IsFiniteSet(keys) /\ IsFiniteSet(keys') /\ keys \subseteq keys'
    BY <1>1, <1>11 DEF AccountTypes
  <2>2. CASE op \in {"producer", "rotate"}
    <3>1. T = S \cup {A!Scope(r)} /\ A!Scope(r) \notin S
      BY <2>2, <1>1, <1>8 DEF ScopesAreTaken
    <3>2. IsFiniteSet(S)
      BY <2>1, FS_Subset
    <3>3. Cardinality(T) = Cardinality(S) + 1 /\ Cardinality(S) \in Nat
      BY <3>1, <3>2, FS_AddElement, FS_CardinalityType
    <3> QED
      BY <3>3, <2>2, <1>10 DEF SecretsArePaid, AccountTypes
  <2>3. CASE op \notin {"producer", "rotate"}
    BY <2>1, <2>3, <1>10, MoreKeysPay DEF SecretsArePaid, AccountTypes
  <2> QED
    BY <2>2, <2>3
<1> QED
  BY <1>11, <1>12, <1>13, <1>14, <1>16, <1>17, <1>18, <1>19, <1>20

\* A token that goes changes nothing but a count.
LEMMA RevokeKeeps ==
    ASSUME A!AccountAssumption, AccountInv, NEW a \in Account, A!Revoke(a)
    PROVE  AccountInv'
<1> USE DEF AccountInv
<1>0. MaxMinted \in Nat
  BY DEF A!AccountAssumption
<1>1. UNCHANGED <<keys, consumed, account, producer, label, job>>
  BY DEF A!Revoke, A!members
<1>2. own' \in [Account -> Nat]
  BY DEF A!Revoke, AccountTypes, A!TypeOK
<1>3. minted' \in [Account -> 0..MaxMinted]
  BY <1>0 DEF A!Revoke, AccountTypes, A!TypeOK
<1>4. AccountTypes'
  BY <1>1, <1>2, <1>3 DEF AccountTypes, A!TypeOK
<1>5. (JobFits /\ WritersAreAtWork /\ RowsFit /\ ChallengesAreHeld)'
  BY <1>1 DEF JobFits, WritersAreAtWork, RowsFit, ChallengesAreHeld
<1>6. (ChallengesDiffer /\ AddressesDiffer /\ ScopesAreTaken /\ SecretsArePaid)'
  BY <1>1 DEF ChallengesDiffer, AddressesDiffer, ScopesAreTaken, A!Scope, SecretsArePaid
<1> QED
  BY <1>4, <1>5, <1>6

\* A member who is removed keeps the challenge and gives up the address.
LEMMA RemoveMemberKeeps ==
    ASSUME A!AccountAssumption, AccountInv, NEW a \in Account, A!RemoveMember(a)
    PROVE  AccountInv'
<1> USE DEF AccountInv
<1>0. Nobody \notin Request /\ MaxMinted \in Nat
  BY DEF A!AccountAssumption
<1>1. /\ account[a].state = "live" /\ account[a].owner = Nobody
      /\ UNCHANGED <<keys, consumed, producer, label, job>>
  BY DEF A!RemoveMember, A!Live, A!InFlight
<1>2. account \in [Account -> AccountRow] /\ account[a].next = NoEmail
  BY <1>1 DEF AccountTypes, RowsFit
<1>3. /\ \A b \in Account \ {a} : account'[b] = account[b]
      /\ account'[a] \in AccountRow /\ account'[a].state = "gone" /\ account'[a].owner = Nobody
      /\ account'[a].email = NoEmail /\ account'[a].next = NoEmail /\ account'[a].by = account[a].by
      /\ account' \in [Account -> AccountRow]
  <2>1. account' = [account EXCEPT ![a].state = "gone", ![a].email = NoEmail]
    BY DEF A!RemoveMember
  <2>2. /\ account'[a] = [account[a] EXCEPT !.state = "gone", !.email = NoEmail]
        /\ \A b \in Account \ {a} : account'[b] = account[b]
    BY <2>1, <1>2
  <2> DEFINE row == account[a]
             new == account'[a]
  <2>3. row \in AccountRow /\ new = [row EXCEPT !.state = "gone", !.email = NoEmail]
    BY <1>2, <2>2
  <2> HIDE DEF row, new
  <2>4. new \in AccountRow /\ new.state = "gone" /\ new.owner = row.owner
        /\ new.next = row.next /\ new.by = row.by /\ new.email = NoEmail
    BY <2>3 DEF AccountRow
  <2>5. account'[a] \in AccountRow /\ account'[a].state = "gone" /\ account'[a].owner = Nobody
        /\ account'[a].email = NoEmail /\ account'[a].next = NoEmail /\ account'[a].by = account[a].by
    BY <2>4, <1>1, <1>2 DEF row, new
  <2>6. account' \in [Account -> AccountRow]
    BY <2>1, <2>2, <2>5, <1>2
  <2> QED
    BY <2>2, <2>5, <2>6
<1>4. own' \in [Account -> Nat] /\ minted' \in [Account -> 0..MaxMinted]
  BY <1>0 DEF A!RemoveMember, AccountTypes, A!TypeOK
<1>5. AccountTypes'
  BY <1>1, <1>3, <1>4 DEF AccountTypes, A!TypeOK, AccountRow
<1>6. JobFits' /\ ScopesAreTaken' /\ SecretsArePaid'
  BY <1>1 DEF JobFits, ScopesAreTaken, A!Scope, SecretsArePaid
<1>7. WritersAreAtWork'
  <2>1. \A q \in Request :
         /\ label[q] = "index" => job[q].account \in Account /\ job[q].account # a
         /\ label[q] = "commit" /\ job[q].op \in {"register", "direct", "email"} => job[q].account # a
    BY <1>0, <1>1 DEF WritersAreAtWork, JobFits
  <2> QED
    BY <2>1, <1>0, <1>1, <1>3 DEF WritersAreAtWork
<1>8. RowsFit'
  BY <1>0, <1>1, <1>3 DEF RowsFit
<1>9. ChallengesAreHeld'
  <2>1. \A c \in Challenge, q \in Request : consumed[c] = q /\ label[q] = "commit" =>
          account[job[q].account].state = "new"
    BY DEF ChallengesAreHeld
  <2>2. \A b \in Account : /\ account'[b].by = account[b].by
                           /\ account[b].state = "new" => account'[b] = account[b]
                           /\ account'[b].state = "new" => account'[b] = account[b]
                           /\ account[b].state \in {"live", "gone"} => account'[b].state \in {"live", "gone"}
    BY <1>1, <1>3
  <2>3. \A c \in Challenge, q \in Request : consumed'[c] = q =>
         /\ label'[q] \in {"invited", "insert"} => job'[q].challenge = c
         /\ label'[q] \notin {"invited", "insert"} =>
              /\ label'[q] = "commit" /\ job'[q].account \in Account
              /\ account'[job'[q].account].by = c /\ account'[job'[q].account].state = "new"
    BY <1>1, <2>1, <2>2 DEF ChallengesAreHeld
  <2>4. \A b \in Account : account'[b].by # Nobody =>
         consumed'[account'[b].by] = IF account'[b].state = "new" THEN account'[b].owner ELSE "yes"
    BY <1>1, <2>2 DEF ChallengesAreHeld
  <2>5. \A c \in Challenge : consumed'[c] = "yes" =>
         \E b \in Account : account'[b].by = c /\ account'[b].state \in {"live", "gone"}
    BY <1>1, <2>2 DEF ChallengesAreHeld
  <2> QED
    BY <1>1, <2>3, <2>4, <2>5 DEF ChallengesAreHeld
<1>10. ChallengesDiffer'
  <2>1. \A b \in Account : account'[b].by = account[b].by
    BY <1>3
  <2> QED
    BY <2>1 DEF ChallengesDiffer
<1>11. AddressesDiffer'
  BY <1>3 DEF AddressesDiffer
<1> QED
  BY <1>5, <1>6, <1>7, <1>8, <1>9, <1>10, <1>11

-----------------------------------------------------------------------------
(* The invariant, and what follows from it.                                *)

\* It holds of an empty database.
LEMMA AccountInit == A!AccountAssumption /\ A!Init => AccountInv
<1> SUFFICES ASSUME A!AccountAssumption, A!Init PROVE AccountInv
  OBVIOUS
<1> USE DEF A!Init
<1>0. Nobody \notin Request /\ Nobody \notin Account /\ Nobody \notin Challenge /\ "yes" \notin Request
      /\ "yes" # Nobody /\ MaxMinted \in Nat
  BY DEF A!AccountAssumption
<1>1. AccountTypes
  BY <1>0, FS_EmptySet DEF AccountTypes, A!TypeOK, AccountRow, JobRow, A!NoAccount, A!NoJob, A!NoProducer
<1>2. JobFits /\ WritersAreAtWork
  BY <1>0 DEF JobFits, WritersAreAtWork, A!NoAccount, A!NoJob
<1>3. RowsFit /\ ChallengesAreHeld
  BY <1>0 DEF RowsFit, ChallengesAreHeld, A!NoAccount
<1>4. ChallengesDiffer /\ AddressesDiffer /\ ScopesAreTaken
  BY DEF ChallengesDiffer, AddressesDiffer, ScopesAreTaken, A!NoAccount
<1>5. SecretsArePaid
  <2>1. {k \in keys : k.op \in {"producer", "rotate"}} = {}
    OBVIOUS
  <2> QED
    BY <2>1, FS_EmptySet DEF SecretsArePaid, A!NoProducer
<1> QED
  BY <1>1, <1>2, <1>3, <1>4, <1>5 DEF AccountInv

\* Every step of a request keeps it.
LEMMA ServeKeeps ==
    ASSUME A!AccountAssumption, AccountInv, NEW r \in Request, A!Serve(r)
    PROVE  AccountInv'
<1> USE DEF A!members, A!tokens
<1>1. CASE A!TakeKey(r)
  <2>1. CASE A!Scope(r) \in keys
    BY <1>1, <2>1, EndsKeep DEF A!TakeKey
  <2>2. CASE A!Scope(r) \notin keys
    BY <1>1, <2>2, MovesKeep DEF A!TakeKey
  <2> QED
    BY <2>1, <2>2
<1>2. CASE A!Verify(r)
  BY <1>2, MovesKeep DEF A!Verify
<1>3. CASE A!VerifyRefuses(r)
  BY <1>3, FailsKeeps DEF A!VerifyRefuses
<1>4. CASE A!Consume(r)
  BY <1>4, ConsumeKeeps
<1>5. CASE A!LoadInvitation(r)
  <2>1. CASE A!Fails(r)
    BY <1>5, <2>1, FailsKeeps DEF A!LoadInvitation
  <2>2. CASE ~A!Fails(r)
    BY <1>5, <2>2, MovesKeep DEF A!LoadInvitation
  <2> QED
    BY <2>1, <2>2
<1>6. CASE A!InsertMember(r)
  BY <1>6, NewMemberKeeps DEF A!InsertMember
<1>7. CASE A!ClaimRow(r)
  BY <1>7, ClaimRowKeeps
<1>8. CASE A!EnterEmail(r)
  BY <1>8, EnterEmailKeeps
<1>9. CASE A!CountTokens(r)
  <2>1. CASE A!Fails(r)
    BY <1>9, <2>1, FailsKeeps DEF A!CountTokens
  <2>2. CASE ~A!Fails(r)
    BY <1>9, <2>2, MovesKeep DEF A!CountTokens
  <2> QED
    BY <2>1, <2>2
<1>10. CASE A!FindMember(r)
  <2>1. CASE A!Live(job[r].account)
    BY <1>10, <2>1, MovesKeep DEF A!FindMember
  <2>2. CASE ~A!Live(job[r].account)
    BY <1>10, <2>2, EndsKeep DEF A!FindMember
  <2> QED
    BY <2>1, <2>2
<1>11. CASE A!InsertToken(r)
  <2>1. CASE A!Fails(r)
    BY <1>11, <2>1, FailsKeeps DEF A!InsertToken
  <2>2. CASE ~A!Fails(r)
    BY <1>11, <2>2, MovesKeep DEF A!InsertToken
  <2> QED
    BY <2>1, <2>2
<1>12. CASE A!Commit(r)
  BY <1>12, CommitKeeps
<1>13. CASE A!CreateMemberDirect(r)
  BY <1>13, NewMemberKeeps DEF A!CreateMemberDirect
<1>14. CASE A!InsertProducer(r)
  <2>1. CASE A!Fails(r)
    BY <1>14, <2>1, FailsKeeps DEF A!InsertProducer
  <2>2. CASE ~A!Fails(r)
    BY <1>14, <2>2, ProducerKeeps DEF A!InsertProducer
  <2> QED
    BY <2>1, <2>2
<1>15. CASE A!RotateSecret(r)
  <2>1. CASE producer.version > 0
    BY <1>15, <2>1, ProducerKeeps DEF A!RotateSecret
  <2>2. CASE ~(producer.version > 0)
    BY <1>15, <2>2, EndsKeep DEF A!RotateSecret
  <2> QED
    BY <2>1, <2>2
<1>16. CASE A!DeadlockVictim(r)
  <2>1. label[r] # "idle"
    BY <1>16 DEF A!DeadlockVictim, A!Deadlocked, A!WaitsFor
  <2> QED
    BY <1>16, <2>1, FailsKeeps DEF A!DeadlockVictim
<1>17. CASE A!Abort(r)
  BY <1>17, FailsKeeps DEF A!Abort
<1> QED
  BY <1>1, <1>2, <1>3, <1>4, <1>5, <1>6, <1>7, <1>8, <1>9, <1>10, <1>11, <1>12, <1>13, <1>14, <1>15,
     <1>16, <1>17 DEF A!Serve

\* So does every other step.
LEMMA AccountInduction == A!AccountAssumption /\ AccountInv /\ [A!Next]_A!vars => AccountInv'
<1> SUFFICES ASSUME A!AccountAssumption, AccountInv, [A!Next]_A!vars PROVE AccountInv'
  OBVIOUS
<1>1. ASSUME NEW r \in Request, A!Enters(r) PROVE AccountInv'
  <2>1. PICK k \in Key :
        \/ \E c \in Challenge, e \in Email : A!Asks(r, "register", Nobody, k, c, e)
        \/ \E a \in Account, e \in Email : A!Asks(r, "email", a, k, Nobody, e)
        \/ \E a \in Account, op \in {"create", "mint"} : A!Asks(r, op, a, k, Nobody, NoEmail)
        \/ \E e \in Email : A!Asks(r, "direct", Nobody, k, Nobody, e)
        \/ \E op \in {"producer", "rotate"} : A!Asks(r, op, Nobody, k, Nobody, NoEmail)
    BY <1>1 DEF A!Enters
  <2>2. ASSUME NEW c \in Challenge, NEW e \in Email, A!Asks(r, "register", Nobody, k, c, e) PROVE AccountInv'
    BY <2>2, AsksKeeps DEF Operation
  <2>3. ASSUME NEW a \in Account, NEW e \in Email, A!Asks(r, "email", a, k, Nobody, e) PROVE AccountInv'
    BY <2>3, AsksKeeps DEF Operation
  <2>4. ASSUME NEW a \in Account, NEW op \in {"create", "mint"}, A!Asks(r, op, a, k, Nobody, NoEmail)
        PROVE  AccountInv'
    BY <2>4, AsksKeeps DEF Operation
  <2>5. ASSUME NEW e \in Email, A!Asks(r, "direct", Nobody, k, Nobody, e) PROVE AccountInv'
    BY <2>5, AsksKeeps DEF Operation
  <2>6. ASSUME NEW op \in {"producer", "rotate"}, A!Asks(r, op, Nobody, k, Nobody, NoEmail) PROVE AccountInv'
    BY <2>6, AsksKeeps DEF Operation
  <2> QED
    BY <2>1, <2>2, <2>3, <2>4, <2>5, <2>6
<1>2. CASE UNCHANGED A!vars
  <2>1. UNCHANGED <<keys, consumed, account, own, minted, producer, label, job>>
    BY <1>2 DEF A!vars
  <2> QED
    BY <2>1 DEF AccountInv, AccountTypes, A!TypeOK, JobFits, WritersAreAtWork, RowsFit, ChallengesAreHeld,
                ChallengesDiffer, AddressesDiffer, ScopesAreTaken, A!Scope, SecretsArePaid
<1> QED
  BY <1>1, <1>2, ServeKeeps, RevokeKeeps, RemoveMemberKeeps DEF A!Next

LEMMA AccountInvariance == ASSUME A!AccountAssumption PROVE A!Spec => []AccountInv
<1>1. A!Init => AccountInv
  BY AccountInit
<1>2. AccountInv /\ [A!Next]_A!vars => AccountInv'
  BY AccountInduction
<1> QED
  BY <1>1, <1>2, PTL DEF A!Spec

\* Every row keeps the type of its columns (the tables of Accounts).
THEOREM AccountsTypeCorrect == ASSUME A!AccountAssumption PROVE A!Spec => []A!TypeOK
<1>1. AccountInv => A!TypeOK
  BY DEF AccountInv, AccountTypes
<1> QED
  BY <1>1, AccountInvariance, PTL

\* OneAccountEach, for any challenges, addresses and requests: a challenge makes one account,
\* ever, a consumed one has made it, and two accounts never share an address (registerAccount,
\* updateContactEmail).  The row of the challenge is its registration's until both commit, and
\* whoever changes an address holds its row and has met every other claim to it.
THEOREM AccountsAreOneEach == ASSUME A!AccountAssumption PROVE A!Spec => []A!OneAccountEach
<1>1. A!AccountAssumption /\ AccountInv => A!OneAccountEach
  <2> SUFFICES ASSUME A!AccountAssumption, AccountInv PROVE A!OneAccountEach
    OBVIOUS
  <2>0. NoEmail \notin Email
    BY DEF A!AccountAssumption
  <2>1. ASSUME NEW a \in Account, NEW b \in Account, a # b, A!Live(a), A!Live(b)
        PROVE  account[a].email # account[b].email
    <3>1. account[a].email # NoEmail
      BY <2>0, <2>1 DEF AccountInv, RowsFit, A!Live
    <3>2. {account[a].email, account[a].next} \cap {account[b].email, account[b].next} \subseteq {NoEmail}
      BY <2>1 DEF AccountInv, AddressesDiffer
    <3> QED
      BY <3>1, <3>2
  <2>2. ASSUME NEW a \in Account, NEW b \in Account, a # b, account[a].by = account[b].by
        PROVE  account[a].by = Nobody
    BY <2>2 DEF AccountInv, ChallengesDiffer
  <2>3. \A c \in Challenge : consumed[c] = "yes" =>
            \E a \in Account : account[a].by = c /\ account[a].state \in {"live", "gone"}
    BY DEF AccountInv, ChallengesAreHeld
  <2> QED
    BY <2>1, <2>2, <2>3 DEF A!OneAccountEach
<1> QED
  BY <1>1, AccountInvariance, PTL

\* RetryIsAnswered, for any keys and requests: nothing reaches its commit with a key that is
\* used or about to be, and every secret of the producer was paid for with a key of its own
\* (withIdempotency).
THEOREM RetriesAreAnswered == ASSUME A!AccountAssumption PROVE A!Spec => []A!RetryIsAnswered
<1>1. AccountInv => A!RetryIsAnswered
  <2> SUFFICES ASSUME AccountInv PROVE A!RetryIsAnswered
    OBVIOUS
  <2>1. \A r \in Request : label[r] = "commit" =>
         /\ A!Scope(r) \notin keys
         /\ \A q \in Request \ {r} : label[q] = "commit" => A!Scope(q) # A!Scope(r)
    BY DEF AccountInv, ScopesAreTaken
  <2>2. Cardinality({k \in keys : k.op \in {"producer", "rotate"}}) \in Nat
    <3>1. IsFiniteSet({k \in keys : k.op \in {"producer", "rotate"}})
      BY FS_Subset DEF AccountInv, AccountTypes
    <3> QED
      BY <3>1, FS_CardinalityType
  <2>3. \A v \in A!Accepted : v <= Cardinality({k \in keys : k.op \in {"producer", "rotate"}})
    <3>1. producer.version \in Nat
      BY DEF AccountInv, AccountTypes
    <3>2. A!Accepted \subseteq {producer.version - 1, producer.version}
      BY DEF A!Accepted
    <3>3. producer.version <= Cardinality({k \in keys : k.op \in {"producer", "rotate"}})
      BY DEF AccountInv, SecretsArePaid
    <3> QED
      BY <2>2, <3>1, <3>2, <3>3
  <2> QED
    BY <2>1, <2>3, SameCardinality DEF A!RetryIsAnswered
<1> QED
  BY <1>1, AccountInvariance, PTL
=============================================================================
