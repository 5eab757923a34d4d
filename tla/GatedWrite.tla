----------------------------- MODULE GatedWrite ------------------------------
(***************************************************************************)
(* A gated mutating action, content.create, from the authenticated request *)
(* to its reply: dispatchAuthenticated and runLlmGateFor of                *)
(* src/src/dispatch.ts, the client-key barrier, lookup and transaction of  *)
(* src/src/idempotency.ts, and the content insert of                       *)
(* src/src/clubs/content.ts.                                               *)
(*                                                                         *)
(* All attempts are requests of one member to one club.  Attempts with the *)
(* same clientKey are retries of each other: the client may send them one  *)
(* after the other or at once, after an answer, without having seen one,   *)
(* and with a payload that differs.  Every await of the code is a point    *)
(* where other attempts, crashes and faults interleave.                    *)
(***************************************************************************)
EXTENDS Naturals, FiniteSets

CONSTANTS
    Attempt,       \* HTTP requests
    Key,           \* client keys of the member
    NoKey,         \* a request that carries no clientKey
    KeyOf,         \* the clientKey of a request
    Payload,       \* request values, compared by hashRequest
    PayloadOf,     \* the request value of a request
    LowSubstance,  \* payloads deterministicLowSubstanceError refuses
    QuotaMax,      \* content.create quota of the member in the club
    Faults,        \* the faults that may happen besides crashes
    None           \* no row, no holder, no answer

ASSUME AttemptAssumption ==
    /\ KeyOf \in [Attempt -> Key \cup {NoKey}]
    /\ PayloadOf \in [Attempt -> Payload]
    /\ LowSubstance \subseteq Payload
    /\ NoKey \notin Key

ASSUME QuotaAssumption == QuotaMax \in Nat

\* "barrier_lost": the connection that holds the session lock dies while its
\* request goes on.  "store_failed": the insert of a terminal rejection fails,
\* which the code logs and ignores.  "settle_failed": a settlement of one of
\* the reservations fails.
AllFaults == {"barrier_lost", "store_failed", "settle_failed"}

ASSUME FaultAssumption == Faults \subseteq AllFaults

Label == {"new", "log", "quota", "replay", "precheck", "store", "reserve_spend",
          "reserve_tokens", "gate", "settle_spend", "settle_tokens", "handle",
          "write", "unlock", "done", "dead"}
Billable == {"passed", "rejected"}
Verdict == Billable \cup {"unavailable", "threw"}
Outcome == {"created", "rejected"}
Transient == {"quota_exceeded", "gate_unavailable", "internal_error"}
Code == Outcome \cup Transient \cup {"client_key_conflict"}
Usage == {"prompt", "completion"}
Ledger == {"none", "pending", "finalized", "released"}
KeyRow == [payload : Payload, outcome : Outcome]

ASSUME NoneAssumption ==
    /\ None \notin Attempt
    /\ None \notin Verdict
    /\ None \notin Code
    /\ None \notin KeyRow

VARIABLES
    pc,        \* pc[a]: the await request a is at
    verdict,   \* verdict[a]: what a's own gate call returned, or None
    usage,     \* usage[a]: the tokens that call was reported to have used
    answer,    \* answer[a]: the reply a has computed, or None
    spend,     \* spend[a]: status of a's club spend reservation
    tokens,    \* tokens[a]: status of a's LLM output reservation
    barrier,   \* barrier[k]: request holding the session lock of key k
    txlock,    \* txlock[k]: request holding the transaction lock of key k
    idem,      \* idem[k]: the row of idempotency_keys for k, or None
    contents   \* the requests whose content row is committed

vars == <<pc, verdict, usage, answer, spend, tokens, barrier, txlock, idem, contents>>

-----------------------------------------------------------------------------
Keyed(a) == KeyOf[a] # NoKey

\* The row of a request that decides its key.
DecisionOf(a, code) == [payload |-> PayloadOf[a], outcome |-> code]

\* lookupIdempotency: a row written for another request value is a conflict.
Lookup(a) ==
    IF ~Keyed(a) \/ idem[KeyOf[a]] = None THEN "miss"
    ELSE IF idem[KeyOf[a]].payload # PayloadOf[a] THEN "conflict"
    ELSE idem[KeyOf[a]].outcome

Goto(a, label) == pc' = [pc EXCEPT ![a] = label]

\* The request has its reply; withClientKeyBarrier's finally is next.
Reply(a, code) ==
    /\ answer' = [answer EXCEPT ![a] = code]
    /\ Goto(a, "unlock")

\* Mutant: a lock is not given up when its holder ends.
GiveUpMutant(lock, a) == lock

\* What a request that ends, in whatever way, still holds is given up by the
\* database.
GiveUp(lock, a) == [k \in Key |-> IF lock[k] = a THEN None ELSE lock[k]]

Init ==
    /\ pc = [a \in Attempt |-> "new"]
    /\ verdict = [a \in Attempt |-> None]
    /\ usage = [a \in Attempt |-> {}]
    /\ answer = [a \in Attempt |-> None]
    /\ spend = [a \in Attempt |-> "none"]
    /\ tokens = [a \in Attempt |-> "none"]
    /\ barrier = [k \in Key |-> None]
    /\ txlock = [k \in Key |-> None]
    /\ idem = [k \in Key |-> None]
    /\ contents = {}

-----------------------------------------------------------------------------
(* The barrier, the replay-aware request log and the quota preflight.      *)

\* Mutant: the barrier does not exclude anybody.
BarrierFreeMutant(k) == TRUE

BarrierFree(k) == barrier[k] = None

\* pg_advisory_lock on a dedicated connection, for the whole request.
AcquireBarrier(a) ==
    /\ pc[a] = "new"
    /\ IF Keyed(a)
       THEN /\ BarrierFree(KeyOf[a])
            /\ barrier' = [barrier EXCEPT ![KeyOf[a]] = a]
       ELSE UNCHANGED barrier
    /\ Goto(a, "log")
    /\ UNCHANGED <<verdict, usage, answer, spend, tokens, txlock, idem, contents>>

\* maybeFireReplayAwareRequestLog: the first lookup a conflict surfaces in.
FireRequestLog(a) ==
    /\ pc[a] = "log"
    /\ IF Lookup(a) = "conflict"
       THEN Reply(a, "client_key_conflict")
       ELSE Goto(a, "quota") /\ UNCHANGED answer
    /\ UNCHANGED <<verdict, usage, spend, tokens, barrier, txlock, idem, contents>>

\* runQuotaFor: a replay is not counted against the quota; otherwise the rows
\* of the member are counted, in a transaction that ends with the count.
RunQuotaFor(a) ==
    /\ pc[a] = "quota"
    /\ CASE Lookup(a) = "conflict" -> Reply(a, "client_key_conflict")
         [] Lookup(a) = "miss" /\ Cardinality(contents) >= QuotaMax
              -> Reply(a, "quota_exceeded")
         [] OTHER -> Goto(a, "replay") /\ UNCHANGED answer
    /\ UNCHANGED <<verdict, usage, spend, tokens, barrier, txlock, idem, contents>>

-----------------------------------------------------------------------------
(* runLlmGateFor.                                                          *)

\* Mutant: any request that carries a key skips the gate.
ReplaySkipMutant(a) == Keyed(a)

ReplayHit(a) == Lookup(a) = "created"

\* idempotencyReplay: a stored rejection is thrown again, a stored success
\* goes to the handler, which replays it.
IdempotencyReplay(a) ==
    /\ pc[a] = "replay"
    /\ CASE Lookup(a) = "conflict" -> Reply(a, "client_key_conflict")
         [] Lookup(a) = "rejected" -> Reply(a, "rejected")
         [] ReplayHit(a)           -> Goto(a, "handle") /\ UNCHANGED answer
         [] OTHER                  -> Goto(a, "precheck") /\ UNCHANGED answer
    /\ UNCHANGED <<verdict, usage, spend, tokens, barrier, txlock, idem, contents>>

\* A payload with no substance is refused without a provider call.
DeterministicLowSubstance(a) ==
    /\ pc[a] = "precheck"
    /\ Goto(a, IF PayloadOf[a] \in LowSubstance THEN "store" ELSE "reserve_spend")
    /\ UNCHANGED <<verdict, usage, answer, spend, tokens, barrier, txlock, idem, contents>>

KeyRowMissing(a) == Keyed(a) /\ idem[KeyOf[a]] = None

\* storeTerminalGateError: a plain insert outside any transaction.  It fails
\* on a key that has a row by now; a failure is logged and the rejection is
\* answered all the same.
StoreTerminalGateError(a) ==
    /\ pc[a] = "store"
    /\ \/ /\ KeyRowMissing(a)
          /\ idem' = [idem EXCEPT ![KeyOf[a]] = DecisionOf(a, "rejected")]
       \/ /\ KeyRowMissing(a) => "store_failed" \in Faults
          /\ UNCHANGED idem
    /\ Reply(a, "rejected")
    /\ UNCHANGED <<verdict, usage, spend, tokens, barrier, txlock, contents>>

ReserveClubSpendBudget(a) ==
    /\ pc[a] = "reserve_spend"
    /\ \/ /\ spend' = [spend EXCEPT ![a] = "pending"]
          /\ Goto(a, "reserve_tokens")
          /\ UNCHANGED answer
       \/ Reply(a, "quota_exceeded") /\ UNCHANGED spend
    /\ UNCHANGED <<verdict, usage, tokens, barrier, txlock, idem, contents>>

\* Where a refused or failed step leads, once the reservations are settled.
\* A settlement that fails leaves its reservation pending.
SettleTo(status, a, final) ==
    \/ status' = [status EXCEPT ![a] = final]
    \/ "settle_failed" \in Faults /\ UNCHANGED status

\* Mutant: the spend reservation is not released when the second one fails.
ReleaseOnRefusalMutant(a) == UNCHANGED spend

ReleaseOnRefusal(a) == SettleTo(spend, a, "released")

ReserveLlmOutputBudget(a) ==
    /\ pc[a] = "reserve_tokens"
    /\ \/ /\ tokens' = [tokens EXCEPT ![a] = "pending"]
          /\ Goto(a, "gate")
          /\ UNCHANGED <<answer, spend>>
       \/ /\ ReleaseOnRefusal(a)
          /\ Reply(a, "quota_exceeded")
          /\ UNCHANGED tokens
    /\ UNCHANGED <<verdict, usage, barrier, txlock, idem, contents>>

\* The provider call.  It is bounded by outboundLlmSignal, so it returns: a
\* verdict, "unavailable" (no API key, provider error) or an exception.  A
\* count of tokens that a verdict comes without is taken to be zero.
RunLlmGate(a) ==
    /\ pc[a] = "gate"
    /\ \/ \E v \in Billable \cup {"unavailable"} :
            /\ verdict' = [verdict EXCEPT ![a] = v]
            /\ \E u \in IF v \in Billable THEN SUBSET Usage ELSE {{}} :
                 usage' = [usage EXCEPT ![a] = u]
            /\ Goto(a, "settle_spend")
            /\ UNCHANGED <<answer, spend, tokens>>
       \/ /\ verdict' = [verdict EXCEPT ![a] = "threw"]
          /\ SettleTo(spend, a, "released")
          /\ SettleTo(tokens, a, "released")
          /\ Reply(a, "internal_error")
          /\ UNCHANGED usage
    /\ UNCHANGED <<barrier, txlock, idem, contents>>

\* The reservation of a billable verdict is settled, and a failure to do so is
\* thrown; that of any other is released, and a failure is logged.  What costs
\* nothing is released either way.
SettleClubSpend(a) ==
    /\ pc[a] = "settle_spend"
    /\ \/ /\ spend' = [spend EXCEPT ![a] =
                         IF usage[a] # {} THEN "finalized" ELSE "released"]
          /\ Goto(a, "settle_tokens")
          /\ UNCHANGED answer
       \/ /\ "settle_failed" \in Faults
          /\ IF verdict[a] \in Billable
             THEN Reply(a, "internal_error")
             ELSE Goto(a, "settle_tokens") /\ UNCHANGED answer
          /\ UNCHANGED spend
    /\ UNCHANGED <<verdict, usage, tokens, barrier, txlock, idem, contents>>

\* gateVerdictToAppError: a pass goes on, a rejection is stored first.
AfterGate(a) ==
    CASE verdict[a] = "passed"   -> Goto(a, "handle") /\ UNCHANGED answer
      [] verdict[a] = "rejected" -> Goto(a, "store") /\ UNCHANGED answer
      [] OTHER                   -> Reply(a, "gate_unavailable")

\* finalizeLlmOutputBudget, then gateVerdictToAppError.
SettleLlmOutput(a) ==
    /\ pc[a] = "settle_tokens"
    /\ \/ /\ tokens' = [tokens EXCEPT ![a] =
                          IF "completion" \in usage[a] THEN "finalized" ELSE "released"]
          /\ AfterGate(a)
       \/ /\ "settle_failed" \in Faults
          /\ Reply(a, "internal_error")
          /\ UNCHANGED tokens
    /\ UNCHANGED <<verdict, usage, spend, barrier, txlock, idem, contents>>

-----------------------------------------------------------------------------
(* The handler: one transaction under withIdempotency.                     *)

\* BEGIN, the transaction lock of the key, and the lookup under it.
HandleLookup(a) ==
    /\ pc[a] = "handle"
    /\ IF ~Keyed(a)
       THEN Goto(a, "write") /\ UNCHANGED <<answer, txlock>>
       ELSE /\ txlock[KeyOf[a]] = None
            /\ CASE Lookup(a) = "conflict" ->
                      Reply(a, "client_key_conflict") /\ UNCHANGED txlock
                 [] Lookup(a) \in {"created", "rejected"} ->
                      Reply(a, Lookup(a)) /\ UNCHANGED txlock
                 [] OTHER ->
                      /\ txlock' = [txlock EXCEPT ![KeyOf[a]] = a]
                      /\ Goto(a, "write")
                      /\ UNCHANGED answer
    /\ UNCHANGED <<verdict, usage, spend, tokens, barrier, idem, contents>>

\* The primary key (actor_context, client_key) of idempotency_keys.
KeyRowAbsent(a) == Keyed(a) => idem[KeyOf[a]] = None

\* Mutant: the key's row is left out of the transaction.
RecordOutcomeMutant(a) == UNCHANGED idem

RecordOutcome(a) ==
    IF Keyed(a)
    THEN idem' = [idem EXCEPT ![KeyOf[a]] = DecisionOf(a, "created")]
    ELSE UNCHANGED idem

\* The rest of the transaction: performCreate's rows and the key's row are
\* committed together, or the transaction rolls back, on a key row that
\* appeared since the lookup or on an error of the handler's own.
HandleCommit(a) ==
    /\ pc[a] = "write"
    /\ \/ /\ KeyRowAbsent(a)
          /\ RecordOutcome(a)
          /\ contents' = contents \cup {a}
          /\ Reply(a, "created")
       \/ Reply(a, "internal_error") /\ UNCHANGED <<idem, contents>>
    /\ txlock' = GiveUp(txlock, a)
    /\ UNCHANGED <<verdict, usage, spend, tokens, barrier>>

\* The finally of withClientKeyBarrier; the reply leaves after it.
ReleaseBarrier(a) ==
    /\ pc[a] = "unlock"
    /\ barrier' = GiveUp(barrier, a)
    /\ Goto(a, "done")
    /\ UNCHANGED <<verdict, usage, answer, spend, tokens, txlock, idem, contents>>

-----------------------------------------------------------------------------
(* Faults.                                                                 *)

InFlight(a) == pc[a] \notin {"new", "done", "dead"}

\* The server process dies: the open transaction rolls back, the connection
\* with the session lock closes, the client never sees a reply.
Crash(a) ==
    /\ InFlight(a)
    /\ Goto(a, "dead")
    /\ barrier' = GiveUp(barrier, a)
    /\ txlock' = GiveUp(txlock, a)
    /\ UNCHANGED <<verdict, usage, answer, spend, tokens, idem, contents>>

\* The idle connection that holds the session lock is cut: Postgres frees the
\* lock, the request does not notice before its finally.
LoseBarrier(k) ==
    /\ "barrier_lost" \in Faults
    /\ barrier[k] # None
    /\ barrier' = [barrier EXCEPT ![k] = None]
    /\ UNCHANGED <<pc, verdict, usage, answer, spend, tokens, txlock, idem, contents>>

Step(a) ==
    \/ AcquireBarrier(a)
    \/ FireRequestLog(a)
    \/ RunQuotaFor(a)
    \/ IdempotencyReplay(a)
    \/ DeterministicLowSubstance(a)
    \/ StoreTerminalGateError(a)
    \/ ReserveClubSpendBudget(a)
    \/ ReserveLlmOutputBudget(a)
    \/ RunLlmGate(a)
    \/ SettleClubSpend(a)
    \/ SettleLlmOutput(a)
    \/ HandleLookup(a)
    \/ HandleCommit(a)
    \/ ReleaseBarrier(a)

Next ==
    \/ \E a \in Attempt : Step(a) \/ Crash(a)
    \/ \E k \in Key : LoseBarrier(k)

Spec == Init /\ [][Next]_vars

\* Statements, transactions and provider calls end (statement and outbound
\* timeouts), and Postgres grants an advisory lock that is free to a waiter.
FairSpec == Spec /\ \A a \in Attempt : WF_vars(Step(a))

-----------------------------------------------------------------------------
(* Properties.                                                             *)

\* Every variable has its type, and only a request that is past its last step
\* before the reply has one.
TypeOK ==
    /\ pc \in [Attempt -> Label]
    /\ verdict \in [Attempt -> Verdict \cup {None}]
    /\ usage \in [Attempt -> SUBSET Usage]
    /\ answer \in [Attempt -> Code \cup {None}]
    /\ spend \in [Attempt -> Ledger]
    /\ tokens \in [Attempt -> Ledger]
    /\ barrier \in [Key -> Attempt \cup {None}]
    /\ txlock \in [Key -> Attempt \cup {None}]
    /\ idem \in [Key -> KeyRow \cup {None}]
    /\ contents \subseteq Attempt
    /\ \A a \in Attempt : pc[a] \in {"unlock", "done"} => answer[a] # None

SameKey(a, b) == Keyed(a) /\ KeyOf[a] = KeyOf[b]

\* Retries of one key publish one content at most: whatever interleaves,
\* crashes or fails, no two requests of a key both commit.
AtMostOnce == \A a, b \in contents : SameKey(a, b) => a = b

\* What is published has passed the gate, in the request that published it:
\* the replay path around the gate never leads to a write.
NoUngatedWrite == \A a \in contents : verdict[a] = "passed"

\* A reply of success is backed by a committed content, and by a row that
\* will answer every later retry the same way.
SuccessIsDurable ==
    \A a \in Attempt : answer[a] = "created" =>
        /\ \E b \in contents : b = a \/ SameKey(a, b)
        /\ Keyed(a) => idem[KeyOf[a]] = DecisionOf(a, "created")

\* The stored outcome of a key never changes and is never lost.
DecisionIsFinal ==
    [][\A k \in Key : idem[k] # None => idem'[k] = idem[k]]_vars

\* Two requests with the same key and the same payload are never told that
\* the write succeeded and that it was rejected.
OutcomesAgree ==
    \A a, b \in Attempt :
        (/\ SameKey(a, b) /\ PayloadOf[a] = PayloadOf[b]
         /\ answer[a] \in Outcome /\ answer[b] \in Outcome) => answer[a] = answer[b]

\* Once a key is decided, no request of that key calls the provider.
NoGateAfterDecision ==
    [][\A a \in Attempt :
         (Keyed(a) /\ verdict[a] = None /\ verdict'[a] # None) => idem[KeyOf[a]] = None]_vars

\* A request that is over has left nothing reserved.  The spend ledger shows a
\* cost exactly when the provider reported tokens, the ledger of output tokens
\* when it reported a completion; so whoever is charged for output has been
\* charged for the call, and nobody for a call without a verdict.
LedgersMatchUsage ==
    \A a \in Attempt : pc[a] = "done" =>
        /\ spend[a] # "pending" /\ tokens[a] # "pending"
        /\ spend[a] = "finalized" <=> usage[a] # {}
        /\ tokens[a] = "finalized" <=> "completion" \in usage[a]
        /\ spend[a] = "finalized" => verdict[a] \in Billable

\* Every request ends, even when the holder of its key's barrier crashes.
EveryAttemptEnds == \A a \in Attempt : <>(pc[a] \in {"done", "dead"})

\* docs/design-decisions.md gives content.create a limit per club and member.
QuotaRespected == Cardinality(contents) <= QuotaMax

\* The abstract view: one final decision per key, and replies that follow it.
Once == INSTANCE OnceOnly WITH decision <- idem, reply <- answer

ImplementsOnceOnly == Once!Spec

=============================================================================
