------------------------------ MODULE OnceOnly ------------------------------
(***************************************************************************)
(* What the clientKey contract promises (src/SKILL.md, "Idempotency        *)
(* strategies and replay"): a key is decided at most once, for one payload *)
(* and with one outcome; from then on a request with that payload is       *)
(* answered with that outcome, a request with another payload with a       *)
(* conflict, and nothing else is answered any more.                        *)
(***************************************************************************)
CONSTANTS Attempt, Key, NoKey, KeyOf, Payload, PayloadOf, None

VARIABLES
    decision,  \* decision[k]: the payload and outcome of k, or None
    reply      \* reply[a]: what a was answered, or None

Outcomes == {"created", "rejected"}
Failures == {"quota_exceeded", "gate_unavailable", "internal_error"}

Init ==
    /\ decision = [k \in Key |-> None]
    /\ reply = [a \in Attempt |-> None]

\* The request is the one that decides its key.
Decide(a, code) ==
    /\ decision[KeyOf[a]] = None
    /\ code \in Outcomes
    /\ decision' = [decision EXCEPT ![KeyOf[a]] =
                      [payload |-> PayloadOf[a], outcome |-> code]]

\* The request finds its key decided.
Repeat(a, code) ==
    /\ decision[KeyOf[a]] # None
    /\ code = IF decision[KeyOf[a]].payload = PayloadOf[a]
              THEN decision[KeyOf[a]].outcome ELSE "client_key_conflict"
    /\ UNCHANGED decision

\* The request fails and leaves its key undecided.
Fail(a, code) ==
    /\ decision[KeyOf[a]] = None
    /\ code \in Failures
    /\ UNCHANGED decision

\* Without a key nothing is remembered.
Unkeyed(a, code) ==
    /\ code \in Outcomes \cup Failures
    /\ UNCHANGED decision

Answer(a) ==
    /\ reply[a] = None
    /\ \E code \in Outcomes \cup Failures \cup {"client_key_conflict"} :
         /\ reply' = [reply EXCEPT ![a] = code]
         /\ IF KeyOf[a] = NoKey
            THEN Unkeyed(a, code)
            ELSE Decide(a, code) \/ Repeat(a, code) \/ Fail(a, code)

Next == \E a \in Attempt : Answer(a)

Spec == Init /\ [][Next]_<<decision, reply>>

=============================================================================
