---------------------------- MODULE MCGatedWrite ----------------------------
(***************************************************************************)
(* Four requests: a1 and a2 are retries of one key with one payload, a3    *)
(* reuses the key for another payload, a4 carries no key.                  *)
(***************************************************************************)
EXTENDS GatedWrite, TLC

CONSTANTS a1, a2, a3, a4, k1, p1, p2, stub

MCAttempt == {a1, a2, a3}
MCAttemptUnkeyed == {a1, a2, a4}
MCKeyOf == [a \in Attempt |-> IF a = a4 THEN NoKey ELSE k1]
MCPayloadOf == [a \in Attempt |-> IF a = a3 THEN p2 ELSE p1]
MCStubPayloadOf == [a \in Attempt |-> IF a = a3 THEN stub ELSE p1]

=============================================================================
