SPECIFICATION Spec
CONSTANTS
    None = None
    NoKey = NoKey
    a1 = a1
    a2 = a2
    a3 = a3
    a4 = a4
    k1 = k1
    p1 = p1
    p2 = p2
    stub = stub
    Attempt <- MCAttempt
    Key = {k1}
    KeyOf <- MCKeyOf
    Payload = {p1, p2, stub}
    PayloadOf <- MCStubPayloadOf
    LowSubstance = {stub}
    QuotaMax = 1
    Faults = {"barrier_lost", "store_failed", "settle_failed"}
INVARIANTS
    AtMostOnce
    NoUngatedWrite
    SuccessIsDurable
CHECK_DEADLOCK FALSE
