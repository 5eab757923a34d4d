CONSTANTS
    c1 = c1
    c2 = c2
    e1 = e1
    e2 = e2
    Key = {k1, k2}
    Challenge = {c1, c2}
    Bound <- MCBound
    Email = {e1, e2}
    NoEmail = NoEmail
    Account = {a1, a2}
    Request = {r1, r2}
    Mortal = {r1, r2}
    Nobody = Nobody
    Cap = 1
    MaxMinted = 1
    MaxKeys = 3
SPECIFICATION Spec
INVARIANTS
    OneAccountEach
    RetryIsAnswered
SYMMETRY Symmetry
