SPECIFICATION FairSpec
CONSTANTS
    a = a
    b = b
    c = c
    d = d
    key = key
    NoRequest = NoRequest
    Requests = {a, b, c, d}
    Keys = {key}
    Key <- MCKey
    Fingerprint <- MCFingerprint
    Composite = {c}
    MaxFaults = 2
CHECK_DEADLOCK FALSE
INVARIANTS
    TypeOK
    AtMostOnceUnlessExcused
    ReplayIsFaithful
PROPERTY ClaimGoesAway
