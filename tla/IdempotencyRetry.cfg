SPECIFICATION Spec
CONSTANTS
    a = a
    b = b
    c = c
    d = d
    key = key
    NoRequest = NoRequest
    Requests = {a, b}
    Keys = {key}
    Key <- MCKey
    Fingerprint <- MCFingerprint
    Composite = {}
    MaxFaults = 0
CHECK_DEADLOCK FALSE
INVARIANT AtMostOnce
