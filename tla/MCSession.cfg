SPECIFICATION Spec
CONSTANTS
    Requests = {r1, r2}
    Tokens = {t1, t2}
    TTL = 2
    Fallback = 2
    MaxDelay = 1
    MaxFaults = 1
SYMMETRY MCSymmetry
INVARIANTS FieldsFresh RevokedUntilExpiry
