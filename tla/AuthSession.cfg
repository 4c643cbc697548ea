SPECIFICATION Spec
CONSTANTS
    Attempt = {a1, a2}
    Token = {t1, t2}
    Session = {s1, s2}
    None = None
    AttemptSeconds = 2
    AbsoluteSeconds = 3
    IdleSeconds = 2
    Skew = 1
    MaxLifetime = 2
    ReplayLimit = 1
    Lifetime = {2, 3}
    MaxTime = 4
    MaxAuditFailures = 1
SYMMETRY Symmetry
CHECK_DEADLOCK FALSE
INVARIANTS
    OneSessionPerSignIn
    TrailComplete
    GrantsWithinLife
PROPERTIES
    EndedForGood
