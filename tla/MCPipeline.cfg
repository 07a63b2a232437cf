\* Two requests through the middleware, while keys rotate, with panics, hang-ups, a failing database and a kill.
SPECIFICATION Spec
CONSTANTS
    r1 = r1
    r2 = r2
    alice = alice
    bob = bob
    k1 = k1
    k2 = k2
    Requests = {r1, r2}
    Subjects = {alice, bob}
    Keys = {k1, k2}
    Tokens <- MCTokens
    NoToken = NoToken
    NoClaims = NoClaims
    EmptyClaims = EmptyClaims
    RefreshQueue = 1
    MaxRotations = 2
SYMMETRY MCSymmetry
INVARIANTS
    OperationsHaveAPrincipal
    GoodTokensAreAccepted
    AuditIsTruthful
CHECK_DEADLOCK FALSE
