\* An operation whose client hung up has no audit event.
SPECIFICATION Spec
CONSTANTS
    r1 = r1
    r2 = r2
    alice = alice
    bob = bob
    k1 = k1
    k2 = k2
    Requests = {r1, r2}
    Subjects = {alice, bob}
    Keys = {k1, k2}
    Tokens <- MCTokens
    NoToken = NoToken
    NoClaims = NoClaims
    EmptyClaims = EmptyClaims
    RefreshQueue = 1
    MaxRotations = 2
SYMMETRY MCSymmetry
INVARIANTS
    EveryOperationIsAudited
CHECK_DEADLOCK FALSE
