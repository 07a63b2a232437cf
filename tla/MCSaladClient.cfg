SPECIFICATION Spec
CONSTANTS
    PresignMethods = {"GET", "PUT"}
    Second = 6
    Half = 32
    MinPresignTTL = 12
    DefaultTTL <- MCDefaultTTL
    MaxTTL <- MCMaxTTL
    SDKDefault = 25
    c1 = c1
    c2 = c2
    Callers = {c1, c2}
    Tokens = {fresh, stale}
    GoodTokens = {fresh}
    FirstToken = fresh
    Requested <- MCRequested
    ImageSize = 2
SYMMETRY MCSymmetry
INVARIANTS
    LifetimeInBounds
    AnswerMatchesLifetime
    ResultsAreSound
    OnlyDeleteObjectIsMisunderstood
