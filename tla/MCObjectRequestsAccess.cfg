\* One request of any form while the tables change under it twice, and to its answer.
SPECIFICATION FairSpec
CONSTANTS
    s1 = s1
    b1 = b1
    p1 = p1
    keyA = keyA
    dirB = dirB
    pxA = pxA
    pxB = pxB
    NoRow = NoRow
    Absent = Absent
    Initial = Initial
    Scopes = {s1}
    Buckets = {b1}
    Principals = {p1}
    Prefixes = {pxA, pxB}
    Keys <- MCKeys
    PrefixesOf <- MCPrefixesOf
    UnsafeKeys = {dirB}
    Requests = {r1}
    RequestForms <- MCForms
    PolicyForms <- MCPolicies
    InitialTables <- MCTables
    AwsErrors <- MCErrors
    MaxChanges = 2
INVARIANTS
    ReachesOnlyWhatWasGranted
    RefusalsHaveNoEffect
    PrefixesDecideTwice
PROPERTIES
    ImplementsAccess
    EveryRequestAnswered
CHECK_DEADLOCK FALSE
