CONSTANTS
    s1 = s1
    s2 = s2
    b1 = b1
    alice = alice
    images = images
    cats = cats
    NoRow = NoRow
    NoList = NoList
    r1 = r1
    r2 = r2
    Scopes = {s1, s2}
    Buckets = {b1}
    Principals = {alice}
    Prefixes = {images, cats}
    Keys <- MCKeys
    PrefixesOf <- MCPrefixesOf
    InitialConnections <- MCInitialConnections
    Forms <- MCForms
    Requests = {r1, r2}
    MaxChanges = 2
SPECIFICATION Spec
SYMMETRY MCSymmetry
CHECK_DEADLOCK FALSE
INVARIANTS
    CreatorsOwnTheRow
    BaselineWasMet
    RefusalsLeaveNoTrace
    ListingsAreCurrent
PROPERTIES
    PoliciesFollowTheirConnection
