\* Two requests race for one object through retries, hang-ups and a kill.
SPECIFICATION Spec
CONSTANTS
    s1 = s1
    b1 = b1
    p1 = p1
    keyA = keyA
    dirB = dirB
    pxA = pxA
    pxB = pxB
    NoRow = NoRow
    Absent = Absent
    Initial = Initial
    Scopes = {s1}
    Buckets = {b1}
    Principals = {p1}
    Prefixes = {pxA, pxB}
    Keys <- MCOneKey
    PrefixesOf <- MCPrefixesOfOneKey
    UnsafeKeys = {}
    Requests = {r1, r2}
    RequestForms <- MCOneObject
    PolicyForms = {}
    InitialTables <- MCOneTable
    AwsErrors <- MCErrors
    MaxChanges = 0
INVARIANTS
    AcknowledgedWritesHold
    DeletedStaysDeleted
PROPERTIES
    AnswersAreFinal
CHECK_DEADLOCK FALSE
