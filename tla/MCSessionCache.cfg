SPECIFICATION FairSpec
CONSTANTS
    c1 = c1
    c2 = c2
    c3 = c3
    Callers <- MCCallers
    Refs <- MCRefs
    Policy <- MCPolicy
    STSErrors <- MCSTSErrors
    NilExternalID = NilExternalID
    NoCaller = NoCaller
    NoRef = NoRef
    NoSession = NoSession
    NoResult = NoResult
    Failed = Failed
INVARIANTS
    ExclusivePriming
    SessionMatchesRole
    OneSessionPerKey
PROPERTIES
    PrimesOnlyWhatIsMissing
    ImplementsMemo
    EveryCallReturns
CHECK_DEADLOCK FALSE
