SPECIFICATION RetrySpec
CONSTANTS
    Policies <- MCPolicies
    Errors <- MCErrors
INVARIANTS
    GivesUpForAReason
    BackoffClosedForm
PROPERTIES
    Terminates
CHECK_DEADLOCK FALSE
