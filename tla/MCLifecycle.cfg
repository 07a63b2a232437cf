SPECIFICATION Spec
CONSTANTS
    Instances = {i1, i2}
    Configs <- MCConfigs
    Databases <- MCDatabases
    MaxInFlight = 2
    MaxStarts = 1
INVARIANTS
    SchemaBeforeService
    HandlersHaveTheirPool
    CleanExitMeansDrained
PROPERTIES
    SignalsEndTheProcess
CHECK_DEADLOCK FALSE
