SPECIFICATION FairSpec
CONSTANTS
    Keys <- KeysTwo
    Namespaces <- NamespacesTwo
    NamespaceOf <- NamespaceOfTwo
    Configs <- ConfigsTwo
    MaxRV = 4
    StaleLists = TRUE
    ErrorOutcomes = {"lost", "applied"}
    MaxFaults <- OneOfEach
CHECK_DEADLOCK FALSE
INVARIANTS
    TypeOK
    Mirror
    TrackedRows
    InitialSyncReconciled
    RestsOnlyWhenMirrored
PROPERTIES
    RestartHeals
    ImplementsMirror
