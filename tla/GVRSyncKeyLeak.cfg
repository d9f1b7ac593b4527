SPECIFICATION Spec
CONSTANTS
    Keys <- KeysTwo
    Namespaces <- NamespacesTwo
    NamespaceOf <- NamespaceOfTwo
    Configs <- ConfigsTwo
    MaxRV = 4
    StaleLists = FALSE
    ErrorOutcomes = {"lost"}
    MaxFaults <- CrashRelist
CHECK_DEADLOCK FALSE
INVARIANT KnownKeysHaveRows
