SPECIFICATION Spec
CONSTANTS
    Keys <- KeysTwo
    Namespaces <- NamespacesTwo
    NamespaceOf <- NamespaceOfTwo
    Configs <- ConfigsTwo
    MaxRV = 5
    StaleLists = FALSE
    ErrorOutcomes = {"lost", "applied"}
    MaxFaults <- OneOfEach
CHECK_DEADLOCK FALSE
PROPERTY ImplementsMirror
