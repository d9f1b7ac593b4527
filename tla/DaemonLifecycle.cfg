SPECIFICATION FairSpec
CONSTANTS
    Clusters <- ClustersTwo
    ResourcesOf <- ResourcesTwo
    MaxCalls = 1
CHECK_DEADLOCK FALSE
INVARIANTS
    TypeOK
    StoreOutlivesUse
    ShutdownNeverStuck
PROPERTY SignalEndsDaemon
