SPECIFICATION FairSpec
CONSTANTS
    Clusters <- ClustersOne
    ResourcesOf <- ResourcesOne
    MaxCalls = 1
CHECK_DEADLOCK FALSE
PROPERTY ComponentExitEndsDaemon
