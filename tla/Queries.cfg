SPECIFICATION FairSpec
CONSTANTS
    Rows <- RowsPods
    Callers = {"user", "syncer"}
    Workers = {"w"}
    RequestsOf <- RequestsAll
    Plural <- Plurals
INVARIANTS
    TypeOK
    ScanOfOneMap
PROPERTIES
    ImplementsService
    NobodyWaitsForever
