SPECIFICATION FairSpec
CONSTANTS
    Rows <- RowsAll
    Root <- RootWeb
    Callbacks <- CallbacksAll
    MaxChanges = 1
    MaxDepth = 4
CHECK_DEADLOCK FALSE
INVARIANTS
    TypeOK
    Sound
    Complete
    Exact
    TreeShowsAnswer
PROPERTIES
    Terminates
    CommandEnds
    AlwaysAdvances
