SPECIFICATION Spec
CONSTANTS
    Types <- TypesAll
    ResourceOf <- ResourceFn
    ShortName <- ShortFn
    FullName <- FullFn
    Rank <- RankFn
    WatchVerb <- WatchTypes
    Subresources <- SlashTypes
    Objects <- ObjectsAll
    Configs <- ConfigsDefault
    Patterns <- PatternsAll
    Matched <- MatchedFn
    MaxChanges = 2
CHECK_DEADLOCK FALSE
INVARIANT NoGhostRows
