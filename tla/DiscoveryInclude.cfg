SPECIFICATION Spec
CONSTANTS
    Types <- TypesAll
    ResourceOf <- ResourceFn
    ShortName <- ShortFn
    FullName <- FullFn
    Rank <- RankFn
    WatchVerb <- WatchTypes
    Subresources <- SlashTypes
    Objects <- ObjectsAll
    Configs <- ConfigsInclude
    Patterns <- PatternsAll
    Matched <- MatchedFn
    MaxChanges = 1
CHECK_DEADLOCK FALSE
INVARIANT IncludedByEitherName
