SPECIFICATION Spec
CONSTANTS
    Rows <- RowsPods
    Callers = {"user"}
    Workers = {}
    RequestsOf <- RequestsExamples
    Plural <- Plurals
INVARIANT ExamplesFindResources
