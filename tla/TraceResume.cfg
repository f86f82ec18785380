CONSTANTS
    NumCases = 3
    NumQueries = 5
    LastQuery <- MCLastQuery
    Scopes <- AnyScope
    FlushChoices = {1, 2}
    MaxRuns = 4
SPECIFICATION Spec
INVARIANTS TypeOK NoDuplicateRows RowsMatchResult CompleteCasesTraced
CHECK_DEADLOCK FALSE
