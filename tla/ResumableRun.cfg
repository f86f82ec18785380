CONSTANTS
    NumCases = 3
    NumQueries = 5
    LastQuery <- MCLastQuery
    ShardOf <- MCShardOf
    Systems = {s1, s2}
    Scopes <- FullScope
    ResumeChoices = {TRUE}
    FailureChoices = {TRUE, FALSE}
    TraceChoices = {TRUE, FALSE}
    MaxAttempts = 3
    MaxRuns = 3
    MaxErrors = 2
    NoPrediction = NoPrediction
    NotCommitted = NotCommitted
SPECIFICATION FairSpec
INVARIANTS LiveNeverAheadOfDisk
PROPERTIES DurableCasesAreFinal Termination RetriesAbsorbFaults ImplementsLedger
CHECK_DEADLOCK FALSE
