CONSTANTS
    NumCases = 3
    NumQueries = 5
    LastQuery <- MCLastQuery
    ShardOf <- MCShardOf
    Systems = {s1, s2}
    Scopes <- AnyScope
    ResumeChoices = {TRUE, FALSE}
    FailureChoices = {TRUE, FALSE}
    TraceChoices = {TRUE, FALSE}
    MaxAttempts = 2
    MaxRuns = 2
    MaxErrors = 2
    NoPrediction = NoPrediction
SPECIFICATION Spec
INVARIANTS TypeOK CaseCoherence SystemIsolation ResultComplete TraceLedger FirstAttemptOwnsResult
CHECK_DEADLOCK FALSE
