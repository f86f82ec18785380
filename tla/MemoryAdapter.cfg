CONSTANTS
    MaxTries = 2
    Clients = {"mem0", "langmem", "letta", "graphiti", "openai", "zep_cloud", "supermemory",
               "memobase", "hindsight", "reme", "memoryos", "lightmem", "a_mem", "evermind",
               "memengine", "meminsight", "memoripy", "synap", "txtai", "simplemem"}
    Profile <- ClientProfile
    NumCases = 2
    NumTurns = 2
    NumQueries = 2
    MaxLives = 2
    MaxGhosts = 1
    MaxTypeErrors = 1
SPECIFICATION FairSpec
INVARIANTS TypeOK CaseIsolation FreshPass NothingLost WholeCase CopiesExplained
PROPERTY Ends
CHECK_DEADLOCK FALSE
