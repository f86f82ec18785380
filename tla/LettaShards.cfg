CONSTANTS
    s1 = s1
    s2 = s2
    Shards = {s1, s2}
    NoShard = NoShard
    NumTurns = 1
    TextOf <- MCTextOf
    Interval = 2
    MaxRetries = 1
    MaxLives = 2
    MaxMisses = 1
SPECIFICATION FairSpec
INVARIANTS RequestsPaid PassComplete OneAgent
PROPERTIES Spaced Finishes
CHECK_DEADLOCK FALSE
