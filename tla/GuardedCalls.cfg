CONSTANTS
    Attempts = 3
    MaxCalls = 2
SPECIFICATION FairSpec
INVARIANTS NothingDegraded CutOnlyIfRefused
PROPERTY CallEnds
CHECK_DEADLOCK FALSE
