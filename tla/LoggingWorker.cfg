CONSTANTS
    MaxRequests = 3
    StdoutCapacity = 2
    StderrCapacity = 1
    MaxPrints = 0
    MaxLogs = 2
    MaxFaults = 0
SPECIFICATION FairSpec
PROPERTIES CallsReturn
CHECK_DEADLOCK FALSE
