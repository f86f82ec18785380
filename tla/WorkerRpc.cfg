CONSTANTS
    MaxRequests = 3
    StdoutCapacity = 2
    StderrCapacity = 2
    MaxPrints = 2
    MaxLogs = 3
    MaxFaults = 1
SPECIFICATION FairSpec
INVARIANTS TypeOK RepliesMatchRequests
PROPERTIES OnlyLogsBlockCalls CloseEndsWorker WorkerFollowsHost
CHECK_DEADLOCK FALSE
