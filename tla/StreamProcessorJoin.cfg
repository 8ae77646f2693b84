\* Does the join of stop() return?
SPECIFICATION FairSpec
CONSTANTS
    Workers = {w1, w2}
    Log <- PlainLog
    QueueSize = 2
    BatchSize = 2
    CommitBatch = 2
    MaxSignals = 1
    MaxCrashes = 0
    MaxFaults = 0
PROPERTIES JoinReturns
CHECK_DEADLOCK FALSE
