\* A crash at any step and the restart from the committed offset, with one failure.
SPECIFICATION FairSpec
CONSTANTS
    Workers = {w1}
    Log <- ShortLog
    QueueSize = 1
    BatchSize = 1
    CommitBatch = 2
    MaxSignals = 0
    MaxCrashes = 1
    MaxFaults = 1
PROPERTIES SkippedOnlyAfterLoopEnded NoMessageStuck
\* A process that has stopped stays stopped.
CHECK_DEADLOCK FALSE
