\* One process from its start to its end, its threads calling the writer at once, with one failure.
SPECIFICATION Spec
CONSTANTS
    Workers = {w1, w2}
    Log <- MixedLog
    QueueSize = 1
    BatchSize = 2
    CommitBatch = 2
    MaxSignals = 2
    MaxCrashes = 0
    MaxFaults = 1
SYMMETRY WorkerSymmetry
INVARIANTS TypeOK TaskAccounting NoMessageDropped CleanStopStores
PROPERTIES StoredAgainOnlyUncleared
\* A process that has stopped stays stopped.
CHECK_DEADLOCK FALSE
