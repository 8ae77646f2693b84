\* Two workers and one flushing thread on a pool that two of them exhaust.
SPECIFICATION FairSpec
CONSTANTS
    Workers = {w1, w2}
    Flushers = {f1}
    MaxRows = 2
    BatchSize = 2
    MaxConn = 2
    MaxFaults = 1
INVARIANTS TypeOK PoolAccounting ExactlyOnceUndisturbed
PROPERTIES LossNeedsOverlap StoreUndisturbed CallsReturn BufferDrains
\* Once the rows are used up and the pool is closed, the writer may rest.
CHECK_DEADLOCK FALSE
