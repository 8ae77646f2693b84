\* Is a row handed to the writer ever dropped before it is in its table?
SPECIFICATION Spec
CONSTANTS
    Workers = {w1, w2}
    Flushers = {f1}
    MaxRows = 3
    BatchSize = 2
    MaxConn = 2
    MaxFaults = 0
INVARIANTS EveryRowKept
CHECK_DEADLOCK FALSE
