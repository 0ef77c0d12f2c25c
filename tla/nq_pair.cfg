CONSTANTS
    r1 = r1  r2 = r2  w1 = w1  w2 = w2  eod = eod
    Runs = {r1, r2}
    Datasets = {eod}
    DatasetOf <- OneDataset
    Workers = {w1, w2}
    MaxAttempts = 2
    BatchSize = 1
    MaxDeliveries = 2
    MaxEager = 2
    MaxFaults = 1
SPECIFICATION Spec
SYMMETRY Symmetry
INVARIANTS TypeOK QueueSafe
PROPERTY ReopenedOnlyUnderLock
CHECK_DEADLOCK FALSE
