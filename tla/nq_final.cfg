CONSTANTS
    r1 = r1  r2 = r2  w1 = w1  w2 = w2  eod = eod
    Runs = {r1}
    Datasets = {eod}
    DatasetOf <- OneDataset
    Workers = {w1, w2}
    MaxAttempts = 1
    BatchSize = 1
    MaxDeliveries = 2
    MaxEager = 2
    MaxFaults = 1
SPECIFICATION Spec
SYMMETRY Symmetry
PROPERTY TerminalIsFinal
CHECK_DEADLOCK FALSE
