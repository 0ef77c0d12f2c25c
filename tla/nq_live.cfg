CONSTANTS
    r1 = r1  r2 = r2  w1 = w1  w2 = w2  eod = eod
    Runs = {r1}
    Datasets = {eod}
    DatasetOf <- OneDataset
    Workers = {w1, w2}
    MaxAttempts = 2
    BatchSize = 1
    MaxDeliveries = 7
    MaxEager = 2
    MaxFaults = 2
SPECIFICATION LiveSpec
INVARIANT FinishTogether
PROPERTIES FinalForOne QueueSettles
CHECK_DEADLOCK FALSE
