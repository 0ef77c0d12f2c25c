CONSTANTS
    r1 = r1  r2 = r2  r3 = r3  k1 = k1  b1 = b1  b2 = b2
    NoRun = NoRun
    Keys = {k1}
    Bodies = {b1, b2}
    Key <- OneKey
    Body <- TwoBodies
    Requests = {r1, r2, r3}
    BatchSize = 2
    MaxRuns = 2
    Requesters = {"p", "q"}
    BulkLimit = 2
    MaxPassFaults = 1
    Dates = {1, 2}
    HistMembers <- TwoMembers
    MaxTries = 1
    MaxLosses = 1
    MaxSwitches = 1
SPECIFICATION PartsSpec
INVARIANTS TypeOK LedgerMatchesRaw AnswerHolds RawSound BackfillSound BackendTypeOK
PROPERTIES EndedIsFinal KeepsPromise BackendSettles
CHECK_DEADLOCK FALSE
