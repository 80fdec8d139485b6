CONSTANTS
    r1 = r1
    r2 = r2
    r3 = r3
    e1 = e1
    e2 = e2
    NoRecord = NoRecord
    Records <- TwoRecords
    Events <- MCEvents
    EventOf <- TwoEventOf
    QueueMax = 1
    MaxBinds = 2
    MaxGeneration = 3
    MarkerKeys = 1
SPECIFICATION FairSpec
PROPERTIES
    AdmittedIsDecided
    DrainEnds
