CONSTANTS
    r1 = r1
    r2 = r2
    e1 = e1
    e2 = e2
    e3 = e3
    NoRecord = NoRecord
    Records <- MCRecords
    Events <- MCEvents
    EventOf <- MCEventOf
    QueueMax = 1
    MaxBinds = 1
    MaxGeneration = 2
    MarkerKeys = 1
    MarkerScan = 1
SPECIFICATION AnswerSpec
PROPERTY AbsenceIsSound
