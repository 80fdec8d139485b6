CONSTANTS
    i1 = i1
    i2 = i2
    r1 = r1
    r2 = r2
    None = None
    Items <- MCItems
    Resources <- MCResources
    Bookings = {b1, b2, b3}
    WorkTypes <- MCTaskOnly
    Capacity <- MCCapacity
    Eligible <- MCEligible
    DependsOn <- MCDependsOn
    MaxTokens = 3
    Charges <- MCCharges
    Named <- MCNoNames
    Opening <- MCOpening
    Deltas <- MCNoDeltas
    Lives <- MCNoTtl
SPECIFICATION Spec
PROPERTY TerminalIsFinal
