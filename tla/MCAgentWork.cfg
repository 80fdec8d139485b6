CONSTANTS
    i1 = i1
    r1 = r1
    r2 = r2
    asker = asker
    other = other
    d1 = d1
    d2 = d2
    None = None
    Items <- MCItems
    Resources <- MCResources
    Bookings = {b1, b2}
    WorkTypes <- MCTypes
    Lives <- MCLives
    Capacity <- MCCapacity
    Eligible <- MCEligible
    DependsOn <- MCDependsOn
    MaxTokens = 0
    Charges <- MCCharges
    Named <- MCNone
    Opening <- MCOpening
    Deltas <- MCNone
    MaxRequests = 1
    Recipients = {asker, other}
    Requester = asker
    Deciders <- MCDeciders
    Kinds = {"self", "request"}
    MaxCrashes = 1
    MaxMishaps = 1
    BusyLives = {0}
    WatchedFiles = FALSE
SPECIFICATION WorkSpec
INVARIANTS
    WorkTypeOK
    ToldOnce
    ApprovedCallOnce
    DoneHasAllCalls
    NoLostWakeUp
    NoForgottenPark
    NoLostReport
    NoLostBooking
PROPERTIES
    EndIsKept
SYMMETRY MCSymmetry
CHECK_DEADLOCK FALSE
